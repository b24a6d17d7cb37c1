--------------------------- MODULE FrameLoopProofs ---------------------------
(***************************************************************************)
(* Theorems about FrameLoop for every surface, any set of resources and    *)
(* any number of submissions a wait may leave behind.                      *)
(***************************************************************************)
EXTENDS FrameLoop, SequenceTheorems, TLAPS

-----------------------------------------------------------------------------
(***************************************************************************)
(* Buffers and queues                                                      *)
(***************************************************************************)
(* The buffers are used in turn. *)
LEMMA NextBufferInTurn ==
    ASSUME count \in 1 .. MaxFrames, current \in Buffers
    PROVE  /\ NextBuffer \in Buffers
           /\ NextBuffer = IF current + 1 = count THEN 0 ELSE current + 1
  <1>1. CASE count = 1
    BY <1>1 DEF NextBuffer, Buffers
  <1>2. CASE count = 2
    BY <1>2 DEF NextBuffer, Buffers
  <1>3. CASE count = 3
    BY <1>3 DEF NextBuffer, Buffers
  <1> QED
    BY <1>1, <1>2, <1>3 DEF MaxFrames

(* Where the elements of a queue are after something joins or leaves it. *)
LEMMA QueueSteps ==
    ASSUME NEW S, NEW s \in Seq(S)
    PROVE  /\ Len(s) \in Nat /\ DOMAIN s = 1 .. Len(s)
           /\ \A i \in DOMAIN s : s[i] \in S
           /\ \A x \in S :
                 /\ Append(s, x) \in Seq(S)
                 /\ Len(Append(s, x)) = Len(s) + 1
                 /\ DOMAIN Append(s, x) = 1 .. Len(s) + 1
                 /\ \A i \in DOMAIN s : Append(s, x)[i] = s[i]
                 /\ Append(s, x)[Len(s) + 1] = x
           /\ s # <<>> =>
                 /\ Len(s) > 0 /\ Head(s) = s[1]
                 /\ Tail(s) \in Seq(S)
                 /\ Len(Tail(s)) = Len(s) - 1
                 /\ DOMAIN Tail(s) = 1 .. Len(s) - 1
                 /\ \A i \in DOMAIN Tail(s) : Tail(s)[i] = s[i + 1] /\ i + 1 \in DOMAIN s
  BY AppendProperties, LenProperties, HeadTailProperties

-----------------------------------------------------------------------------
(***************************************************************************)
(* Types                                                                   *)
(***************************************************************************)
(* Where the main thread is determines the state of the buffer begun last. *)
Stages ==
    /\ count = 0 => phase = "between"
    /\ count > 0 => acquired \in Buffers
    /\ phase = "acquire" => cmdState[current] # "Submitted"
    /\ phase = "record" => cmdState[current] = "Recording"
    /\ phase # "record" => uses = {}
    /\ \A i \in DOMAIN queue : queue[i].buffer \in Buffers

LEMMA TypeInit == Init => TypeOK /\ Stages
  <1> SUFFICES ASSUME Init PROVE TypeOK /\ Stages
    OBVIOUS
  <1>1. count \in 0 .. MaxFrames
    BY FrameLoopAssumption DEF Init, BufferCount, MaxFrames
  <1>2. presents \in Seq(Presents) /\ queue \in Seq(Submissions)
    BY EmptySeq DEF Init
  <1>3. acquired \in Nat \cup {NoImage} /\ (count > 0 => acquired \in Buffers)
    BY <1>1 DEF Init, Buffers, MaxFrames
  <1>4. /\ semaphore \in [Buffers -> BOOLEAN]
        /\ images \in [Buffers -> {"free", "held", "queued", "shown"}]
    BY DEF Init
  <1>5. /\ cmdState \in [Buffers -> CmdStates]
        /\ fence \in [Buffers -> BOOLEAN] /\ rendered \in [Buffers -> BOOLEAN]
        /\ resource \in [Resources -> {"live", "queued", "freed"}]
        /\ deletion \in [Buffers -> SUBSET Resources]
    BY DEF Init, CmdStates
  <1>6. current \in 0 .. MaxFrames - 1 /\ (count > 0 => current \in Buffers)
    BY <1>1 DEF Init, Buffers, MaxFrames
  <1>7. \A i \in DOMAIN queue : queue[i].buffer \in Buffers
    BY DEF Init
  <1> QED
    BY <1>1, <1>2, <1>3, <1>4, <1>5, <1>6, <1>7 DEF Init, TypeOK, Stages, Phases

LEMMA TypeStep ==
    ASSUME TypeOK, Stages, [Next]_vars
    PROVE  TypeOK' /\ Stages'
  <1> USE DEF Phases, CmdStates
  <1>1. CASE Begin
    <2>1. /\ count \in 1 .. MaxFrames /\ current \in Buffers
          /\ phase = "between" /\ phase' = "acquire" /\ current' = NextBuffer
          /\ UNCHANGED <<count, acquired, semaphore, firstSignal, rendered, queue, uses, screen>>
      BY <1>1 DEF Begin, TypeOK, MaxFrames
    <2>2. NextBuffer \in Buffers
      BY <2>1, NextBufferInTurn
    <2>3. /\ fence' \in [Buffers -> BOOLEAN]
          /\ cmdState' \in [Buffers -> CmdStates]
          /\ cmdState'[NextBuffer] # "Submitted"
          /\ faults' \subseteq {"timeout", "outOfDate"}
      BY <1>1, <2>2 DEF Begin, WaitIfSubmitted, WaitAndReset, TypeOK
    <2>4. /\ resource' \in [Resources -> {"live", "queued", "freed"}]
          /\ deletion' \in [Buffers -> SUBSET Resources]
      BY <1>1, <2>2 DEF Begin, Flush, TypeOK
    <2> HIDE DEF CmdStates
    <2> QED
      BY <2>1, <2>2, <2>3, <2>4 DEF TypeOK, Stages, Buffers, screen, MaxFrames
  <1>2. CASE AcquireNextImage
    <2>1. count \in 1 .. MaxFrames /\ current \in Buffers
      BY <1>2 DEF AcquireNextImage, TypeOK, Stages, MaxFrames
    <2>2. CASE UNCHANGED <<acquired, semaphore, firstSignal, images>>
      BY <1>2, <2>1, <2>2 DEF AcquireNextImage, BeginRecording, TypeOK, Stages, Buffers, trash,
                              MaxFrames
    <2>3. ASSUME NEW i \in Free, acquired' = i,
                 images' = [images EXCEPT ![i] = "held"],
                 semaphore' = [semaphore EXCEPT ![current] = TRUE],
                 firstSignal' = (firstSignal /\ current # 0)
          PROVE  TypeOK' /\ Stages'
      BY <1>2, <2>1, <2>3 DEF AcquireNextImage, BeginRecording, Free, TypeOK, Stages, Buffers,
                              trash, MaxFrames
    <2> QED
      BY <1>2, <2>2, <2>3 DEF AcquireNextImage
  <1>3. CASE AcquireOutOfDate
    <2>1. count \in 1 .. MaxFrames /\ current \in Buffers
      BY <1>3 DEF AcquireOutOfDate, TypeOK, Stages, MaxFrames
    <2>2. presents' \in Seq(Presents)
      BY <1>3, EmptySeq DEF AcquireOutOfDate, Recreate
    <2> QED
      BY <1>3, <2>1, <2>2 DEF AcquireOutOfDate, Recreate, TypeOK, Stages, Buffers, trash, MaxFrames
  <1>4. CASE OnResize
    <2>1. presents' \in Seq(Presents)
      BY <1>4, EmptySeq DEF OnResize, Recreate
    <2> QED
      BY <1>4, <2>1 DEF OnResize, Recreate, TypeOK, Stages, Buffers, trash, MaxFrames
  <1>5. CASE Submit
    <2>1. [buffer |-> current, image |-> acquired, uses |-> uses] \in Submissions
      BY DEF TypeOK, Submissions
    <2>2. queue' \in Seq(Submissions)
      BY <1>5, <2>1, QueueSteps DEF Submit, TypeOK
    <2>3. current \in Buffers
      BY <1>5 DEF Submit, TypeOK, Stages, MaxFrames
    <2>4. \A i \in DOMAIN queue' : queue'[i].buffer \in Buffers
      BY <1>5, <2>1, <2>3, QueueSteps DEF Submit, TypeOK, Stages
    <2> QED
      BY <1>5, <2>2, <2>4 DEF Submit, TypeOK, Stages, Buffers, screen, trash, MaxFrames
  <1>6. CASE Present
    <2>1. [buffer |-> current, image |-> acquired] \in Presents
      BY DEF TypeOK, Presents
    <2>2. presents' \in Seq(Presents)
      <3>1. \/ presents' = presents
            \/ presents' = Append(presents, [buffer |-> current, image |-> acquired])
        BY <1>6 DEF Present
      <3>2. presents \in Seq(Presents)
        BY DEF TypeOK
      <3> QED
        BY <2>1, <3>1, <3>2, QueueSteps
    <2>3. images' \in [Buffers -> {"free", "held", "queued", "shown"}]
      <3>1. images \in [Buffers -> {"free", "held", "queued", "shown"}]
        BY DEF TypeOK
      <3>2. \/ images' = images
            \/ images' = [i \in Buffers |-> IF i = acquired THEN "queued" ELSE images[i]]
        BY <1>6 DEF Present
      <3> QED
        BY <3>1, <3>2
    <2> QED
      BY <1>6, <2>2, <2>3 DEF Present, TypeOK, Stages, Buffers, gpu, trash, MaxFrames
  <1>7. ASSUME NEW r \in Resources, Use(r) \/ Destroy(r) \/ Create(r)
        PROVE  TypeOK' /\ Stages'
    <2>1. CASE Use(r)
      BY <2>1 DEF Use, TypeOK, Stages, Buffers, gpu, screen, trash
    <2>2. CASE Destroy(r)
      BY <2>2 DEF Destroy, DeletionIndex, TypeOK, Stages, Buffers, main, gpu, screen
    <2>3. CASE Create(r)
      BY <2>3 DEF Create, TypeOK, Stages, Buffers, main, gpu, screen
    <2> QED
      BY <1>7, <2>1, <2>2, <2>3
  <1>8. CASE GpuFinish
    <2>1. queue' \in Seq(Submissions)
      BY <1>8, QueueSteps DEF GpuFinish, TypeOK
    <2>2. \A i \in DOMAIN queue' : queue'[i].buffer \in Buffers
      BY <1>8, QueueSteps DEF GpuFinish, TypeOK, Stages
    <2> QED
      BY <1>8, <2>1, <2>2 DEF GpuFinish, TypeOK, Stages, Buffers, main, screen, trash
  <1>9. CASE Show
    <2>1. presents' \in Seq(Presents)
      BY <1>9, QueueSteps DEF Show, TypeOK
    <2> QED
      BY <1>9, <2>1 DEF Show, TypeOK, Stages, Buffers, main, trash
  <1>10. CASE SurfaceChanges \/ UNCHANGED vars
    BY <1>10 DEF SurfaceChanges, vars, TypeOK, Stages, Buffers, main, gpu, screen, trash
  <1> QED
    BY <1>1, <1>2, <1>3, <1>4, <1>5, <1>6, <1>7, <1>8, <1>9, <1>10 DEF Next

(* Type correctness, with what the stages of a frame guarantee. *)
THEOREM TypeCorrect == Spec => [](TypeOK /\ Stages)
  BY TypeInit, TypeStep, PTL DEF Spec

-----------------------------------------------------------------------------
(***************************************************************************)
(* Fences                                                                  *)
(***************************************************************************)
(* Only a submitted buffer has a signalled fence, and no buffer waits      *)
(* twice in the GPU's queue, as long as no wait has given up.              *)
FencesAgree ==
    "timeout" \notin faults =>
        /\ \A b \in Buffers : fence[b] => cmdState[b] = "Submitted"
        /\ \A i, j \in DOMAIN queue : queue[i].buffer = queue[j].buffer => i = j

FencesInv == FencesAgree /\ PendingIsSubmitted

(* A frame begins with a buffer that the GPU is done with. *)
LEMMA BeginWaits ==
    ASSUME TypeOK, Stages, FencesInv, Begin, "timeout" \notin faults'
    PROVE  /\ "timeout" \notin faults
           /\ NextBuffer \in Buffers /\ count \in 1 .. MaxFrames /\ current \in Buffers
           /\ ~Pending(NextBuffer)
           /\ ~fence'[NextBuffer]
           /\ \A b \in Buffers : b # NextBuffer => fence'[b] = fence[b] /\ cmdState'[b] = cmdState[b]
           /\ cmdState'[NextBuffer] # "Submitted"
  <1>1. count \in 1 .. MaxFrames /\ current \in Buffers
    BY DEF Begin, TypeOK, MaxFrames
  <1>2. NextBuffer \in Buffers
    BY <1>1, NextBufferInTurn
  <1>3. CASE cmdState[NextBuffer] = "Submitted"
    <2>1. fence[NextBuffer] /\ fence' = [fence EXCEPT ![NextBuffer] = FALSE] /\ faults' = faults
      BY <1>3 DEF Begin, WaitIfSubmitted, WaitAndReset
    <2>2. cmdState' = [cmdState EXCEPT ![NextBuffer] = "Idle"]
      BY <1>3 DEF Begin, WaitIfSubmitted
    <2> QED
      BY <1>1, <1>2, <2>1, <2>2 DEF TypeOK, FencesInv, PendingIsSubmitted
  <1>4. CASE cmdState[NextBuffer] # "Submitted"
    BY <1>1, <1>2, <1>4 DEF Begin, WaitIfSubmitted, TypeOK, FencesInv, FencesAgree, PendingIsSubmitted
  <1> QED
    BY <1>3, <1>4

LEMMA FencesStep ==
    ASSUME TypeOK, Stages, FencesInv, [Next]_vars
    PROVE  FencesInv'
  <1> USE DEF FencesInv
  <1>1. CASE Begin
    <2> SUFFICES ASSUME "timeout" \notin faults'
                 PROVE  FencesInv'
      BY DEF FencesAgree, PendingIsSubmitted
    <2>1. queue' = queue /\ count' = count
      BY <1>1 DEF Begin
    <2> QED
      BY <1>1, <2>1, BeginWaits DEF FencesAgree, PendingIsSubmitted, Pending, Buffers
  <1>2. CASE AcquireNextImage
    <2>1. /\ UNCHANGED <<count, queue, fence, faults>>
          /\ cmdState' = [cmdState EXCEPT ![current] = "Recording"]
          /\ cmdState[current] # "Submitted"
          /\ current \in Buffers
      BY <1>2 DEF AcquireNextImage, BeginRecording, Stages, TypeOK
    <2> QED
      BY <2>1 DEF FencesAgree, PendingIsSubmitted, Pending, Buffers, TypeOK
  <1>3. CASE AcquireOutOfDate \/ OnResize
    <2>1. /\ queue = <<>> /\ queue' = <<>> /\ count' = count
          /\ fence' = [b \in Buffers |-> fence[b] /\ cmdState[b] # "Submitted"]
          /\ "timeout" \in faults => "timeout" \in faults'
      BY <1>3 DEF AcquireOutOfDate, OnResize, Recreate
    <2>2. "timeout" \notin faults' => \A b \in Buffers : ~fence'[b]
      BY <2>1 DEF FencesAgree
    <2> QED
      BY <2>1, <2>2 DEF FencesAgree, PendingIsSubmitted, Pending, Buffers
  <1>4. CASE Submit
    <2>1. /\ UNCHANGED <<count, fence, faults>>
          /\ cmdState' = [cmdState EXCEPT ![current] = "Submitted"]
          /\ cmdState[current] = "Recording"
          /\ current \in Buffers
      BY <1>4 DEF Submit, Stages, TypeOK
    <2>2. queue' = Append(queue, [buffer |-> current, image |-> acquired, uses |-> uses])
      BY <1>4 DEF Submit
    <2>3. [buffer |-> current, image |-> acquired, uses |-> uses] \in Submissions
      BY DEF TypeOK, Submissions
    <2>4. /\ Len(queue) \in Nat /\ DOMAIN queue = 1 .. Len(queue)
          /\ DOMAIN queue' = 1 .. Len(queue) + 1
          /\ \A i \in DOMAIN queue : queue'[i] = queue[i]
          /\ queue'[Len(queue) + 1].buffer = current
      BY <2>2, <2>3, QueueSteps DEF TypeOK
    <2>5. \A b \in Buffers : Pending(b)' => Pending(b) \/ b = current
      BY <2>4 DEF Pending
    <2> SUFFICES ASSUME "timeout" \notin faults
                 PROVE  FencesInv'
      BY <2>1 DEF FencesAgree, PendingIsSubmitted
    <2>6. ~fence[current] /\ ~Pending(current)
      BY <2>1 DEF FencesAgree, PendingIsSubmitted
    <2>7. FencesAgree'
      <3>1. \A b \in Buffers : fence'[b] => cmdState'[b] = "Submitted"
        BY <2>1 DEF FencesAgree, TypeOK
      <3>2. \A i \in DOMAIN queue : queue[i].buffer # current
        BY <2>6 DEF Pending
      <3>3. \A i, j \in DOMAIN queue' : queue'[i].buffer = queue'[j].buffer => i = j
        BY <2>4, <3>2 DEF FencesAgree
      <3> QED
        BY <2>1, <3>1, <3>3 DEF FencesAgree, Buffers
    <2>8. PendingIsSubmitted'
      BY <2>1, <2>5, <2>6 DEF PendingIsSubmitted, Buffers, TypeOK
    <2> QED
      BY <2>7, <2>8
  <1>5. CASE GpuFinish
    <2>1. /\ UNCHANGED <<count, cmdState, faults>>
          /\ queue # <<>> /\ queue' = Tail(queue)
          /\ fence' = [fence EXCEPT ![Head(queue).buffer] = TRUE]
      BY <1>5 DEF GpuFinish, main
    <2>2. /\ Len(queue) \in Nat /\ DOMAIN queue = 1 .. Len(queue) /\ Len(queue) > 0
          /\ Head(queue) = queue[1]
          /\ DOMAIN queue' = 1 .. Len(queue) - 1
          /\ \A i \in DOMAIN queue' : queue'[i] = queue[i + 1] /\ i + 1 \in DOMAIN queue
      BY <2>1, QueueSteps DEF TypeOK
    <2> SUFFICES ASSUME "timeout" \notin faults
                 PROVE  FencesInv'
      BY <2>1 DEF FencesAgree, PendingIsSubmitted
    <2>3. Pending(queue[1].buffer)
      BY <2>2 DEF Pending
    <2>4. \A b \in Buffers : Pending(b)' => Pending(b) /\ b # queue[1].buffer
      BY <2>2 DEF Pending, FencesAgree
    <2>5. FencesAgree'
      BY <2>1, <2>2, <2>3, SMTT(20) DEF FencesAgree, PendingIsSubmitted, Buffers, TypeOK
    <2>6. PendingIsSubmitted'
      BY <2>1, <2>2, <2>4 DEF PendingIsSubmitted, Buffers, TypeOK
    <2> QED
      BY <2>5, <2>6
  <1>6. CASE UNCHANGED <<count, cmdState, fence, queue, faults>>
    BY <1>6 DEF FencesAgree, PendingIsSubmitted, Pending, Buffers
  <1> QED
    BY <1>1, <1>2, <1>3, <1>4, <1>5, <1>6
    DEF Next, Present, Use, Destroy, Create, Show, SurfaceChanges, vars, main, gpu

LEMMA FencesAlwaysAgree == Spec => []FencesInv
  <1>1. Init => FencesInv
    <2>1. Init => DOMAIN queue = {}
      BY DEF Init
    <2> QED
      BY <2>1 DEF Init, FencesInv, FencesAgree, PendingIsSubmitted, Pending
  <1>2. TypeOK /\ Stages /\ FencesInv /\ [Next]_vars => FencesInv'
    BY FencesStep
  <1> QED
    BY <1>1, <1>2, TypeCorrect, PTL DEF Spec

-----------------------------------------------------------------------------
(***************************************************************************)
(* Deletion queues                                                         *)
(***************************************************************************)
(* How many frames ago a buffer was begun. *)
Age(b) == IF b <= current THEN current - b ELSE current + count - b

(* A resource waits in one queue at a time, ... *)
QueuedOnce ==
    /\ \A b \in Buffers : \A r \in deletion[b] : resource[r] = "queued"
    /\ \A b, c \in Buffers : deletion[b] \cap deletion[c] # {} => b = c

(* ... that of a buffer which was begun no earlier than any buffer that    *)
(* the GPU may still execute and that uses the resource.                   *)
DroppedAfterUse ==
    "timeout" \notin faults =>
        \A b \in Buffers : \A r \in deletion[b] :
            /\ r \in uses => b = current
            /\ \A i \in DOMAIN queue : r \in queue[i].uses => Age(b) <= Age(queue[i].buffer)

DeletionInv == QueuedOnce /\ DroppedAfterUse /\ NoUseAfterFree

(* Everything gets one frame older when one begins, but for its buffer,    *)
(* which was the oldest.                                                   *)
LEMMA AgeSteps ==
    ASSUME count \in 1 .. MaxFrames, current \in Buffers
    PROVE  /\ \A b \in Buffers : Age(b) \in 0 .. count - 1
           /\ Age(current) = 0
           /\ Age(NextBuffer) = count - 1
           /\ \A b \in Buffers : Age(b) = count - 1 => b = NextBuffer
           /\ current' = NextBuffer /\ count' = count =>
                 \A b \in Buffers : b # NextBuffer => Age(b)' = Age(b) + 1
  BY NextBufferInTurn DEF Age, Buffers

LEMMA DeletionStep ==
    ASSUME TypeOK, Stages, FencesInv, FencesInv', DeletionInv, [Next]_vars
    PROVE  DeletionInv'
  <1> USE DEF DeletionInv
  <1>1. CASE Begin
    <2>1. /\ count \in 1 .. MaxFrames /\ current \in Buffers /\ NextBuffer \in Buffers
          /\ current' = NextBuffer
          /\ phase = "between"
          /\ UNCHANGED <<count, queue, uses>>
          /\ \A r \in Resources : resource'[r] = IF r \in deletion[NextBuffer] THEN "freed" ELSE resource[r]
          /\ deletion' = [deletion EXCEPT ![NextBuffer] = {}]
          /\ "timeout" \in faults => "timeout" \in faults'
      BY <1>1, NextBufferInTurn
      DEF Begin, TypeOK, Flush, MaxFrames, WaitIfSubmitted, WaitAndReset
    <2>2. /\ uses = {}
          /\ Buffers' = Buffers
          /\ \A b \in Buffers : deletion'[b] = IF b = NextBuffer THEN {} ELSE deletion[b]
          /\ \A b \in Buffers : deletion[b] \subseteq Resources
      BY <2>1 DEF Stages, Buffers, TypeOK
    <2>3. QueuedOnce'
      BY <2>1, <2>2 DEF QueuedOnce
    <2> SUFFICES ASSUME "timeout" \notin faults'
                 PROVE  DroppedAfterUse' /\ NoUseAfterFree'
      BY <2>3 DEF DroppedAfterUse, NoUseAfterFree
    <2>4. /\ "timeout" \notin faults
          /\ \A i \in DOMAIN queue : queue[i].buffer # NextBuffer
      BY <1>1, BeginWaits DEF Pending
    <2>5. \A i \in DOMAIN queue : queue[i].buffer \in Buffers /\ queue[i].uses \subseteq Resources
      <3>1. \A i \in DOMAIN queue : queue[i] \in Submissions
        BY QueueSteps DEF TypeOK
      <3> QED
        BY <3>1 DEF Submissions, Stages
    <2>6. \A i \in DOMAIN queue : \A r \in queue[i].uses : r \notin deletion[NextBuffer]
      BY <2>1, <2>4, <2>5, AgeSteps DEF DroppedAfterUse, Buffers
    <2>7. NoUseAfterFree'
      BY <2>1, <2>2, <2>4, <2>5, <2>6 DEF NoUseAfterFree
    <2>8. DroppedAfterUse'
      BY <2>1, <2>2, <2>4, <2>5, AgeSteps DEF DroppedAfterUse
    <2> QED
      BY <2>7, <2>8
  <1>2. CASE AcquireNextImage \/ AcquireOutOfDate \/ OnResize
    <2>1. /\ UNCHANGED <<count, current, queue, resource, deletion>>
          /\ uses' \in {uses, {}}
          /\ "timeout" \in faults => "timeout" \in faults'
      BY <1>2 DEF AcquireNextImage, AcquireOutOfDate, OnResize, BeginRecording, Recreate, trash
    <2> QED
      BY <2>1 DEF QueuedOnce, DroppedAfterUse, NoUseAfterFree, Buffers, Age
  <1>3. ASSUME NEW r \in Resources, Use(r) \/ Destroy(r) \/ Create(r)
        PROVE  DeletionInv'
    <2>1. CASE Use(r)
      <3>1. /\ UNCHANGED <<count, current, queue, resource, deletion, faults>>
            /\ resource[r] = "live" /\ uses' = uses \cup {r}
        BY <2>1 DEF Use, gpu, trash
      <3> QED
        BY <3>1 DEF QueuedOnce, DroppedAfterUse, NoUseAfterFree, Buffers, Age
    <2>2. CASE Destroy(r)
      <3>1. /\ UNCHANGED <<count, current, queue, uses, faults>>
            /\ current \in Buffers /\ count \in 1 .. MaxFrames
            /\ resource[r] = "live" /\ resource' = [resource EXCEPT ![r] = "queued"]
            /\ deletion' = [deletion EXCEPT ![current] = @ \cup {r}]
        BY <2>2 DEF Destroy, DeletionIndex, TypeOK, main, gpu, MaxFrames
      <3>2. /\ Buffers' = Buffers
            /\ \A b \in Buffers : r \notin deletion[b]
            /\ \A b \in Buffers : deletion'[b] = IF b = current THEN deletion[b] \cup {r} ELSE deletion[b]
            /\ \A q \in Resources : resource'[q] = IF q = r THEN "queued" ELSE resource[q]
            /\ \A b \in Buffers : deletion[b] \subseteq Resources
        BY <3>1 DEF QueuedOnce, Buffers, TypeOK
      <3>3. QueuedOnce'
        BY <3>1, <3>2 DEF QueuedOnce
      <3>4. NoUseAfterFree'
        BY <3>1 DEF NoUseAfterFree, TypeOK
      <3>5. \A b \in Buffers : Age(b)' = Age(b)
        BY <3>1 DEF Age
      <3>6. \A i \in DOMAIN queue : Age(current) <= Age(queue[i].buffer)
        BY <3>1, AgeSteps DEF Stages
      <3>7. DroppedAfterUse'
        BY <3>1, <3>2, <3>5, <3>6 DEF DroppedAfterUse, Stages
      <3> QED
        BY <3>3, <3>4, <3>7
    <2>3. CASE Create(r)
      <3>1. /\ UNCHANGED <<count, current, queue, uses, deletion, faults>>
            /\ resource[r] = "freed" /\ resource' = [resource EXCEPT ![r] = "live"]
        BY <2>3 DEF Create, main, gpu
      <3> QED
        BY <3>1 DEF QueuedOnce, DroppedAfterUse, NoUseAfterFree, Buffers, Age, TypeOK
    <2> QED
      BY <1>3, <2>1, <2>2, <2>3
  <1>4. CASE Submit
    <2>1. /\ UNCHANGED <<count, current, resource, deletion, faults>>
          /\ uses' = {}
          /\ current \in Buffers /\ count \in 1 .. MaxFrames
      BY <1>4 DEF Submit, TypeOK, Stages, trash, MaxFrames
    <2>2. [buffer |-> current, image |-> acquired, uses |-> uses] \in Submissions
      BY DEF TypeOK, Submissions
    <2>3. /\ DOMAIN queue = 1 .. Len(queue) /\ Len(queue) \in Nat
          /\ DOMAIN queue' = 1 .. Len(queue) + 1
          /\ \A i \in DOMAIN queue : queue'[i] = queue[i]
          /\ queue'[Len(queue) + 1].buffer = current
          /\ queue'[Len(queue) + 1].uses = uses
      BY <1>4, <2>2, QueueSteps DEF Submit, TypeOK
    <2>4. QueuedOnce' /\ Buffers' = Buffers
      BY <2>1 DEF QueuedOnce, Buffers
    <2>5. NoUseAfterFree'
      BY <2>1, <2>3 DEF NoUseAfterFree
    <2>6. \A b \in Buffers : Age(b)' = Age(b)
      BY <2>1 DEF Age
    <2>7. DroppedAfterUse'
      <3>1. Age(current) <= Age(current)
        BY <2>1, AgeSteps
      <3> QED
        BY <2>1, <2>3, <2>4, <2>6, <3>1 DEF DroppedAfterUse, Stages
    <2> QED
      BY <2>4, <2>5, <2>7
  <1>5. CASE GpuFinish
    <2>1. /\ UNCHANGED <<count, current, uses, resource, deletion, faults>>
      BY <1>5 DEF GpuFinish, main, trash
    <2>2. \A i \in DOMAIN queue' : \E j \in DOMAIN queue : queue'[i] = queue[j]
      BY <1>5, QueueSteps DEF GpuFinish, TypeOK
    <2> QED
      BY <2>1, <2>2 DEF QueuedOnce, DroppedAfterUse, NoUseAfterFree, Buffers, Age
  <1>6. CASE UNCHANGED <<count, current, uses, queue, resource, deletion, faults>>
    BY <1>6 DEF QueuedOnce, DroppedAfterUse, NoUseAfterFree, Buffers, Age
  <1> QED
    BY <1>1, <1>2, <1>3, <1>4, <1>5, <1>6
    DEF Next, Present, Show, SurfaceChanges, vars, main, gpu, trash

(* A resource outlives every command buffer that uses it, on any surface   *)
(* and whatever is dropped when, until a wait for a fence gives up.        *)
THEOREM NeverUsedAfterFree == Spec => []NoUseAfterFree
  <1>1. Init => DeletionInv
    <2>1. Init => DOMAIN queue = {} /\ uses = {}
      BY DEF Init
    <2> QED
      BY <2>1 DEF Init, DeletionInv, QueuedOnce, DroppedAfterUse, NoUseAfterFree
  <1>2. TypeOK /\ Stages /\ FencesInv /\ FencesInv' /\ DeletionInv /\ [Next]_vars => DeletionInv'
    BY DeletionStep
  <1>3. DeletionInv => NoUseAfterFree
    BY DEF DeletionInv
  <1> QED
    BY <1>1, <1>2, <1>3, TypeCorrect, FencesAlwaysAgree, PTL DEF Spec

-----------------------------------------------------------------------------
(***************************************************************************)
(* Images and semaphores                                                   *)
(***************************************************************************)
(* The frames that are not yet on the screen, oldest first: those that     *)
(* wait to be presented, and the one between Submit and Present.           *)
Frames ==
    IF phase = "present" THEN Append(presents, [buffer |-> current, image |-> acquired])
    ELSE presents

(* How many of them the GPU has finished. *)
Drawn == Len(Frames) - Len(queue)

After(b) == IF b + 1 = count THEN 0 ELSE b + 1

(* Frames use the buffers in turn, up to the buffer begun last, ... *)
FramesInTurn ==
    /\ \A i \in 1 .. Len(Frames) : Frames[i].buffer \in Buffers
    /\ \A i \in 1 .. Len(Frames) - 1 : Frames[i + 1].buffer = After(Frames[i].buffer)
    /\ Len(Frames) > 0 =>
         current = IF phase \in {"acquire", "record"} THEN After(Frames[Len(Frames)].buffer)
                   ELSE Frames[Len(Frames)].buffer

(* ... each has an image of its own, ... *)
FramesExclusive ==
    /\ \A i \in 1 .. Len(Frames) : Frames[i].image \in Buffers
    /\ \A i, j \in 1 .. Len(Frames) : Frames[i].image = Frames[j].image => i = j
    /\ \A i \in 1 .. Len(presents) : images[presents[i].image] = "queued"
    /\ phase \in {"record", "present"} => HasImage
    /\ phase = "record" => \A i \in 1 .. Len(presents) : presents[i].image # acquired

(* ... the GPU has finished the oldest ones, and a buffer whose commands   *)
(* are done is the buffer of one of those.                                 *)
FramesDrawn ==
    /\ Drawn >= 0
    /\ \A i \in 1 .. Len(queue) : queue[i].buffer = Frames[Drawn + i].buffer
    /\ \A b \in Buffers : rendered[b] => \E i \in 1 .. Drawn : Frames[i].buffer = b

SemaphoresAgree ==
    /\ \A b \in Buffers : Pending(b) => semaphore[b]
    /\ phase = "record" => semaphore[current]

FramesInv ==
    /\ count > 1 /\ "outOfDate" \notin faults =>
          FramesInTurn /\ FramesExclusive /\ FramesDrawn /\ SemaphoresAgree
    /\ count = 1 => ~(semaphore[0] /\ rendered[0])

LEMMA FramesElements ==
    ASSUME TypeOK
    PROVE  /\ Len(presents) \in Nat /\ Len(queue) \in Nat /\ Len(Frames) \in Nat
           /\ DOMAIN presents = 1 .. Len(presents) /\ DOMAIN queue = 1 .. Len(queue)
           /\ \A i \in 1 .. Len(presents) : presents[i] \in Presents /\ Frames[i] = presents[i]
           /\ Len(Frames) = IF phase = "present" THEN Len(presents) + 1 ELSE Len(presents)
           /\ phase = "present" =>
                 Frames[Len(Frames)] = [buffer |-> current, image |-> acquired]
  <1>1. [buffer |-> current, image |-> acquired] \in Presents
    BY DEF TypeOK, Presents
  <1> QED
    BY <1>1, QueueSteps DEF TypeOK, Frames

(* There are no more frames than images, so no more than buffers; and      *)
(* fewer while the main thread records.                                    *)
LEMMA FewFrames ==
    ASSUME TypeOK, count > 1, FramesInTurn, FramesExclusive, acquired \in Buffers
    PROVE  /\ \A i, j \in 1 .. Len(Frames) : Frames[i].buffer = Frames[j].buffer => i = j
           /\ phase = "record" => \A i \in 1 .. Len(Frames) : Frames[i].buffer # current
  <1> DEFINE n == Len(Frames)
  <1>1. n \in Nat /\ (phase = "record" => Frames = presents)
    BY FramesElements DEF Frames
  <1>2. count \in {2, 3}
    BY DEF TypeOK, MaxFrames
  <1> HIDE DEF n
  <1>3. n <= count
    BY <1>1, <1>2, SMTT(20) DEF FramesExclusive, Buffers, n
  <1>4. phase = "record" => n < count
    BY <1>1, <1>2, SMTT(20) DEF FramesExclusive, Buffers, n
  <1>5. ASSUME NEW i \in 1 .. n, NEW j \in 1 .. n, Frames[i].buffer = Frames[j].buffer
        PROVE  i = j
    <2> DEFINE b(k) == Frames[k].buffer
    <2>1. i \in 1 .. 3 /\ j \in 1 .. 3 /\ n \in 0 .. 3 /\ (n = 3 => count = 3)
      BY <1>1, <1>2, <1>3
    <2>2. /\ n >= 2 => b(1) \in 0 .. count - 1 /\ b(2) = After(b(1)) /\ b(2) \in 0 .. count - 1
          /\ n >= 3 => b(3) = After(b(2))
      BY <1>1, <2>1 DEF FramesInTurn, Buffers, n
    <2>3. b(i) = b(j)
      BY <1>5
    <2> HIDE DEF b
    <2> QED
      BY <1>2, <2>1, <2>2, <2>3 DEF After
  <1>6. ASSUME phase = "record", NEW i \in 1 .. n
        PROVE  Frames[i].buffer # current
    BY <1>1, <1>2, <1>4, <1>6 DEF FramesInTurn, After, Buffers, n
  <1> QED
    BY <1>5, <1>6 DEF n

LEMMA FramesStep ==
    ASSUME TypeOK, TypeOK', Stages, FramesInv, [Next]_vars
    PROVE  FramesInv'
  <1>1. CASE count = 0 \/ UNCHANGED <<count, current, acquired, phase, rendered, semaphore, images,
                                      presents, queue, faults>>
    <2>1. CASE count = 0
      <3>1. count' = 0
        BY <2>1 DEF Next, Stages, Begin, AcquireNextImage, AcquireOutOfDate, OnResize, Submit,
                    Present, Use, Destroy, Create, GpuFinish, Show, SurfaceChanges, vars, main
      <3> QED
        BY <3>1 DEF FramesInv
    <2>2. CASE UNCHANGED <<count, current, acquired, phase, rendered, semaphore, images, presents,
                           queue, faults>>
      <3>1. Frames' = Frames /\ Drawn' = Drawn /\ Buffers' = Buffers
        BY <2>2 DEF Frames, Drawn, Buffers
      <3>2. FramesInTurn' = FramesInTurn
        BY <2>2, <3>1 DEF FramesInTurn, After
      <3>3. FramesExclusive' = FramesExclusive /\ FramesDrawn' = FramesDrawn
        BY <2>2, <3>1 DEF FramesExclusive, FramesDrawn, HasImage
      <3>4. SemaphoresAgree' = SemaphoresAgree
        BY <2>2, <3>1 DEF SemaphoresAgree, Pending
      <3> QED
        BY <2>2, <3>2, <3>3, <3>4 DEF FramesInv
    <2> QED
      BY <1>1, <2>1, <2>2
  <1>2. CASE count = 1 /\ ~(count = 0)
    <2>1. count' = 1
      BY <1>2 DEF Next, Begin, AcquireNextImage, AcquireOutOfDate, OnResize, Submit, Present, Use,
                  Destroy, Create, GpuFinish, Show, SurfaceChanges, vars, main
    <2>2. AlreadyAcquired
      BY <1>2, FrameLoopAssumption DEF AlreadyAcquired, Stages, Buffers
    <2>3. ~(semaphore[0] /\ rendered[0])
      BY <1>2 DEF FramesInv
    <2>4. 0 \in Buffers /\ Buffers' = Buffers
      BY <1>2, <2>1 DEF Buffers
    <2>5. GpuFinish => ~semaphore'[0]
      <3> SUFFICES ASSUME GpuFinish PROVE ~semaphore'[0]
        OBVIOUS
      <3>1. Head(queue).buffer = 0
        BY <1>2, QueueSteps DEF GpuFinish, TypeOK, Stages, Buffers
      <3> QED
        BY <2>4, <3>1 DEF GpuFinish, TypeOK
    <2>6. Show => semaphore' = semaphore /\ (rendered'[0] => rendered[0])
      <3> SUFFICES ASSUME Show PROVE rendered'[0] => rendered[0]
        BY DEF Show
      <3>1. rendered' = [rendered EXCEPT ![Head(presents).buffer] = FALSE]
        BY DEF Show
      <3> QED
        BY <2>4, <3>1 DEF TypeOK
    <2>7. Recreate => ~semaphore'[0]
      BY <2>4 DEF Recreate
    <2>8. ~(semaphore'[0] /\ rendered'[0])
      BY <2>2, <2>3, <2>5, <2>6, <2>7
      DEF Next, Begin, AcquireNextImage, AcquireOutOfDate, OnResize, Submit, Present, Use,
          Destroy, Create, SurfaceChanges, vars, gpu
    <2> QED
      BY <2>1, <2>8 DEF FramesInv
  <1>3. ASSUME count > 1, "outOfDate" \notin faults'
        PROVE  /\ "outOfDate" \notin faults
               /\ count \in 2 .. MaxFrames /\ current \in Buffers /\ acquired \in Buffers
               /\ ~AlreadyAcquired
               /\ FramesInTurn /\ FramesExclusive /\ FramesDrawn /\ SemaphoresAgree
    <2>1. "outOfDate" \notin faults
      BY <1>3 DEF Next, Begin, AcquireNextImage, AcquireOutOfDate, OnResize, Submit, Present, Use,
                  Destroy, Create, GpuFinish, Show, SurfaceChanges, vars, WaitIfSubmitted,
                  WaitAndReset
    <2> QED
      BY <1>3, <2>1 DEF TypeOK, Stages, FramesInv, AlreadyAcquired, MaxFrames
  <1>4. ASSUME count > 1, "outOfDate" \notin faults', Begin
        PROVE  FramesInv'
    <2>1. /\ phase = "between" /\ phase' = "acquire" /\ current' = After(current)
          /\ UNCHANGED <<count, acquired, semaphore, rendered, queue, images, presents>>
          /\ "outOfDate" \notin faults' => "outOfDate" \notin faults
      BY <1>3, <1>4, NextBufferInTurn
      DEF Begin, screen, After, WaitIfSubmitted, WaitAndReset, MaxFrames
    <2>2. Frames' = Frames /\ Buffers' = Buffers
      BY <2>1 DEF Frames, Buffers
    <2>3. FramesInTurn' /\ FramesExclusive' /\ FramesDrawn' /\ SemaphoresAgree'
      BY <1>3, <1>4, <2>1, <2>2
      DEF FramesInTurn, FramesExclusive, FramesDrawn, SemaphoresAgree, After, Drawn, Pending, HasImage
    <2> QED
      BY <1>4, <2>1, <2>3 DEF FramesInv
  <1>5. ASSUME count > 1, "outOfDate" \notin faults', AcquireNextImage
        PROVE  FramesInv'
    <2>1. /\ phase = "acquire" /\ phase' = "record"
          /\ UNCHANGED <<count, current, rendered, queue, presents, faults>>
      BY <1>5 DEF AcquireNextImage, BeginRecording
    <2>2. PICK i \in Free : /\ acquired' = i
                            /\ images' = [images EXCEPT ![i] = "held"]
                            /\ semaphore' = [semaphore EXCEPT ![current] = TRUE]
      BY <1>3, <1>5 DEF AcquireNextImage
    <2>3. Frames = presents /\ Frames' = presents /\ Buffers' = Buffers
      BY <2>1 DEF Frames, Buffers
    <2>4. FramesInTurn'
      BY <1>3, <1>5, <2>1, <2>3 DEF FramesInTurn, After
    <2>5. FramesExclusive'
      <3>1. \A k \in 1 .. Len(presents) : presents[k].image \in Buffers /\ presents[k].image # i
        BY <1>3, <1>5, <2>2, <2>3 DEF FramesExclusive, Free
      <3>2. HasImage'
        BY <1>3, <1>5, <2>2, <2>3 DEF HasImage, Free, TypeOK
      <3> QED
        BY <1>3, <1>5, <2>1, <2>2, <2>3, <3>1, <3>2 DEF FramesExclusive, TypeOK
    <2>6. FramesDrawn'
      BY <1>3, <1>5, <2>1, <2>3 DEF FramesDrawn, Drawn
    <2>7. SemaphoresAgree'
      BY <1>3, <1>5, <2>1, <2>2, <2>3 DEF SemaphoresAgree, Pending, TypeOK
    <2> QED
      BY <1>5, <2>1, <2>4, <2>5, <2>6, <2>7 DEF FramesInv
  <1>6. ASSUME count > 1, "outOfDate" \notin faults', OnResize
        PROVE  FramesInv'
    <2>1. /\ queue' = <<>> /\ presents' = <<>> /\ count' = count
          /\ rendered' = [x \in Buffers |-> FALSE]
          /\ phase' = "between"
      BY <1>6 DEF OnResize, Recreate
    <2>2. /\ Frames' = <<>> /\ Len(Frames') = 0 /\ Len(presents') = 0 /\ Len(queue') = 0
          /\ Drawn' = 0 /\ DOMAIN queue' = {} /\ Buffers' = Buffers
      BY <2>1 DEF Frames, Drawn, Buffers
    <2>3. FramesInTurn' /\ FramesExclusive' /\ FramesDrawn' /\ SemaphoresAgree'
      BY <2>1, <2>2 DEF FramesInTurn, FramesExclusive, FramesDrawn, SemaphoresAgree, Pending
    <2> QED
      BY <1>6, <2>1, <2>3 DEF FramesInv
  <1>7. ASSUME count > 1, "outOfDate" \notin faults', Submit
        PROVE  FramesInv'
    <2>1. /\ phase = "record" /\ phase' = "present"
          /\ UNCHANGED <<count, current, acquired, semaphore, rendered, images, presents, faults>>
          /\ queue' = Append(queue, [buffer |-> current, image |-> acquired, uses |-> uses])
      BY <1>7 DEF Submit, screen
    <2>2. [buffer |-> current, image |-> acquired, uses |-> uses] \in Submissions
      BY DEF TypeOK, Submissions
    <2>3. [buffer |-> current, image |-> acquired] \in Presents
      BY DEF TypeOK, Presents
    <2>4. /\ Len(presents) \in Nat /\ Len(queue) \in Nat
          /\ Frames = presents
          /\ Len(Frames') = Len(presents) + 1
          /\ \A i \in 1 .. Len(presents) : Frames'[i] = presents[i]
          /\ Frames'[Len(presents) + 1] = [buffer |-> current, image |-> acquired]
      BY <2>1, <2>3, QueueSteps DEF TypeOK, Frames
    <2>5. /\ Len(queue') = Len(queue) + 1
          /\ DOMAIN queue = 1 .. Len(queue) /\ DOMAIN queue' = 1 .. Len(queue) + 1
          /\ \A i \in 1 .. Len(queue) : queue'[i] = queue[i]
          /\ queue'[Len(queue) + 1].buffer = current
      BY <2>1, <2>2, QueueSteps DEF TypeOK
    <2>6. Drawn' = Drawn /\ Drawn \in Int /\ Drawn = Len(presents) - Len(queue) /\ Buffers' = Buffers
      BY <2>1, <2>4, <2>5 DEF Drawn, Buffers
    <2>7. FramesInTurn'
      <3>1. \A i \in 1 .. Len(presents) : presents[i].buffer \in Buffers
        BY <1>3, <1>7, <2>4 DEF FramesInTurn
      <3>2. \A i \in 1 .. Len(presents) - 1 : presents[i + 1].buffer = After(presents[i].buffer)
        BY <1>3, <1>7, <2>4 DEF FramesInTurn
      <3>3. Len(presents) > 0 => current = After(presents[Len(presents)].buffer)
        BY <1>3, <1>7, <2>1, <2>4 DEF FramesInTurn
      <3>4. \A i \in 1 .. Len(presents) + 1 : Frames'[i].buffer \in Buffers
        BY <1>3, <1>7, <2>4, <3>1
      <3>5. \A i \in 1 .. Len(presents) : Frames'[i + 1].buffer = After(Frames'[i].buffer)
        <4> SUFFICES ASSUME NEW i \in 1 .. Len(presents)
                     PROVE  Frames'[i + 1].buffer = After(Frames'[i].buffer)
          OBVIOUS
        <4>1. CASE i = Len(presents)
          BY <2>4, <3>3, <4>1
        <4>2. CASE i # Len(presents)
          <5>1. i \in 1 .. Len(presents) - 1 /\ i + 1 \in 1 .. Len(presents)
            BY <2>4, <4>2
          <5> QED
            BY <2>4, <3>2, <5>1
        <4> QED
          BY <4>1, <4>2
      <3> QED
        BY <2>1, <2>4, <2>6, <3>4, <3>5 DEF FramesInTurn, After
    <2>8. FramesExclusive'
      <3>1. \A i, j \in 1 .. Len(presents) : presents[i].image = presents[j].image => i = j
        BY <1>3, <1>7, <2>4 DEF FramesExclusive
      <3>2. \A i \in 1 .. Len(presents) : presents[i].image \in Buffers /\ presents[i].image # acquired
        BY <1>3, <1>7, <2>1, <2>4 DEF FramesExclusive
      <3>3. \A i, j \in 1 .. Len(presents) + 1 : Frames'[i].image = Frames'[j].image => i = j
        BY <2>4, <3>1, <3>2
      <3>4. \A i \in 1 .. Len(presents) + 1 : Frames'[i].image \in Buffers
        BY <1>3, <1>7, <2>4, <3>2
      <3>5. \A i \in 1 .. Len(presents) : images[presents[i].image] = "queued"
        BY <1>3, <1>7 DEF FramesExclusive
      <3>6. HasImage'
        BY <1>3, <1>7, <2>1, <2>6 DEF FramesExclusive, HasImage
      <3> QED
        BY <2>1, <2>4, <2>6, <3>3, <3>4, <3>5, <3>6 DEF FramesExclusive
    <2>9. FramesDrawn'
      <3>1. Drawn' >= 0
        BY <1>3, <1>7, <2>6 DEF FramesDrawn
      <3>2. \A i \in 1 .. Len(queue) + 1 : queue'[i].buffer = Frames'[Drawn + i].buffer
        <4> SUFFICES ASSUME NEW i \in 1 .. Len(queue) + 1
                     PROVE  queue'[i].buffer = Frames'[Drawn + i].buffer
          OBVIOUS
        <4>1. CASE i = Len(queue) + 1
          <5>1. Drawn + i = Len(presents) + 1
            BY <2>4, <2>6, <4>1
          <5> QED
            BY <2>4, <2>5, <4>1, <5>1
        <4>2. CASE i # Len(queue) + 1
          <5>1. i \in 1 .. Len(queue) /\ Drawn + i \in 1 .. Len(presents)
            BY <2>4, <2>6, <3>1, <4>2
          <5>2. queue[i].buffer = Frames[Drawn + i].buffer
            BY <1>3, <1>7, <5>1 DEF FramesDrawn
          <5> QED
            BY <2>4, <2>5, <5>1, <5>2
        <4> QED
          BY <4>1, <4>2
      <3>3. \A x \in Buffers : rendered[x] => \E i \in 1 .. Drawn : Frames'[i].buffer = x
        <4> SUFFICES ASSUME NEW x \in Buffers, rendered[x]
                     PROVE  \E i \in 1 .. Drawn : Frames'[i].buffer = x
          OBVIOUS
        <4>1. PICK i \in 1 .. Drawn : Frames[i].buffer = x
          BY <1>3, <1>7 DEF FramesDrawn
        <4>2. i \in 1 .. Len(presents)
          BY <2>4, <2>6
        <4> QED
          BY <2>4, <4>1, <4>2
      <3> QED
        BY <2>1, <2>5, <2>6, <3>1, <3>2, <3>3 DEF FramesDrawn
    <2>10. SemaphoresAgree'
      BY <1>3, <1>7, <2>1, <2>5, <2>6 DEF SemaphoresAgree, Pending
    <2> QED
      BY <1>7, <2>1, <2>7, <2>8, <2>9, <2>10 DEF FramesInv
  <1>8. ASSUME count > 1, "outOfDate" \notin faults', Present
        PROVE  FramesInv'
    <2>1. /\ phase = "present" /\ phase' = "between"
          /\ UNCHANGED <<count, current, acquired, semaphore, rendered, queue, faults>>
          /\ presents' = Append(presents, [buffer |-> current, image |-> acquired])
          /\ images' = [i \in Buffers |-> IF i = acquired THEN "queued" ELSE images[i]]
      BY <1>3, <1>8 DEF Present, gpu, FramesExclusive
    <2>2. Frames' = Frames /\ Frames = presents' /\ Buffers' = Buffers /\ Drawn' = Drawn
      BY <2>1 DEF Frames, Buffers, Drawn
    <2>3. /\ Len(presents) \in Nat /\ Len(Frames) = Len(presents) + 1
          /\ \A i \in 1 .. Len(presents) : Frames[i] = presents[i]
          /\ Frames[Len(Frames)].image = acquired
      BY <2>1, FramesElements
    <2>4. FramesInTurn'
      BY <1>3, <1>8, <2>1, <2>2 DEF FramesInTurn, After
    <2>5. FramesDrawn'
      BY <1>3, <1>8, <2>1, <2>2 DEF FramesDrawn
    <2>6. SemaphoresAgree'
      BY <1>3, <1>8, <2>1, <2>2 DEF SemaphoresAgree, Pending
    <2>7. FramesExclusive'
      BY <1>3, <1>8, <2>1, <2>2, <2>3 DEF FramesExclusive
    <2> QED
      BY <1>8, <2>1, <2>4, <2>5, <2>6, <2>7 DEF FramesInv
  <1>9. ASSUME count > 1, "outOfDate" \notin faults', GpuFinish
        PROVE  FramesInv'
    <2>1. /\ UNCHANGED <<count, current, acquired, phase, images, presents, faults>>
          /\ queue # <<>> /\ queue' = Tail(queue)
          /\ semaphore' = [semaphore EXCEPT ![Head(queue).buffer] = FALSE]
          /\ rendered' = [rendered EXCEPT ![Head(queue).buffer] = TRUE]
      BY <1>9 DEF GpuFinish, main, screen
    <2>2. /\ Len(queue) \in Nat /\ Len(queue) > 0 /\ Head(queue) = queue[1]
          /\ DOMAIN queue = 1 .. Len(queue)
          /\ Len(queue') = Len(queue) - 1 /\ DOMAIN queue' = 1 .. Len(queue) - 1
          /\ \A i \in 1 .. Len(queue) - 1 : queue'[i] = queue[i + 1]
      BY <2>1, QueueSteps DEF TypeOK
    <2>3. Frames' = Frames /\ Buffers' = Buffers /\ Len(Frames) \in Nat
      BY <2>1, FramesElements DEF Frames, Buffers
    <2>4. Drawn' = Drawn + 1 /\ Drawn \in Int /\ Drawn >= 0 /\ Drawn + Len(queue) = Len(Frames)
      BY <1>3, <1>9, <2>2, <2>3 DEF Drawn, FramesDrawn
    <2>5. \A i \in 1 .. Len(queue) : queue[i].buffer = Frames[Drawn + i].buffer
      BY <1>3, <1>9 DEF FramesDrawn
    <2>6. queue[1].buffer \in Buffers
      BY <2>2 DEF Stages
    <2>7. FramesInTurn' /\ FramesExclusive'
      BY <1>3, <1>9, <2>1, <2>3 DEF FramesInTurn, FramesExclusive, After, HasImage
    <2>8. FramesDrawn'
      <3>1. \A i \in 1 .. Len(queue') : queue'[i].buffer = Frames'[Drawn' + i].buffer
        BY <2>2, <2>3, <2>4, <2>5, SMTT(20)
      <3>2. \A x \in Buffers : rendered'[x] => \E i \in 1 .. Drawn' : Frames[i].buffer = x
        <4> SUFFICES ASSUME NEW x \in Buffers, rendered'[x]
                     PROVE  \E i \in 1 .. Drawn' : Frames[i].buffer = x
          OBVIOUS
        <4>1. CASE x = queue[1].buffer
          BY <2>2, <2>4, <2>5, <4>1
        <4>2. CASE x # queue[1].buffer
          <5>1. rendered[x]
            BY <2>1, <2>2, <2>6, <4>2 DEF TypeOK
          <5> QED
            BY <1>3, <1>9, <2>4, <5>1 DEF FramesDrawn
        <4> QED
          BY <4>1, <4>2
      <3> QED
        BY <2>3, <2>4, <3>1, <3>2 DEF FramesDrawn
    <2>9. SemaphoresAgree'
      <3>0. /\ \A i, j \in 1 .. Len(Frames) : Frames[i].buffer = Frames[j].buffer => i = j
            /\ phase = "record" => \A i \in 1 .. Len(Frames) : Frames[i].buffer # current
        BY <1>3, <1>9, FewFrames
      <3>1. \A i \in 2 .. Len(queue) : queue[i].buffer # queue[1].buffer
        <4> SUFFICES ASSUME NEW i \in 2 .. Len(queue)
                     PROVE  queue[i].buffer # queue[1].buffer
          OBVIOUS
        <4>1. /\ i \in 1 .. Len(queue) /\ 1 \in 1 .. Len(queue)
              /\ Drawn + i \in 1 .. Len(Frames) /\ Drawn + 1 \in 1 .. Len(Frames)
              /\ Drawn + i # Drawn + 1
          BY <2>2, <2>4
        <4> QED
          BY <2>5, <3>0, <4>1
      <3>2. phase = "record" => queue[1].buffer # current
        <4>1. Drawn + 1 \in 1 .. Len(Frames) /\ 1 \in 1 .. Len(queue)
          BY <2>2, <2>4
        <4> QED
          BY <2>5, <3>0, <4>1
      <3>3. \A x \in Buffers : Pending(x)' => Pending(x) /\ x # queue[1].buffer
        <4> SUFFICES ASSUME NEW x \in Buffers, NEW i \in 1 .. Len(queue) - 1,
                            queue'[i].buffer = x
                     PROVE  Pending(x) /\ x # queue[1].buffer
          BY <2>2 DEF Pending
        <4>1. i + 1 \in 2 .. Len(queue) /\ i + 1 \in DOMAIN queue
          BY <2>2
        <4>2. queue[i + 1].buffer = x
          BY <2>2
        <4> QED
          BY <3>1, <4>1, <4>2 DEF Pending
      <3> QED
        BY <1>3, <1>9, <2>1, <2>2, <2>3, <2>6, <3>2, <3>3 DEF SemaphoresAgree, TypeOK
    <2> QED
      BY <1>9, <2>1, <2>7, <2>8, <2>9 DEF FramesInv
  <1>10. ASSUME count > 1, "outOfDate" \notin faults', Show
         PROVE  FramesInv'
    <2> DEFINE shown == Head(presents)
    <2>1. /\ UNCHANGED <<count, current, acquired, phase, semaphore, queue, faults>>
          /\ presents # <<>> /\ presents' = Tail(presents)
          /\ rendered[shown.buffer]
          /\ rendered' = [rendered EXCEPT ![shown.buffer] = FALSE]
          /\ images' = [i \in Buffers |-> IF i = shown.image THEN "shown"
                                          ELSE IF images[i] = "shown" THEN "free"
                                          ELSE images[i]]
      BY <1>10 DEF Show, main
    <2>2. /\ Len(presents) \in Nat /\ Len(presents) > 0 /\ shown = presents[1]
          /\ DOMAIN presents' = 1 .. Len(presents) - 1
          /\ Len(presents') = Len(presents) - 1
          /\ \A i \in 1 .. Len(presents) - 1 : presents'[i] = presents[i + 1]
      BY <2>1, QueueSteps DEF TypeOK
    <2>3. Buffers' = Buffers
      BY <2>1 DEF Buffers
    <2>4. /\ Len(Frames) \in Nat /\ Len(Frames) >= Len(presents)
          /\ Len(Frames') = Len(Frames) - 1
          /\ \A i \in 1 .. Len(Frames) - 1 : Frames'[i] = Frames[i + 1]
          /\ \A i \in 1 .. Len(presents) : Frames[i] = presents[i]
      <3>1. [buffer |-> current, image |-> acquired] \in Presents
        BY DEF TypeOK, Presents
      <3>2. CASE phase # "present"
        BY <2>1, <2>2, <3>2 DEF Frames
      <3>3. CASE phase = "present"
        <4>1. presents \in Seq(Presents) /\ presents' \in Seq(Presents)
          BY DEF TypeOK
        <4>2. /\ Frames = Append(presents, [buffer |-> current, image |-> acquired])
              /\ Frames' = Append(presents', [buffer |-> current, image |-> acquired])
          BY <2>1, <3>3 DEF Frames
        <4>3. /\ Len(Frames) = Len(presents) + 1
              /\ \A i \in 1 .. Len(presents) : Frames[i] = presents[i]
              /\ Frames[Len(presents) + 1] = [buffer |-> current, image |-> acquired]
          BY <3>1, <4>1, <4>2, AppendProperties
        <4>4. /\ Len(Frames') = Len(presents') + 1
              /\ \A i \in 1 .. Len(presents') : Frames'[i] = presents'[i]
              /\ Frames'[Len(presents') + 1] = [buffer |-> current, image |-> acquired]
          BY <3>1, <4>1, <4>2, AppendProperties
        <4> HIDE DEF shown
        <4> QED
          BY <2>2, <4>3, <4>4
      <3> QED
        BY <3>2, <3>3
    <2> HIDE DEF shown
    <2>5. shown.buffer \in Buffers /\ shown = Frames[1]
      BY <1>3, <1>10, <2>2, <2>4 DEF FramesInTurn
    <2>6. Drawn \in Int /\ Drawn' = Drawn - 1 /\ Drawn >= 1 /\ Len(queue) \in Nat
          /\ Drawn + Len(queue) = Len(Frames)
      <3>1. Len(queue) \in Nat
        BY FramesElements
      <3> QED
        <4>1. PICK i \in 1 .. Drawn : Frames[i].buffer = shown.buffer
          BY <1>3, <1>10, <2>1, <2>5 DEF FramesDrawn
        <4>2. Drawn \in Int /\ Drawn' = Drawn - 1 /\ Drawn + Len(queue) = Len(Frames)
          BY <2>1, <2>4, <3>1 DEF Drawn
        <4>3. Drawn >= 1
          BY <4>1, <4>2
        <4> QED
          BY <3>1, <4>2, <4>3
    <2>7. FramesInTurn'
      <3>1. \A i \in 1 .. Len(Frames) - 1 : Frames'[i].buffer \in Buffers
        <4>1. \A i \in 1 .. Len(Frames) : Frames[i].buffer \in Buffers
          BY <1>3, <1>10 DEF FramesInTurn
        <4>2. \A i \in 1 .. Len(Frames) - 1 : i + 1 \in 1 .. Len(Frames) /\ Frames'[i] = Frames[i + 1]
          BY <2>4
        <4> QED
          BY <4>1, <4>2
      <3>2. \A i \in 1 .. Len(Frames) - 2 : Frames'[i + 1].buffer = After(Frames'[i].buffer)
        <4> SUFFICES ASSUME NEW i \in 1 .. Len(Frames) - 2
                     PROVE  Frames'[i + 1].buffer = After(Frames'[i].buffer)
          OBVIOUS
        <4>1. i \in 1 .. Len(Frames) - 1 /\ i + 1 \in 1 .. Len(Frames) - 1
          BY <2>4
        <4> QED
          BY <1>3, <1>10, <2>4, <4>1 DEF FramesInTurn
      <3>3. Len(Frames) > 1 => Frames'[Len(Frames) - 1] = Frames[Len(Frames)]
        BY <2>4
      <3>4. Len(Frames) > 0 =>
              current = IF phase \in {"acquire", "record"} THEN After(Frames[Len(Frames)].buffer)
                        ELSE Frames[Len(Frames)].buffer
        BY <1>3, <1>10 DEF FramesInTurn
      <3> QED
        BY <2>1, <2>3, <2>4, <3>1, <3>2, <3>3, <3>4 DEF FramesInTurn, After
    <2>8. FramesExclusive'
      <3>1. \A i \in 2 .. Len(Frames) : Frames[i].image # shown.image
        BY <1>3, <1>10, <2>4, <2>5 DEF FramesExclusive
      <3>2. \A i \in 1 .. Len(Frames) - 1 : Frames'[i].image \in Buffers
        BY <1>3, <1>10, <2>4 DEF FramesExclusive
      <3>3. \A i, j \in 1 .. Len(Frames) - 1 : Frames'[i].image = Frames'[j].image => i = j
        BY <1>3, <1>10, <2>4, SMTT(20) DEF FramesExclusive
      <3>4. \A i \in 1 .. Len(presents) - 1 : images'[presents'[i].image] = "queued"
        BY <1>3, <1>10, <2>1, <2>2, <2>4, <3>1 DEF FramesExclusive
      <3>5. phase = "record" => \A i \in 1 .. Len(presents) - 1 : presents'[i].image # acquired
        BY <1>3, <1>10, <2>2 DEF FramesExclusive
      <3>6. phase \in {"record", "present"} => HasImage'
        <4>1. phase = "record" => shown.image # acquired
          BY <1>3, <1>10, <2>2 DEF FramesExclusive
        <4>2. phase = "present" => shown.image # acquired
          <5>1. phase = "present" =>
                  Len(Frames) = Len(presents) + 1 /\ Frames[Len(Frames)].image = acquired
            BY FramesElements
          <5> QED
            BY <2>2, <2>4, <3>1, <5>1
        <4> QED
          BY <1>3, <1>10, <2>1, <2>3, <4>1, <4>2 DEF FramesExclusive, HasImage
      <3> QED
        BY <2>1, <2>2, <2>3, <2>4, <3>2, <3>3, <3>4, <3>5, <3>6 DEF FramesExclusive
    <2>9. FramesDrawn'
      <3>1. \A i \in 1 .. Len(queue') : queue'[i].buffer = Frames'[Drawn' + i].buffer
        <4> SUFFICES ASSUME NEW i \in 1 .. Len(queue)
                     PROVE  queue[i].buffer = Frames'[Drawn - 1 + i].buffer
          BY <2>1, <2>6
        <4>1. Drawn - 1 + i \in 1 .. Len(Frames) - 1
          BY <2>4, <2>6
        <4>2. Frames'[Drawn - 1 + i] = Frames[Drawn + i]
          BY <2>4, <2>6, <4>1
        <4> QED
          BY <1>3, <1>10, <4>2 DEF FramesDrawn
      <3>2. \A x \in Buffers : rendered'[x] => \E i \in 1 .. Drawn' : Frames'[i].buffer = x
        <4> SUFFICES ASSUME NEW x \in Buffers, rendered'[x]
                     PROVE  \E i \in 1 .. Drawn' : Frames'[i].buffer = x
          OBVIOUS
        <4>1. x # shown.buffer /\ rendered[x]
          BY <2>1, <2>5 DEF TypeOK
        <4>2. PICK i \in 1 .. Drawn : Frames[i].buffer = x
          BY <1>3, <1>10, <4>1 DEF FramesDrawn
        <4>3. i - 1 \in 1 .. Drawn' /\ i - 1 \in 1 .. Len(Frames) - 1
          BY <2>4, <2>5, <2>6, <4>1, <4>2
        <4> QED
          BY <2>4, <4>2, <4>3
      <3> QED
        BY <2>3, <2>6, <3>1, <3>2 DEF FramesDrawn
    <2>10. SemaphoresAgree'
      BY <1>3, <1>10, <2>1, <2>3 DEF SemaphoresAgree, Pending
    <2> QED
      BY <1>10, <2>1, <2>7, <2>8, <2>9, <2>10 DEF FramesInv
  <1>11. ASSUME count > 1, "outOfDate" \in faults'
         PROVE  FramesInv'
    <2>1. count' = count
      BY DEF Next, Begin, AcquireNextImage, AcquireOutOfDate, OnResize, Submit, Present, Use,
             Destroy, Create, GpuFinish, Show, SurfaceChanges, vars, main
    <2> QED
      BY <1>11, <2>1 DEF FramesInv
  <1>12. ~AcquireOutOfDate \/ "outOfDate" \in faults'
    BY DEF AcquireOutOfDate
  <1> QED
    BY <1>1, <1>2, <1>4, <1>5, <1>6, <1>7, <1>8, <1>9, <1>10, <1>11, <1>12
    DEF Next, Use, Destroy, Create, SurfaceChanges, vars, main, gpu, screen, TypeOK, MaxFrames

LEMMA FramesInit == Init => FramesInv
  <1> SUFFICES ASSUME Init PROVE FramesInv
    OBVIOUS
  <1>1. /\ Frames = <<>> /\ Len(Frames) = 0 /\ Len(presents) = 0 /\ Len(queue) = 0
        /\ DOMAIN queue = {} /\ Drawn = 0
        /\ rendered = [b \in Buffers |-> FALSE] /\ phase = "between"
    BY DEF Init, Frames, Drawn
  <1>2. count = 1 => 0 \in Buffers
    BY DEF Buffers
  <1> QED
    BY <1>1, <1>2
    DEF FramesInv, FramesInTurn, FramesExclusive, FramesDrawn, SemaphoresAgree, Pending

(* A signalled semaphore is one that a submission waits for, or the frame  *)
(* being recorded, or the one that Init left signalled.                    *)
SignalsAwaited ==
    "timeout" \notin faults =>
        \A b \in Buffers : semaphore[b] =>
            Pending(b) \/ (b = current /\ phase = "record") \/ (b = 0 /\ firstSignal)

LEMMA SignalsStep ==
    ASSUME TypeOK, Stages, FencesInv, SignalsAwaited, [Next]_vars
    PROVE  SignalsAwaited'
  <1>1. CASE Begin
    <2>1. /\ UNCHANGED <<count, semaphore, firstSignal, queue>>
          /\ phase = "between"
          /\ "timeout" \in faults => "timeout" \in faults'
      BY <1>1 DEF Begin, WaitIfSubmitted, WaitAndReset
    <2> QED
      BY <2>1 DEF SignalsAwaited, Pending, Buffers
  <1>2. CASE AcquireNextImage
    <2>1. /\ UNCHANGED <<count, current, queue, faults>>
          /\ phase = "acquire" /\ phase' = "record"
          /\ current \in Buffers
      BY <1>2 DEF AcquireNextImage, BeginRecording, TypeOK, Stages
    <2>2. CASE UNCHANGED <<semaphore, firstSignal>>
      BY <2>1, <2>2 DEF SignalsAwaited, Pending, Buffers
    <2>3. CASE /\ semaphore' = [semaphore EXCEPT ![current] = TRUE]
               /\ firstSignal' = (firstSignal /\ current # 0)
      BY <2>1, <2>3 DEF SignalsAwaited, Pending, Buffers, TypeOK
    <2> QED
      BY <1>2, <2>2, <2>3 DEF AcquireNextImage
  <1>3. CASE AcquireOutOfDate \/ OnResize
    <2>1. semaphore' = [b \in Buffers |-> FALSE] /\ count' = count
      BY <1>3 DEF AcquireOutOfDate, OnResize, Recreate
    <2> QED
      BY <2>1 DEF SignalsAwaited, Buffers
  <1>4. CASE Submit
    <2>1. /\ UNCHANGED <<count, current, semaphore, firstSignal, faults>>
          /\ phase = "record"
      BY <1>4 DEF Submit
    <2>2. [buffer |-> current, image |-> acquired, uses |-> uses] \in Submissions
      BY DEF TypeOK, Submissions
    <2>3. /\ DOMAIN queue = 1 .. Len(queue) /\ Len(queue) \in Nat
          /\ DOMAIN queue' = 1 .. Len(queue) + 1
          /\ \A i \in DOMAIN queue : queue'[i] = queue[i]
          /\ queue'[Len(queue) + 1].buffer = current
      BY <1>4, <2>2, QueueSteps DEF Submit, TypeOK
    <2>4. \A b \in Buffers : Pending(b) \/ b = current => Pending(b)'
      BY <2>3 DEF Pending
    <2> QED
      BY <2>1, <2>4 DEF SignalsAwaited, Buffers
  <1>5. CASE GpuFinish
    <2>1. /\ UNCHANGED <<count, current, phase, faults>>
          /\ queue # <<>> /\ queue' = Tail(queue)
          /\ semaphore' = [semaphore EXCEPT ![Head(queue).buffer] = FALSE]
          /\ firstSignal' = (firstSignal /\ Head(queue).buffer # 0)
      BY <1>5 DEF GpuFinish, main
    <2>2. /\ Len(queue) \in Nat /\ Len(queue) > 0 /\ Head(queue) = queue[1]
          /\ DOMAIN queue = 1 .. Len(queue) /\ DOMAIN queue' = 1 .. Len(queue) - 1
          /\ \A i \in 1 .. Len(queue) - 1 : queue'[i] = queue[i + 1]
      BY <2>1, QueueSteps DEF TypeOK
    <2>3. \A b \in Buffers : Pending(b) /\ b # queue[1].buffer => Pending(b)'
      <3> SUFFICES ASSUME NEW i \in DOMAIN queue, queue[i].buffer # queue[1].buffer
                   PROVE  \E k \in DOMAIN queue' : queue'[k].buffer = queue[i].buffer
        BY DEF Pending
      <3>1. i - 1 \in DOMAIN queue' /\ i - 1 \in 1 .. Len(queue) - 1 /\ (i - 1) + 1 = i
        BY <2>2
      <3> QED
        BY <2>2, <3>1
    <2>4. queue[1].buffer \in Buffers
      BY <2>2 DEF Stages
    <2> QED
      BY <2>1, <2>2, <2>3, <2>4 DEF SignalsAwaited, Buffers, TypeOK
  <1>6. CASE Present
    <2>1. /\ UNCHANGED <<count, current, semaphore, firstSignal, queue, faults>>
          /\ phase = "present"
      BY <1>6 DEF Present, gpu
    <2> QED
      BY <2>1 DEF SignalsAwaited, Pending, Buffers
  <1>7. CASE UNCHANGED <<count, current, phase, semaphore, firstSignal, queue, faults>>
    BY <1>7 DEF SignalsAwaited, Pending, Buffers
  <1> QED
    BY <1>1, <1>2, <1>3, <1>4, <1>5, <1>6, <1>7
    DEF Next, Use, Destroy, Create, Show, SurfaceChanges, vars, main, gpu

(* No image is drawn by two frames, no submission waits for a signal that  *)
(* does not come, and no signal but the first comes before the last one    *)
(* was taken.                                                              *)
LEMMA FramesLegal ==
    ASSUME TypeOK, Stages, FencesInv, FramesInv, SignalsAwaited
    PROVE  SubmissionsLegal
  <1>1. SubmissionsCanRun
    BY DEF SubmissionsCanRun, FramesInv, SemaphoresAgree
  <1>2. ImageExclusive
    <2> SUFFICES ASSUME count > 1, "outOfDate" \notin faults
                 PROVE  /\ \A i, j \in DOMAIN presents : presents[i].image = presents[j].image => i = j
                        /\ phase \in {"record", "present"} =>
                              HasImage /\ \A i \in DOMAIN presents : presents[i].image # acquired
      BY DEF ImageExclusive
    <2>1. FramesExclusive
      BY DEF FramesInv
    <2>2. /\ DOMAIN presents = 1 .. Len(presents) /\ Len(presents) \in Nat /\ Len(Frames) \in Nat
          /\ Len(presents) <= Len(Frames)
          /\ \A i \in 1 .. Len(presents) : Frames[i] = presents[i]
          /\ phase = "present" =>
                Len(Frames) = Len(presents) + 1 /\ Frames[Len(Frames)].image = acquired
      BY FramesElements
    <2> QED
      BY <2>1, <2>2 DEF FramesExclusive
  <1>3. SignalTaken
    <2> SUFFICES ASSUME "outOfDate" \notin faults,
                        NEW b \in Buffers, Pending(b), semaphore[b], rendered[b]
                 PROVE  FALSE
      BY DEF SignalTaken
    <2>1. CASE count = 1
      <3>1. b = 0
        BY <2>1 DEF Buffers
      <3> QED
        BY <2>1, <3>1 DEF FramesInv
    <2>2. CASE count # 1
      <3>1. count > 1 /\ acquired \in Buffers
        BY <2>2 DEF Buffers, TypeOK, Stages
      <3>2. FramesInTurn /\ FramesExclusive /\ FramesDrawn
        BY <3>1 DEF FramesInv
      <3>3. PICK i \in 1 .. Drawn : Frames[i].buffer = b
        BY <3>2 DEF FramesDrawn
      <3>4. PICK j \in 1 .. Len(queue) : queue[j].buffer = b
        BY FramesElements DEF Pending
      <3>5. Frames[Drawn + j].buffer = b
        BY <3>2, <3>4 DEF FramesDrawn
      <3>6. /\ i \in 1 .. Len(Frames) /\ Drawn + j \in 1 .. Len(Frames) /\ i # Drawn + j
        BY <3>3, <3>4, FramesElements DEF Drawn
      <3> QED
        BY <3>1, <3>2, <3>3, <3>5, <3>6, FewFrames
    <2> QED
      BY <2>1, <2>2
  <1>4. AcquireSignalsOnce
    <2> SUFFICES ASSUME "timeout" \notin faults, phase = "acquire", ~AlreadyAcquired,
                        semaphore[current]
                 PROVE  current = 0 /\ firstSignal
      BY DEF AcquireSignalsOnce
    <2>1. current \in Buffers /\ cmdState[current] # "Submitted"
      BY DEF TypeOK, Stages
    <2>2. ~Pending(current)
      BY <2>1 DEF FencesInv, PendingIsSubmitted
    <2> QED
      BY <2>1, <2>2 DEF SignalsAwaited
  <1> QED
    BY <1>1, <1>2, <1>3, <1>4 DEF SubmissionsLegal, FencesInv

(* On every surface, what the frame loop gives to the GPU and to the       *)
(* presentation engine is legal, with the exceptions that the parts of     *)
(* SubmissionsLegal name: until an acquire finds the swapchain out of date *)
(* or a wait gives up, and but for the signal that Init's acquire left.    *)
THEOREM SubmissionsAlwaysLegal == Spec => []SubmissionsLegal
  <1>1. TypeOK /\ TypeOK' /\ Stages /\ FramesInv /\ [Next]_vars => FramesInv'
    BY FramesStep
  <1>2. TypeOK /\ Stages /\ FencesInv /\ SignalsAwaited /\ [Next]_vars => SignalsAwaited'
    BY SignalsStep
  <1>3. Init => SignalsAwaited
    BY DEF Init, SignalsAwaited
  <1>4. TypeOK /\ Stages /\ FencesInv /\ FramesInv /\ SignalsAwaited => SubmissionsLegal
    BY FramesLegal
  <1> QED
    BY <1>1, <1>2, <1>3, <1>4, FramesInit, TypeCorrect, FencesAlwaysAgree, PTL DEF Spec

-----------------------------------------------------------------------------
(***************************************************************************)
(* The ring                                                                *)
(***************************************************************************)
(* The buffers of a queue of submissions, and how they change with it. *)
BuffersOf(q) == [i \in DOMAIN q |-> q[i].buffer]

LEMMA BuffersOfQueue ==
    ASSUME NEW q \in Seq(Submissions)
    PROVE  /\ \A e \in Submissions : BuffersOf(Append(q, e)) = Append(BuffersOf(q), e.buffer)
           /\ q # <<>> => BuffersOf(q) # <<>> /\ BuffersOf(Tail(q)) = Tail(BuffersOf(q))
  <1> DEFINE B == 0 .. MaxFrames - 1
             p == BuffersOf(q)
  <1>1. /\ Len(q) \in Nat /\ DOMAIN q = 1 .. Len(q)
        /\ \A i \in 1 .. Len(q) : q[i] \in Submissions
    BY QueueSteps
  <1>2. p \in Seq(B) /\ Len(p) = Len(q) /\ \A i \in 1 .. Len(q) : p[i] = q[i].buffer
    BY <1>1 DEF BuffersOf, Submissions
  <1>3. ASSUME NEW e \in Submissions
        PROVE  BuffersOf(Append(q, e)) = Append(p, e.buffer)
    <2> DEFINE r == Append(q, e)
    <2>1. /\ DOMAIN r = 1 .. Len(q) + 1
          /\ \A i \in 1 .. Len(q) : r[i] = q[i]
          /\ r[Len(q) + 1] = e
      BY <1>1, QueueSteps
    <2>2. e.buffer \in B
      BY DEF Submissions
    <2>3. /\ DOMAIN Append(p, e.buffer) = 1 .. Len(q) + 1
          /\ \A i \in 1 .. Len(q) : Append(p, e.buffer)[i] = p[i]
          /\ Append(p, e.buffer)[Len(q) + 1] = e.buffer
          /\ Append(p, e.buffer) \in Seq(B)
      BY <1>1, <1>2, <2>2, QueueSteps
    <2>4. Append(p, e.buffer) = [i \in 1 .. Len(q) + 1 |-> Append(p, e.buffer)[i]]
      BY <2>3
    <2> HIDE DEF r, p
    <2>5. \A i \in 1 .. Len(q) + 1 : r[i].buffer = Append(p, e.buffer)[i]
      BY <1>1, <1>2, <2>1, <2>3
    <2>6. BuffersOf(r) = [i \in 1 .. Len(q) + 1 |-> r[i].buffer]
      BY <2>1 DEF BuffersOf
    <2> QED
      BY <2>4, <2>5, <2>6 DEF r
  <1>4. ASSUME q # <<>>
        PROVE  p # <<>> /\ BuffersOf(Tail(q)) = Tail(p)
    <2> DEFINE r == Tail(q)
    <2>1. /\ DOMAIN r = 1 .. Len(q) - 1 /\ Len(q) > 0
          /\ \A i \in 1 .. Len(q) - 1 : r[i] = q[i + 1]
      BY <1>1, <1>4, QueueSteps
    <2>2. p # <<>>
      BY <1>2, <2>1
    <2>3. /\ DOMAIN Tail(p) = 1 .. Len(q) - 1
          /\ \A i \in 1 .. Len(q) - 1 : Tail(p)[i] = p[i + 1]
          /\ Tail(p) \in Seq(B)
      BY <1>1, <1>2, <2>2, QueueSteps
    <2>4. Tail(p) = [i \in 1 .. Len(q) - 1 |-> Tail(p)[i]]
      <3>1. Tail(p) \in [1 .. Len(q) - 1 -> B]
        BY <2>3, LenProperties
      <3> HIDE DEF p
      <3> QED
        BY <3>1
    <2> HIDE DEF r, p
    <2>5. \A i \in 1 .. Len(q) - 1 : r[i].buffer = Tail(p)[i]
      BY <1>1, <1>2, <2>1, <2>3
    <2>6. BuffersOf(r) = [i \in 1 .. Len(q) - 1 |-> r[i].buffer]
      BY <2>1 DEF BuffersOf
    <2> QED
      BY <2>2, <2>4, <2>5, <2>6 DEF r
  <1> QED
    BY <1>3, <1>4

LEMMA RingStep ==
    ASSUME TypeOK, Stages, FencesInv, [Next]_vars, "timeout" \notin faults'
    PROVE  [Ring!RingNext]_(Ring!ringVars)
  <1> DEFINE inFlight == [i \in DOMAIN queue |-> queue[i].buffer]
  <1>1. CASE Begin
    <2>1. /\ phase = "between" /\ phase' = "acquire" /\ current' = NextBuffer
          /\ UNCHANGED <<count, queue>>
      BY <1>1 DEF Begin
    <2>2. ~Pending(NextBuffer)
      BY <1>1, BeginWaits
    <2>3. \A x \in Ring!ToSet(inFlight) : Pending(x)
      BY DEF Ring!ToSet, Pending
    <2>4. Ring!BeginFrame
      BY <2>1, <2>2, <2>3 DEF Ring!BeginFrame, Ring!NextBuffer, NextBuffer
    <2> QED
      BY <2>4 DEF Ring!RingNext
  <1>2. CASE Submit
    <2>1. /\ phase = "record" /\ phase' = "present"
          /\ UNCHANGED <<count, current>>
          /\ queue' = Append(queue, [buffer |-> current, image |-> acquired, uses |-> uses])
      BY <1>2 DEF Submit
    <2>2. [buffer |-> current, image |-> acquired, uses |-> uses] \in Submissions
      BY DEF TypeOK, Submissions
    <2>3. inFlight' = Append(inFlight, current)
      BY <2>1, <2>2, BuffersOfQueue DEF BuffersOf, TypeOK
    <2>4. Ring!SubmitFrame
      BY <2>1, <2>3 DEF Ring!SubmitFrame
    <2> QED
      BY <2>4 DEF Ring!RingNext
  <1>3. CASE GpuFinish
    <2>1. /\ queue # <<>> /\ queue' = Tail(queue)
          /\ UNCHANGED <<count, current, phase>>
      BY <1>3 DEF GpuFinish, main
    <2>2. inFlight # <<>> /\ inFlight' = Tail(inFlight)
      BY <2>1, BuffersOfQueue DEF BuffersOf, TypeOK
    <2>3. Ring!FinishFrame
      BY <2>1, <2>2 DEF Ring!FinishFrame
    <2> QED
      BY <2>3 DEF Ring!RingNext
  <1>4. CASE UNCHANGED <<count, current, queue, phase \in {"acquire", "record"}>>
    BY <1>4 DEF Ring!ringVars
  <1>5. AcquireNextImage \/ AcquireOutOfDate \/ OnResize \/ Present =>
          UNCHANGED <<count, current, queue, phase \in {"acquire", "record"}>>
    BY DEF AcquireNextImage, AcquireOutOfDate, OnResize, Present, BeginRecording, Recreate, gpu
  <1> QED
    BY <1>1, <1>2, <1>3, <1>4, <1>5
    DEF Next, Use, Destroy, Create, Show, SurfaceChanges, vars, main, gpu

(* The detailed frame loop keeps the promise of FrameRing on every surface *)
(* that allows an image at all, until a wait for a fence gives up.         *)
THEOREM RingPromiseKept == count > 0 /\ Spec => RingPromise
  <1>1. count > 0 /\ Init => Ring!RingInit
    <2> SUFFICES ASSUME count > 0, Init PROVE Ring!RingInit
      OBVIOUS
    <2>1. count \in 1 .. MaxFrames
      BY TypeInit DEF TypeOK, MaxFrames
    <2>2. [i \in DOMAIN queue |-> queue[i].buffer] = <<>>
      BY DEF Init
    <2> QED
      BY <2>1, <2>2 DEF Init, Ring!RingInit
  <1>2. TypeOK /\ Stages /\ FencesInv /\ [Next]_vars =>
          [("timeout" \notin faults') => [Ring!RingNext]_(Ring!ringVars)]_vars
    BY RingStep
  <1> QED
    BY <1>1, <1>2, TypeCorrect, FencesAlwaysAgree, PTL DEF Spec, RingPromise
=============================================================================
