--------------------------- MODULE JobSystemProofs ---------------------------
(***************************************************************************)
(* Theorems about JobSystem for any number of worker threads, any set of   *)
(* clients, any arguments of Dispatch whose group count does not overflow, *)
(* and any bound on the number of calls.                                   *)
(***************************************************************************)
EXTENDS JobSystem, FiniteSetTheorems, TLAPS

-----------------------------------------------------------------------------
(***************************************************************************)
(* Group arithmetic                                                        *)
(***************************************************************************)
\* The group count of a call to Dispatch is a natural number, and the ends of
\* each group are natural numbers.
LEMMA GroupTypes ==
    ASSUME NEW n \in Positive, NEW g \in Positive, NEW k \in Nat
    PROVE  /\ DispatchGroupCount(n, g) \in Nat
           /\ GroupJobOffset(g, k) \in Nat
           /\ GroupJobEnd(n, g, k) \in Nat
  <1>1. UintRange \in Positive
    BY UintRangeAssumption DEF Positive
  <1>2. \A a \in Nat : a % UintRange \in Nat
    BY <1>1 DEF Positive
  <1>3. \A a \in Nat : a \div g \in Nat
    BY DEF Positive
  <1>4. k * g \in Nat
    BY DEF Positive
  <1>5. n + g - 1 \in Nat
    BY DEF Positive
  <1>6. GroupJobOffset(g, k) \in Nat
    BY <1>2, <1>4 DEF GroupJobOffset
  <1>7. (GroupJobOffset(g, k) + g) % UintRange \in Nat
    BY <1>2, <1>6 DEF Positive
  <1> QED
    BY <1>2, <1>3, <1>5, <1>6, <1>7
    DEF DispatchGroupCount, GroupJobEnd, Positive

\* Division of naturals, in the form the provers use it.
LEMMA DivFacts ==
    ASSUME NEW a \in Nat, NEW g \in Positive
    PROVE  /\ a \div g \in Nat
           /\ (a \div g) * g <= a
           /\ a < (a \div g) * g + g
  BY DEF Positive

\* Multiplication by a positive number is monotonic, and multiples of
\* different numbers are at least that number apart.
LEMMA MulMonotonic ==
    ASSUME NEW k \in Nat, NEW l \in Nat, NEW g \in Positive, k < l
    PROVE  k * g + g <= l * g
  <1>1. l * g = k * g + (l - k) * g
    BY DEF Positive
  <1>2. (l - k) * g >= g
    <2>1. l - k \in Nat /\ l - k >= 1
      OBVIOUS
    <2> DEFINE d == l - k - 1
    <2>2. d \in Nat /\ l - k = d + 1
      BY <2>1
    <2>3. (d + 1) * g = d * g + g
      BY <2>2 DEF Positive
    <2>4. d * g >= 0
      BY <2>2 DEF Positive
    <2> HIDE DEF d
    <2> QED
      BY <2>2, <2>3, <2>4 DEF Positive
  <1> QED
    BY <1>1, <1>2 DEF Positive

\* Without overflow the groups of a Dispatch are the consecutive ranges of
\* groupSize indices, cut off at jobCount, and none is empty.
LEMMA GroupRanges ==
    ASSUME NEW n \in Positive, NEW g \in Positive, NoOverflow(n, g)
    PROVE  /\ DispatchGroupCount(n, g) = (n + g - 1) \div g
           /\ DispatchGroupCount(n, g) \in Positive
           /\ \A k \in GroupIDs(n, g) :
                /\ k \in Nat
                /\ k * g < n
                /\ GroupJobOffset(g, k) = k * g
                /\ GroupJobEnd(n, g, k) = IF k * g + g < n THEN k * g + g ELSE n
  <1> DEFINE a == n + g - 1
             m == a \div g
  <1>1. a \in Nat /\ a < UintRange /\ a >= g /\ UintRange \in Positive
    BY UintRangeAssumption DEF NoOverflow, Positive
  <1>2. a % UintRange = a
    BY <1>1 DEF Positive
  <1>3. DispatchGroupCount(n, g) = m
    BY <1>2 DEF DispatchGroupCount
  <1>4. m \in Nat /\ m * g <= a /\ a < m * g + g
    BY <1>1, DivFacts
  <1>5. m # 0
    BY <1>1, <1>4 DEF Positive
  <1>6. ASSUME NEW k \in GroupIDs(n, g)
        PROVE  /\ k \in Nat
               /\ k * g < n
               /\ GroupJobOffset(g, k) = k * g
               /\ GroupJobEnd(n, g, k) = IF k * g + g < n THEN k * g + g ELSE n
    <2>1. k \in Nat /\ k < m
      BY <1>3, <1>4, <1>6 DEF GroupIDs
    <2>2. k * g + g <= m * g
      BY <2>1, <1>4, MulMonotonic
    <2>3. k * g \in Nat
      BY <2>1 DEF Positive
    <2>4. m * g \in Nat
      BY <1>4 DEF Positive
    <2>5. k * g + g <= a
      BY <2>2, <2>3, <2>4, <1>1, <1>4 DEF Positive
    <2>6. k * g < n
      BY <2>3, <2>5 DEF Positive
    <2>7. k * g < UintRange /\ k * g + g < UintRange
      BY <2>3, <2>5, <1>1 DEF Positive
    <2>8. (k * g) % UintRange = k * g /\ (k * g + g) % UintRange = k * g + g
      BY <2>3, <2>7, <1>1 DEF Positive
    <2> QED
      BY <2>1, <2>6, <2>8 DEF GroupJobOffset, GroupJobEnd
  <1> QED
    BY <1>3, <1>4, <1>5, <1>6 DEF Positive

\* For every jobCount and groupSize that Dispatch does not reject, and that do
\* not overflow its sum, each job index is in exactly one group, and each
\* group is a non-empty range of at most groupSize of the indices.
THEOREM DispatchPartitions ==
    ASSUME NEW n \in Positive, NEW g \in Positive, NoOverflow(n, g)
    PROVE  Partition(n, g) /\ GroupsFit(n, g)
  <1> DEFINE m == DispatchGroupCount(n, g)
  <1>1. /\ m = (n + g - 1) \div g
        /\ m \in Positive
        /\ \A k \in GroupIDs(n, g) :
              /\ k \in Nat
              /\ k * g < n
              /\ GroupJobOffset(g, k) = k * g
              /\ GroupJobEnd(n, g, k) = IF k * g + g < n THEN k * g + g ELSE n
    BY GroupRanges
  <1> HIDE DEF m
  <1>2. ASSUME NEW i \in 0 .. n - 1
        PROVE  \E k \in GroupIDs(n, g) : i \in GroupIndices(n, g, k)
    <2> DEFINE k == i \div g
    <2>1. i \in Nat /\ i <= n - 1
      BY DEF Positive
    <2>2. k \in Nat /\ k * g <= i /\ i < k * g + g
      BY <2>1, DivFacts
    <2>3. n + g - 1 \in Nat
      BY DEF Positive
    <2>4. m * g <= n + g - 1 /\ n + g - 1 < m * g + g
      BY <1>1, <2>3, DivFacts
    <2> HIDE DEF k
    <2>5. k < m
      <3>1. SUFFICES ASSUME k >= m PROVE FALSE
        BY <1>1, <2>2 DEF Positive
      <3>2. k * g >= m * g
        <4>1. CASE k = m
          BY <4>1, <2>2 DEF Positive
        <4>2. CASE m < k
          <5>1. m * g + g <= k * g
            BY <4>2, <1>1, <2>2, MulMonotonic DEF Positive
          <5>2. m * g \in Nat /\ k * g \in Nat
            BY <1>1, <2>2 DEF Positive
          <5> QED
            BY <5>1, <5>2 DEF Positive
        <4> QED
          BY <3>1, <4>1, <4>2, <1>1, <2>2 DEF Positive
      <3>3. m * g \in Nat /\ k * g \in Nat
        BY <1>1, <2>2 DEF Positive
      <3> QED
        BY <3>2, <3>3, <2>1, <2>2, <2>4 DEF Positive
    <2>6. k \in GroupIDs(n, g)
      BY <2>2, <2>5, <1>1 DEF GroupIDs, m, Positive
    <2>7. k * g \in Nat
      BY <2>2 DEF Positive
    <2>8. i \in GroupIndices(n, g, k)
      BY <1>1, <2>1, <2>2, <2>6, <2>7 DEF GroupIndices, Positive
    <2> QED
      BY <2>6, <2>8
  <1>3. ASSUME NEW k \in GroupIDs(n, g), NEW l \in GroupIDs(n, g), k < l
        PROVE  GroupIndices(n, g, k) \cap GroupIndices(n, g, l) = {}
    <2>1. k * g + g <= l * g
      BY <1>1, <1>3, MulMonotonic
    <2>2. k * g \in Nat /\ l * g \in Nat
      BY <1>1 DEF Positive
    <2>3. /\ GroupJobEnd(n, g, k) = IF k * g + g < n THEN k * g + g ELSE n
          /\ GroupJobOffset(g, l) = l * g
      BY <1>1
    <2>4. GroupJobEnd(n, g, k) \in Nat /\ GroupJobEnd(n, g, k) <= GroupJobOffset(g, l)
      <3> DEFINE x == k * g
                 y == l * g
      <3>1. x \in Nat /\ y \in Nat /\ x + g <= y
        BY <2>1, <2>2
      <3>2. GroupJobEnd(n, g, k) = IF x + g < n THEN x + g ELSE n
        BY <2>3
      <3> HIDE DEF x, y
      <3> QED
        BY <3>1, <3>2, <2>3 DEF Positive, y
    <2>5. GroupJobOffset(g, k) \in Nat /\ GroupJobEnd(n, g, l) \in Nat
          /\ GroupJobOffset(g, l) \in Nat
      BY <1>1, GroupTypes
    <2> QED
      BY <2>4, <2>5 DEF GroupIndices
  <1>4. \A k, l \in GroupIDs(n, g) :
          k # l => GroupIndices(n, g, k) \cap GroupIndices(n, g, l) = {}
    <2> SUFFICES ASSUME NEW k \in GroupIDs(n, g), NEW l \in GroupIDs(n, g), k # l
                 PROVE  GroupIndices(n, g, k) \cap GroupIndices(n, g, l) = {}
      OBVIOUS
    <2>1. CASE k < l
      BY <1>3, <2>1
    <2>2. CASE l < k
      BY <1>3, <2>2
    <2>3. k \in Nat /\ l \in Nat
      BY <1>1
    <2> QED
      BY <2>1, <2>2, <2>3
  <1>5. GroupsFit(n, g)
    <2> SUFFICES ASSUME NEW k \in GroupIDs(n, g)
                 PROVE  LET lo == GroupJobOffset(g, k)
                            hi == GroupJobEnd(n, g, k)
                        IN  0 <= lo /\ lo < hi /\ hi <= n /\ hi - lo <= g
      BY DEF GroupsFit
    <2> DEFINE x == k * g
    <2>1. /\ x \in Nat
          /\ x < n
          /\ GroupJobOffset(g, k) = x
          /\ GroupJobEnd(n, g, k) = IF x + g < n THEN x + g ELSE n
      BY <1>1 DEF Positive
    <2> HIDE DEF x
    <2> QED
      BY <2>1 DEF Positive
  <1> QED
    BY <1>2, <1>4, <1>5 DEF Partition
-----------------------------------------------------------------------------
(***************************************************************************)
(* Type correctness                                                        *)
(***************************************************************************)
\* The entry pushed for any group of the running call is a Job.
LEMMA GroupJobType ==
    ASSUME ClientTypeOK, NEW c \in Clients, NEW k \in Nat
    PROVE  GroupJob(c, k) \in Job
  <1>1. /\ sub[c].jobCount \in Positive
        /\ sub[c].groupSize \in Positive
        /\ calls[c] \in Nat
    BY DEF ClientTypeOK
  <1> QED
    BY <1>1, GroupTypes DEF GroupJob, Job

\* Facts about the index sets.
LEMMA IndexTypes ==
    /\ NumThreads \in Nat /\ NumThreads > 0
    /\ \A c \in Clients : c \in Threads /\ c \notin Workers
    /\ \A w \in Workers : w \in Threads /\ w \in Queues
    /\ \A t \in Threads : t \in Workers \/ t \in Clients
    /\ \A q \in Queues : q \in Nat
    /\ 0 \in Queues
  BY ConstantsAssumption, UintRangeAssumption
  DEF Positive, Queues, Threads, Workers

\* A uint32_t taken modulo the number of queues is a queue.
LEMMA ModTypes ==
    ASSUME NEW n \in Nat
    PROVE  n % NumThreads \in Queues /\ n % UintRange \in Nat
  BY ConstantsAssumption, UintRangeAssumption DEF Positive, Queues

LEMMA TypeInit == Init => TypeOK
  <1> SUFFICES ASSUME Init PROVE TypeOK
    OBVIOUS
  <1>1. SharedTypeOK
    BY IndexTypes DEF Init, SharedTypeOK
  <1>2. ThreadTypeOK
    <2>1. \A t \in Threads :
            /\ pc[t] = IF t \in Workers THEN "loop" ELSE "idle"
            /\ held[t] = NoJob
      BY DEF Init
    <2>2. pc \in [Threads -> WorkerLabels \cup ClientLabels]
      BY DEF Init, WorkerLabels, ClientLabels
    <2>3. \A t \in Threads :
            /\ t \in Workers => pc[t] \in WorkerLabels
            /\ t \in Clients => pc[t] \in ClientLabels
            /\ pc[t] \notin {"pop", "run"}
      BY <2>1, IndexTypes DEF WorkerLabels, ClientLabels
    <2>4. /\ cursor \in [Threads -> Queues]
          /\ left \in [Threads -> 0 .. NumThreads]
          /\ held \in [Threads -> Job \cup {NoJob}]
          /\ idx \in [Threads -> Nat]
      BY IndexTypes DEF Init
    <2> QED
      BY <2>1, <2>2, <2>3, <2>4, IndexTypes DEF ThreadTypeOK
  <1>3. ClientTypeOK
    BY DEF Init, ClientTypeOK, NoCall, Positive
  <1> QED
    BY <1>1, <1>2, <1>3 DEF TypeOK

\* A step that moves one thread from one label to another, and leaves its job,
\* preserves the types of the thread variables.
LEMMA TypeGoto ==
    ASSUME ThreadTypeOK, NEW t \in Threads, NEW label,
           t \in Workers => label \in WorkerLabels,
           t \in Clients => label \in ClientLabels,
           pc[t] # "run", label \notin {"pop", "run"},
           Goto(t, label), cursor' \in [Threads -> Queues],
           UNCHANGED <<left, held, idx>>
    PROVE  ThreadTypeOK'
  BY IndexTypes DEF ThreadTypeOK, Goto

LEMMA TypeSubmit ==
    ASSUME TypeOK, NEW c \in Clients, NEW n \in Positive, NEW g \in Positive,
           NEW wake \in {"one", "all"}, Submit(c, n, g, wake)
    PROVE  TypeOK'
  <1>1. SharedTypeOK'
    <2>1. DispatchGroupCount(n, g) \in Nat
      BY GroupTypes
    <2> QED
      BY <2>1 DEF TypeOK, SharedTypeOK, Submit, dtorVars
  <1>2. ThreadTypeOK'
    BY IndexTypes, TypeGoto DEF TypeOK, ThreadTypeOK, Submit, ClientLabels
  <1>3. ClientTypeOK'
    <2>1. calls'[c] \in Nat
      BY DEF TypeOK, ClientTypeOK, Submit
    <2>2. {calls'[c]} \X (0 .. n - 1) \subseteq Nat \X Nat
      BY <2>1 DEF Positive
    <2> QED
      BY <2>2 DEF TypeOK, ClientTypeOK, Submit
  <1> QED
    BY <1>1, <1>2, <1>3 DEF TypeOK

LEMMA TypeStartWork ==
    ASSUME ThreadTypeOK, NEW t \in Threads, NEW q \in Queues,
           pc[t] # "run", StartWork(t, q), UNCHANGED <<held, idx>>
    PROVE  ThreadTypeOK'
  BY IndexTypes DEF ThreadTypeOK, StartWork, Goto, WorkerLabels, ClientLabels

LEMMA TypeWork ==
    ASSUME TypeOK, NEW t \in Threads, Work(t)
    PROVE  TypeOK'
  <1>1. CASE PopEmpty(t)
    <2>1. SharedTypeOK'
      BY <1>1 DEF TypeOK, SharedTypeOK, ThreadTypeOK, PopEmpty, dtorVars
    <2>2. ThreadTypeOK'
      <3>0. cursor[t] + 1 \in Nat
        BY IndexTypes DEF TypeOK, ThreadTypeOK
      <3>1. (cursor[t] + 1) % NumThreads \in Queues
        BY <3>0, ModTypes
      <3>2. cursor' \in [Threads -> Queues]
        BY <1>1, <3>1 DEF TypeOK, ThreadTypeOK, PopEmpty
      <3>3. left[t] \in 0 .. NumThreads /\ left[t] > 0
        BY <1>1 DEF TypeOK, ThreadTypeOK, PopEmpty
      <3>4. /\ left' \in [Threads -> 0 .. NumThreads]
            /\ left'[t] = left[t] - 1
            /\ \A u \in Threads \ {t} : left'[u] = left[u]
        <4>1. left[t] - 1 \in 0 .. NumThreads
          BY <3>3, IndexTypes
        <4> QED
          BY <1>1, <4>1 DEF TypeOK, ThreadTypeOK, PopEmpty
      <3>5. /\ pc'[t] = IF left[t] = 1 THEN AfterWork(t) ELSE "pop"
            /\ \A u \in Threads \ {t} : pc'[u] = pc[u]
            /\ pc' \in [Threads -> WorkerLabels \cup ClientLabels]
        BY <1>1 DEF TypeOK, ThreadTypeOK, PopEmpty, Goto, AfterWork, WorkerLabels, ClientLabels
      <3>6. /\ t \in Workers => pc'[t] \in WorkerLabels
            /\ t \in Clients => pc'[t] \in ClientLabels
            /\ pc'[t] # "run" /\ pc[t] # "run"
            /\ pc'[t] = "pop" => left'[t] > 0
        BY <1>1, <3>3, <3>4, <3>5, IndexTypes DEF AfterWork, WorkerLabels, ClientLabels, PopEmpty
      <3>7. \A u \in Threads : pc'[u] \in {"pop", "run"} => left'[u] > 0
        <4>1. \A u \in Threads : pc[u] \in {"pop", "run"} => left[u] > 0
          BY DEF TypeOK, ThreadTypeOK
        <4> SUFFICES ASSUME NEW u \in Threads, pc'[u] \in {"pop", "run"}
                     PROVE  left'[u] > 0
          OBVIOUS
        <4>2. CASE u = t
          BY <4>2, <3>6
        <4>3. CASE u # t
          BY <4>1, <4>3, <3>4, <3>5
        <4> QED
          BY <4>2, <4>3
      <3>8. /\ \A w \in Workers : pc'[w] \in WorkerLabels
            /\ \A c \in Clients : pc'[c] \in ClientLabels
        BY <3>5, <3>6, IndexTypes DEF TypeOK, ThreadTypeOK
      <3>9. /\ held' = held /\ idx' = idx
            /\ \A u \in Threads : held'[u] # NoJob <=> pc'[u] = "run"
        BY <1>1, <3>5, <3>6 DEF TypeOK, ThreadTypeOK, PopEmpty
      <3> QED
        BY <3>2, <3>4, <3>5, <3>7, <3>8, <3>9 DEF TypeOK, ThreadTypeOK
    <2>3. ClientTypeOK'
      BY <1>1 DEF TypeOK, ClientTypeOK, PopEmpty, clientVars, historyVars
    <2> QED
      BY <2>1, <2>2, <2>3 DEF TypeOK
  <1>2. CASE PopJob(t)
    <2>1. cursor[t] \in Queues /\ queue[cursor[t]] \in Seq(Job)
      BY DEF TypeOK, SharedTypeOK, ThreadTypeOK
    <2>2. /\ Head(queue[cursor[t]]) \in Job
          /\ Tail(queue[cursor[t]]) \in Seq(Job)
      BY <1>2, <2>1 DEF PopJob
    <2>6. Head(queue[cursor[t]]).lo \in Nat
      BY <2>2 DEF Job
    <2>3. SharedTypeOK'
      BY <1>2, <2>2 DEF TypeOK, SharedTypeOK, PopJob, dtorVars
    <2>4. ThreadTypeOK'
      BY <1>2, <2>2, <2>6, NoJobAssumption
      DEF TypeOK, ThreadTypeOK, PopJob, Goto, WorkerLabels, ClientLabels
    <2>5. ClientTypeOK'
      BY <1>2 DEF TypeOK, ClientTypeOK, PopJob, clientVars, historyVars
    <2> QED
      BY <2>3, <2>4, <2>5 DEF TypeOK
  <1>3. CASE RunIndex(t)
    <2>1. held[t] \in Job /\ idx[t] \in Nat
      BY <1>3 DEF TypeOK, ThreadTypeOK, RunIndex
    <2>2. <<held[t].call, idx[t]>> \in Nat \X Nat /\ held[t].ctx \in Clients
      BY <2>1 DEF Job
    <2>3. SharedTypeOK'
      BY <1>3 DEF TypeOK, SharedTypeOK, RunIndex, sharedVars, dtorVars
    <2>4. ThreadTypeOK'
      BY <1>3, <2>1 DEF TypeOK, ThreadTypeOK, RunIndex
    <2>5. ClientTypeOK'
      BY <1>3, <2>2 DEF TypeOK, ClientTypeOK, RunIndex, clientVars
    <2> QED
      BY <2>3, <2>4, <2>5 DEF TypeOK
  <1>4. CASE FinishJob(t)
    <2>1. held[t].ctx \in Clients
      BY <1>4 DEF TypeOK, ThreadTypeOK, FinishJob, Job
    <2>2. SharedTypeOK'
      BY <1>4, <2>1 DEF TypeOK, SharedTypeOK, FinishJob, dtorVars
    <2>3. ThreadTypeOK'
      BY <1>4 DEF TypeOK, ThreadTypeOK, FinishJob, Goto, WorkerLabels, ClientLabels
    <2>4. ClientTypeOK'
      BY <1>4 DEF TypeOK, ClientTypeOK, FinishJob, clientVars, historyVars
    <2> QED
      BY <2>2, <2>3, <2>4 DEF TypeOK
  <1> QED
    BY <1>1, <1>2, <1>3, <1>4 DEF Work

\* The steps of a client outside work().
LEMMA TypeClient ==
    ASSUME TypeOK, NEW c \in Clients,
           \/ PickQueue(c) \/ PushJob(c) \/ Notify(c)
           \/ WaitNotBusy(c) \/ WaitBusy(c) \/ WakeAll(c) \/ Help(c)
           \/ SpinDone(c) \/ Leave(c)
    PROVE  TypeOK'
  <1> USE DEF TypeOK
  <1>0. c \in Threads /\ c \notin Workers
    BY IndexTypes
  <1>1. CASE PickQueue(c)
    <2>0. nextQueue \in Nat /\ nextQueue + 1 \in Nat
      BY DEF SharedTypeOK
    <2>1. nextQueue % NumThreads \in Queues
      BY <2>0, ModTypes
    <2>2. (nextQueue + 1) % UintRange \in Nat
      BY <2>0, ModTypes
    <2>3. SharedTypeOK'
      BY <1>1, <2>2 DEF SharedTypeOK, PickQueue, NextQueueUp, dtorVars
    <2>4. cursor' \in [Threads -> Queues]
      BY <1>1, <2>1 DEF ThreadTypeOK, PickQueue
    <2>5. ThreadTypeOK'
      BY <1>0, <1>1, <2>4, TypeGoto DEF PickQueue, ClientLabels
    <2>6. ClientTypeOK'
      BY <1>1 DEF ClientTypeOK, PickQueue, clientVars, historyVars
    <2> QED
      BY <2>3, <2>5, <2>6
  <1>2. CASE PushJob(c)
    <2>1. sub[c].groupID \in Nat /\ cursor[c] \in Queues
      BY <1>0 DEF ClientTypeOK, ThreadTypeOK
    <2>2. GroupJob(c, sub[c].groupID) \in Job
      BY <2>1, GroupJobType
    <2>3. Append(queue[cursor[c]], GroupJob(c, sub[c].groupID)) \in Seq(Job)
      BY <2>1, <2>2 DEF SharedTypeOK
    <2>4. SharedTypeOK'
      BY <1>2, <2>1, <2>3 DEF SharedTypeOK, PushJob, dtorVars
    <2>5. ThreadTypeOK'
      <3> DEFINE label == IF sub[c].groupID + 1 < Groups(c) THEN "pick" ELSE "notify"
      <3>1. label \in {"pick", "notify"} /\ Goto(c, label)
        BY <1>2 DEF PushJob
      <3>2. cursor' \in [Threads -> Queues] /\ UNCHANGED <<left, held, idx>>
        BY <1>2 DEF ThreadTypeOK, PushJob
      <3>3. pc[c] # "run"
        BY <1>2 DEF PushJob
      <3> HIDE DEF label
      <3> QED
        BY <1>0, <3>1, <3>2, <3>3, TypeGoto DEF ClientLabels
    <2>6. ClientTypeOK'
      BY <1>2, <2>1 DEF ClientTypeOK, PushJob, NextGroup, historyVars
    <2> QED
      BY <2>4, <2>5, <2>6
  <1>3. CASE Notify(c)
    <2>1. SharedTypeOK'
      BY <1>3 DEF SharedTypeOK, Notify, dtorVars
    <2>2. ThreadTypeOK'
      <3>1. cursor' \in [Threads -> Queues]
        BY <1>3 DEF ThreadTypeOK, Notify
      <3> QED
        BY <1>0, <1>3, <3>1, TypeGoto DEF Notify, ClientLabels
    <2>3. ClientTypeOK'
      BY <1>3 DEF ClientTypeOK, Notify, NoCall, Positive, historyVars
    <2> QED
      BY <2>1, <2>2, <2>3
  <1>4. ASSUME Return(c), pc[c] \in {"idle", "spin"}
        PROVE  TypeOK'
    <2>1. SharedTypeOK'
      BY <1>4 DEF SharedTypeOK, Return, sharedVars, dtorVars
    <2>2. ThreadTypeOK'
      <3>1. cursor' \in [Threads -> Queues]
        BY <1>4 DEF ThreadTypeOK, Return
      <3> QED
        BY <1>0, <1>4, <3>1, TypeGoto DEF Return, ClientLabels
    <2>3. ClientTypeOK'
      BY <1>4 DEF ClientTypeOK, Return
    <2> QED
      BY <2>1, <2>2, <2>3
  <1>5. CASE WaitBusy(c) \/ WakeAll(c) \/ Leave(c)
    <2>1. SharedTypeOK'
      BY <1>5 DEF SharedTypeOK, WaitBusy, WakeAll, Leave, sharedVars, dtorVars
    <2>2. ThreadTypeOK'
      <3>1. cursor' \in [Threads -> Queues]
        BY <1>5 DEF ThreadTypeOK, WaitBusy, WakeAll, Leave
      <3> QED
        BY <1>0, <1>5, <3>1, TypeGoto DEF WaitBusy, WakeAll, Leave, ClientLabels
    <2>3. ClientTypeOK'
      BY <1>5 DEF ClientTypeOK, WaitBusy, WakeAll, Leave, clientVars, historyVars
    <2> QED
      BY <2>1, <2>2, <2>3
  <1>6. CASE Help(c)
    <2>0. nextQueue \in Nat /\ nextQueue + 1 \in Nat
      BY DEF SharedTypeOK
    <2>1. nextQueue % NumThreads \in Queues
      BY <2>0, ModTypes
    <2>2. (nextQueue + 1) % UintRange \in Nat
      BY <2>0, ModTypes
    <2>3. SharedTypeOK'
      BY <1>6, <2>2 DEF SharedTypeOK, Help, NextQueueUp, dtorVars
    <2>4. ThreadTypeOK'
      BY <1>0, <1>6, <2>1, TypeStartWork DEF Help
    <2>5. ClientTypeOK'
      BY <1>6 DEF ClientTypeOK, Help, clientVars, historyVars
    <2> QED
      BY <2>3, <2>4, <2>5
  <1> QED
    BY <1>1, <1>2, <1>3, <1>4, <1>5, <1>6 DEF WaitNotBusy, SpinDone

\* The steps of a worker outside work(), and of the destructor.
LEMMA TypeWorker ==
    ASSUME TypeOK, NEW w \in Workers,
           CheckAlive(w) \/ Sleep(w) \/ WakeUp(w) \/ SpuriousWakeUp(w)
    PROVE  TypeOK'
  <1> USE DEF TypeOK
  <1>0. w \in Threads /\ w \in Queues /\ w \notin Clients
    BY IndexTypes
  <1>1. SharedTypeOK'
    BY DEF SharedTypeOK, CheckAlive, Sleep, WakeUp, SpuriousWakeUp, sharedVars, dtorVars
  <1>2. ClientTypeOK'
    BY DEF ClientTypeOK, CheckAlive, Sleep, WakeUp, SpuriousWakeUp, clientVars, historyVars
  <1>3. CASE CheckAlive(w)
    <2>1. CASE StartWork(w, w)
      BY <1>0, <1>1, <1>2, <1>3, <2>1, TypeStartWork DEF CheckAlive
    <2>2. CASE Goto(w, "exited") /\ UNCHANGED <<cursor, left>>
      <3>1. cursor' \in [Threads -> Queues]
        BY <2>2 DEF ThreadTypeOK
      <3> QED
        BY <1>0, <1>1, <1>2, <1>3, <2>2, <3>1, TypeGoto DEF CheckAlive, WorkerLabels
    <2> QED
      BY <1>3, <2>1, <2>2 DEF CheckAlive
  <1>4. CASE Sleep(w) \/ WakeUp(w)
    <2>1. cursor' \in [Threads -> Queues]
      BY <1>4 DEF ThreadTypeOK, Sleep, WakeUp
    <2> QED
      BY <1>0, <1>1, <1>2, <1>4, <2>1, TypeGoto DEF Sleep, WakeUp, WorkerLabels
  <1>5. CASE SpuriousWakeUp(w)
    BY <1>1, <1>2, <1>5 DEF SpuriousWakeUp, ThreadTypeOK, threadVars
  <1> QED
    BY <1>3, <1>4, <1>5

LEMMA TypeStop ==
    ASSUME TypeOK, Stop
    PROVE  TypeOK'
  <1> USE DEF TypeOK
  <1>1. SharedTypeOK'
    <2>1. CASE StopAlive \/ StopNotify
      BY <2>1 DEF SharedTypeOK, StopAlive, StopNotify, sharedVars
    <2>2. CASE StopDrain
      <3>1. drained \in Nat /\ drained < NumThreads
        BY <2>2 DEF SharedTypeOK, StopDrain
      <3>2. drained + 1 \in 0 .. NumThreads
            /\ (drained + 1 # NumThreads => drained + 1 < NumThreads)
        BY <3>1, IndexTypes
      <3> QED
        BY <2>2, <3>2 DEF SharedTypeOK, StopDrain, sharedVars
    <2> QED
      BY <2>1, <2>2 DEF Stop
  <1>2. ThreadTypeOK'
    BY DEF ThreadTypeOK, Stop, StopAlive, StopNotify, StopDrain, threadVars
  <1>3. ClientTypeOK'
    BY DEF ClientTypeOK, Stop, StopAlive, StopNotify, StopDrain, clientVars, historyVars
  <1> QED
    BY <1>1, <1>2, <1>3

\* The arguments of a submission are positive and do not overflow.
LEMMA SubmitCases ==
    ASSUME NEW c \in Clients, Execute(c) \/ Dispatch(c)
    PROVE  \E n, g \in Positive, wake \in {"one", "all"} :
              NoOverflow(n, g) /\ Submit(c, n, g, wake)
  <1>1. CASE Execute(c)
    <2>1. 1 \in Positive /\ NoOverflow(1, 1)
      BY ConstantsAssumption, UintRangeAssumption DEF Positive, NoOverflow
    <2> QED
      BY <1>1, <2>1 DEF Execute
  <1>2. CASE Dispatch(c)
    <2>1. PICK n \in JobCounts, g \in GroupSizes : NoOverflow(n, g) /\ Submit(c, n, g, "all")
      BY <1>2 DEF Dispatch
    <2>2. n \in Positive /\ g \in Positive
      BY ConstantsAssumption
    <2> QED
      BY <2>1, <2>2
  <1> QED
    BY <1>1, <1>2

\* Every step is one of these.
LEMMA StepCases ==
    ASSUME Next
    PROVE  \/ \E c \in Clients : Execute(c) \/ Dispatch(c)
           \/ \E c \in Clients :
                \/ PickQueue(c) \/ PushJob(c) \/ Notify(c)
                \/ WaitNotBusy(c) \/ WaitBusy(c) \/ WakeAll(c) \/ Help(c)
                \/ SpinDone(c) \/ Leave(c)
           \/ \E t \in Threads : Work(t)
           \/ \E w \in Workers :
                CheckAlive(w) \/ Sleep(w) \/ WakeUp(w) \/ SpuriousWakeUp(w)
           \/ Stop
           \/ UNCHANGED vars
  BY DEF Next, ClientStep, WorkerStep, Ended, Threads

LEMMA TypeStep ==
    ASSUME TypeOK, [Next]_vars
    PROVE  TypeOK'
  <1>1. CASE \E c \in Clients : Execute(c) \/ Dispatch(c)
    BY <1>1, SubmitCases, TypeSubmit
  <1>2. CASE UNCHANGED vars
    BY <1>2 DEF TypeOK, SharedTypeOK, ThreadTypeOK, ClientTypeOK, vars, sharedVars,
                dtorVars, threadVars, clientVars, historyVars
  <1> QED
    BY <1>1, <1>2, StepCases, TypeClient, TypeWork, TypeWorker, TypeStop

\* The type invariant holds in every reachable state, for every number of
\* threads and clients.
THEOREM TypeCorrect == Spec => []TypeOK
  <1>1. Init => TypeOK
    BY TypeInit
  <1>2. TypeOK /\ [Next]_vars => TypeOK'
    BY TypeStep
  <1> QED
    BY <1>1, <1>2, PTL DEF Spec
-----------------------------------------------------------------------------
(***************************************************************************)
(* The counter of a context is exact                                       *)
(***************************************************************************)
\* What push_back does to the set of jobs in a queue.
LEMMA ElemsAppend ==
    ASSUME NEW S, NEW s \in Seq(S), NEW e \in S, e \notin Elems(s),
           \A i, j \in DOMAIN s : s[i] = s[j] => i = j
    PROVE  /\ Elems(Append(s, e)) = Elems(s) \cup {e}
           /\ \A i, j \in DOMAIN Append(s, e) :
                Append(s, e)[i] = Append(s, e)[j] => i = j
  <1> DEFINE r == Append(s, e)
  <1>1. Len(s) \in Nat /\ DOMAIN s = 1 .. Len(s) /\ DOMAIN r = 1 .. Len(s) + 1
    OBVIOUS
  <1>2. /\ \A i \in 1 .. Len(s) : r[i] = s[i]
        /\ r[Len(s) + 1] = e
    OBVIOUS
  <1> HIDE DEF r
  <1>3. \A i \in DOMAIN r : i \in DOMAIN s \/ i = Len(s) + 1
    BY <1>1
  <1>4. DOMAIN s \subseteq DOMAIN r /\ Len(s) + 1 \in DOMAIN r
    BY <1>1
  <1>5. Elems(r) = Elems(s) \cup {e}
    BY <1>1, <1>2, <1>3, <1>4 DEF Elems
  <1>6. \A i \in DOMAIN s : s[i] # e
    BY DEF Elems
  <1>7. \A i, j \in DOMAIN r : r[i] = r[j] => i = j
    BY <1>1, <1>2, <1>3, <1>6
  <1> QED
    BY <1>5, <1>7 DEF r

\* What pop_front does to the set of jobs in a queue.
LEMMA ElemsTail ==
    ASSUME NEW S, NEW s \in Seq(S), s # <<>>,
           \A i, j \in DOMAIN s : s[i] = s[j] => i = j
    PROVE  /\ Head(s) \in Elems(s)
           /\ Elems(Tail(s)) = Elems(s) \ {Head(s)}
           /\ \A i, j \in DOMAIN Tail(s) : Tail(s)[i] = Tail(s)[j] => i = j
  <1> DEFINE r == Tail(s)
  <1>1. /\ Len(s) \in Nat /\ Len(s) > 0
        /\ DOMAIN s = 1 .. Len(s)
        /\ DOMAIN r = 1 .. Len(s) - 1
    OBVIOUS
  <1>2. /\ \A i \in 1 .. Len(s) - 1 : r[i] = s[i + 1]
        /\ Head(s) = s[1]
    OBVIOUS
  <1> HIDE DEF r
  <1>3. \A i \in DOMAIN r : i + 1 \in DOMAIN s /\ i + 1 # 1 /\ r[i] = s[i + 1]
    BY <1>1, <1>2
  <1>4. \A i \in DOMAIN s : i # 1 => i - 1 \in DOMAIN r /\ r[i - 1] = s[i]
    BY <1>1, <1>2
  <1>5. 1 \in DOMAIN s
    BY <1>1
  <1>6. Elems(r) \subseteq Elems(s) \ {Head(s)}
    BY <1>2, <1>3, <1>5 DEF Elems
  <1>7. Elems(s) \ {Head(s)} \subseteq Elems(r)
    BY <1>2, <1>4 DEF Elems
  <1>8. \A i, j \in DOMAIN r : r[i] = r[j] => i = j
    BY <1>1, <1>3
  <1> QED
    BY <1>2, <1>5, <1>6, <1>7, <1>8 DEF r, Elems

\* Queued, Held and Outstanding without the set comprehensions.
LEMMA Members ==
    ASSUME NEW c \in Clients, NEW j
    PROVE  /\ j \in Queued(c) <=> j.ctx = c /\ \E q \in Queues : j \in Elems(queue[q])
           /\ j \in Held(c) <=> j.ctx = c /\ j # NoJob /\ \E t \in Threads : j = held[t]
           /\ j \in Outstanding(c) <=> j \in Unpushed(c) \/ j \in Queued(c) \/ j \in Held(c)
  BY DEF Queued, Held, Outstanding

\* The groups of one call are different jobs, as many as its group count.
CallJobs(c, call, n, g) ==
    {[ctx |-> c, call |-> call, lo |-> GroupJobOffset(g, k),
      hi |-> GroupJobEnd(n, g, k)] : k \in GroupIDs(n, g)}

LEMMA GroupsCounted ==
    ASSUME NEW n \in Positive, NEW g \in Positive, NoOverflow(n, g),
           NEW c, NEW call
    PROVE  /\ IsFiniteSet(CallJobs(c, call, n, g))
           /\ Cardinality(CallJobs(c, call, n, g)) = DispatchGroupCount(n, g)
  <1> DEFINE job(k) == [ctx |-> c, call |-> call, lo |-> GroupJobOffset(g, k),
                        hi |-> GroupJobEnd(n, g, k)]
             f == [k \in GroupIDs(n, g) |-> job(k)]
             m == DispatchGroupCount(n, g)
             J == CallJobs(c, call, n, g)
  <1>1. m \in Nat
    BY GroupRanges DEF Positive
  <1>2. IsFiniteSet(GroupIDs(n, g)) /\ Cardinality(GroupIDs(n, g)) = m
    <2>1. 0 \in Int /\ m - 1 \in Int
      BY <1>1
    <2>2. m > 0
      BY GroupRanges DEF Positive
    <2> HIDE DEF m
    <2> QED
      BY <1>1, <2>1, <2>2, FS_Interval DEF GroupIDs, m
  <1>3. \A k, l \in GroupIDs(n, g) : job(k) = job(l) => k = l
    <2> SUFFICES ASSUME NEW k \in GroupIDs(n, g), NEW l \in GroupIDs(n, g), job(k) = job(l)
                 PROVE  k = l
      OBVIOUS
    <2>1. job(k).lo = job(l).lo
      OBVIOUS
    <2>2. GroupJobOffset(g, k) = GroupJobOffset(g, l)
      BY <2>1
    <2>3. /\ k \in Nat /\ l \in Nat
          /\ k * g = l * g
      BY <2>2, GroupRanges
    <2>4. k * g \in Nat /\ l * g \in Nat
      BY <2>3 DEF Positive
    <2>5. ~(k < l) /\ ~(l < k)
      BY <2>3, <2>4, MulMonotonic DEF Positive
    <2> QED
      BY <2>3, <2>5
  <1>4. f \in Bijection(GroupIDs(n, g), J)
    <2>1. J = {job(k) : k \in GroupIDs(n, g)}
      BY DEF CallJobs
    <2> HIDE DEF job, J
    <2>2. f \in [GroupIDs(n, g) -> J] /\ \A k \in GroupIDs(n, g) : f[k] = job(k)
      BY <2>1
    <2>3. \A j \in J : \E k \in GroupIDs(n, g) : f[k] = j
      BY <2>1, <2>2
    <2> HIDE DEF f
    <2> QED
      BY <1>3, <2>2, <2>3 DEF Bijection, Injection, IsInjective, Surjection
  <1>5. ExistsBijection(GroupIDs(n, g), J)
    BY <1>4 DEF ExistsBijection
  <1> QED
    BY <1>2, <1>5, FS_Bijection

LEMMA OutstandingType ==
    ASSUME TypeOK, CallOK, NEW c \in Clients
    PROVE  Outstanding(c) \subseteq Job
  <1>1. \A q \in Queues : Elems(queue[q]) \subseteq Job
    BY DEF TypeOK, SharedTypeOK, Elems
  <1>2. \A t \in Threads : held[t] = NoJob \/ held[t] \in Job
    BY DEF TypeOK, ThreadTypeOK
  <1>3. Unpushed(c) \subseteq Job
    <2>1. \A k \in sub[c].groupID .. Groups(c) - 1 : k \in Nat
      BY GroupTypes DEF TypeOK, ClientTypeOK, Groups
    <2> QED
      BY <2>1, GroupJobType DEF TypeOK, Unpushed
  <1> QED
    BY <1>1, <1>2, <1>3, Members

\* A step that leaves the queues, the held jobs, the counters and the calls
\* alone, and no client's unpushed groups, preserves the invariant.
LEMMA CounterFrame ==
    ASSUME CounterInv, TypeOK', CallOK',
           UNCHANGED <<queue, held, counter, calls>>,
           \A c \in Clients : Unpushed(c)' = Unpushed(c)
    PROVE  CounterInv' /\ \A c \in Clients : Outstanding(c)' = Outstanding(c)
  <1>1. \A c \in Clients : /\ Queued(c)' = Queued(c)
                           /\ Held(c)' = Held(c)
                           /\ Outstanding(c)' = Outstanding(c)
    BY DEF Queued, Held, Outstanding
  <1>2. PlacesApart'
    BY DEF CounterInv, PlacesApart
  <1>3. CallsMade'
    BY <1>1 DEF CounterInv, CallsMade
  <1>4. \A c \in Clients : IsFiniteSet(Outstanding(c)')
    BY <1>1 DEF CounterInv
  <1>5. CounterExact'
    BY <1>1 DEF CounterInv, CounterExact
  <1> QED
    BY <1>1, <1>2, <1>3, <1>4, <1>5 DEF CounterInv

LEMMA CounterInit == Init => CounterInv
  <1> SUFFICES ASSUME Init PROVE CounterInv
    OBVIOUS
  <1>1. \A c \in Clients : c \in Threads /\ pc[c] = "idle"
    BY IndexTypes DEF Init
  <1>2. \A c \in Clients : Unpushed(c) = {}
    BY <1>1 DEF Unpushed
  <1>3. \A q \in Queues : queue[q] = <<>> /\ Elems(queue[q]) = {}
    BY DEF Init, Elems
  <1>4. \A t \in Threads : held[t] = NoJob
    BY DEF Init
  <1>5. \A c \in Clients : Outstanding(c) = {}
    BY <1>2, <1>3, <1>4 DEF Queued, Held, Outstanding
  <1>6. PlacesApart
    <2>1. \A q \in Queues : DOMAIN queue[q] = {}
      BY <1>3
    <2>2. \A q \in Queues : \A i, j \in DOMAIN queue[q] :
            queue[q][i] = queue[q][j] => i = j
      BY <2>1
    <2> QED
      BY <1>2, <1>3, <1>4, <2>2 DEF PlacesApart
  <1>7. CallOK
    BY <1>1 DEF CallOK
  <1>8. CallsMade
    BY <1>5 DEF CallsMade
  <1>9. CounterExact /\ \A c \in Clients : IsFiniteSet(Outstanding(c))
    BY <1>5, FS_EmptySet DEF CounterExact, Init
  <1> QED
    BY <1>6, <1>7, <1>8, <1>9, TypeInit DEF CounterInv

\* Execute or Dispatch adds as many jobs as it adds to the counter.
LEMMA CounterSubmit ==
    ASSUME CounterInv, TypeOK', NEW c \in Clients, NEW n \in Positive, NEW g \in Positive,
           NEW wake \in {"one", "all"}, NoOverflow(n, g), Submit(c, n, g, wake)
    PROVE  /\ CounterInv'
           /\ Outstanding(c)' = Outstanding(c) \cup CallJobs(c, calls[c] + 1, n, g)
           /\ \A d \in Clients \ {c} : Outstanding(d)' = Outstanding(d)
  <1> DEFINE J == {GroupJob(c, k)' : k \in GroupIDs(n, g)}
             m == DispatchGroupCount(n, g)
  <1>1. /\ c \in Threads /\ pc[c] = "idle" /\ pc'[c] = "pick"
        /\ \A d \in Clients \ {c} : pc'[d] = pc[d] /\ sub'[d] = sub[d] /\ calls'[d] = calls[d]
        /\ calls[c] \in Nat /\ calls'[c] = calls[c] + 1
        /\ sub'[c] = [jobCount |-> n, groupSize |-> g, groupID |-> 0, wake |-> wake]
        /\ queue' = queue /\ held' = held
    BY IndexTypes DEF CounterInv, TypeOK, ThreadTypeOK, ClientTypeOK, Submit, Goto
  <1>2. Unpushed(c) = {} /\ Unpushed(c)' = J
    <2>1. Groups(c)' = m
      BY <1>1 DEF Groups
    <2> QED
      BY <1>1, <2>1 DEF Unpushed, GroupIDs
  <1>3. \A d \in Clients \ {c} : Unpushed(d)' = Unpushed(d)
    <2> SUFFICES ASSUME NEW d \in Clients \ {c} PROVE Unpushed(d)' = Unpushed(d)
      OBVIOUS
    <2>1. pc'[d] = pc[d] /\ sub'[d] = sub[d] /\ calls'[d] = calls[d]
      BY <1>1
    <2>2. Groups(d)' = Groups(d)
      BY <2>1 DEF Groups
    <2>3. \A k : GroupJob(d, k)' = GroupJob(d, k)
      BY <2>1 DEF GroupJob
    <2> QED
      BY <2>1, <2>2, <2>3 DEF Unpushed
  <1>4. \A d \in Clients : Queued(d)' = Queued(d) /\ Held(d)' = Held(d)
    BY <1>1 DEF Queued, Held
  <1>5. \A j \in J : j.ctx = c /\ j.call = calls[c] + 1
    BY <1>1 DEF GroupJob
  <1>6. \A j \in J : j \notin Outstanding(c)
    BY <1>1, <1>5 DEF CounterInv, CallsMade
  <1>7. \A j \in J : \A q \in Queues : j \notin Elems(queue[q])
    BY <1>5, <1>6, Members
  <1>8. \A j \in J : j \in Job
    <2>1. \A k \in GroupIDs(n, g) : k \in Nat
      BY GroupRanges
    <2> QED
      BY <2>1, GroupTypes, <1>1 DEF GroupJob, Job
  <1>9. \A j \in J : \A t \in Threads : j # held[t]
    <2> SUFFICES ASSUME NEW j \in J, NEW t \in Threads, j = held[t] PROVE FALSE
      OBVIOUS
    <2>1. j.ctx = c /\ j \notin Outstanding(c) /\ j # NoJob
      BY <1>5, <1>6, <1>8, NoJobAssumption
    <2> HIDE DEF J
    <2> QED
      BY <2>1, Members
  <1>10. /\ J = CallJobs(c, calls[c] + 1, n, g)
         /\ IsFiniteSet(J) /\ Cardinality(J) = m
    <2>1. J = CallJobs(c, calls[c] + 1, n, g)
      BY <1>1 DEF GroupJob, CallJobs
    <2> HIDE DEF J
    <2> QED
      BY <2>1, GroupsCounted
  <1> HIDE DEF J
  <1>11. PlacesApart'
    <2>1. \A d \in Clients, q \in Queues : Unpushed(d)' \cap Elems(queue'[q]) = {}
      BY <1>1, <1>2, <1>3, <1>7 DEF CounterInv, PlacesApart
    <2>2. \A d \in Clients, t \in Threads : held'[t] \notin Unpushed(d)'
      BY <1>1, <1>2, <1>3, <1>9 DEF CounterInv, PlacesApart
    <2> QED
      BY <1>1, <2>1, <2>2 DEF CounterInv, PlacesApart
  <1>12. Outstanding(c)' = Outstanding(c) \cup J
    BY <1>2, <1>4 DEF Outstanding
  <1>13. \A d \in Clients \ {c} : Outstanding(d)' = Outstanding(d)
    BY <1>3, <1>4 DEF Outstanding
  <1>14. CallsMade'
    <2>1. \A j \in Outstanding(c)' : j.call <= calls'[c]
      <3> SUFFICES ASSUME NEW j \in Outstanding(c)' PROVE j.call <= calls'[c]
        OBVIOUS
      <3>1. CASE j \in J
        BY <3>1, <1>1, <1>5
      <3>2. CASE j \in Outstanding(c)
        <4>1. j \in Job
          BY <3>2, OutstandingType DEF CounterInv
        <4>2. j.call \in Nat /\ j.call <= calls[c]
          BY <3>2, <4>1 DEF CounterInv, CallsMade, Job
        <4> QED
          BY <4>2, <1>1
      <3> QED
        BY <1>12, <3>1, <3>2
    <2>2. \A d \in Clients \ {c} : \A j \in Outstanding(d)' : j.call <= calls'[d]
      BY <1>1, <1>13 DEF CounterInv, CallsMade
    <2> QED
      BY <2>1, <2>2 DEF CallsMade
  <1>15. CallOK'
    <2>1. Groups(c)' = m /\ m > 0 /\ sub'[c].groupID = 0
      BY <1>1, GroupRanges DEF Groups, Positive
    <2>2. \A d \in Clients \ {c} : Groups(d)' = Groups(d)
      BY <1>1 DEF Groups
    <2> QED
      BY <1>1, <2>1, <2>2 DEF CounterInv, CallOK
  <1>16. /\ IsFiniteSet(Outstanding(c)')
         /\ Cardinality(Outstanding(c)') = Cardinality(Outstanding(c)) + m
    <2>1. IsFiniteSet(Outstanding(c)) /\ Outstanding(c) \cap J = {}
      BY <1>6 DEF CounterInv
    <2>2. Cardinality(Outstanding(c)) \in Nat /\ m \in Nat
      BY <2>1, FS_CardinalityType, GroupRanges DEF Positive
    <2>3. /\ IsFiniteSet(Outstanding(c) \cup J)
          /\ Cardinality(Outstanding(c) \cup J) =
               Cardinality(Outstanding(c)) + Cardinality(J) - Cardinality({})
      BY <1>10, <2>1, FS_Union
    <2> QED
      BY <1>10, <1>12, <2>2, <2>3, FS_EmptySet
  <1>17. CounterExact' /\ \A d \in Clients : IsFiniteSet(Outstanding(d)')
    <2>1. counter'[c] = counter[c] + m /\ \A d \in Clients \ {c} : counter'[d] = counter[d]
      BY DEF Submit, CounterInv, TypeOK, SharedTypeOK
    <2> QED
      BY <1>13, <1>16, <2>1 DEF CounterInv, CounterExact
  <1> QED
    BY <1>10, <1>11, <1>12, <1>13, <1>14, <1>15, <1>17 DEF CounterInv

\* push_back moves one group of the running call into a queue.
LEMMA CounterPush ==
    ASSUME CounterInv, TypeOK', NEW c \in Clients, PushJob(c)
    PROVE  CounterInv' /\ \A d \in Clients : Outstanding(d)' = Outstanding(d)
  <1> DEFINE k == sub[c].groupID
             j == GroupJob(c, k)
             p == cursor[c]
             G == Groups(c)
  <1>1. /\ c \in Threads /\ p \in Queues /\ k \in Nat /\ k < G /\ G \in Nat
        /\ NoOverflow(sub[c].jobCount, sub[c].groupSize)
        /\ sub[c].jobCount \in Positive /\ sub[c].groupSize \in Positive
        /\ pc[c] = "push"
    <2>1. c \in Threads
      BY IndexTypes
    <2>2. sub[c].jobCount \in Positive /\ sub[c].groupSize \in Positive /\ k \in Nat
      BY DEF CounterInv, TypeOK, ClientTypeOK
    <2>3. G \in Nat
      BY <2>2, GroupTypes DEF Groups
    <2> QED
      BY <2>1, <2>2, <2>3 DEF CounterInv, TypeOK, ThreadTypeOK, CallOK, PushJob
  <1>2. /\ queue' = [queue EXCEPT ![p] = Append(queue[p], j)]
        /\ pc' = [pc EXCEPT ![c] = IF k + 1 < G THEN "pick" ELSE "notify"]
        /\ sub' = [sub EXCEPT ![c] = NextGroup(sub[c])]
        /\ held' = held /\ calls' = calls /\ counter' = counter
    BY DEF PushJob, Goto
  <1>3. /\ sub'[c].jobCount = sub[c].jobCount
        /\ sub'[c].groupSize = sub[c].groupSize
        /\ sub'[c].groupID = k + 1
        /\ Groups(c)' = G
        /\ \A i : GroupJob(c, i)' = GroupJob(c, i)
    <2>1. sub'[c] = NextGroup(sub[c])
      BY <1>2 DEF CounterInv, TypeOK, ClientTypeOK
    <2>2. /\ sub'[c].jobCount = sub[c].jobCount
          /\ sub'[c].groupSize = sub[c].groupSize
          /\ sub'[c].groupID = k + 1
      BY <2>1 DEF NextGroup
    <2> QED
      BY <1>2, <2>2 DEF Groups, GroupJob
  <1>4. \A d \in Clients \ {c} : /\ pc'[d] = pc[d] /\ sub'[d] = sub[d]
                               /\ Unpushed(d)' = Unpushed(d)
    <2> SUFFICES ASSUME NEW d \in Clients \ {c}
                 PROVE  pc'[d] = pc[d] /\ sub'[d] = sub[d] /\ Unpushed(d)' = Unpushed(d)
      OBVIOUS
    <2>1. pc'[d] = pc[d] /\ sub'[d] = sub[d] /\ calls'[d] = calls[d] /\ d \in Threads
      BY <1>2, IndexTypes DEF CounterInv, TypeOK, ThreadTypeOK, ClientTypeOK
    <2>2. Groups(d)' = Groups(d) /\ \A i : GroupJob(d, i)' = GroupJob(d, i)
      BY <2>1 DEF Groups, GroupJob
    <2> QED
      BY <2>1, <2>2 DEF Unpushed
  <1>5. Unpushed(c) = {GroupJob(c, i) : i \in k .. G - 1}
    BY <1>1 DEF Unpushed
  <1>6. \A i \in k + 1 .. G - 1 : GroupJob(c, i) # j
    <2> SUFFICES ASSUME NEW i \in k + 1 .. G - 1, GroupJob(c, i).lo = j.lo PROVE FALSE
      OBVIOUS
    <2> DEFINE n == sub[c].jobCount
               g == sub[c].groupSize
    <2>1. i \in GroupIDs(n, g) /\ k \in GroupIDs(n, g)
      BY <1>1 DEF GroupIDs, Groups
    <2>2. i * g = k * g
      BY <1>1, <2>1, GroupRanges DEF GroupJob
    <2>3. i \in Nat /\ k < i /\ k * g + g <= i * g
      BY <1>1, MulMonotonic
    <2>4. i * g \in Nat /\ k * g \in Nat /\ g \in Positive
      BY <1>1, <2>3 DEF Positive
    <2> QED
      BY <2>2, <2>3, <2>4 DEF Positive
  <1>7. Unpushed(c)' = Unpushed(c) \ {j} /\ j \in Unpushed(c)
    <2>1. pc'[c] = IF k + 1 < G THEN "pick" ELSE "notify"
      BY <1>1, <1>2 DEF CounterInv, TypeOK, ThreadTypeOK
    <2>2. Unpushed(c)' = {GroupJob(c, i) : i \in k + 1 .. G - 1}
      <3>1. CASE k + 1 < G
        BY <1>3, <2>1, <3>1 DEF Unpushed
      <3>2. CASE ~(k + 1 < G)
        <4>1. k + 1 .. G - 1 = {}
          BY <1>1, <3>2
        <4> QED
          BY <2>1, <3>2, <4>1 DEF Unpushed
      <3> QED
        BY <3>1, <3>2
    <2>3. k .. G - 1 = {k} \cup (k + 1 .. G - 1)
      BY <1>1
    <2> HIDE DEF k, G
    <2> QED
      BY <1>5, <1>6, <2>2, <2>3
  <1>8. j \in Job
    BY <1>1, GroupJobType DEF CounterInv, TypeOK
  <1> HIDE DEF j, k, p, G
  <1>9. /\ \A q \in Queues : j \notin Elems(queue[q])
        /\ \A t \in Threads : held[t] # j
        /\ \A d \in Clients \ {c} : j \notin Unpushed(d)
    <2>1. \A d \in Clients \ {c} : j \notin Unpushed(d)
      BY DEF Unpushed, GroupJob, j
    <2> QED
      BY <1>7, <2>1 DEF CounterInv, PlacesApart
  <1>10. /\ \A q \in Queues : Elems(queue'[q]) = Elems(queue[q]) \cup (IF q = p THEN {j} ELSE {})
         /\ \A q \in Queues : \A a, b \in DOMAIN queue'[q] : queue'[q][a] = queue'[q][b] => a = b
    <2>1. queue[p] \in Seq(Job) /\ \A a, b \in DOMAIN queue[p] : queue[p][a] = queue[p][b] => a = b
      BY <1>1 DEF CounterInv, TypeOK, SharedTypeOK, PlacesApart
    <2>2. /\ Elems(Append(queue[p], j)) = Elems(queue[p]) \cup {j}
          /\ \A a, b \in DOMAIN Append(queue[p], j) :
                Append(queue[p], j)[a] = Append(queue[p], j)[b] => a = b
      BY <1>1, <1>8, <1>9, <2>1, ElemsAppend
    <2>3. \A q \in Queues : queue'[q] = IF q = p THEN Append(queue[p], j) ELSE queue[q]
      BY <1>1, <1>2 DEF CounterInv, TypeOK, SharedTypeOK
    <2>4. \A q \in Queues : \A a, b \in DOMAIN queue[q] : queue[q][a] = queue[q][b] => a = b
      BY DEF CounterInv, PlacesApart
    <2> QED
      BY <2>2, <2>3, <2>4
  <1>11. PlacesApart'
    <2>1. \A q, r \in Queues : q # r => Elems(queue'[q]) \cap Elems(queue'[r]) = {}
      BY <1>9, <1>10 DEF CounterInv, PlacesApart
    <2>2. \A t \in Threads, q \in Queues : held'[t] \notin Elems(queue'[q])
      BY <1>2, <1>9, <1>10, SMTT(20) DEF CounterInv, PlacesApart
    <2>3. \A d \in Clients, q \in Queues : Unpushed(d)' \cap Elems(queue'[q]) = {}
      BY <1>4, <1>7, <1>9, <1>10 DEF CounterInv, PlacesApart
    <2>4. \A d \in Clients, t \in Threads : held'[t] \notin Unpushed(d)'
      BY <1>2, <1>4, <1>7 DEF CounterInv, PlacesApart
    <2>5. \A t, u \in Threads : held'[t] # NoJob /\ held'[t] = held'[u] => t = u
      BY <1>2 DEF CounterInv, PlacesApart
    <2> QED
      BY <1>10, <2>1, <2>2, <2>3, <2>4, <2>5 DEF PlacesApart
  <1>12. \A d \in Clients : Outstanding(d)' = Outstanding(d)
    <2> SUFFICES ASSUME NEW d \in Clients PROVE Outstanding(d)' = Outstanding(d)
      OBVIOUS
    <2>1. Held(d)' = Held(d)
      BY <1>2 DEF Held
    <2>2. j.ctx = c
      BY DEF j, GroupJob
    <2>3. \A x : x \in Queued(d)' <=>
                   x.ctx = d /\ \E q \in Queues : x \in Elems(queue'[q])
      BY DEF Queued
    <2>5. \A x : (\E q \in Queues : x \in Elems(queue'[q])) <=>
                   x = j \/ \E q \in Queues : x \in Elems(queue[q])
      BY <1>1, <1>10
    <2>6. \A x : x \in Queued(d)' <=> x \in Queued(d) \/ (x = j /\ d = c)
      BY <2>2, <2>3, <2>5, Members
    <2>4. Queued(d)' = Queued(d) \cup (IF d = c THEN {j} ELSE {})
      BY <2>6
    <2> QED
      BY <1>4, <1>7, <2>1, <2>4 DEF Outstanding
  <1>13. CallOK'
    <2>1. pc'[c] \in {"pick", "push"} => k + 1 < G
      BY <1>1, <1>2 DEF CounterInv, TypeOK, ThreadTypeOK
    <2>2. \A d \in Clients \ {c} : Groups(d)' = Groups(d)
      BY <1>4 DEF Groups
    <2> QED
      BY <1>1, <1>3, <1>4, <2>1, <2>2 DEF CounterInv, CallOK
  <1>14. CallsMade' /\ CounterExact' /\ \A d \in Clients : IsFiniteSet(Outstanding(d)')
    BY <1>2, <1>12 DEF CounterInv, CallsMade, CounterExact
  <1> QED
    BY <1>11, <1>12, <1>13, <1>14 DEF CounterInv

\* pop_front moves the job at the head of a queue to the thread.
LEMMA CounterPop ==
    ASSUME CounterInv, TypeOK', NEW t \in Threads, PopJob(t)
    PROVE  CounterInv' /\ \A d \in Clients : Outstanding(d)' = Outstanding(d)
  <1> DEFINE p == cursor[t]
             j == Head(queue[p])
  <1>1. /\ p \in Queues /\ queue[p] \in Seq(Job) /\ queue[p] # <<>>
        /\ held[t] = NoJob
    BY DEF CounterInv, TypeOK, SharedTypeOK, ThreadTypeOK, PopJob
  <1>2. /\ queue' = [queue EXCEPT ![p] = Tail(queue[p])]
        /\ held' = [held EXCEPT ![t] = j]
        /\ pc' = [pc EXCEPT ![t] = "run"] /\ pc[t] = "pop"
        /\ sub' = sub /\ calls' = calls /\ counter' = counter
    BY DEF PopJob, Goto, clientVars
  <1>3. \A d \in Clients : /\ pc'[d] \in {"pick", "push"} <=> pc[d] \in {"pick", "push"}
                           /\ Groups(d)' = Groups(d)
                           /\ \A i : GroupJob(d, i)' = GroupJob(d, i)
                           /\ Unpushed(d)' = Unpushed(d)
    <2> SUFFICES ASSUME NEW d \in Clients
                 PROVE  /\ pc'[d] \in {"pick", "push"} <=> pc[d] \in {"pick", "push"}
                        /\ Groups(d)' = Groups(d)
                        /\ \A i : GroupJob(d, i)' = GroupJob(d, i)
                        /\ Unpushed(d)' = Unpushed(d)
      OBVIOUS
    <2>1. pc'[d] \in {"pick", "push"} <=> pc[d] \in {"pick", "push"}
      BY <1>2, IndexTypes DEF CounterInv, TypeOK, ThreadTypeOK
    <2>2. Groups(d)' = Groups(d) /\ \A i : GroupJob(d, i)' = GroupJob(d, i)
      BY <1>2 DEF Groups, GroupJob
    <2> QED
      BY <1>2, <2>1, <2>2 DEF Unpushed
  <1>4. /\ j \in Elems(queue[p])
        /\ Elems(Tail(queue[p])) = Elems(queue[p]) \ {j}
        /\ \A a, b \in DOMAIN Tail(queue[p]) : Tail(queue[p])[a] = Tail(queue[p])[b] => a = b
    <2>1. \A a, b \in DOMAIN queue[p] : queue[p][a] = queue[p][b] => a = b
      BY <1>1 DEF CounterInv, PlacesApart
    <2> QED
      BY <1>1, <2>1, ElemsTail
  <1>5. j \in Job
    BY <1>1, <1>4 DEF Elems
  <1>6. \A u \in Threads : held'[u] = IF u = t THEN j ELSE held[u]
    BY <1>2 DEF CounterInv, TypeOK, ThreadTypeOK
  <1> HIDE DEF j, p
  <1>7. /\ \A q \in Queues : Elems(queue'[q]) = Elems(queue[q]) \ {j}
        /\ \A q \in Queues : \A a, b \in DOMAIN queue'[q] : queue'[q][a] = queue'[q][b] => a = b
    <2>1. \A q \in Queues : queue'[q] = IF q = p THEN Tail(queue[p]) ELSE queue[q]
      BY <1>1, <1>2 DEF CounterInv, TypeOK, SharedTypeOK
    <2>2. \A q \in Queues : \A a, b \in DOMAIN queue[q] : queue[q][a] = queue[q][b] => a = b
      BY DEF CounterInv, PlacesApart
    <2>3. \A q \in Queues : q # p => j \notin Elems(queue[q])
      BY <1>1, <1>4 DEF CounterInv, PlacesApart
    <2> QED
      BY <1>4, <2>1, <2>2, <2>3
  <1>8. /\ \A u \in Threads : held[u] # j
        /\ \A d \in Clients : j \notin Unpushed(d)
    BY <1>1, <1>4 DEF CounterInv, PlacesApart
  <1>9. PlacesApart'
    <2>1. \A q, r \in Queues : q # r => Elems(queue'[q]) \cap Elems(queue'[r]) = {}
      BY <1>7 DEF CounterInv, PlacesApart
    <2>2. \A u \in Threads, q \in Queues : held'[u] \notin Elems(queue'[q])
      BY <1>6, <1>7 DEF CounterInv, PlacesApart
    <2>3. \A d \in Clients, q \in Queues : Unpushed(d)' \cap Elems(queue'[q]) = {}
      BY <1>3, <1>7 DEF CounterInv, PlacesApart
    <2>4. \A d \in Clients, u \in Threads : held'[u] \notin Unpushed(d)'
      BY <1>3, <1>6, <1>8 DEF CounterInv, PlacesApart
    <2>5. \A u, v \in Threads : held'[u] # NoJob /\ held'[u] = held'[v] => u = v
      BY <1>6, <1>8 DEF CounterInv, PlacesApart
    <2> QED
      BY <1>7, <2>1, <2>2, <2>3, <2>4, <2>5 DEF PlacesApart
  <1>10. \A d \in Clients : Outstanding(d)' = Outstanding(d)
    <2> SUFFICES ASSUME NEW d \in Clients PROVE Outstanding(d)' = Outstanding(d)
      OBVIOUS
    <2>1. \A x : x \in Queued(d)' <=> x.ctx = d /\ \E q \in Queues : x \in Elems(queue'[q])
      BY DEF Queued
    <2>2. \A x : x \in Held(d)' <=> x.ctx = d /\ x # NoJob /\ \E u \in Threads : x = held'[u]
      BY DEF Held
    <2>6. \A x : (\E q \in Queues : x \in Elems(queue'[q])) <=>
                   x # j /\ \E q \in Queues : x \in Elems(queue[q])
      BY <1>7
    <2>3. \A x : x \in Queued(d)' <=> x \in Queued(d) /\ x # j
      BY <2>1, <2>6, Members
    <2>4. \A x : x \in Held(d)' <=> x \in Held(d) \/ (x = j /\ j.ctx = d)
      BY <1>1, <1>5, <1>6, <2>2, Members, NoJobAssumption
    <2>5. j \in Queued(d) <=> j.ctx = d
      BY <1>1, <1>4, Members
    <2> QED
      BY <1>3, <2>3, <2>4, <2>5 DEF Outstanding
  <1>11. CallOK'
    BY <1>2, <1>3 DEF CounterInv, CallOK
  <1>12. CallsMade' /\ CounterExact' /\ \A d \in Clients : IsFiniteSet(Outstanding(d)')
    BY <1>2, <1>10 DEF CounterInv, CallsMade, CounterExact
  <1> QED
    BY <1>9, <1>10, <1>11, <1>12 DEF CounterInv

\* The end of a job takes it out of the set and one off the counter.
LEMMA CounterFinish ==
    ASSUME CounterInv, TypeOK', NEW t \in Threads, FinishJob(t)
    PROVE  CounterInv' /\ \A d \in Clients : Outstanding(d)' = Outstanding(d) \ {held[t]}
  <1> DEFINE j == held[t]
  <1>1. /\ j \in Job /\ j # NoJob /\ j.ctx \in Clients
    BY NoJobAssumption DEF CounterInv, TypeOK, ThreadTypeOK, FinishJob, Job
  <1>2. /\ queue' = queue
        /\ held' = [held EXCEPT ![t] = NoJob]
        /\ pc' = [pc EXCEPT ![t] = "pop"] /\ pc[t] = "run"
        /\ sub' = sub /\ calls' = calls
        /\ counter' = [counter EXCEPT ![j.ctx] = counter[j.ctx] - 1]
    BY DEF FinishJob, Goto, clientVars
  <1>3. \A d \in Clients : /\ pc'[d] \in {"pick", "push"} <=> pc[d] \in {"pick", "push"}
                           /\ Groups(d)' = Groups(d)
                           /\ Unpushed(d)' = Unpushed(d)
    <2> SUFFICES ASSUME NEW d \in Clients
                 PROVE  /\ pc'[d] \in {"pick", "push"} <=> pc[d] \in {"pick", "push"}
                        /\ Groups(d)' = Groups(d)
                        /\ Unpushed(d)' = Unpushed(d)
      OBVIOUS
    <2>1. pc'[d] \in {"pick", "push"} <=> pc[d] \in {"pick", "push"}
      BY <1>2, IndexTypes DEF CounterInv, TypeOK, ThreadTypeOK
    <2>2. Groups(d)' = Groups(d) /\ \A i : GroupJob(d, i)' = GroupJob(d, i)
      BY <1>2 DEF Groups, GroupJob
    <2> QED
      BY <1>2, <2>1, <2>2 DEF Unpushed
  <1>4. \A u \in Threads : held'[u] = IF u = t THEN NoJob ELSE held[u]
    BY <1>2 DEF CounterInv, TypeOK, ThreadTypeOK
  <1>5. /\ \A u \in Threads : u # t => held[u] # j
        /\ \A q \in Queues : j \notin Elems(queue[q])
        /\ \A d \in Clients : j \notin Unpushed(d)
    BY <1>1 DEF CounterInv, PlacesApart
  <1>6. \A q \in Queues : NoJob \notin Elems(queue[q])
    BY NoJobAssumption DEF CounterInv, TypeOK, SharedTypeOK, Elems
  <1>7. \A d \in Clients : NoJob \notin Unpushed(d)
    BY OutstandingType, NoJobAssumption DEF CounterInv, Outstanding
  <1> HIDE DEF j
  <1>8. PlacesApart'
    <2>1. \A u \in Threads, q \in Queues : held'[u] \notin Elems(queue'[q])
      BY <1>2, <1>4, <1>6 DEF CounterInv, PlacesApart
    <2>2. \A d \in Clients, u \in Threads : held'[u] \notin Unpushed(d)'
      BY <1>3, <1>4, <1>7 DEF CounterInv, PlacesApart
    <2>3. \A u, v \in Threads : held'[u] # NoJob /\ held'[u] = held'[v] => u = v
      BY <1>4 DEF CounterInv, PlacesApart
    <2>4. \A d \in Clients, q \in Queues : Unpushed(d)' \cap Elems(queue'[q]) = {}
      BY <1>2, <1>3 DEF CounterInv, PlacesApart
    <2> QED
      BY <1>2, <2>1, <2>2, <2>3, <2>4 DEF CounterInv, PlacesApart
  <1>9. \A d \in Clients : /\ Outstanding(d)' = Outstanding(d) \ {j}
                           /\ j \in Outstanding(d) <=> j.ctx = d
    <2> SUFFICES ASSUME NEW d \in Clients
                 PROVE  /\ Outstanding(d)' = Outstanding(d) \ {j}
                        /\ j \in Outstanding(d) <=> j.ctx = d
      OBVIOUS
    <2>1. Queued(d)' = Queued(d) /\ j \notin Queued(d)
      BY <1>2, <1>5, Members DEF Queued
    <2>2. \A x : x \in Held(d)' <=> x.ctx = d /\ x # NoJob /\ \E u \in Threads : x = held'[u]
      BY DEF Held
    <2>3. \A x : x \in Held(d)' <=> x \in Held(d) /\ x # j
      BY <1>1, <1>4, <1>5, <2>2, Members DEF j
    <2>4. j \in Held(d) <=> j.ctx = d
      BY <1>1, Members DEF j
    <2> QED
      BY <1>3, <1>5, <2>1, <2>3, <2>4 DEF Outstanding
  <1>10. CallsMade'
    BY <1>2, <1>9 DEF CounterInv, CallsMade
  <1>11. CounterExact' /\ \A d \in Clients : IsFiniteSet(Outstanding(d)')
    <2> SUFFICES ASSUME NEW d \in Clients
                 PROVE  /\ counter'[d] = Cardinality(Outstanding(d)')
                        /\ IsFiniteSet(Outstanding(d)')
      BY DEF CounterExact
    <2>1. IsFiniteSet(Outstanding(d)) /\ counter[d] = Cardinality(Outstanding(d))
      BY DEF CounterInv, CounterExact
    <2>2. /\ IsFiniteSet(Outstanding(d) \ {j})
          /\ Cardinality(Outstanding(d) \ {j}) =
               IF j \in Outstanding(d) THEN Cardinality(Outstanding(d)) - 1
                                       ELSE Cardinality(Outstanding(d))
      BY <2>1, FS_RemoveElement
    <2>3. counter'[d] = IF j.ctx = d THEN counter[d] - 1 ELSE counter[d]
      BY <1>1, <1>2 DEF CounterInv, TypeOK, SharedTypeOK
    <2> QED
      BY <1>9, <2>1, <2>2, <2>3
  <1>12. CallOK'
    BY <1>2, <1>3 DEF CounterInv, CallOK
  <1> QED
    BY <1>8, <1>9, <1>10, <1>11, <1>12 DEF CounterInv, j

\* The steps of a client that push and submit nothing.
LEMMA CounterClient ==
    ASSUME CounterInv, TypeOK', NEW c \in Clients,
           \/ PickQueue(c) \/ Notify(c)
           \/ WaitNotBusy(c) \/ WaitBusy(c) \/ WakeAll(c) \/ Help(c)
           \/ SpinDone(c) \/ Leave(c)
    PROVE  CounterInv' /\ \A d \in Clients : Outstanding(d)' = Outstanding(d)
  <1>1. /\ UNCHANGED <<queue, held, counter, calls>>
        /\ \A d \in Clients \ {c} : pc'[d] = pc[d] /\ sub'[d] = sub[d]
    BY IndexTypes
    DEF CounterInv, TypeOK, ThreadTypeOK, ClientTypeOK, PickQueue, Notify, WaitNotBusy,
        WaitBusy, WakeAll, Help, SpinDone, Leave, Return, StartWork, Goto,
        sharedVars, clientVars
  <1>2. \/ pc'[c] \notin {"pick", "push"} /\ pc[c] \notin {"pick", "push"}
        \/ pc'[c] = "push" /\ pc[c] = "pick" /\ sub'[c] = sub[c]
    BY IndexTypes
    DEF CounterInv, TypeOK, ThreadTypeOK, ClientTypeOK, PickQueue, Notify, WaitNotBusy,
        WaitBusy, WakeAll, Help, SpinDone, Leave, Return, StartWork, Goto, clientVars
  <1>3. ASSUME NEW d \in Clients
        PROVE  /\ Unpushed(d)' = Unpushed(d)
               /\ pc'[d] \in {"pick", "push"} =>
                    /\ pc[d] \in {"pick", "push"} /\ sub'[d] = sub[d]
                    /\ Groups(d)' = Groups(d)
    <2>1. CASE pc'[d] \notin {"pick", "push"} /\ pc[d] \notin {"pick", "push"}
      BY <2>1 DEF Unpushed
    <2>2. CASE sub'[d] = sub[d] /\ (pc'[d] \in {"pick", "push"} <=> pc[d] \in {"pick", "push"})
      <3>1. Groups(d)' = Groups(d) /\ \A i : GroupJob(d, i)' = GroupJob(d, i)
        BY <1>1, <2>2 DEF Groups, GroupJob
      <3> QED
        BY <2>2, <3>1 DEF Unpushed
    <2> QED
      BY <1>1, <1>2, <2>1, <2>2
  <1>4. CallOK'
    BY <1>3 DEF CounterInv, CallOK
  <1> QED
    BY <1>1, <1>3, <1>4, CounterFrame

\* The steps that change neither pc of a client outside work(), nor sub.
LEMMA CounterOther ==
    ASSUME CounterInv, TypeOK',
           \/ \E t \in Threads : PopEmpty(t) \/ RunIndex(t)
           \/ \E w \in Workers :
                CheckAlive(w) \/ Sleep(w) \/ WakeUp(w) \/ SpuriousWakeUp(w)
           \/ Stop
           \/ UNCHANGED vars
    PROVE  CounterInv' /\ \A d \in Clients : Outstanding(d)' = Outstanding(d)
  <1>1. UNCHANGED <<queue, held, counter, calls, sub>>
    BY DEF PopEmpty, RunIndex, CheckAlive, Sleep, WakeUp, SpuriousWakeUp, Stop,
           StopAlive, StopNotify, StopDrain, vars, sharedVars, threadVars, clientVars
  <1>2. \A c \in Clients : pc'[c] \in {"pick", "push"} <=> pc[c] \in {"pick", "push"}
    <2>1. CASE \E t \in Threads : PopEmpty(t)
      BY <2>1, IndexTypes DEF CounterInv, TypeOK, ThreadTypeOK, PopEmpty, Goto, AfterWork
    <2>2. CASE \E t \in Threads : RunIndex(t)
      BY <2>2 DEF RunIndex
    <2>3. CASE \E w \in Workers :
                 CheckAlive(w) \/ Sleep(w) \/ WakeUp(w) \/ SpuriousWakeUp(w)
      BY <2>3, IndexTypes
      DEF CounterInv, TypeOK, ThreadTypeOK, CheckAlive, Sleep, WakeUp, SpuriousWakeUp,
          StartWork, Goto, threadVars
    <2>4. CASE Stop \/ UNCHANGED vars
      BY <2>4 DEF Stop, StopAlive, StopNotify, StopDrain, vars, threadVars
    <2> QED
      BY <2>1, <2>2, <2>3, <2>4
  <1>3. ASSUME NEW c \in Clients
        PROVE  Unpushed(c)' = Unpushed(c) /\ Groups(c)' = Groups(c)
    <2>1. Groups(c)' = Groups(c) /\ \A i : GroupJob(c, i)' = GroupJob(c, i)
      BY <1>1 DEF Groups, GroupJob
    <2> QED
      BY <1>1, <1>2, <2>1 DEF Unpushed
  <1>4. CallOK'
    BY <1>1, <1>2, <1>3 DEF CounterInv, CallOK
  <1> QED
    BY <1>1, <1>3, <1>4, CounterFrame

LEMMA CounterStep ==
    ASSUME CounterInv, [Next]_vars
    PROVE  CounterInv'
  <1>1. TypeOK'
    BY TypeStep DEF CounterInv
  <1>2. CASE \E c \in Clients : Execute(c) \/ Dispatch(c)
    BY <1>1, <1>2, SubmitCases, CounterSubmit
  <1>3. CASE \E t \in Threads : Work(t)
    BY <1>1, <1>3, CounterOther, CounterPop, CounterFinish DEF Work
  <1>4. CASE \E c \in Clients : PushJob(c)
    BY <1>1, <1>4, CounterPush
  <1> QED
    BY <1>1, <1>2, <1>3, <1>4, StepCases, CounterClient, CounterOther

\* In every reachable state, for every number of threads and clients, the
\* counter of a context equals the number of its unfinished groups, wherever
\* the thieves have carried them.
THEOREM CounterCorrect == Spec => []CounterExact
  <1>1. Init => CounterInv
    BY CounterInit
  <1>2. CounterInv /\ [Next]_vars => CounterInv'
    BY CounterStep
  <1>3. CounterInv => CounterExact
    BY DEF CounterInv
  <1> QED
    BY <1>1, <1>2, <1>3, PTL DEF Spec
-----------------------------------------------------------------------------
(***************************************************************************)
(* Contexts outlive their jobs                                             *)
(***************************************************************************)
\* A context in use is open; a client that had to wait has left none open, and
\* the destructor runs when all have left.
OpenInUse ==
    \A c \in Clients :
        /\ counter[c] > 0 \/ InWait(c) => open[c]
        /\ pc[c] = "gone" /\ ~MayAbandon => ~open[c]
        /\ dtor # "none" => pc[c] = "gone"

\* A counter is 0 when, and only when, nothing is outstanding.
LEMMA NothingOutstanding ==
    ASSUME CounterInv, NEW c \in Clients
    PROVE  /\ counter[c] \in Nat
           /\ counter[c] > 0 <=> Outstanding(c) # {}
  <1>1. IsFiniteSet(Outstanding(c)) /\ counter[c] = Cardinality(Outstanding(c))
    BY DEF CounterInv, CounterExact
  <1> QED
    BY <1>1, FS_CardinalityType, FS_EmptySet

LEMMA OpenInit == Init => OpenInUse
  BY IndexTypes DEF Init, OpenInUse, InWait

\* Where a step of thread t can take it, and what it does to counters.
LEMMA WorkMoves ==
    ASSUME TypeOK, NEW t \in Threads, Work(t)
    PROVE  /\ pc[t] \in {"pop", "run"}
           /\ pc'[t] \in {"pop", "run", AfterWork(t)}
           /\ \A u \in Threads \ {t} : pc'[u] = pc[u]
           /\ \A c \in Clients : counter'[c] <= counter[c]
           /\ UNCHANGED <<dtor, alive, drained, sub, calls, open, asked>>
  <1>1. /\ pc \in [Threads -> WorkerLabels \cup ClientLabels]
        /\ counter \in [Clients -> Int]
        /\ \A u \in Threads : held[u] # NoJob <=> pc[u] = "run"
        /\ held \in [Threads -> Job \cup {NoJob}]
    BY DEF TypeOK, ThreadTypeOK, SharedTypeOK
  <1>2. CASE PopEmpty(t)
    BY <1>1, <1>2 DEF PopEmpty, Goto, dtorVars, clientVars, historyVars
  <1>3. CASE PopJob(t)
    BY <1>1, <1>3 DEF PopJob, Goto, dtorVars, clientVars, historyVars
  <1>4. CASE RunIndex(t)
    BY <1>1, <1>4 DEF RunIndex, sharedVars, dtorVars, clientVars
  <1>5. CASE FinishJob(t)
    <2>1. held[t].ctx \in Clients
      BY <1>1, <1>5 DEF FinishJob, Job
    <2> QED
      BY <1>1, <1>5, <2>1 DEF FinishJob, Goto, dtorVars, clientVars, historyVars
  <1> QED
    BY <1>2, <1>3, <1>4, <1>5 DEF Work

LEMMA OpenStep ==
    ASSUME CounterInv, OpenInUse, [Next]_vars
    PROVE  OpenInUse'
  <1>1. /\ pc \in [Threads -> WorkerLabels \cup ClientLabels]
        /\ counter \in [Clients -> Int]
        /\ open \in [Clients -> BOOLEAN]
    BY DEF CounterInv, TypeOK, ThreadTypeOK, SharedTypeOK, ClientTypeOK
  <1>2. CASE \E c \in Clients : Execute(c) \/ Dispatch(c)
    <2>1. PICK c \in Clients, n \in Positive, g \in Positive, wake \in {"one", "all"} :
             Submit(c, n, g, wake)
      BY <1>2, SubmitCases
    <2>2. /\ pc[c] = "idle" /\ pc'[c] = "pick" /\ open'[c] = TRUE /\ dtor' = dtor
          /\ \A d \in Clients \ {c} :
                pc'[d] = pc[d] /\ open'[d] = open[d] /\ counter'[d] = counter[d]
      BY <1>1, <2>1, IndexTypes DEF Submit, Goto, dtorVars
    <2> QED
      BY <2>2 DEF OpenInUse, InWait
  <1>3. CASE \E c \in Clients :
                \/ PickQueue(c) \/ PushJob(c) \/ Notify(c) \/ WaitBusy(c)
                \/ WakeAll(c) \/ Help(c)
    <2>1. PICK c \in Clients : \/ PickQueue(c) \/ PushJob(c) \/ Notify(c) \/ WaitBusy(c)
                               \/ WakeAll(c) \/ Help(c)
      BY <1>3
    <2>2. /\ UNCHANGED <<counter, open, dtor>>
          /\ \A d \in Clients \ {c} : pc'[d] = pc[d]
          /\ pc[c] # "gone" /\ pc'[c] # "gone"
      BY <1>1, <2>1, IndexTypes
      DEF PickQueue, PushJob, Notify, WaitBusy, WakeAll, Help, StartWork, Goto,
          sharedVars, dtorVars, clientVars
    <2>3. InWait(c)' => InWait(c) \/ open[c]
      BY <1>1, <2>1, IndexTypes
      DEF PickQueue, PushJob, Notify, WaitBusy, WakeAll, Help, StartWork, Goto, InWait
    <2> QED
      BY <2>2, <2>3 DEF OpenInUse, InWait
  <1>4. CASE \E c \in Clients : WaitNotBusy(c) \/ SpinDone(c)
    <2>1. PICK c \in Clients : WaitNotBusy(c) \/ SpinDone(c)
      BY <1>4
    <2>2. /\ ~(counter[c] > 0) /\ UNCHANGED <<counter, dtor>>
          /\ pc[c] # "gone" /\ pc'[c] = "idle"
          /\ \A d \in Clients \ {c} : pc'[d] = pc[d] /\ open'[d] = open[d]
      BY <1>1, <2>1, IndexTypes
      DEF WaitNotBusy, SpinDone, Return, IsBusy, Goto, sharedVars, dtorVars
    <2> QED
      BY <2>2 DEF OpenInUse, InWait
  <1>5. CASE \E c \in Clients : Leave(c)
    <2>1. PICK c \in Clients : Leave(c)
      BY <1>5
    <2>2. /\ UNCHANGED <<counter, open, dtor>>
          /\ pc[c] = "idle" /\ pc'[c] = "gone" /\ (MayAbandon \/ ~open[c])
          /\ \A d \in Clients \ {c} : pc'[d] = pc[d]
      BY <1>1, <2>1, IndexTypes DEF Leave, Goto, sharedVars, dtorVars, clientVars
    <2> QED
      BY <2>2 DEF OpenInUse, InWait
  <1>6. CASE \E t \in Threads : Work(t)
    <2>1. PICK t \in Threads : Work(t)
      BY <1>6
    <2>2. /\ pc[t] \in {"pop", "run"} /\ pc'[t] \in {"pop", "run", AfterWork(t)}
          /\ \A u \in Threads \ {t} : pc'[u] = pc[u]
          /\ \A c \in Clients : counter'[c] <= counter[c]
          /\ UNCHANGED <<open, dtor>>
      BY <2>1, WorkMoves DEF CounterInv
    <2>3. \A c \in Clients : counter'[c] \in Int
      BY TypeStep DEF CounterInv, TypeOK, SharedTypeOK
    <2>4. \A c \in Clients : counter'[c] > 0 => counter[c] > 0
      BY <1>1, <2>2, <2>3
    <2>5. \A c \in Clients : /\ InWait(c)' => InWait(c)
                             /\ pc'[c] = "gone" <=> pc[c] = "gone"
      BY <2>2, IndexTypes DEF InWait, AfterWork
    <2> QED
      BY <2>2, <2>4, <2>5 DEF OpenInUse
  <1>7. CASE \E w \in Workers : CheckAlive(w) \/ Sleep(w) \/ WakeUp(w) \/ SpuriousWakeUp(w)
    <2>1. PICK w \in Workers : CheckAlive(w) \/ Sleep(w) \/ WakeUp(w) \/ SpuriousWakeUp(w)
      BY <1>7
    <2>2. /\ UNCHANGED <<counter, open, dtor>>
          /\ \A c \in Clients : pc'[c] = pc[c]
      BY <1>1, <2>1, IndexTypes
      DEF CheckAlive, Sleep, WakeUp, SpuriousWakeUp, StartWork, Goto,
          sharedVars, dtorVars, threadVars, clientVars
    <2> QED
      BY <2>2 DEF OpenInUse, InWait
  <1>8. CASE Stop
    <2>1. /\ UNCHANGED <<counter, open, pc>>
          /\ dtor' # "none" => dtor # "none" \/ \A c \in Clients : pc[c] = "gone"
      BY <1>8 DEF Stop, StopAlive, StopNotify, StopDrain, sharedVars, threadVars, clientVars
    <2> QED
      BY <2>1 DEF OpenInUse, InWait
  <1>9. CASE UNCHANGED vars
    BY <1>9 DEF OpenInUse, InWait, vars, sharedVars, dtorVars, threadVars, clientVars
  <1> QED
    BY <1>2, <1>3, <1>4, <1>5, <1>6, <1>7, <1>8, <1>9, StepCases

\* No thread ever works for a context that has gone out of scope, for every
\* number of threads and whichever of them finishes last.
THEOREM ContextsOutliveJobs == Spec => []ContextOutlivesJobs
  <1>1. Init => CounterInv /\ OpenInUse
    BY CounterInit, OpenInit
  <1>2. CounterInv /\ OpenInUse /\ [Next]_vars => (CounterInv /\ OpenInUse)'
    BY CounterStep, OpenStep
  <1>3. CounterInv /\ OpenInUse => ContextOutlivesJobs
    BY NothingOutstanding DEF OpenInUse, ContextOutlivesJobs
  <1> QED
    BY <1>1, <1>2, <1>3, PTL DEF Spec
-----------------------------------------------------------------------------
(***************************************************************************)
(* Nothing is left behind                                                  *)
(***************************************************************************)
\* How many queues t's work() visits before queue q.
Distance(t, q) ==
    IF q >= cursor[t] THEN q - cursor[t] ELSE q + NumThreads - cursor[t]

\* A client's own jobs are in queues its sweep has still to visit: none is
\* pushed while it waits.
SweepOf(c) ==
    /\ pc[c] \in {"pop", "run"} =>
         \A q \in Queues : \A j \in Elems(queue[q]) : j.ctx = c => Distance(c, q) < left[c]
    /\ pc[c] = "spin" =>
         \A q \in Queues : \A j \in Elems(queue[q]) : j.ctx # c

SweepAhead == \A c \in Clients : SweepOf(c)

\* Only PushJob puts a job in a queue, and it is one of the client that pushes.
LEMMA QueuesShrink ==
    ASSUME CounterInv, [Next]_vars, NEW c \in Clients, ~PushJob(c)
    PROVE  \A q \in Queues : \A j \in Elems(queue'[q]) :
              j.ctx = c => j \in Elems(queue[q])
  <1>1. queue \in [Queues -> Seq(Job)]
    BY DEF CounterInv, TypeOK, SharedTypeOK
  <1>2. CASE queue' = queue
    BY <1>2
  <1>3. CASE \E t \in Threads : PopJob(t)
    <2>1. PICK t \in Threads : PopJob(t)
      BY <1>3
    <2>2. /\ cursor[t] \in Queues /\ queue[cursor[t]] \in Seq(Job) /\ queue[cursor[t]] # <<>>
          /\ queue' = [queue EXCEPT ![cursor[t]] = Tail(queue[cursor[t]])]
      BY <1>1, <2>1 DEF PopJob, CounterInv, TypeOK, ThreadTypeOK
    <2>3. \A i, j \in DOMAIN queue[cursor[t]] :
             queue[cursor[t]][i] = queue[cursor[t]][j] => i = j
      BY <2>2 DEF CounterInv, PlacesApart
    <2>4. Elems(Tail(queue[cursor[t]])) \subseteq Elems(queue[cursor[t]])
      BY <2>2, <2>3, ElemsTail
    <2>5. \A q \in Queues :
             queue'[q] = IF q = cursor[t] THEN Tail(queue[cursor[t]]) ELSE queue[q]
      BY <1>1, <2>2
    <2> QED
      BY <2>4, <2>5
  <1>4. CASE \E d \in Clients \ {c} : PushJob(d)
    <2>1. PICK d \in Clients \ {c} : PushJob(d)
      BY <1>4
    <2> DEFINE e == GroupJob(d, sub[d].groupID)
    <2>2. e \in Job /\ e.ctx = d
      <3>1. sub[d].groupID \in Nat
        BY DEF CounterInv, TypeOK, ClientTypeOK
      <3> QED
        BY <3>1, GroupJobType DEF CounterInv, TypeOK, GroupJob
    <2>3. /\ cursor[d] \in Queues /\ queue[cursor[d]] \in Seq(Job)
          /\ queue' = [queue EXCEPT ![cursor[d]] = Append(queue[cursor[d]], e)]
      BY <1>1, <2>1, IndexTypes DEF PushJob, CounterInv, TypeOK, ThreadTypeOK
    <2> HIDE DEF e
    <2>4. \A j \in Elems(Append(queue[cursor[d]], e)) : j \in Elems(queue[cursor[d]]) \/ j = e
      <3> DEFINE s == queue[cursor[d]]
      <3>1. s \in Seq(Job)
        BY <2>3
      <3> HIDE DEF s
      <3>2. /\ Len(s) \in Nat /\ DOMAIN s = 1 .. Len(s)
            /\ DOMAIN Append(s, e) = 1 .. Len(s) + 1
            /\ \A i \in 1 .. Len(s) : Append(s, e)[i] = s[i]
            /\ Append(s, e)[Len(s) + 1] = e
        BY <2>2, <3>1
      <3>3. \A i \in DOMAIN Append(s, e) : i \in DOMAIN s \/ i = Len(s) + 1
        BY <3>2
      <3>4. \A j \in Elems(Append(s, e)) : j \in Elems(s) \/ j = e
        BY <3>2, <3>3 DEF Elems
      <3> QED
        BY <3>4 DEF s
    <2>5. \A q \in Queues :
             queue'[q] = IF q = cursor[d] THEN Append(queue[cursor[d]], e) ELSE queue[q]
      BY <1>1, <2>3
    <2> QED
      BY <2>1, <2>2, <2>4, <2>5
  <1> QED
    <2>1. queue' = queue \/ (\E t \in Threads : PopJob(t)) \/ \E d \in Clients : PushJob(d)
      <3>1. CASE \E d \in Clients : Execute(d) \/ Dispatch(d)
        BY <3>1 DEF Execute, Dispatch, Submit
      <3>2. CASE \E t \in Threads : Work(t)
        BY <3>2 DEF Work, PopEmpty, RunIndex, FinishJob, sharedVars
      <3>3. CASE \E d \in Clients :
                    \/ PickQueue(d) \/ PushJob(d) \/ Notify(d)
                    \/ WaitNotBusy(d) \/ WaitBusy(d) \/ WakeAll(d) \/ Help(d)
                    \/ SpinDone(d) \/ Leave(d)
        BY <3>3 DEF PickQueue, Notify, WaitNotBusy, WaitBusy, WakeAll, Help, SpinDone,
                    Leave, Return, sharedVars
      <3>4. CASE \/ \E w \in Workers :
                       CheckAlive(w) \/ Sleep(w) \/ WakeUp(w) \/ SpuriousWakeUp(w)
                 \/ Stop \/ UNCHANGED vars
        BY <3>4 DEF CheckAlive, Sleep, WakeUp, SpuriousWakeUp, Stop, StopAlive, StopNotify,
                    StopDrain, vars, sharedVars
      <3> QED
        BY <3>1, <3>2, <3>3, <3>4, StepCases
    <2> QED
      BY <1>2, <1>3, <1>4, <2>1

\* A client whose step is not the end of a visit keeps its sweep.
LEMMA SweepKept ==
    ASSUME NEW c \in Clients, SweepOf(c),
           \A q \in Queues : \A j \in Elems(queue'[q]) : j.ctx = c => j \in Elems(queue[q]),
           \/ pc'[c] \notin {"pop", "run", "spin"}
           \/ /\ cursor'[c] = cursor[c] /\ left'[c] = left[c]
              /\ pc'[c] = pc[c] \/ {pc[c], pc'[c]} = {"pop", "run"}
    PROVE  SweepOf(c)'
  BY DEF SweepOf, Distance

\* What a client's own step does to its sweep.
LEMMA SweepMoves ==
    ASSUME TypeOK, [Next]_vars, NEW c \in Clients
    PROVE  \/ PopEmpty(c)
           \/ Help(c)
           \/ pc'[c] \notin {"pop", "run", "spin"}
           \/ /\ cursor'[c] = cursor[c] /\ left'[c] = left[c]
              /\ pc'[c] = pc[c] \/ {pc[c], pc'[c]} = {"pop", "run"}
  <1>1. /\ pc \in [Threads -> WorkerLabels \cup ClientLabels]
        /\ cursor \in [Threads -> Queues] /\ left \in [Threads -> 0 .. NumThreads]
        /\ c \in Threads /\ c \notin Workers
    BY IndexTypes DEF TypeOK, ThreadTypeOK
  <1>2. CASE \E d \in Clients : Execute(d) \/ Dispatch(d)
    <2>1. PICK d \in Clients, n \in Positive, g \in Positive, wake \in {"one", "all"} :
             Submit(d, n, g, wake)
      BY <1>2, SubmitCases
    <2> QED
      BY <1>1, <2>1, IndexTypes DEF Submit, Goto
  <1>3. CASE \E d \in Clients :
                \/ PickQueue(d) \/ PushJob(d) \/ Notify(d)
                \/ WaitNotBusy(d) \/ WaitBusy(d) \/ WakeAll(d) \/ Help(d)
                \/ SpinDone(d) \/ Leave(d)
    <2>1. PICK d \in Clients :
                \/ PickQueue(d) \/ PushJob(d) \/ Notify(d)
                \/ WaitNotBusy(d) \/ WaitBusy(d) \/ WakeAll(d) \/ Help(d)
                \/ SpinDone(d) \/ Leave(d)
      BY <1>3
    <2>2. CASE d = c
      BY <1>1, <2>1, <2>2
      DEF PickQueue, PushJob, Notify, WaitNotBusy, WaitBusy, WakeAll, SpinDone, Leave,
          Return, Goto
    <2>3. CASE d # c
      BY <1>1, <2>1, <2>3, IndexTypes
      DEF PickQueue, PushJob, Notify, WaitNotBusy, WaitBusy, WakeAll, Help, SpinDone, Leave,
          Return, StartWork, Goto
    <2> QED
      BY <2>2, <2>3
  <1>4. CASE \E t \in Threads : Work(t)
    <2>1. PICK t \in Threads : Work(t)
      BY <1>4
    <2>2. CASE t = c
      BY <1>1, <2>1, <2>2 DEF Work, PopJob, RunIndex, FinishJob, Goto
    <2>3. CASE t # c
      BY <1>1, <2>1, <2>3 DEF Work, PopEmpty, PopJob, RunIndex, FinishJob, Goto
    <2> QED
      BY <2>2, <2>3
  <1>5. CASE \E w \in Workers : CheckAlive(w) \/ Sleep(w) \/ WakeUp(w) \/ SpuriousWakeUp(w)
    BY <1>1, <1>5, IndexTypes
    DEF CheckAlive, Sleep, WakeUp, SpuriousWakeUp, StartWork, Goto, threadVars
  <1>6. CASE Stop \/ UNCHANGED vars
    BY <1>6 DEF Stop, StopAlive, StopNotify, StopDrain, vars, threadVars
  <1> QED
    BY <1>2, <1>3, <1>4, <1>5, <1>6, StepCases

\* The visit of an empty queue brings the others one step nearer.
LEMMA SweepVisit ==
    ASSUME TypeOK, NEW c \in Clients, SweepOf(c), PopEmpty(c)
    PROVE  SweepOf(c)'
  <1> DEFINE k == cursor[c]
             n == NumThreads
  <1>1. /\ c \in Threads /\ c \notin Workers
        /\ n \in Nat /\ n > 0 /\ k \in 0 .. n - 1
        /\ left[c] \in 1 .. n
        /\ pc[c] = "pop"
        /\ queue[k] = <<>> /\ queue' = queue
        /\ cursor'[c] = (k + 1) % n
        /\ left'[c] = left[c] - 1
        /\ pc'[c] = IF left[c] = 1 THEN "spin" ELSE "pop"
    BY IndexTypes DEF TypeOK, ThreadTypeOK, PopEmpty, Goto, AfterWork, Queues
  <1>2. cursor'[c] = IF k + 1 = n THEN 0 ELSE k + 1
    <2>1. CASE k + 1 = n
      <3>1. n % n = 0
        BY <1>1
      <3> QED
        BY <1>1, <2>1, <3>1
    <2>2. CASE k + 1 # n
      <3>1. k + 1 \in 0 .. n - 1
        BY <1>1, <2>2
      <3> HIDE DEF k, n
      <3>2. (k + 1) % n = k + 1
        BY <1>1, <3>1
      <3> QED
        BY <1>1, <2>2, <3>2
    <2> QED
      BY <2>1, <2>2
  <1>3. Elems(queue[k]) = {}
    BY <1>1 DEF Elems
  <1>4. ASSUME NEW q \in Queues, NEW j \in Elems(queue[q]), j.ctx = c
        PROVE  Distance(c, q) # 0 /\ Distance(c, q) < left[c] /\ Distance(c, q)' = Distance(c, q) - 1
    <2>1. q # k
      BY <1>3, <1>4
    <2>2. q \in 0 .. n - 1
      BY DEF Queues
    <2>3. Distance(c, q) = IF q >= k THEN q - k ELSE q + n - k
      BY DEF Distance
    <2>4. Distance(c, q)' = IF q >= cursor'[c] THEN q - cursor'[c] ELSE q + n - cursor'[c]
      BY DEF Distance
    <2>5. Distance(c, q) < left[c]
      BY <1>1, <1>4 DEF SweepOf
    <2>6. n \in Nat /\ n > 0 /\ k \in 0 .. n - 1
      BY <1>1
    <2> HIDE DEF k, n
    <2>7. Distance(c, q) # 0
      BY <2>1, <2>2, <2>3, <2>6
    <2>8. Distance(c, q)' = Distance(c, q) - 1
      <3>1. CASE k + 1 = n
        <4>1. cursor'[c] = 0
          BY <1>2, <3>1
        <4> QED
          BY <2>1, <2>2, <2>3, <2>4, <2>6, <3>1, <4>1
      <3>2. CASE k + 1 # n
        <4>1. cursor'[c] = k + 1
          BY <1>2, <3>2
        <4> QED
          BY <2>1, <2>2, <2>3, <2>4, <2>6, <3>2, <4>1
      <3> QED
        BY <3>1, <3>2
    <2> QED
      BY <2>5, <2>7, <2>8
  <1>5. ASSUME NEW q \in Queues PROVE Distance(c, q) \in Nat
    BY <1>1, <1>5, SMTT(20) DEF Distance, Queues
  <1>6. ASSUME left[c] = 1, NEW q \in Queues, NEW j \in Elems(queue[q]) PROVE j.ctx # c
    BY <1>4, <1>5, <1>6
  <1>7. ASSUME left[c] # 1, NEW q \in Queues, NEW j \in Elems(queue[q]), j.ctx = c
        PROVE  Distance(c, q)' < left'[c]
    <2>1. Distance(c, q) \in Nat /\ left[c] \in Nat
      BY <1>1, <1>5
    <2> QED
      BY <1>1, <1>4, <1>7, <2>1
  <1> HIDE DEF k, n
  <1> QED
    BY <1>1, <1>6, <1>7 DEF SweepOf

LEMMA SweepStep ==
    ASSUME CounterInv, SweepAhead, [Next]_vars
    PROVE  SweepAhead'
  <1> SUFFICES ASSUME NEW c \in Clients PROVE SweepOf(c)'
    BY DEF SweepAhead
  <1>0. SweepOf(c) /\ TypeOK
    BY DEF SweepAhead, CounterInv
  <1>1. CASE PopEmpty(c)
    BY <1>0, <1>1, SweepVisit
  <1>2. CASE Help(c)
    <2>1. /\ c \in Threads /\ nextQueue \in Nat /\ NumThreads \in Nat
          /\ pc \in [Threads -> WorkerLabels \cup ClientLabels]
          /\ cursor \in [Threads -> Queues] /\ left \in [Threads -> 0 .. NumThreads]
      BY <1>0, IndexTypes DEF TypeOK, ThreadTypeOK, SharedTypeOK
    <2>2. cursor'[c] \in Queues /\ left'[c] = NumThreads /\ pc'[c] = "pop"
      BY <1>2, <2>1, ModTypes DEF Help, StartWork, Goto
    <2>3. \A q \in Queues : Distance(c, q)' < left'[c]
      BY <2>1, <2>2 DEF Distance, Queues
    <2> QED
      BY <2>2, <2>3 DEF SweepOf
  <1>3. CASE PushJob(c)
    <2>1. c \in Threads /\ pc \in [Threads -> WorkerLabels \cup ClientLabels]
      BY <1>0, IndexTypes DEF TypeOK, ThreadTypeOK
    <2>2. pc'[c] \in {"pick", "notify"}
      BY <1>3, <2>1 DEF PushJob, Goto
    <2> QED
      BY <2>2 DEF SweepOf
  <1>4. CASE ~PopEmpty(c) /\ ~Help(c) /\ ~PushJob(c)
    BY <1>0, <1>4, QueuesShrink, SweepMoves, SweepKept
  <1> QED
    BY <1>1, <1>2, <1>3, <1>4

LEMMA SweepInit == Init => SweepAhead
  BY IndexTypes DEF Init, SweepAhead, SweepOf

\* Where Wait takes it that its remaining jobs run on other threads, they do,
\* and ~InternalState finds no job queued when every client has waited.
THEOREM NothingEverLeftBehind == Spec => []NothingLeftBehind
  <1>1. Init => CounterInv /\ OpenInUse /\ SweepAhead
    BY CounterInit, OpenInit, SweepInit
  <1>2. CounterInv /\ OpenInUse /\ SweepAhead /\ [Next]_vars
          => (CounterInv /\ OpenInUse /\ SweepAhead)'
    BY CounterStep, OpenStep, SweepStep
  <1>3. ASSUME CounterInv, OpenInUse, SweepAhead
        PROVE  NothingLeftBehind
    <2>1. ASSUME NEW c \in Clients, pc[c] = "spin"
          PROVE  Outstanding(c) = Held(c) /\ held[c] = NoJob
      <3>1. held[c] = NoJob
        BY <1>3, <2>1, IndexTypes DEF CounterInv, TypeOK, ThreadTypeOK
      <3>2. Unpushed(c) = {}
        BY <2>1 DEF Unpushed
      <3>3. Queued(c) = {}
        BY <1>3, <2>1 DEF SweepAhead, SweepOf, Queued
      <3> QED
        BY <3>1, <3>2, <3>3 DEF Outstanding
    <2>2. ASSUME ~MayAbandon, dtor # "none", NEW c \in Clients
          PROVE  Outstanding(c) = {}
      <3>1. ~open[c]
        BY <1>3, <2>2 DEF OpenInUse
      <3> QED
        BY <1>3, <3>1, NothingOutstanding DEF OpenInUse
    <2> QED
      BY <2>1, <2>2 DEF NothingLeftBehind, SpinOnlyOnRunning, QuietShutdown
  <1> QED
    BY <1>1, <1>2, <1>3, PTL DEF Spec
-----------------------------------------------------------------------------
(***************************************************************************)
(* What the header promises                                                *)
(***************************************************************************)
\* The jobs of a queue entry, as <<call, index>>.
Indices(j) == {j.call} \X (j.lo .. j.hi - 1)

\* What is asked of a context and has not run is what its outstanding entries
\* will run, each index once.
AskedOnce ==
    \A c \in Clients :
        /\ calls[c] <= MaxCalls
        /\ ran[c] \subseteq asked[c]
        /\ \A item \in asked[c] : item[1] \in 1 .. calls[c]
        /\ \A item \in asked[c] \ ran[c] : \E j \in Outstanding(c) : item \in Indices(j)
        /\ \A j \in Outstanding(c) : j.lo <= j.hi /\ Indices(j) \subseteq asked[c]
        /\ \A j, k \in Outstanding(c) : j # k => Indices(j) \cap Indices(k) = {}

\* A thread has run the indices of its entry below idx; no entry that is not
\* held has begun.
RunInTurn ==
    /\ \A t \in Threads : held[t] # NoJob =>
         /\ idx[t] \in held[t].lo .. held[t].hi
         /\ \A i \in held[t].lo .. held[t].hi - 1 :
              <<held[t].call, i>> \in ran[held[t].ctx] <=> i < idx[t]
    /\ \A c \in Clients : \A j \in Outstanding(c) \ Held(c) : Indices(j) \cap ran[c] = {}

\* The entries of one call run each of its jobs once.
LEMMA CallIndices ==
    ASSUME NEW n \in Positive, NEW g \in Positive, NoOverflow(n, g), NEW c, NEW call
    PROVE  /\ \A j \in CallJobs(c, call, n, g) :
                j.call = call /\ j.lo <= j.hi /\ Indices(j) \subseteq {call} \X (0 .. n - 1)
           /\ \A j, k \in CallJobs(c, call, n, g) : j # k => Indices(j) \cap Indices(k) = {}
           /\ \A i \in 0 .. n - 1 : \E j \in CallJobs(c, call, n, g) : <<call, i>> \in Indices(j)
  <1> DEFINE job(k) == [ctx |-> c, call |-> call, lo |-> GroupJobOffset(g, k),
                        hi |-> GroupJobEnd(n, g, k)]
  <1>1. Partition(n, g) /\ GroupsFit(n, g)
    BY DispatchPartitions
  <1>2. \A j : j \in CallJobs(c, call, n, g) <=> \E k \in GroupIDs(n, g) : j = job(k)
    BY DEF CallJobs
  <1>3. \A k : /\ job(k).call = call
               /\ job(k).lo = GroupJobOffset(g, k) /\ job(k).hi = GroupJobEnd(n, g, k)
               /\ Indices(job(k)) = {call} \X GroupIndices(n, g, k)
    BY DEF Indices, GroupIndices
  <1>4. ASSUME NEW k \in GroupIDs(n, g)
        PROVE  /\ GroupJobOffset(g, k) <= GroupJobEnd(n, g, k)
               /\ GroupIndices(n, g, k) \subseteq 0 .. n - 1
    <2>1. k \in Nat
      BY GroupRanges
    <2>2. GroupJobOffset(g, k) \in Nat /\ GroupJobEnd(n, g, k) \in Nat
      BY <2>1, GroupTypes
    <2>3. GroupJobOffset(g, k) < GroupJobEnd(n, g, k) /\ GroupJobEnd(n, g, k) <= n
      BY <1>1 DEF GroupsFit
    <2> QED
      BY <2>2, <2>3 DEF GroupIndices, Positive
  <1> HIDE DEF job
  <1>5. \A j \in CallJobs(c, call, n, g) :
           j.call = call /\ j.lo <= j.hi /\ Indices(j) \subseteq {call} \X (0 .. n - 1)
    BY <1>2, <1>3, <1>4
  <1>6. ASSUME NEW j \in CallJobs(c, call, n, g), NEW k \in CallJobs(c, call, n, g), j # k
        PROVE  Indices(j) \cap Indices(k) = {}
    <2>1. PICK a \in GroupIDs(n, g), b \in GroupIDs(n, g) : j = job(a) /\ k = job(b)
      BY <1>2
    <2>2. a # b
      BY <1>6, <2>1
    <2>3. GroupIndices(n, g, a) \cap GroupIndices(n, g, b) = {}
      BY <1>1, <2>2 DEF Partition
    <2> QED
      BY <1>3, <2>1, <2>3
  <1>7. ASSUME NEW i \in 0 .. n - 1
        PROVE  \E j \in CallJobs(c, call, n, g) : <<call, i>> \in Indices(j)
    <2>1. PICK k \in GroupIDs(n, g) : i \in GroupIndices(n, g, k)
      BY <1>1 DEF Partition
    <2> QED
      BY <1>2, <1>3, <2>1
  <1> QED
    BY <1>5, <1>6, <1>7

\* What a thread holds is outstanding, in its context.
LEMMA HeldOutstanding ==
    ASSUME CounterInv, NEW t \in Threads, held[t] # NoJob
    PROVE  /\ held[t] \in Job /\ held[t].ctx \in Clients
           /\ held[t].lo \in Nat /\ held[t].hi \in Nat
           /\ held[t] \in Held(held[t].ctx) /\ held[t] \in Outstanding(held[t].ctx)
  <1>1. held[t] \in Job
    BY DEF CounterInv, TypeOK, ThreadTypeOK
  <1>2. held[t].ctx \in Clients /\ held[t].lo \in Nat /\ held[t].hi \in Nat
    BY <1>1 DEF Job
  <1> QED
    BY <1>1, <1>2, Members

LEMMA PromiseInit == Init => AskedOnce /\ RunInTurn
  <1> SUFFICES ASSUME Init PROVE AskedOnce /\ RunInTurn
    OBVIOUS
  <1>1. \A c \in Clients : Outstanding(c) = {}
    <2>1. CounterInv /\ \A c \in Clients : counter[c] = 0
      BY CounterInit DEF Init
    <2> QED
      BY <2>1, NothingOutstanding
  <1> QED
    BY <1>1, ConstantsAssumption DEF Init, AskedOnce, RunInTurn

\* The steps that neither submit nor run nor return.
LEMMA PromiseFrame ==
    ASSUME AskedOnce, RunInTurn, UNCHANGED <<held, idx, ran, asked, calls>>,
           \A c \in Clients : Outstanding(c)' = Outstanding(c)
    PROVE  AskedOnce' /\ RunInTurn'
  <1>1. \A c \in Clients : Held(c)' = Held(c)
    BY DEF Held
  <1>2. AskedOnce'
    BY DEF AskedOnce
  <1>3. RunInTurn'
    BY <1>1 DEF RunInTurn
  <1> QED
    BY <1>2, <1>3

LEMMA PromiseSubmit ==
    ASSUME CounterInv, CounterInv', AskedOnce, RunInTurn, NEW c \in Clients,
           NEW n \in Positive, NEW g \in Positive, NEW wake \in {"one", "all"},
           NoOverflow(n, g), Submit(c, n, g, wake)
    PROVE  AskedOnce' /\ RunInTurn' /\ Pool!Submit(c, calls[c] + 1, n)
                      /\ calls[c] + 1 \in 1 .. MaxCalls /\ n \in 1 .. UintRange - 1
  <1> DEFINE call == calls[c] + 1
             J == CallJobs(c, call, n, g)
             new == {call} \X (0 .. n - 1)
  <1>1. /\ calls[c] \in Nat /\ calls[c] < MaxCalls /\ MaxCalls \in Nat
        /\ calls'[c] = call /\ call \in Nat
        /\ asked' = [asked EXCEPT ![c] = @ \cup new]
        /\ open' = [open EXCEPT ![c] = TRUE]
        /\ asked'[c] = asked[c] \cup new
        /\ UNCHANGED <<held, idx, ran, runs>>
        /\ \A d \in Clients \ {c} : calls'[d] = calls[d] /\ asked'[d] = asked[d]
    BY ConstantsAssumption DEF CounterInv, TypeOK, ClientTypeOK, Submit
  <1>2. /\ Outstanding(c)' = Outstanding(c) \cup J
        /\ \A d \in Clients \ {c} : Outstanding(d)' = Outstanding(d)
    BY CounterSubmit DEF CounterInv
  <1>3. \A d \in Clients : Held(d)' = Held(d)
    BY <1>1 DEF Held
  <1>4. /\ \A j \in J : j.call = call /\ j.lo <= j.hi /\ Indices(j) \subseteq new
        /\ \A j, k \in J : j # k => Indices(j) \cap Indices(k) = {}
        /\ \A i \in 0 .. n - 1 : \E j \in J : <<call, i>> \in Indices(j)
    BY CallIndices
  <1> HIDE DEF J
  <1>5. \A item \in new : item[1] = call /\ \E j \in J : item \in Indices(j)
    BY <1>4
  <1>6. /\ ran[c] \subseteq asked[c]
        /\ \A item \in asked[c] : item[1] \in 1 .. calls[c]
        /\ \A item \in asked[c] \ ran[c] : \E j \in Outstanding(c) : item \in Indices(j)
        /\ \A j \in Outstanding(c) : j.lo <= j.hi /\ Indices(j) \subseteq asked[c]
        /\ \A j, k \in Outstanding(c) : j # k => Indices(j) \cap Indices(k) = {}
    BY DEF AskedOnce
  <1>7. new \cap asked[c] = {}
    BY <1>1, <1>5, <1>6
  <1> HIDE DEF new
  <1>8. AskedOnce'
    <2>1. ASSUME NEW d \in Clients \ {c}
          PROVE  /\ calls'[d] <= MaxCalls
                 /\ ran'[d] \subseteq asked'[d]
                 /\ \A item \in asked'[d] : item[1] \in 1 .. calls'[d]
                 /\ \A item \in asked'[d] \ ran'[d] : \E j \in Outstanding(d)' : item \in Indices(j)
                 /\ \A j \in Outstanding(d)' : j.lo <= j.hi /\ Indices(j) \subseteq asked'[d]
                 /\ \A j, k \in Outstanding(d)' : j # k => Indices(j) \cap Indices(k) = {}
      BY <1>1, <1>2 DEF AskedOnce
    <2>2. calls'[c] <= MaxCalls /\ ran'[c] \subseteq asked'[c]
      BY <1>1, <1>6
    <2>3. \A item \in asked'[c] : item[1] \in 1 .. calls'[c]
      <3>1. \A item \in asked[c] : item[1] \in 1 .. call
        BY <1>1, <1>6
      <3>2. \A item \in new : item[1] \in 1 .. call
        BY <1>1, <1>5
      <3> QED
        BY <1>1, <3>1, <3>2
    <2>4. \A item \in asked'[c] \ ran'[c] : \E j \in Outstanding(c)' : item \in Indices(j)
      BY <1>1, <1>2, <1>5, <1>6
    <2>5. \A j \in Outstanding(c)' : j.lo <= j.hi /\ Indices(j) \subseteq asked'[c]
      BY <1>1, <1>2, <1>4, <1>6
    <2>6. \A j, k \in Outstanding(c)' : j # k => Indices(j) \cap Indices(k) = {}
      BY <1>2, <1>4, <1>6, <1>7
    <2> HIDE DEF call
    <2>7. \A d \in Clients : d = c \/ d \in Clients \ {c}
      OBVIOUS
    <2> QED
      BY <2>1, <2>2, <2>3, <2>4, <2>5, <2>6, <2>7 DEF AskedOnce
  <1>9. RunInTurn'
    <2>1. \A d \in Clients : \A j \in Outstanding(d)' \ Held(d)' : Indices(j) \cap ran'[d] = {}
      <3>1. \A j \in J : Indices(j) \cap ran[c] = {}
        BY <1>4, <1>6, <1>7
      <3> QED
        BY <1>1, <1>2, <1>3, <3>1 DEF RunInTurn
    <2>2. \A t \in Threads : held'[t] # NoJob =>
             /\ idx'[t] \in held'[t].lo .. held'[t].hi
             /\ \A i \in held'[t].lo .. held'[t].hi - 1 :
                  <<held'[t].call, i>> \in ran'[held'[t].ctx] <=> i < idx'[t]
      BY <1>1 DEF RunInTurn
    <2> QED
      BY <2>1, <2>2 DEF RunInTurn
  <1>10. n \in 1 .. UintRange - 1
    BY UintRangeAssumption DEF NoOverflow, Positive
  <1>11. Pool!Submit(c, call, n)
    BY <1>1, <1>7 DEF Pool!Submit, Pool!Batch, new
  <1>12. call \in 1 .. MaxCalls
    BY <1>1
  <1> QED
    BY <1>8, <1>9, <1>10, <1>11, <1>12

LEMMA PromiseReturn ==
    ASSUME CounterInv, AskedOnce, RunInTurn, NEW c \in Clients, open[c], Return(c),
           \A d \in Clients : Outstanding(d)' = Outstanding(d)
    PROVE  AskedOnce' /\ RunInTurn' /\ Pool!Return(c)
  <1>1. /\ ~(counter[c] > 0)
        /\ open' = [open EXCEPT ![c] = FALSE]
        /\ asked' = [asked EXCEPT ![c] = {}]
        /\ ran' = [ran EXCEPT ![c] = {}]
        /\ runs' = [runs EXCEPT ![c] = 0]
        /\ asked'[c] = {} /\ ran'[c] = {}
        /\ \A d \in Clients \ {c} : asked'[d] = asked[d] /\ ran'[d] = ran[d]
        /\ UNCHANGED <<held, idx, calls>>
    BY DEF CounterInv, TypeOK, ClientTypeOK, Return, IsBusy
  <1>2. Outstanding(c) = {}
    BY <1>1, NothingOutstanding
  <1>3. ran[c] = asked[c]
    BY <1>2 DEF AskedOnce
  <1>4. AskedOnce'
    <2> SUFFICES ASSUME NEW d \in Clients
                 PROVE  /\ calls'[d] <= MaxCalls
                        /\ ran'[d] \subseteq asked'[d]
                        /\ \A item \in asked'[d] : item[1] \in 1 .. calls'[d]
                        /\ \A item \in asked'[d] \ ran'[d] :
                              \E j \in Outstanding(d)' : item \in Indices(j)
                        /\ \A j \in Outstanding(d)' : j.lo <= j.hi /\ Indices(j) \subseteq asked'[d]
                        /\ \A j, k \in Outstanding(d)' : j # k => Indices(j) \cap Indices(k) = {}
      BY DEF AskedOnce
    <2>1. CASE d = c
      BY <1>1, <1>2, <2>1 DEF AskedOnce
    <2>2. CASE d # c
      BY <1>1, <2>2 DEF AskedOnce
    <2> QED
      BY <2>1, <2>2
  <1>5. RunInTurn'
    <2>1. \A d \in Clients : Held(d)' = Held(d)
      BY <1>1 DEF Held
    <2>2. \A t \in Threads : held[t] # NoJob => held[t].ctx \in Clients \ {c}
      BY <1>2, HeldOutstanding
    <2>3. \A t \in Threads : held'[t] # NoJob =>
             /\ idx'[t] \in held'[t].lo .. held'[t].hi
             /\ \A i \in held'[t].lo .. held'[t].hi - 1 :
                  <<held'[t].call, i>> \in ran'[held'[t].ctx] <=> i < idx'[t]
      BY <1>1, <2>2 DEF RunInTurn
    <2>4. \A d \in Clients : \A j \in Outstanding(d)' \ Held(d)' : Indices(j) \cap ran'[d] = {}
      BY <1>1, <2>1 DEF RunInTurn
    <2> QED
      BY <2>3, <2>4 DEF RunInTurn
  <1>6. Pool!Return(c)
    BY <1>1, <1>3 DEF Pool!Return
  <1> QED
    BY <1>4, <1>5, <1>6

LEMMA PromisePop ==
    ASSUME CounterInv, CounterInv', AskedOnce, RunInTurn, NEW t \in Threads, PopJob(t)
    PROVE  AskedOnce' /\ RunInTurn'
  <1> DEFINE p == cursor[t]
             j == Head(queue[p])
  <1>1. /\ p \in Queues /\ queue[p] \in Seq(Job) /\ queue[p] # <<>>
        /\ held[t] = NoJob
        /\ held' = [held EXCEPT ![t] = j] /\ idx' = [idx EXCEPT ![t] = j.lo]
        /\ held'[t] = j /\ idx'[t] = j.lo
        /\ \A u \in Threads \ {t} : held'[u] = held[u] /\ idx'[u] = idx[u]
        /\ UNCHANGED <<ran, asked, calls>>
    BY DEF CounterInv, TypeOK, SharedTypeOK, ThreadTypeOK, PopJob, clientVars, historyVars
  <1>2. \A d \in Clients : Outstanding(d)' = Outstanding(d)
    BY CounterPop DEF CounterInv
  <1>3. j \in Elems(queue[p]) /\ j \in Job
    <2>1. \A a, b \in DOMAIN queue[p] : queue[p][a] = queue[p][b] => a = b
      BY <1>1 DEF CounterInv, PlacesApart
    <2> QED
      BY <1>1, <2>1, ElemsTail
  <1> HIDE DEF j, p
  <1>4. j.ctx \in Clients /\ j.lo \in Nat /\ j.hi \in Nat
    BY <1>3 DEF Job
  <1>5. j \in Outstanding(j.ctx) \ Held(j.ctx)
    <2>1. \A u \in Threads : held[u] # j
      BY <1>1, <1>3 DEF CounterInv, PlacesApart
    <2>2. j \in Queued(j.ctx)
      BY <1>1, <1>3, <1>4, Members
    <2> QED
      BY <1>4, <2>1, <2>2, Members
  <1>6. \A d \in Clients : Held(d) \subseteq Held(d)'
    <2> SUFFICES ASSUME NEW d \in Clients, NEW x \in Held(d) PROVE x \in Held(d)'
      OBVIOUS
    <2>1. x.ctx = d /\ x # NoJob /\ \E u \in Threads : x = held[u]
      BY Members
    <2>2. PICK u \in Threads : x = held[u]
      BY <2>1
    <2>3. x = held'[u]
      BY <1>1, <2>1, <2>2
    <2> QED
      BY <2>1, <2>3 DEF Held
  <1>7. AskedOnce'
    BY <1>1, <1>2 DEF AskedOnce
  <1>8. j.lo <= j.hi /\ Indices(j) \cap ran[j.ctx] = {}
    BY <1>4, <1>5 DEF AskedOnce, RunInTurn
  <1>9. ASSUME NEW u \in Threads, held'[u] # NoJob
        PROVE  /\ idx'[u] \in held'[u].lo .. held'[u].hi
               /\ \A i \in held'[u].lo .. held'[u].hi - 1 :
                    <<held'[u].call, i>> \in ran'[held'[u].ctx] <=> i < idx'[u]
    <2>1. CASE u = t
      <3>1. \A i \in j.lo .. j.hi - 1 : <<j.call, i>> \in Indices(j) /\ ~(i < j.lo)
        BY <1>4 DEF Indices
      <3>2. j.lo \in j.lo .. j.hi
        BY <1>4, <1>8
      <3> QED
        BY <1>1, <1>8, <2>1, <3>1, <3>2
    <2>2. CASE u # t
      BY <1>1, <1>9, <2>2 DEF RunInTurn
    <2> QED
      BY <2>1, <2>2
  <1>10. \A d \in Clients : \A k \in Outstanding(d)' \ Held(d)' : Indices(k) \cap ran'[d] = {}
    BY <1>1, <1>2, <1>6 DEF RunInTurn
  <1> QED
    BY <1>7, <1>9, <1>10 DEF RunInTurn

LEMMA PromiseRun ==
    ASSUME CounterInv, AskedOnce, RunInTurn, NEW t \in Threads, RunIndex(t),
           \A d \in Clients : Outstanding(d)' = Outstanding(d)
    PROVE  /\ AskedOnce' /\ RunInTurn'
           /\ \E c \in Clients : \E item \in asked[c] : Pool!RunOne(c, item)
  <1> DEFINE j == held[t]
             c == held[t].ctx
             item == <<held[t].call, idx[t]>>
  <1>1. held[t] # NoJob
    BY DEF CounterInv, TypeOK, ThreadTypeOK, RunIndex
  <1>2. /\ j \in Job /\ c \in Clients /\ j.lo \in Nat /\ j.hi \in Nat
        /\ j \in Held(c) /\ j \in Outstanding(c)
    BY <1>1, HeldOutstanding
  <1>3. /\ idx[t] \in Nat /\ idx[t] < j.hi
        /\ ran' = [ran EXCEPT ![c] = ran[c] \cup {item}]
        /\ runs' = [runs EXCEPT ![c] = @ + 1]
        /\ ran'[c] = ran[c] \cup {item}
        /\ \A d \in Clients \ {c} : ran'[d] = ran[d]
        /\ idx'[t] = idx[t] + 1
        /\ \A u \in Threads \ {t} : idx'[u] = idx[u]
        /\ UNCHANGED <<held, asked, calls, open>>
    BY <1>2 DEF CounterInv, TypeOK, ThreadTypeOK, ClientTypeOK, RunIndex, clientVars
  <1>4. /\ idx[t] \in j.lo .. j.hi
        /\ \A i \in j.lo .. j.hi - 1 : <<j.call, i>> \in ran[c] <=> i < idx[t]
    BY <1>1 DEF RunInTurn
  <1>5. idx[t] \in j.lo .. j.hi - 1
    BY <1>2, <1>3, <1>4
  <1>6. item \in Indices(j) /\ item \notin ran[c]
    BY <1>3, <1>4, <1>5 DEF Indices
  <1>7. item \in asked[c]
    BY <1>2, <1>6 DEF AskedOnce
  <1>8. \A d \in Clients : Held(d)' = Held(d)
    BY <1>3 DEF Held
  <1>9. \A k \in Outstanding(c) : k # j => item \notin Indices(k)
    BY <1>2, <1>6 DEF AskedOnce
  <1>10. Pool!RunOne(c, item)
    BY <1>3, <1>6, <1>7 DEF Pool!RunOne
  <1>11. AskedOnce'
    <2> HIDE DEF j, c, item
    <2> SUFFICES ASSUME NEW d \in Clients
                 PROVE  /\ calls'[d] <= MaxCalls
                        /\ ran'[d] \subseteq asked'[d]
                        /\ \A x \in asked'[d] : x[1] \in 1 .. calls'[d]
                        /\ \A x \in asked'[d] \ ran'[d] : \E k \in Outstanding(d)' : x \in Indices(k)
                        /\ \A k \in Outstanding(d)' : k.lo <= k.hi /\ Indices(k) \subseteq asked'[d]
                        /\ \A k, l \in Outstanding(d)' : k # l => Indices(k) \cap Indices(l) = {}
      BY DEF AskedOnce
    <2>1. ran[d] \subseteq ran'[d] /\ ran'[d] \subseteq asked[d]
      <3>1. ran[d] \subseteq asked[d]
        BY DEF AskedOnce
      <3> QED
        BY <1>3, <1>7, <3>1
    <2> QED
      BY <1>3, <2>1 DEF AskedOnce
  <1>12. ASSUME NEW u \in Threads, held'[u] # NoJob
         PROVE  /\ idx'[u] \in held'[u].lo .. held'[u].hi
                /\ \A i \in held'[u].lo .. held'[u].hi - 1 :
                     <<held'[u].call, i>> \in ran'[held'[u].ctx] <=> i < idx'[u]
    <2>1. CASE u = t
      <3>1. idx[t] + 1 \in j.lo .. j.hi
        BY <1>2, <1>3, <1>5
      <3>2. ASSUME NEW i \in j.lo .. j.hi - 1
            PROVE  <<j.call, i>> \in ran'[c] <=> i < idx[t] + 1
        <4>1. i \in Nat
          BY <1>2
        <4>2. <<j.call, i>> = item <=> i = idx[t]
          OBVIOUS
        <4>3. <<j.call, i>> \in ran[c] <=> i < idx[t]
          BY <1>4
        <4> QED
          BY <1>3, <4>1, <4>2, <4>3
      <3> QED
        BY <1>3, <2>1, <3>1, <3>2
    <2>2. CASE u # t
      <3>1. /\ held[u] # NoJob /\ held[u] # j
            /\ held[u].ctx \in Clients /\ held[u] \in Outstanding(held[u].ctx)
        BY <1>1, <1>3, <1>12, <2>2, HeldOutstanding DEF CounterInv, PlacesApart
      <3>2. /\ idx[u] \in held[u].lo .. held[u].hi
            /\ \A i \in held[u].lo .. held[u].hi - 1 :
                  <<held[u].call, i>> \in ran[held[u].ctx] <=> i < idx[u]
        BY <3>1 DEF RunInTurn
      <3>3. ASSUME NEW i \in held[u].lo .. held[u].hi - 1
            PROVE  <<held[u].call, i>> \in ran'[held[u].ctx] <=> <<held[u].call, i>> \in ran[held[u].ctx]
        <4>1. <<held[u].call, i>> \in Indices(held[u])
          BY DEF Indices
        <4> HIDE DEF j, c, item
        <4>2. CASE held[u].ctx = c
          <5>1. item \notin Indices(held[u])
            BY <1>9, <3>1, <4>2
          <5>2. item # <<held[u].call, i>>
            BY <4>1, <5>1
          <5> QED
            BY <1>3, <4>2, <5>2
        <4>3. CASE held[u].ctx # c
          BY <1>3, <3>1, <4>3
        <4> QED
          BY <4>2, <4>3
      <3> QED
        BY <1>3, <2>2, <3>2, <3>3
    <2> QED
      BY <2>1, <2>2
  <1>13. ASSUME NEW d \in Clients, NEW k \in Outstanding(d)' \ Held(d)'
         PROVE  Indices(k) \cap ran'[d] = {}
    <2>1. k \in Outstanding(d) \ Held(d) /\ Indices(k) \cap ran[d] = {}
      BY <1>8, <1>13 DEF RunInTurn
    <2>2. CASE d = c
      <3>1. k # j
        BY <1>2, <2>1, <2>2
      <3>2. item \notin Indices(k)
        BY <1>9, <2>1, <2>2, <3>1
      <3> HIDE DEF j, c, item
      <3> QED
        BY <1>3, <2>1, <2>2, <3>2
    <2>3. CASE d # c
      BY <1>3, <2>1, <2>3
    <2> QED
      BY <2>2, <2>3
  <1>14. RunInTurn'
    BY <1>12, <1>13 DEF RunInTurn
  <1> QED
    BY <1>2, <1>7, <1>10, <1>11, <1>14

LEMMA PromiseFinish ==
    ASSUME CounterInv, CounterInv', AskedOnce, RunInTurn, NEW t \in Threads, FinishJob(t)
    PROVE  AskedOnce' /\ RunInTurn'
  <1> DEFINE j == held[t]
  <1>1. j # NoJob
    BY DEF CounterInv, TypeOK, ThreadTypeOK, FinishJob
  <1>2. j.ctx \in Clients /\ j.lo \in Nat /\ j.hi \in Nat
    BY <1>1, HeldOutstanding
  <1>3. /\ idx[t] >= j.hi /\ idx[t] \in Nat
        /\ held'[t] = NoJob
        /\ \A u \in Threads \ {t} : held'[u] = held[u] /\ idx'[u] = idx[u]
        /\ UNCHANGED <<ran, asked, calls>>
    BY DEF CounterInv, TypeOK, ThreadTypeOK, FinishJob, clientVars, historyVars
  <1>4. \A d \in Clients : Outstanding(d)' = Outstanding(d) \ {j}
    BY CounterFinish DEF CounterInv
  <1>5. \A x \in Indices(j) : x \in ran[j.ctx]
    <2>1. \A i \in j.lo .. j.hi - 1 : <<j.call, i>> \in ran[j.ctx] <=> i < idx[t]
      BY <1>1 DEF RunInTurn
    <2>2. \A i \in j.lo .. j.hi - 1 : i < idx[t]
      BY <1>2, <1>3
    <2> QED
      BY <2>1, <2>2 DEF Indices
  <1>6. \A d \in Clients : j \in Outstanding(d) => d = j.ctx
    <2>1. \A d \in Clients : \A x \in Outstanding(d) : x.ctx = d
      BY Members DEF Unpushed, GroupJob
    <2> QED
      BY <2>1
  <1>7. AskedOnce'
    <2> SUFFICES ASSUME NEW d \in Clients
                 PROVE  /\ calls'[d] <= MaxCalls
                        /\ ran'[d] \subseteq asked'[d]
                        /\ \A x \in asked'[d] : x[1] \in 1 .. calls'[d]
                        /\ \A x \in asked'[d] \ ran'[d] : \E k \in Outstanding(d)' : x \in Indices(k)
                        /\ \A k \in Outstanding(d)' : k.lo <= k.hi /\ Indices(k) \subseteq asked'[d]
                        /\ \A k, l \in Outstanding(d)' : k # l => Indices(k) \cap Indices(l) = {}
      BY DEF AskedOnce
    <2> HIDE DEF j
    <2>1. ASSUME NEW x \in asked'[d] \ ran'[d]
          PROVE  \E k \in Outstanding(d)' : x \in Indices(k)
      <3>1. PICK k \in Outstanding(d) : x \in Indices(k)
        BY <1>3, <2>1 DEF AskedOnce
      <3>2. k # j
        BY <1>3, <1>5, <1>6, <2>1, <3>1
      <3> QED
        BY <1>4, <3>1, <3>2
    <2> QED
      BY <1>3, <1>4, <2>1 DEF AskedOnce
  <1>8. ASSUME NEW d \in Clients, NEW k \in Outstanding(d)' \ Held(d)'
        PROVE  Indices(k) \cap ran'[d] = {}
    <2>1. k \in Outstanding(d) /\ k # j
      BY <1>4, <1>8
    <2>2. k \notin Held(d)
      <3> SUFFICES ASSUME k \in Held(d) PROVE FALSE
        OBVIOUS
      <3>1. k.ctx = d /\ k # NoJob /\ \E u \in Threads : k = held[u]
        BY Members
      <3>2. \E u \in Threads : k = held'[u]
        BY <1>3, <2>1, <3>1
      <3>3. k \in Held(d)'
        BY <3>1, <3>2 DEF Held
      <3> QED
        BY <1>8, <3>3
    <2> QED
      BY <1>3, <2>1, <2>2 DEF RunInTurn
  <1>9. \A u \in Threads : held'[u] # NoJob =>
           /\ idx'[u] \in held'[u].lo .. held'[u].hi
           /\ \A i \in held'[u].lo .. held'[u].hi - 1 :
                <<held'[u].call, i>> \in ran'[held'[u].ctx] <=> i < idx'[u]
    BY <1>3 DEF RunInTurn
  <1> QED
    BY <1>7, <1>8, <1>9 DEF RunInTurn

LEMMA PromiseStep ==
    ASSUME CounterInv, OpenInUse, AskedOnce, RunInTurn, [Next]_vars
    PROVE  AskedOnce' /\ RunInTurn' /\ [Pool!PoolNext]_(Pool!poolVars)
  <1>0. CounterInv' /\ TypeOK'
    BY CounterStep DEF CounterInv
  <1>1. CASE \E c \in Clients : Execute(c) \/ Dispatch(c)
    <2>1. PICK c \in Clients, n \in Positive, g \in Positive, wake \in {"one", "all"} :
             NoOverflow(n, g) /\ Submit(c, n, g, wake)
      BY <1>1, SubmitCases
    <2>2. AskedOnce' /\ RunInTurn' /\ Pool!Submit(c, calls[c] + 1, n)
          /\ calls[c] + 1 \in 1 .. MaxCalls /\ n \in 1 .. UintRange - 1
      BY <1>0, <2>1, PromiseSubmit
    <2> QED
      BY <2>2 DEF Pool!PoolNext
  <1>2. CASE \E c \in Clients : WaitNotBusy(c) \/ SpinDone(c)
    <2>1. PICK c \in Clients : WaitNotBusy(c) \/ SpinDone(c)
      BY <1>2
    <2>2. open[c] /\ Return(c)
      BY <2>1 DEF WaitNotBusy, SpinDone, OpenInUse, InWait
    <2>3. \A d \in Clients : Outstanding(d)' = Outstanding(d)
      BY <1>0, <2>1, CounterClient
    <2>4. AskedOnce' /\ RunInTurn' /\ Pool!Return(c)
      BY <2>2, <2>3, PromiseReturn
    <2> QED
      BY <2>4 DEF Pool!PoolNext
  <1>3. CASE \E c \in Clients :
                \/ PickQueue(c) \/ PushJob(c) \/ Notify(c) \/ WaitBusy(c)
                \/ WakeAll(c) \/ Help(c) \/ Leave(c)
    <2>1. UNCHANGED <<held, idx, ran, runs, asked, calls, open>>
      BY <1>3
      DEF PickQueue, PushJob, Notify, WaitBusy, WakeAll, Help, Leave, StartWork,
          clientVars, historyVars
    <2>2. \A d \in Clients : Outstanding(d)' = Outstanding(d)
      BY <1>0, <1>3, CounterClient, CounterPush
    <2> QED
      BY <2>1, <2>2, PromiseFrame DEF Pool!poolVars
  <1>4. CASE \E t \in Threads : PopEmpty(t)
    <2>1. UNCHANGED <<held, idx, ran, runs, asked, calls, open>>
      BY <1>4 DEF PopEmpty, clientVars, historyVars
    <2>2. \A d \in Clients : Outstanding(d)' = Outstanding(d)
      BY <1>0, <1>4, CounterOther
    <2> QED
      BY <2>1, <2>2, PromiseFrame DEF Pool!poolVars
  <1>5. CASE \E t \in Threads : PopJob(t)
    <2>1. UNCHANGED <<ran, runs, asked, open>>
      BY <1>5 DEF PopJob, clientVars, historyVars
    <2> QED
      BY <1>0, <1>5, <2>1, PromisePop DEF Pool!poolVars
  <1>6. CASE \E t \in Threads : RunIndex(t)
    <2>1. PICK t \in Threads : RunIndex(t)
      BY <1>6
    <2>2. \A d \in Clients : Outstanding(d)' = Outstanding(d)
      BY <1>0, <1>6, CounterOther
    <2>3. /\ AskedOnce' /\ RunInTurn'
          /\ \E c \in Clients : \E item \in asked[c] : Pool!RunOne(c, item)
      BY <2>1, <2>2, PromiseRun
    <2> QED
      BY <2>3 DEF Pool!PoolNext
  <1>7. CASE \E t \in Threads : FinishJob(t)
    <2>1. UNCHANGED <<ran, runs, asked, open>>
      BY <1>7 DEF FinishJob, clientVars, historyVars
    <2> QED
      BY <1>0, <1>7, <2>1, PromiseFinish DEF Pool!poolVars
  <1>8. CASE \/ \E w \in Workers :
                  CheckAlive(w) \/ Sleep(w) \/ WakeUp(w) \/ SpuriousWakeUp(w)
             \/ Stop \/ UNCHANGED vars
    <2>1. UNCHANGED <<held, idx, ran, runs, asked, calls, open>>
      BY <1>8
      DEF CheckAlive, Sleep, WakeUp, SpuriousWakeUp, StartWork, Stop, StopAlive, StopNotify,
          StopDrain, vars, threadVars, clientVars, historyVars
    <2>2. \A d \in Clients : Outstanding(d)' = Outstanding(d)
      BY <1>0, <1>8, CounterOther
    <2> QED
      BY <2>1, <2>2, PromiseFrame DEF Pool!poolVars
  <1> QED
    BY <1>1, <1>2, <1>3, <1>4, <1>5, <1>6, <1>7, <1>8, StepCases DEF Work

\* The threads, queues and counters implement what the header promises: each
\* job asked of a context runs once, and a Wait that returns has seen them all.
THEOREM PromiseKept == Spec => PoolPromise
  <1>1. Init => CounterInv /\ OpenInUse /\ AskedOnce /\ RunInTurn
    BY CounterInit, OpenInit, PromiseInit
  <1>2. CounterInv /\ OpenInUse /\ AskedOnce /\ RunInTurn /\ [Next]_vars
          => /\ (CounterInv /\ OpenInUse /\ AskedOnce /\ RunInTurn)'
             /\ [Pool!PoolNext]_(Pool!poolVars)
    BY CounterStep, OpenStep, PromiseStep
  <1>3. Init => Pool!PoolInit
    BY DEF Init, Pool!PoolInit
  <1> QED
    BY <1>1, <1>2, <1>3, PTL DEF Spec, PoolPromise, Pool!PoolSpec
=============================================================================
