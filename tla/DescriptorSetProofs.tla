------------------------- MODULE DescriptorSetProofs -------------------------
(***************************************************************************)
(* Theorems about DescriptorSet for any number of frames in flight and any *)
(* values of the buffer and the texture.                                   *)
(***************************************************************************)
EXTENDS DescriptorSet, SequenceTheorems, TLAPS

-----------------------------------------------------------------------------
(***************************************************************************)
(* The ring                                                                *)
(***************************************************************************)
(* What a queue of frames holds after each step of the ring. *)
LEMMA QueueSteps ==
    ASSUME NEW S, NEW s \in Seq(S)
    PROVE  /\ ToSet(s) \subseteq S
           /\ \A x \in S : ToSet(Append(s, x)) = ToSet(s) \cup {x}
           /\ s # <<>> => Tail(s) \in Seq(S) /\ ToSet(Tail(s)) \subseteq ToSet(s)
  <1>1. ToSet(s) \subseteq S
    BY DEF ToSet
  <1>2. ASSUME NEW x \in S
        PROVE  ToSet(Append(s, x)) = ToSet(s) \cup {x}
    <2> DEFINE t == Append(s, x)
    <2>1. /\ Len(s) \in Nat
          /\ DOMAIN s = 1 .. Len(s)
          /\ DOMAIN t = 1 .. Len(s) + 1
          /\ \A i \in 1 .. Len(s) : t[i] = s[i]
          /\ t[Len(s) + 1] = x
      BY AppendProperties, LenProperties
    <2> HIDE DEF t
    <2>2. ToSet(t) \subseteq ToSet(s) \cup {x}
      BY <2>1 DEF ToSet
    <2>3. ToSet(s) \subseteq ToSet(t) /\ x \in ToSet(t)
      BY <2>1 DEF ToSet
    <2> QED
      BY <2>2, <2>3 DEF t
  <1>3. ASSUME s # <<>>
        PROVE  Tail(s) \in Seq(S) /\ ToSet(Tail(s)) \subseteq ToSet(s)
    BY <1>3 DEF ToSet
  <1> QED
    BY <1>1, <1>2, <1>3

(* The main thread records into a buffer that is not in flight: the part   *)
(* of the ring's promise that the copies rest on.                          *)
RingInv ==
    /\ count \in 1 .. MaxFrames
    /\ current \in Frames
    /\ recording \in BOOLEAN
    /\ inFlight \in Seq(Frames)
    /\ recording => current \notin ToSet(inFlight)

LEMMA RingStep ==
    ASSUME RingInv, RingNext \/ UNCHANGED ringVars
    PROVE  RingInv'
  <1> USE MaxFramesAssumption
  <1>0. CASE UNCHANGED ringVars
    BY <1>0 DEF ringVars, RingInv, Frames
  <1>1. CASE BeginFrame
    <2>1. (current + 1) % count \in Frames
      BY DEF RingInv, Frames
    <2> QED
      BY <1>1, <2>1 DEF BeginFrame, NextBuffer, RingInv, Frames
  <1>2. CASE SubmitFrame
    <2>1. inFlight' \in Seq(Frames)
      BY <1>2 DEF SubmitFrame, RingInv
    <2> QED
      BY <1>2, <2>1 DEF SubmitFrame, RingInv, Frames
  <1>3. CASE FinishFrame
    <2>1. inFlight' \in Seq(Frames) /\ ToSet(inFlight') \subseteq ToSet(inFlight)
      BY <1>3, QueueSteps DEF FinishFrame, RingInv
    <2> QED
      BY <1>3, <2>1 DEF FinishFrame, RingInv, Frames
  <1> QED
    BY <1>0, <1>1, <1>2, <1>3 DEF RingNext

-----------------------------------------------------------------------------
(***************************************************************************)
(* Types                                                                   *)
(***************************************************************************)
(* Marking, clearing and writing give one value to one frame or to all. *)
LEMMA FlagTypes ==
    ASSUME current \in Frames,
           NEW V, NEW v \in V,
           NEW flags \in [Frames -> BOOLEAN], NEW copies \in [Frames -> V]
    PROVE  /\ Mark(flags) \in [Frames -> BOOLEAN]
           /\ Clear(flags) \in [Frames -> BOOLEAN]
           /\ Write(copies, v) \in [Frames -> V]
           /\ \A f \in Frames :
                 /\ Mark(flags)[f] = TRUE
                 /\ Clear(flags)[f] = IF f = current THEN FALSE ELSE flags[f]
                 /\ Write(copies, v)[f] = IF f = current THEN v ELSE copies[f]
  BY DEF Mark, Clear, Write

LEMMA TypeInit == Init => TypeOK /\ RingInv
  <1> SUFFICES ASSUME Init PROVE TypeOK /\ RingInv
    OBVIOUS
  <1>1. /\ count \in 1 .. MaxFrames /\ current = 0 /\ recording = FALSE
        /\ inFlight = <<>>
    BY DEF Init, RingInit
  <1>2. current \in Frames
    BY <1>1, MaxFramesAssumption DEF Frames
  <1>3. inFlight \in Seq(Frames) /\ ToSet(inFlight) = {}
    BY <1>1, EmptySeq DEF ToSet
  <1>4. RingInv
    BY <1>1, <1>2, <1>3 DEF RingInv
  <1> HIDE DEF Frames
  <1>5. TypeOK
    BY <1>1, <1>2, <1>3 DEF Init, TypeOK
  <1> QED
    BY <1>4, <1>5

(* The part of Update for the buffer writes data to the copy of the        *)
(* current frame if that copy is marked, and unmarks it.                   *)
LEMMA UniformStep ==
    ASSUME TypeOK, NEW d \in Data \cup {Unset}, NEW flags \in [Frames -> BOOLEAN],
           UpdateUniform(d, flags), count' = count
    PROVE  /\ uniform' \in [Frames -> Data \cup {Unset}]
           /\ hasUpdated' \in [Frames -> BOOLEAN]
           /\ \A f \in Frames : f # current =>
                 uniform'[f] = uniform[f] /\ hasUpdated'[f] = flags[f]
           /\ uniform'[current] = IF flags[current] THEN d ELSE uniform[current]
           /\ hasUpdated'[current] = FALSE
  BY DEF UpdateUniform, Write, Clear, TypeOK

(* The part for the descriptors. *)
LEMMA DescriptorStep ==
    ASSUME TypeOK, UpdateDescriptors, count' = count
    PROVE  /\ written' \in [Frames -> Textures \cup {Unset}]
           /\ dirty' \in [Frames -> BOOLEAN]
           /\ updated' \in [Frames -> BOOLEAN]
           /\ \A f \in Frames : f # current => /\ written'[f] = written[f]
                                               /\ dirty'[f] = dirty[f]
                                               /\ updated'[f] = updated[f]
           /\ ~dirty'[current] /\ updated'[current]
           /\ written'[current] = IF (dirty[current] \/ ~updated[current]) /\ texture # Unset
                                  THEN texture ELSE written[current]
  BY ZenonT(30) DEF UpdateDescriptors, Write, Clear, TypeOK

LEMMA TypeStep ==
    ASSUME TypeOK, RingInv, [Next]_vars
    PROVE  TypeOK' /\ RingInv'
  <1>1. ASSUME NEW d \in Data, SetUniform(d)
        PROVE  TypeOK' /\ RingInv'
    BY <1>1 DEF SetUniform, Mark, TypeOK, RingInv, Frames, ringVars
  <1>2. ASSUME NEW t \in Textures, SetTexture(t)
        PROVE  TypeOK' /\ RingInv'
    BY <1>2 DEF SetTexture, Mark, TypeOK, RingInv, Frames, ringVars
  <1>3. CASE Draw
    <2>1. UNCHANGED <<count, current, recording, inFlight, storage, texture>>
      BY <1>3 DEF Draw, ringVars
    <2>2. /\ UpdateUniform(storage, hasUpdated)
          /\ UpdateDescriptors
          /\ storage \in Data /\ texture \in Textures
      BY <1>3 DEF Draw, Update, TypeOK
    <2>3. /\ uniform' \in [Frames -> Data \cup {Unset}]
          /\ hasUpdated' \in [Frames -> BOOLEAN]
      BY <2>1, <2>2, UniformStep DEF TypeOK
    <2>4. /\ written' \in [Frames -> Textures \cup {Unset}]
          /\ dirty' \in [Frames -> BOOLEAN]
          /\ updated' \in [Frames -> BOOLEAN]
      BY <2>1, <2>2, DescriptorStep
    <2>5. /\ draws' \in [Frames -> SUBSET [data : Data, texture : Textures]]
          /\ special' \subseteq SpecialUses
      BY <1>3, <2>2 DEF Draw, TypeOK, SpecialUses
    <2> QED
      BY <2>1, <2>3, <2>4, <2>5 DEF TypeOK, RingInv, Frames
  <1>4. ASSUME NEW d \in Data, EditMaterial(d)
        PROVE  TypeOK' /\ RingInv'
    <2>1. UNCHANGED <<count, current, recording, inFlight, texture, draws>>
      BY <1>4 DEF EditMaterial, ringVars
    <2>2. Mark(hasUpdated) \in [Frames -> BOOLEAN]
      BY DEF Mark
    <2>3. /\ uniform' \in [Frames -> Data \cup {Unset}]
          /\ hasUpdated' \in [Frames -> BOOLEAN]
      BY <1>4, <2>1, <2>2, UniformStep DEF EditMaterial
    <2>4. /\ written' \in [Frames -> Textures \cup {Unset}]
          /\ dirty' \in [Frames -> BOOLEAN]
          /\ updated' \in [Frames -> BOOLEAN]
      BY <1>4, <2>1, DescriptorStep DEF EditMaterial
    <2>5. storage' \in Data /\ special' \subseteq SpecialUses
      BY <1>4 DEF EditMaterial, TypeOK, SpecialUses
    <2> QED
      BY <2>1, <2>3, <2>4, <2>5 DEF TypeOK, RingInv, Frames
  <1>5. CASE Ring
    <2>1. RingInv' /\ count' = count
      BY <1>5, RingStep DEF Ring, RingNext, BeginFrame, SubmitFrame, FinishFrame
    <2>2. draws' \in [Frames -> SUBSET [data : Data, texture : Textures]]
      BY <1>5 DEF Ring, TypeOK
    <2> QED
      BY <1>5, <2>1, <2>2 DEF Ring, setVars, TypeOK, RingInv, Frames
  <1>6. CASE UNCHANGED vars
    BY <1>6 DEF vars, setVars, ringVars, TypeOK, RingInv, Frames
  <1> QED
    BY <1>1, <1>2, <1>3, <1>4, <1>5, <1>6 DEF Next

(* Type correctness: the ring stays a ring of the frames there are. *)
THEOREM TypeCorrect == Spec => [](TypeOK /\ RingInv)
  BY TypeInit, TypeStep, PTL DEF Spec

-----------------------------------------------------------------------------
(***************************************************************************)
(* The copies follow the program's values                                  *)
(***************************************************************************)
(* A texture, once set, is never null again. *)
UnsetUnwritten == texture = Unset => \A f \in Frames : written[f] = Unset

LEMMA FreshStep ==
    ASSUME TypeOK, UnmarkedIsFresh, UnsetUnwritten, [Next]_vars
    PROVE  UnmarkedIsFresh' /\ UnsetUnwritten'
  <1>1. ASSUME NEW d \in Data, SetUniform(d)
        PROVE  UnmarkedIsFresh' /\ UnsetUnwritten'
    BY <1>1 DEF SetUniform, Mark, UnmarkedIsFresh, UnsetUnwritten, Frames, ringVars
  <1>2. ASSUME NEW t \in Textures, SetTexture(t)
        PROVE  UnmarkedIsFresh' /\ UnsetUnwritten'
    <2>1. t # Unset
      BY DescriptorSetAssumption
    <2> QED
      BY <1>2, <2>1 DEF SetTexture, Mark, UnmarkedIsFresh, UnsetUnwritten, Frames, ringVars
  <1>3. ASSUME UpdateDescriptors, UNCHANGED <<count, current, texture>>
        PROVE  /\ UnsetUnwritten'
               /\ \A f \in Frames : ~dirty'[f] => updated'[f] /\ written'[f] = texture'
    BY <1>3, DescriptorStep DEF UnmarkedIsFresh, UnsetUnwritten, Frames
  <1>4. CASE Draw
    <2>1. /\ UpdateUniform(storage, hasUpdated) /\ UpdateDescriptors
          /\ UNCHANGED <<count, current, texture, storage>>
      BY <1>4 DEF Draw, Update, ringVars
    <2>2. \A f \in Frames : ~hasUpdated'[f] => uniform'[f] = storage'
      BY <2>1, UniformStep, ZenonT(30) DEF TypeOK, UnmarkedIsFresh
    <2> QED
      BY <1>3, <2>1, <2>2 DEF UnmarkedIsFresh, Frames
  <1>5. ASSUME NEW d \in Data, EditMaterial(d)
        PROVE  UnmarkedIsFresh' /\ UnsetUnwritten'
    <2>1. /\ UpdateUniform(d, Mark(hasUpdated)) /\ UpdateDescriptors
          /\ UNCHANGED <<count, current, texture>> /\ storage' = d
      BY <1>5 DEF EditMaterial, ringVars
    <2>2. /\ Mark(hasUpdated) \in [Frames -> BOOLEAN]
          /\ \A f \in Frames : Mark(hasUpdated)[f]
      BY DEF Mark
    <2>3. \A f \in Frames : ~hasUpdated'[f] => uniform'[f] = storage'
      BY <2>1, <2>2, UniformStep, ZenonT(30) DEF TypeOK
    <2> QED
      BY <1>3, <2>1, <2>3 DEF UnmarkedIsFresh, Frames
  <1>6. CASE Ring \/ UNCHANGED vars
    <2>1. UNCHANGED <<setVars, count>>
      BY <1>6 DEF Ring, BeginFrame, SubmitFrame, FinishFrame, vars, ringVars
    <2> QED
      BY <2>1 DEF setVars, UnmarkedIsFresh, UnsetUnwritten, Frames
  <1> QED
    BY <1>1, <1>2, <1>4, <1>5, <1>6 DEF Next

(* The flags never hide a newer value from the GPU's copies, for any       *)
(* number of frames in flight and however the set is used.                 *)
THEOREM UnmarkedAlwaysFresh == Spec => []UnmarkedIsFresh
  <1>1. Init => UnmarkedIsFresh /\ UnsetUnwritten
    BY DEF Init, UnmarkedIsFresh, UnsetUnwritten
  <1>2. TypeOK /\ UnmarkedIsFresh /\ UnsetUnwritten /\ [Next]_vars =>
            UnmarkedIsFresh' /\ UnsetUnwritten'
    BY FreshStep
  <1> QED
    BY <1>1, <1>2, TypeCorrect, PTL DEF Spec

-----------------------------------------------------------------------------
(***************************************************************************)
(* Frames in flight                                                        *)
(***************************************************************************)
(* The copies are written in Draw and EditMaterial only, and only those of *)
(* the current frame.                                                      *)
LEMMA OnlyCurrentWritten ==
    ASSUME TypeOK, [Next]_vars, ~\E d \in Data : EditMaterial(d)
    PROVE  \A f \in Frames :
              (uniform'[f] # uniform[f] \/ written'[f] # written[f]) => f = current /\ Draw
  <1>1. CASE Draw
    <2>1. /\ UpdateUniform(storage, hasUpdated) /\ UpdateDescriptors /\ count' = count
      BY <1>1 DEF Draw, Update, ringVars
    <2> QED
      BY <1>1, <2>1, UniformStep, DescriptorStep DEF TypeOK
  <1>2. CASE ~Draw
    BY <1>2 DEF Next, SetUniform, SetTexture, Ring, setVars, vars
  <1> QED
    BY <1>1, <1>2

(* Outside EditMaterial, what the GPU may be reading is left alone. *)
THEOREM InFlightAlwaysUntouched == Spec => InFlightUntouched
  <1>1. ASSUME TypeOK, RingInv, [Next]_vars, "edit" \notin special'
        PROVE  InFlightKept
    <2>1. ~\E d \in Data : EditMaterial(d)
      BY <1>1 DEF EditMaterial
    <2>2. \A f \in ToSet(inFlight) : f \in Frames
      BY <1>1, QueueSteps DEF RingInv
    <2>3. Draw => current \notin ToSet(inFlight)
      BY <1>1 DEF Draw, RingInv
    <2> QED
      BY <1>1, <2>1, <2>2, <2>3, OnlyCurrentWritten DEF InFlightKept
  <1>2. TypeOK /\ RingInv /\ [Next]_vars => [("edit" \notin special') => InFlightKept]_vars
    BY <1>1
  <1> QED
    BY <1>2, TypeCorrect, PTL DEF Spec, InFlightUntouched

(* What a frame's commands were recorded with is what they read. *)
LEMMA SeenStep ==
    ASSUME TypeOK, RingInv, UnmarkedIsFresh, DrawsSeeTheirData, [Next]_vars
    PROVE  DrawsSeeTheirData'
  <1> SUFFICES ASSUME special' = {}
               PROVE  DrawsSeeTheirData'
    BY DEF DrawsSeeTheirData
  <1>1. special = {} /\ ~\E d \in Data : EditMaterial(d)
    BY DEF Next, SetUniform, SetTexture, Draw, EditMaterial, Ring, vars
  <1>2. \A f \in Frames :
           f \in ToSet(inFlight) \/ (recording /\ f = current) =>
               \A d \in draws[f] : uniform[f] = d.data /\ written[f] = d.texture
    BY <1>1 DEF DrawsSeeTheirData
  <1>3. CASE Draw
    <2>1. /\ UNCHANGED <<count, current, recording, inFlight, storage, texture>>
          /\ recording
          /\ UpdateUniform(storage, hasUpdated) /\ UpdateDescriptors
          /\ storage # Unset /\ texture # Unset
      BY <1>3 DEF Draw, Update, ringVars
    <2>2. current \in Frames /\ current \notin ToSet(inFlight)
      BY <2>1 DEF RingInv
    <2>3. ~Redraw
      BY <1>3 DEF Draw
    <2>4. /\ draws'[current] = draws[current] \cup {[data |-> storage, texture |-> texture]}
          /\ \A f \in Frames : f # current => draws'[f] = draws[f]
      BY <1>3, <2>2 DEF Draw, TypeOK
    <2>5. uniform'[current] = storage /\ written'[current] = texture
      BY <2>1, <2>2, UniformStep, DescriptorStep DEF TypeOK, UnmarkedIsFresh
    <2>6. draws[current] # {} => uniform'[current] = uniform[current]
                                 /\ written'[current] = written[current]
      <3>1. draws[current] # {} => ~hasUpdated[current] /\ ~dirty[current]
        BY <2>3 DEF Redraw
      <3> QED
        BY <2>2, <2>5, <3>1 DEF UnmarkedIsFresh
    <2>7. \A d \in draws'[current] : uniform'[current] = d.data /\ written'[current] = d.texture
      BY <1>2, <2>1, <2>2, <2>4, <2>5, <2>6
    <2>8. \A f \in Frames : f # current => uniform'[f] = uniform[f] /\ written'[f] = written[f]
      BY <1>1, OnlyCurrentWritten
    <2> QED
      BY <1>2, <2>1, <2>4, <2>7, <2>8 DEF DrawsSeeTheirData, Frames
  <1>4. CASE ~Draw
    <2>1. \A f \in Frames : uniform'[f] = uniform[f] /\ written'[f] = written[f]
      BY <1>1, <1>4, OnlyCurrentWritten
    <2>2. CASE Ring
      <3>1. CASE BeginFrame
        <4>1. /\ count' = count /\ inFlight' = inFlight /\ current' = NextBuffer
              /\ draws' = [draws EXCEPT ![NextBuffer] = {}]
          BY <2>2, <3>1 DEF Ring, BeginFrame, SubmitFrame, FinishFrame
        <4>2. current' \in Frames
          BY <3>1, <4>1, RingStep DEF RingNext, RingInv, Frames
        <4>3. \A f \in Frames : draws'[f] = IF f = current' THEN {} ELSE draws[f]
          BY <4>1 DEF TypeOK
        <4> QED
          BY <1>2, <2>1, <4>1, <4>3 DEF DrawsSeeTheirData, Frames
      <3>2. CASE SubmitFrame
        <4>1. /\ count' = count /\ current' = current /\ recording /\ ~recording'
              /\ draws' = draws
          BY <2>2, <3>2 DEF Ring, BeginFrame, SubmitFrame, FinishFrame
        <4>2. ToSet(inFlight') = ToSet(inFlight) \cup {current}
          BY <3>2, QueueSteps DEF SubmitFrame, RingInv
        <4> QED
          BY <1>2, <2>1, <4>1, <4>2 DEF DrawsSeeTheirData, Frames
      <3>3. CASE FinishFrame
        <4>1. /\ count' = count /\ current' = current /\ recording' = recording
              /\ ToSet(inFlight') \subseteq ToSet(inFlight)
          BY <3>3, QueueSteps DEF FinishFrame, RingInv
        <4>2. draws' = draws \/ BeginFrame
          BY <2>2, <3>3 DEF Ring
        <4> QED
          BY <1>2, <2>1, <3>1, <4>1, <4>2 DEF DrawsSeeTheirData, Frames
      <3> QED
        BY <2>2, <3>1, <3>2, <3>3 DEF Ring
    <2>3. CASE UNCHANGED <<ringVars, draws>>
      BY <1>2, <2>1, <2>3 DEF ringVars, DrawsSeeTheirData, Frames
    <2> QED
      BY <1>1, <1>4, <2>2, <2>3 DEF Next, SetUniform, SetTexture, vars
  <1> QED
    BY <1>3, <1>4

(* Each frame reads what was set when it was recorded, however many frames *)
(* are in flight, if the set is updated once per recorded frame.           *)
THEOREM DrawsAlwaysSeeTheirData == Spec => []DrawsSeeTheirData
  <1>1. Init => DrawsSeeTheirData
    BY DEF Init, DrawsSeeTheirData
  <1>2. TypeOK /\ RingInv /\ UnmarkedIsFresh /\ DrawsSeeTheirData /\ [Next]_vars =>
            DrawsSeeTheirData'
    BY SeenStep
  <1> QED
    BY <1>1, <1>2, TypeCorrect, UnmarkedAlwaysFresh, PTL DEF Spec
=============================================================================
