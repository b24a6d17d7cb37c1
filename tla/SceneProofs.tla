----------------------------- MODULE SceneProofs -----------------------------
(***************************************************************************)
(* Theorems about SceneManager, for any names, any scene files and any     *)
(* number of scenes, and about SceneHierarchy, for any number of entities  *)
(* and after any sequence of the operations on them.                       *)
(***************************************************************************)
EXTENDS SceneManager, SceneHierarchy, SequenceTheorems, FiniteSetTheorems,
        WellFoundedInduction, TLAPS

-----------------------------------------------------------------------------
(***************************************************************************)
(* Types                                                                   *)
(***************************************************************************)
\* The parts of TypeOK about the manager, and where a scene can be current.
Working == phase \in {"setup", "frame", "client", "quit"}

Lists ==
    /\ current => phase \in {"frame", "client", "quit"}
    /\ current => sceneIdx < Len(scenes)
    /\ version \notin 1 .. 2 =>
          /\ Working => Len(scenes) > 0
          /\ phase = "splash" => Len(scenes) + Len(toLoad) > 0
    /\ version \notin 1 .. 3 /\ ~asked =>
          /\ phase \in {"splash", "setup", "frame"} => switching \/ current
          /\ phase = "client" => current

LEMMA ListSteps ==
    ASSUME NEW list \in Seq(Names), NEW n \in Names
    PROVE  /\ Len(list) \in Nat /\ DOMAIN list = 1 .. Len(list)
           /\ Append(list, n) \in Seq(Names) /\ Len(Append(list, n)) = Len(list) + 1
           /\ StripAll(list) \in Seq(Names) /\ Len(StripAll(list)) = Len(list)
           /\ \A i \in 0 .. Len(list) - 1 :
                 Loaded(list, i) \in Seq(Names) /\ Len(Loaded(list, i)) = Len(list)
           /\ \A more \in Seq(Names) :
                 list \o more \in Seq(Names) /\ Len(list \o more) = Len(list) + Len(more)
  <1>1. /\ Len(list) \in Nat /\ DOMAIN list = 1 .. Len(list)
        /\ \A i \in 1 .. Len(list) : list[i] \in Names
    BY LenProperties, ElementOfSeq
  <1>2. StripAll(list) \in Seq(Names) /\ Len(StripAll(list)) = Len(list)
    BY <1>1, SceneManagerAssumption DEF StripAll
  <1>3. ASSUME NEW i \in 0 .. Len(list) - 1
        PROVE  Loaded(list, i) \in Seq(Names) /\ Len(Loaded(list, i)) = Len(list)
    <2>1. i + 1 \in 1 .. Len(list)
      BY <1>1
    <2>2. CASE list[i + 1] \in DOMAIN Stored
      <3>1. Stored[list[i + 1]] \in Names
        BY <2>2, SceneManagerAssumption DEF Range
      <3>2. Loaded(list, i) = [list EXCEPT ![i + 1] = Stored[list[i + 1]]]
        BY <2>2 DEF Loaded
      <3> QED
        BY <2>1, <3>1, <3>2, ExceptSeq
    <2>3. CASE list[i + 1] \notin DOMAIN Stored
      BY <2>3 DEF Loaded
    <2> QED
      BY <2>2, <2>3
  <1>4. ASSUME NEW more \in Seq(Names)
        PROVE  list \o more \in Seq(Names) /\ Len(list \o more) = Len(list) + Len(more)
    BY ConcatProperties
  <1> QED
    BY <1>1, <1>2, <1>3, <1>4, AppendProperties

\* A set of numbers has a least one: < is a well-founded relation.
LEMMA LeastNumber ==
    ASSUME NEW T, T \subseteq Nat, T # {}
    PROVE  \E x \in T : \A y \in T : x <= y
  <1>1. PICK R : IsWellFoundedOn(R, Nat) /\ \A x, y \in Nat : x < y => <<x, y>> \in R
    <2> DEFINE R == OpToRel(<, Nat)
    <2>1. \A x, y \in Nat : x < y => <<x, y>> \in R
      BY DEF OpToRel
    <2>2. IsWellFoundedOn(R, Nat)
      BY NatLessThanWellFounded
    <2> HIDE DEF R
    <2> QED
      BY <2>1, <2>2
  <1>2. T \subseteq Nat /\ T # {}
    OBVIOUS
  <1>3. \A S : IsWellFoundedOn(R, S) /\ T \subseteq S =>
           \E x \in T : \A y \in T : ~ (<<y, x>> \in R)
    BY <1>2, WFMin, Zenon
  <1>4. PICK x \in T : \A y \in T : ~ (<<y, x>> \in R)
    BY <1>1, <1>2, <1>3
  <1>5. ASSUME NEW y \in T PROVE x <= y
    <2>1. ~ (y < x)
      BY <1>1, <1>2, <1>4
    <2> QED
      BY <1>2, <2>1
  <1> QED
    BY <1>5

\* The first scene with a name is a scene with that name.
LEMMA FirstNamed ==
    ASSUME NEW n, Named(n) # {}, scenes \in Seq(Names)
    PROVE  First(Named(n)) \in 1 .. Len(scenes)
  <1>1. Named(n) \subseteq 1 .. Len(scenes) /\ Len(scenes) \in Nat
    BY LenProperties DEF Named
  <1>2. \E i \in Named(n) : \A j \in Named(n) : i <= j
    BY <1>1, LeastNumber
  <1>3. First(Named(n)) \in Named(n)
    BY <1>2 DEF First
  <1> QED
    BY <1>1, <1>3

LEMMA TypeInit == Init => TypeOK /\ Lists
  <1> SUFFICES ASSUME Init PROVE TypeOK /\ Lists
    OBVIOUS
  <1>1. \A n \in Nat : BoundedSeq(Names, n) \subseteq Seq(Names)
    BY SeqDef DEF BoundedSeq, SeqOf
  <1>2. file \in Files
    BY <1>1 DEF Init, Files, None, Corrupt, Version
  <1>3. last \in Files
    BY <1>2 DEF Init, Files, None
  <1>4. {scenes, filePaths, toLoad} \subseteq Seq(Names)
    BY EmptySeq DEF Init
  <1>5. {switching, closing, asked, resolved} \subseteq BOOLEAN
    BY DEF Init
  <1>6. phase = "off" /\ toLoad = <<>> /\ sceneIdx = 0 /\ ~current /\ queued = -1
    BY DEF Init
  <1>7. current \in BOOLEAN
    BY DEF Init
  <1>8. version \in 0 .. Version
    BY DEF Init, Version
  <1> QED
    BY <1>2, <1>3, <1>4, <1>5, <1>6, <1>7, <1>8 DEF TypeOK, Lists, Working, Phases

LEMMA TypeStep ==
    ASSUME TypeOK, Lists, [Next]_vars
    PROVE  TypeOK' /\ Lists'
  <1> USE DEF Phases, Working
  <1>0. /\ file \in Files /\ version \in 0 .. Version /\ last \in Files /\ phase \in Phases
        /\ scenes \in Seq(Names) /\ filePaths \in Seq(Names) /\ toLoad \in Seq(Names)
        /\ sceneIdx \in Nat /\ queued \in Int
        /\ current \in BOOLEAN /\ switching \in BOOLEAN /\ closing \in BOOLEAN
        /\ asked \in BOOLEAN /\ resolved \in BOOLEAN
        /\ (phase = "splash" \/ toLoad = <<>>)
    BY DEF TypeOK
  <1>1. ASSUME file' \in Files, version' \in 0 .. Version, last' \in Files, phase' \in Phases,
               scenes' \in Seq(Names), filePaths' \in Seq(Names), toLoad' \in Seq(Names),
               sceneIdx' \in Nat, queued' \in Int,
               current' \in BOOLEAN, switching' \in BOOLEAN, closing' \in BOOLEAN,
               asked' \in BOOLEAN, resolved' \in BOOLEAN,
               phase' = "splash" \/ toLoad' = <<>>
        PROVE  TypeOK'
    BY <1>1 DEF TypeOK
  <1>2. CASE Start
    <2>0. \A f \in Files : f.kind \in {"partial", "whole"} =>
            /\ f.version \in 1 .. Version
            /\ ScenesRead(f) \in Seq(Names) /\ ScenesOfLoad(f) \in Seq(Names)
            /\ f.version > 2 => Len(ScenesOfLoad(f)) + Len(ScenesRead(f)) > 0
      <3> SUFFICES ASSUME NEW f \in Files, f.kind \in {"partial", "whole"}
                   PROVE  /\ f.version \in 1 .. Version
                          /\ ScenesRead(f) \in Seq(Names) /\ ScenesOfLoad(f) \in Seq(Names)
                          /\ f.version > 2 => Len(ScenesOfLoad(f)) + Len(ScenesRead(f)) > 0
        OBVIOUS
      <3>1. f.scenes \in Seq(Names) /\ f.version \in 1 .. Version
        BY DEF Files, Version
      <3>2. /\ EmptyName \in Names /\ <<EmptyName>> \in Seq(Names) /\ Len(<<EmptyName>>) = 1
            /\ <<>> \in Seq(Names) /\ Len(<<>>) = 0
        BY SceneManagerAssumption
      <3>3. ScenesRead(f) \in Seq(Names) /\ ScenesOfLoad(f) \in Seq(Names)
        BY <3>1, <3>2 DEF ScenesRead, ScenesOfLoad
      <3>4. ASSUME f.version > 2
            PROVE  Len(ScenesOfLoad(f)) + Len(ScenesRead(f)) > 0
        <4>1. CASE f.scenes = <<>>
          BY <3>2, <3>4, <4>1 DEF ScenesRead, ScenesOfLoad
        <4>2. CASE f.scenes # <<>>
          <5>1. Len(f.scenes) \in Nat \ {0}
            BY <3>1, <4>2, EmptySeq
          <5>2. ScenesOfLoad(f) = <<>> /\ ScenesRead(f) = f.scenes
            BY <3>4, <4>2 DEF ScenesOfLoad, ScenesRead
          <5> QED
            BY <3>2, <5>1, <5>2
        <4> QED
          BY <4>1, <4>2
      <3> QED
        BY <3>1, <3>3, <3>4
    <2>1. /\ scenes' \in Seq(Names) /\ toLoad' \in Seq(Names) /\ queued' \in Int
          /\ version' \in 0 .. Version /\ switching' \in BOOLEAN
          /\ version' \notin 1 .. 2 => Len(scenes') + Len(toLoad') > 0
          /\ version' \notin 1 .. 3 => switching'
      <3>0. /\ EmptyName \in Names /\ <<EmptyName>> \in Seq(Names) /\ Len(<<EmptyName>>) = 1
            /\ <<>> \in Seq(Names) /\ Len(<<>>) = 0
        BY SceneManagerAssumption
      <3>1. CASE file.kind \in {"none", "corrupt"}
        <4>1. /\ scenes' = <<EmptyName>> /\ toLoad' = <<>> /\ queued' = 0
              /\ version' = 0 /\ switching' = TRUE
          BY <1>2, <3>1 DEF Start, Deserialise
        <4> QED
          BY <3>0, <4>1 DEF Version
      <3>2. CASE file.kind = "partial"
        <4>1. /\ scenes' = Append(ScenesOfLoad(file), EmptyName)
              /\ toLoad' = ScenesRead(file) /\ queued' = 0
              /\ version' = file.version /\ switching' = TRUE
          BY <1>2, <3>2 DEF Start, Deserialise
        <4>2. /\ ScenesOfLoad(file) \in Seq(Names) /\ ScenesRead(file) \in Seq(Names)
              /\ file.version \in 0 .. Version
          BY <1>0, <2>0, <3>2 DEF Version
        <4>3. /\ scenes' \in Seq(Names) /\ Len(scenes') = Len(ScenesOfLoad(file)) + 1
              /\ Len(ScenesOfLoad(file)) \in Nat /\ Len(toLoad') \in Nat
          BY <3>0, <4>1, <4>2, ListSteps
        <4>4. Len(scenes') + Len(toLoad') > 0
          BY <4>3
        <4> QED
          BY <4>1, <4>2, <4>3, <4>4
      <3>3. CASE file.kind = "whole"
        <4>1. /\ scenes' = ScenesOfLoad(file) /\ toLoad' = ScenesRead(file)
              /\ version' = file.version
              /\ \/ queued' = file.index /\ switching' = TRUE
                 \/ queued' = 0 /\ switching' = TRUE
                 \/ ~ReadsIndex(file) /\ UNCHANGED <<queued, switching>>
          BY <1>2, <3>3 DEF Start, Deserialise
        <4>2. /\ ScenesOfLoad(file) \in Seq(Names) /\ ScenesRead(file) \in Seq(Names)
              /\ file.version \in 1 .. 8
              /\ file.version > 2 => Len(ScenesOfLoad(file)) + Len(ScenesRead(file)) > 0
          BY <1>0, <2>0, <3>3 DEF Version
        <4>3. file.index \in Nat
          BY <1>0, <3>3 DEF Files
        <4>4. queued' \in Int /\ version' \in 0 .. Version
          BY <1>0, <4>1, <4>2, <4>3 DEF Version
        <4>7. switching' \in BOOLEAN
          BY <1>0, <4>1
        <4>5. version' \notin 1 .. 2 => Len(scenes') + Len(toLoad') > 0
          BY <4>1, <4>2
        <4>6. version' \notin 1 .. 3 => switching'
          BY <4>1, <4>2 DEF ReadsIndex
        <4> QED
          BY <4>1, <4>2, <4>4, <4>5, <4>6, <4>7
      <3> QED
        BY <1>0, <3>1, <3>2, <3>3 DEF Files
    <2>2. /\ phase = "off" /\ phase' = "splash" /\ current' = current
          /\ UNCHANGED <<file, filePaths, sceneIdx, closing, last>>
          /\ asked' = FALSE /\ resolved' = switching'
      BY <1>2 DEF Start
    <2>3. Lists'
      BY <2>1, <2>2 DEF Lists
    <2> QED
      BY <1>0, <1>1, <2>1, <2>2, <2>3
  <1>3. CASE LoadCurrentList
    <2>1. /\ phase = "splash" /\ phase' = "setup" /\ current' = current
          /\ UNCHANGED <<file, version, sceneIdx, queued, switching, last, asked, resolved>>
          /\ scenes' = scenes \o StripAll(toLoad)
          /\ filePaths' = filePaths \o toLoad
          /\ toLoad' = <<>> /\ closing' = FALSE
      BY <1>3 DEF LoadCurrentList, LeftToLoad, history
    <2>2. /\ scenes' \in Seq(Names) /\ filePaths' \in Seq(Names) /\ toLoad' \in Seq(Names)
          /\ Len(scenes') = Len(scenes) + Len(toLoad)
      <3>1. StripAll(toLoad) \in Seq(Names) /\ Len(StripAll(toLoad)) = Len(toLoad)
        BY <1>0, SceneManagerAssumption, ListSteps
      <3>2. scenes' \in Seq(Names) /\ Len(scenes') = Len(scenes) + Len(toLoad)
        <4>1. scenes \in Seq(Names) /\ StripAll(toLoad) \in Seq(Names)
          BY <1>0, <3>1
        <4>2. scenes' = scenes \o StripAll(toLoad)
          BY <2>1
        <4>3. /\ scenes \o StripAll(toLoad) \in Seq(Names)
              /\ Len(scenes \o StripAll(toLoad)) = Len(scenes) + Len(StripAll(toLoad))
          BY ONLY <4>1, ConcatProperties
        <4> QED
          BY <3>1, <4>2, <4>3
      <3> QED
        BY <1>0, <2>1, <3>2, ConcatProperties, EmptySeq
    <2>3. Lists'
      BY <1>0, <2>1, <2>2 DEF Lists
    <2> QED
      BY <1>0, <1>1, <2>1, <2>2, <2>3
  <1>4. CASE Client
    <2>1. /\ phase \in {"setup", "client"} /\ phase' = phase /\ asked' = TRUE
          /\ UNCHANGED <<file, version, toLoad, sceneIdx, current, closing, last>>
      BY <1>4 DEF Client, SwitchScene, SwitchToIndex, SwitchSceneIndex, SwitchSceneName,
                  SetSwitchScene, EnqueueScene, EnqueueSceneFromFile, InClient
    <2>2. \A i \in Int : SwitchToIndex(i) =>
             /\ queued' \in Int /\ switching' \in BOOLEAN /\ resolved' \in BOOLEAN
             /\ UNCHANGED <<scenes, filePaths>>
      BY DEF SwitchToIndex
    <2>3. /\ scenes' \in Seq(Names) /\ filePaths' \in Seq(Names)
          /\ Len(scenes') >= Len(scenes)
          /\ queued' \in Int /\ switching' \in BOOLEAN /\ resolved' \in BOOLEAN
      <3>0. Len(scenes) \in Nat
        BY <1>0, ListSteps
      <3>1. CASE SwitchScene
        <4>1. Len(scenes) > 0
          BY <1>0, <3>0, <3>1, EmptySeq DEF SwitchScene
        <4>2. (sceneIdx + 1) % Len(scenes) \in Int
          BY <1>0, <3>0, <4>1
        <4> QED
          BY <1>0, <2>2, <3>0, <3>1, <4>2 DEF SwitchScene
      <3>2. CASE \E i \in -1 .. MaxScenes : SwitchSceneIndex(i)
        BY <1>0, <2>2, <3>0, <3>2, SceneManagerAssumption DEF SwitchSceneIndex
      <3>3. CASE \E n \in Names : SwitchSceneName(n)
        <4>1. PICK n \in Names : SwitchSceneName(n)
          BY <3>3
        <4>2. CASE Named(n) # {}
          <5>1. First(Named(n)) - 1 \in Int
            BY <1>0, <3>0, <4>2, FirstNamed
          <5>2. SwitchToIndex(First(Named(n)) - 1)
            BY <4>1, <4>2 DEF SwitchSceneName
          <5> QED
            BY <1>0, <2>2, <3>0, <5>1, <5>2
        <4>3. CASE Named(n) = {}
          <5>1. switching' = TRUE /\ UNCHANGED <<scenes, filePaths, queued, resolved>>
            BY <4>1, <4>3 DEF SwitchSceneName
          <5> QED
            BY <1>0, <3>0, <5>1
        <4> QED
          BY <4>2, <4>3
      <3>4. CASE \E b \in BOOLEAN : SetSwitchScene(b)
        <4>1. PICK b \in BOOLEAN : SetSwitchScene(b)
          BY <3>4
        <4>2. switching' = b /\ UNCHANGED <<scenes, filePaths, queued, resolved>>
          BY <4>1 DEF SetSwitchScene
        <4> QED
          BY <1>0, <3>0, <4>2
      <3>5. CASE \E n \in Names : EnqueueScene(n)
        <4>1. PICK n \in Names : EnqueueScene(n)
          BY <3>5
        <4>2. /\ scenes' = Append(scenes, n)
              /\ UNCHANGED <<filePaths, queued, switching, resolved>>
          BY <4>1 DEF EnqueueScene
        <4>3. scenes' \in Seq(Names) /\ Len(scenes') = Len(scenes) + 1
          BY <1>0, <4>2, ListSteps
        <4> QED
          BY <1>0, <3>0, <4>2, <4>3
      <3>6. CASE \E n \in Names : EnqueueSceneFromFile(n)
        <4>1. PICK n \in Names : EnqueueSceneFromFile(n)
          BY <3>6
        <4>2. /\ scenes' = Append(scenes, Strip[n]) /\ filePaths' = Append(filePaths, n)
              /\ UNCHANGED <<queued, switching, resolved>>
          BY <4>1 DEF EnqueueSceneFromFile
        <4>3. Strip[n] \in Names
          BY SceneManagerAssumption
        <4>4. scenes' \in Seq(Names) /\ Len(scenes') = Len(scenes) + 1
          BY <1>0, <4>2, <4>3, ListSteps
        <4>5. filePaths' \in Seq(Names)
          BY <1>0, <4>2, ListSteps
        <4> QED
          BY <1>0, <3>0, <4>2, <4>4, <4>5
      <3> QED
        BY <1>4, <3>1, <3>2, <3>3, <3>4, <3>5, <3>6 DEF Client
    <2>4. Lists'
      BY <1>0, <2>1, <2>3, ListSteps DEF Lists
    <2> QED
      BY <1>0, <1>1, <2>1, <2>3, <2>4
  <1>5. CASE ApplySceneSwitch
    <2> DEFINE at == IF ValidIndex(queued) THEN queued ELSE 0
    <2>1. /\ phase = "frame" /\ sceneIdx' = at /\ scenes' = Loaded(scenes, at)
          /\ queued' = Requeue(queued) /\ current' = TRUE /\ switching' = FALSE
          /\ resolved' = FALSE
          /\ UNCHANGED <<file, version, phase, filePaths, toLoad, closing, last, asked>>
      BY <1>5 DEF ApplySceneSwitch
    <2>2. Len(scenes) \in Nat /\ Len(scenes) > 0
      <3>1. scenes # <<>>
        BY <1>5 DEF ApplySceneSwitch
      <3> QED
        BY <1>0, <3>1, ListSteps, EmptySeq
    <2>3. at \in 0 .. Len(scenes) - 1 /\ Requeue(queued) \in Int
      BY <1>0, <2>2 DEF ValidIndex, Requeue
    <2>4. scenes' \in Seq(Names) /\ Len(scenes') = Len(scenes)
      BY <1>0, <2>1, <2>3, SceneManagerAssumption, ListSteps
    <2>5. Lists'
      BY <2>1, <2>2, <2>3, <2>4 DEF Lists
    <2>6. sceneIdx' \in Nat /\ queued' \in Int
      BY <2>1, <2>2, <2>3
    <2> HIDE DEF at
    <2> QED
      BY <1>0, <1>1, <2>1, <2>4, <2>5, <2>6
  <1>6. CASE BeginFrame \/ EndFrame
    <2>1. /\ UNCHANGED <<file, scenes, filePaths, toLoad, sceneIdx, current, queued, switching>>
          /\ UNCHANGED <<version, closing, last, asked, resolved>>
          /\ \/ phase = "frame" /\ ~switching /\ phase' = "client"
             \/ phase \in {"setup", "client"} /\ phase' \in {"frame", "quit"}
      BY <1>6 DEF BeginFrame, EndFrame, manager, history
    <2>2. Lists'
      BY <2>1 DEF Lists
    <2> QED
      BY <1>0, <1>1, <2>1, <2>2
  <1>7. CASE OnWindowClose
    <2>1. /\ UNCHANGED <<file, phase, scenes, filePaths, toLoad, sceneIdx, current, queued>>
          /\ UNCHANGED <<version, switching, last, asked, resolved>>
          /\ closing' = TRUE
      BY <1>7 DEF OnWindowClose, manager, history
    <2>2. Lists'
      BY <2>1 DEF Lists
    <2> QED
      BY <1>0, <1>1, <2>1, <2>2
  <1>8. CASE OnQuit \/ Crash
    <2>1. /\ phase' = "off" /\ Absent /\ UNCHANGED <<asked, resolved>>
      BY <1>8 DEF OnQuit, Crash
    <2>2. /\ scenes' \in Seq(Names) /\ filePaths' \in Seq(Names) /\ toLoad' \in Seq(Names)
          /\ toLoad' = <<>> /\ sceneIdx' = 0 /\ current' = FALSE /\ queued' = -1
          /\ switching' = FALSE /\ closing' = FALSE /\ version' \in 0 .. Version
      BY <2>1, EmptySeq DEF Absent, Version
    <2>3. file' \in Files /\ last' \in Files
      <3>1. CASE OnQuit
        BY <1>0, <3>1 DEF OnQuit, Whole, Files, Version, GetSceneFilePaths, GetCurrentSceneIndex
      <3>2. CASE Crash
        BY <1>0, <3>2 DEF Crash, Corrupt, None, Files
      <3> QED
        BY <1>8, <3>1, <3>2
    <2>4. Lists'
      BY <2>1, <2>2 DEF Lists
    <2>5. phase' \in Phases /\ sceneIdx' \in Nat /\ queued' \in Int
      BY <2>1, <2>2
    <2> QED
      BY <1>0, <1>1, <2>1, <2>2, <2>3, <2>4, <2>5
  <1>9. CASE UNCHANGED vars
    BY <1>0, <1>1, <1>9 DEF vars, manager, history, Lists
  <1> QED
    BY <1>2, <1>3, <1>4, <1>5, <1>6, <1>7, <1>8, <1>9 DEF Next

\* Whatever the client asks for, and whatever project file a session starts
\* from, but for those of the old versions that NeverEmpty and SceneComes name:
\* there is a scene while there is work, the first frame has a current one, and
\* the current one is in the list.
THEOREM TypeCorrect == Spec => [](TypeOK /\ NeverEmpty /\ SceneComes)
  <1>1. TypeOK /\ Lists => NeverEmpty /\ SceneComes
    <2> SUFFICES ASSUME TypeOK, Lists PROVE NeverEmpty /\ SceneComes
      OBVIOUS
    <2>1. scenes \in Seq(Names)
      BY DEF TypeOK
    <2>2. Working /\ version \notin 1 .. 2 => scenes # <<>>
      BY <2>1, EmptySeq DEF Lists
    <2> QED
      BY <2>2 DEF NeverEmpty, SceneComes, Lists, Working
  <1>2. TypeOK /\ Lists /\ [Next]_vars => TypeOK' /\ Lists'
    BY TypeStep
  <1> QED
    BY TypeInit, <1>1, <1>2, PTL DEF Spec
-----------------------------------------------------------------------------
(***************************************************************************)
(* What a session finds of the last one                                    *)
(***************************************************************************)
\* The last project file is the one on the disk unless it has been lost; ...
FileIsLast == last.kind = "whole" => file = last

\* ... the start takes all of it, ...
StartTakesAll ==
    phase = "splash" /\ last.kind = "whole" /\ last.version > 2 =>
        /\ toLoad = last.scenes
        /\ last.version > 3 => queued = last.index
        /\ last.scenes # <<>> => scenes = <<>>

\* ... and as long as the client has not asked for anything, the list and the
\* index are those of the file: names change when the first scene is entered.
SessionKeeps ==
    Working /\ last.kind = "whole" /\ last.version > 2 /\ last.scenes # <<>> /\ ~asked =>
        /\ Len(scenes) = Len(last.scenes)
        /\ ~current => scenes = StripAll(last.scenes)
        /\ last.version > 3 /\ last.index < Len(last.scenes) =>
              queued = last.index /\ (current => sceneIdx = last.index)

\* An unresolved request leaves the index in the queue that is current.
QueueIsCurrent == current /\ ~resolved => queued = sceneIdx

Kept == FileIsLast /\ StartTakesAll /\ SessionKeeps /\ QueueIsCurrent

LEMMA KeptInit == Init => Kept
  <1> SUFFICES ASSUME Init PROVE Kept
    OBVIOUS
  <1>1. FileIsLast
    BY DEF Init, FileIsLast, None
  <1> QED
    BY <1>1 DEF Init, Kept, StartTakesAll, SessionKeeps, QueueIsCurrent, Working

LEMMA KeptStep ==
    ASSUME TypeOK, Lists, Kept, [Next]_vars
    PROVE  Kept'
  <1> USE DEF Kept
  <1>0. /\ scenes \in Seq(Names) /\ toLoad \in Seq(Names) /\ sceneIdx \in Nat /\ queued \in Int
        /\ (last.kind = "whole" =>
               last.scenes \in Seq(Names) /\ last.index \in Nat /\ last.version \in Nat)
    BY DEF TypeOK, Files, Version
  <1>1. ASSUME UNCHANGED <<file, last>> PROVE FileIsLast'
    BY <1>1 DEF FileIsLast
  <1>2. CASE Start
    <2>1. /\ phase' = "splash" /\ UNCHANGED <<file, last, current, sceneIdx>>
          /\ phase = "off"
      BY <1>2 DEF Start
    <2>2. ASSUME last.kind = "whole", last.version > 2
          PROVE  /\ toLoad' = last.scenes
                 /\ last.version > 3 => queued' = last.index
                 /\ last.scenes # <<>> => scenes' = <<>>
      <3>1. file = last
        BY <2>2 DEF FileIsLast
      <3> QED
        BY <1>2, <2>2, <3>1 DEF Start, Deserialise, ScenesOfLoad, ScenesRead, ReadsIndex
    <2>3. StartTakesAll'
      BY <2>1, <2>2 DEF StartTakesAll
    <2>4. ~current
      BY <2>1 DEF Lists
    <2> QED
      BY <1>1, <2>1, <2>3, <2>4 DEF SessionKeeps, QueueIsCurrent, Working
  <1>3. CASE LoadCurrentList
    <2>1. /\ phase = "splash" /\ phase' = "setup" /\ scenes' = scenes \o StripAll(toLoad)
          /\ UNCHANGED <<file, last, sceneIdx, current, queued, asked, resolved>>
      BY <1>3 DEF LoadCurrentList, history
    <2>2. ~current
      BY <2>1 DEF Lists
    <2>3. ASSUME last.kind = "whole", last.version > 2, last.scenes # <<>>
          PROVE  /\ Len(scenes') = Len(last.scenes) /\ scenes' = StripAll(last.scenes)
                 /\ last.version > 3 => queued' = last.index
      <3>1. toLoad = last.scenes /\ scenes = <<>> /\ (last.version > 3 => queued = last.index)
        BY <2>1, <2>3 DEF StartTakesAll
      <3>2. StripAll(toLoad) \in Seq(Names) /\ Len(StripAll(toLoad)) = Len(toLoad)
        BY <1>0, SceneManagerAssumption, ListSteps
      <3>3. scenes' = StripAll(toLoad)
        BY <2>1, <3>1, <3>2, ConcatEmptySeq
      <3> QED
        BY <2>1, <3>1, <3>2, <3>3
    <2>4. SessionKeeps'
      BY <2>1, <2>2, <2>3 DEF SessionKeeps
    <2> QED
      BY <1>1, <2>1, <2>2, <2>4 DEF StartTakesAll, QueueIsCurrent
  <1>4. CASE Client
    <2>1. /\ phase \in {"setup", "client"} /\ phase' = phase /\ asked' = TRUE
          /\ UNCHANGED <<file, last, sceneIdx, current>>
          /\ resolved' = TRUE \/ UNCHANGED <<queued, resolved>>
      BY <1>4 DEF Client, SwitchScene, SwitchToIndex, SwitchSceneIndex, SwitchSceneName,
                  SetSwitchScene, EnqueueScene, EnqueueSceneFromFile, InClient
    <2> QED
      BY <1>1, <2>1 DEF StartTakesAll, SessionKeeps, QueueIsCurrent
  <1>5. CASE ApplySceneSwitch
    <2> DEFINE at == IF ValidIndex(queued) THEN queued ELSE 0
    <2>1. /\ phase = "frame" /\ phase' = phase /\ sceneIdx' = at /\ scenes' = Loaded(scenes, at)
          /\ queued' = at /\ current' = TRUE
          /\ UNCHANGED <<file, last, asked>>
      BY <1>5 DEF ApplySceneSwitch, Requeue
    <2>2. Len(scenes) \in Nat /\ Len(scenes) > 0
      <3>1. scenes # <<>>
        BY <1>5 DEF ApplySceneSwitch
      <3> QED
        BY <1>0, <3>1, SceneManagerAssumption, ListSteps, EmptySeq
    <2>3. at \in 0 .. Len(scenes) - 1
      BY <1>0, <2>2 DEF ValidIndex
    <2>4. Len(scenes') = Len(scenes)
      BY <1>0, <2>1, <2>3, SceneManagerAssumption, ListSteps
    <2>5. ASSUME last.kind = "whole", last.version > 2, last.scenes # <<>>, ~asked
          PROVE  /\ Len(scenes') = Len(last.scenes)
                 /\ last.version > 3 /\ last.index < Len(last.scenes) =>
                       queued' = last.index /\ sceneIdx' = last.index
      <3>1. /\ Len(scenes) = Len(last.scenes)
            /\ last.version > 3 /\ last.index < Len(last.scenes) => queued = last.index
        BY <2>1, <2>5 DEF SessionKeeps, Working
      <3>2. ASSUME last.version > 3, last.index < Len(last.scenes) PROVE at = last.index
        <4>1. queued = last.index /\ last.index \in Nat
          BY <1>0, <2>5, <3>1, <3>2
        <4> QED
          BY <3>1, <3>2, <4>1 DEF ValidIndex
      <3> QED
        BY <2>1, <2>4, <3>1, <3>2
    <2>6. SessionKeeps'
      BY <2>1, <2>5 DEF SessionKeeps
    <2> QED
      BY <1>1, <2>1, <2>6 DEF StartTakesAll, QueueIsCurrent
  <1>6. CASE BeginFrame \/ EndFrame \/ OnWindowClose
    <2>1. /\ UNCHANGED <<file, last, scenes, toLoad, sceneIdx, current, queued, asked, resolved>>
          /\ phase' = phase \/ (Working /\ phase' # "splash")
      BY <1>6 DEF BeginFrame, EndFrame, OnWindowClose, manager, history, Working
    <2> QED
      BY <1>1, <2>1 DEF StartTakesAll, SessionKeeps, QueueIsCurrent, Working
  <1>7. CASE OnQuit \/ Crash
    <2>1. phase' = "off" /\ current' = FALSE
      BY <1>7 DEF OnQuit, Crash, Absent
    <2>2. FileIsLast'
      <3>1. CASE OnQuit
        BY <3>1 DEF OnQuit, FileIsLast, GetSceneFilePaths, GetCurrentSceneIndex
      <3>2. CASE Crash
        BY <1>1, <3>2 DEF Crash, FileIsLast, None
      <3> QED
        BY <1>7, <3>1, <3>2
    <2> QED
      BY <2>1, <2>2 DEF StartTakesAll, SessionKeeps, QueueIsCurrent, Working
  <1>8. CASE UNCHANGED vars
    BY <1>8 DEF vars, manager, history, FileIsLast, StartTakesAll, SessionKeeps, QueueIsCurrent, Working
  <1> QED
    BY <1>2, <1>3, <1>4, <1>5, <1>6, <1>7, <1>8 DEF Next

LEMMA KeptImplies ==
    ASSUME TypeOK, Lists, Kept
    PROVE  ScenesKept /\ CurrentKept
  <1>0. last.kind = "whole" =>
          last.scenes \in Seq(Names) /\ last.index \in Nat /\ last.version \in Nat
    BY DEF TypeOK, Files, Version
  <1>1. ScenesKept
    <2> SUFFICES ASSUME last.kind = "whole", last.version > 2, last.scenes # <<>>, phase \in {"setup", "frame"},
                        ~asked, ~current
                 PROVE  /\ Len(scenes) = Len(last.scenes)
                        /\ \A i \in DOMAIN scenes :
                              Strip[last.scenes[i]] = last.scenes[i] => scenes[i] = last.scenes[i]
      BY DEF ScenesKept
    <2>1. Len(scenes) = Len(last.scenes) /\ scenes = StripAll(last.scenes)
      BY DEF Kept, SessionKeeps, Working
    <2> QED
      BY <2>1 DEF StripAll
  <1>2. CurrentKept
    <2> SUFFICES ASSUME last.kind = "whole", last.version > 3, last.index < Len(last.scenes), current, ~asked
                 PROVE  sceneIdx = last.index
      BY DEF CurrentKept
    <2>1. last.scenes # <<>>
      BY <1>0
    <2>2. last.version > 2
      BY <1>0
    <2> QED
      BY <2>1, <2>2 DEF Lists, Kept, SessionKeeps, Working
  <1> QED
    BY <1>1, <1>2

\* The project survives its sessions: quitting, crashing and starting again
\* brings back the scenes, their names and the current one, from a file of the
\* version that is written now, and from an older one what load reads of it.
THEOREM ProjectAlwaysKept == Spec => []ProjectKept
  <1>1. TypeOK /\ Lists /\ Kept /\ [Next]_vars => (TypeOK /\ Lists /\ Kept)'
    BY TypeStep, KeptStep
  <1>2. TypeOK /\ Lists /\ Kept => ScenesKept /\ CurrentKept
    BY KeptImplies
  <1>3. ScenesKept /\ CurrentKept /\ TypeOK /\ NeverEmpty /\ SceneComes => ProjectKept
    BY DEF ProjectKept
  <1> QED
    BY TypeInit, KeptInit, TypeCorrect, <1>1, <1>2, <1>3, PTL DEF Spec

\* A request that found no scene leads back to the current one: an index that
\* is not valid has been replaced in the queue when it was used.
THEOREM UnknownAlwaysKeepsScene == Spec => UnknownKeepsScene
  <1>1. TypeOK /\ Lists /\ Kept /\ [Next]_vars => (TypeOK /\ Lists /\ Kept)'
    BY TypeStep, KeptStep
  <1>2. ASSUME TypeOK, Lists, Kept, [Next]_vars
        PROVE  [ApplySceneSwitch /\ current /\ ~resolved => sceneIdx' = sceneIdx]_vars
    <2>1. ASSUME ApplySceneSwitch, current, ~resolved
          PROVE  sceneIdx' = sceneIdx
      <3>1. queued = sceneIdx
        BY <1>2, <2>1 DEF Kept, QueueIsCurrent
      <3>2. sceneIdx \in Nat /\ sceneIdx < Len(scenes)
        BY <1>2, <2>1 DEF TypeOK, Lists
      <3> QED
        BY <2>1, <3>1, <3>2 DEF ApplySceneSwitch, ValidIndex
    <2> QED
      BY <2>1
  <1> QED
    BY TypeInit, KeptInit, <1>1, <1>2, PTL DEF Spec, UnknownKeepsScene

-----------------------------------------------------------------------------
(***************************************************************************)
(* SceneHierarchy: the graph of the links, and what reading and writing    *)
(* one link does to it                                                     *)
(***************************************************************************)
Graphs == [Entities -> Hierarchy \cup {NoHierarchy}]

LEMMA ComponentFields ==
    ASSUME NEW p \in Ref, NEW f \in Ref, NEW n \in Ref, NEW b \in Ref
    PROVE  /\ Component(p, f, n, b) \in Hierarchy
           /\ Component(p, f, n, b) # NoHierarchy
           /\ Component(p, f, n, b).parent = p /\ Component(p, f, n, b).first = f
           /\ Component(p, f, n, b).next = n /\ Component(p, f, n, b).prev = b
  <1>1. Component(p, f, n, b) # NoHierarchy
    <2>1. "parent" \in DOMAIN Component(p, f, n, b)
      BY DEF Component
    <2>2. "parent" \notin DOMAIN NoHierarchy
      BY DEF NoHierarchy
    <2> QED
      BY <2>1, <2>2
  <1> QED
    BY <1>1 DEF Component, Hierarchy

LEMMA Access ==
    ASSUME NEW g \in Graphs, NEW x \in Ref
    PROVE  /\ ParentOf(g, x) \in Ref /\ FirstOf(g, x) \in Ref
           /\ NextOf(g, x) \in Ref /\ PrevOf(g, x) \in Ref
           /\ Has(g, x) => /\ x \in Entities /\ g[x] \in Hierarchy
                           /\ g[x].parent = ParentOf(g, x) /\ g[x].first = FirstOf(g, x)
                           /\ g[x].next = NextOf(g, x) /\ g[x].prev = PrevOf(g, x)
           /\ ~Has(g, x) => /\ ParentOf(g, x) = null /\ FirstOf(g, x) = null
                            /\ NextOf(g, x) = null /\ PrevOf(g, x) = null
  <1>1. null \in Ref
    BY DEF Ref
  <1>2. Has(g, x) => x \in Entities /\ g[x] \in Hierarchy
    BY DEF Graphs, Has, Ref
  <1>3. CASE Has(g, x)
    <2>1. g[x] \in [parent : Ref, first : Ref, next : Ref, prev : Ref]
      BY <1>2, <1>3 DEF Hierarchy
    <2>2. g[x].parent \in Ref /\ g[x].first \in Ref /\ g[x].next \in Ref /\ g[x].prev \in Ref
      BY <2>1
    <2> QED
      BY <1>2, <1>3, <2>2 DEF ParentOf, FirstOf, NextOf, PrevOf
  <1>4. CASE ~Has(g, x)
    BY <1>1, <1>4 DEF ParentOf, FirstOf, NextOf, PrevOf
  <1> QED
    BY <1>3, <1>4

(* The graph g after e has got a component, and after it has lost it. *)
With(g, e, p, f, n, b) == [g EXCEPT ![e] = Component(p, f, n, b)]
WithoutComponent(g, e) == [g EXCEPT ![e] = NoHierarchy]

LEMMA WithLinks ==
    ASSUME NEW g \in Graphs, NEW e \in Entities,
           NEW p \in Ref, NEW f \in Ref, NEW n \in Ref, NEW b \in Ref
    PROVE  LET k == With(g, e, p, f, n, b)
           IN  /\ k \in Graphs
               /\ \A x \in Ref :
                    /\ Has(k, x) <=> Has(g, x) \/ x = e
                    /\ ParentOf(k, x) = IF x = e THEN p ELSE ParentOf(g, x)
                    /\ FirstOf(k, x) = IF x = e THEN f ELSE FirstOf(g, x)
                    /\ NextOf(k, x) = IF x = e THEN n ELSE NextOf(g, x)
                    /\ PrevOf(k, x) = IF x = e THEN b ELSE PrevOf(g, x)
  <1> DEFINE c == Component(p, f, n, b)
             k == [g EXCEPT ![e] = c]
  <1>1. /\ c \in Hierarchy /\ c # NoHierarchy
        /\ c.parent = p /\ c.first = f /\ c.next = n /\ c.prev = b
    BY ComponentFields
  <1> HIDE DEF c
  <1>2. k \in Graphs
    BY <1>1 DEF Graphs
  <1>3. k[e] = c /\ \A x \in Entities \ {e} : k[x] = g[x]
    BY DEF Graphs
  <1>4. e # null
    BY DEF Entities, null
  <1>5. ASSUME NEW x \in Ref
        PROVE  /\ Has(k, x) <=> Has(g, x) \/ x = e
               /\ x # e => (Has(k, x) <=> Has(g, x)) /\ (Has(k, x) => k[x] = g[x])
    <2>1. CASE x = e
      BY <1>1, <1>3, <1>4, <2>1 DEF Has
    <2>2. CASE x # e /\ x \in Entities
      BY <1>3, <2>2 DEF Has
    <2>3. CASE x = null
      BY <1>4, <2>3 DEF Has
    <2> QED
      BY <2>1, <2>2, <2>3 DEF Ref
  <1> HIDE DEF k
  <1>6. ASSUME NEW x \in Ref
        PROVE  /\ ParentOf(k, x) = IF x = e THEN p ELSE ParentOf(g, x)
               /\ FirstOf(k, x) = IF x = e THEN f ELSE FirstOf(g, x)
               /\ NextOf(k, x) = IF x = e THEN n ELSE NextOf(g, x)
               /\ PrevOf(k, x) = IF x = e THEN b ELSE PrevOf(g, x)
    <2>1. CASE x = e
      BY <1>1, <1>3, <1>5, <2>1 DEF ParentOf, FirstOf, NextOf, PrevOf
    <2>2. CASE x # e
      BY <1>5, <2>2 DEF ParentOf, FirstOf, NextOf, PrevOf
    <2> QED
      BY <2>1, <2>2
  <1>7. k = With(g, e, p, f, n, b)
    BY DEF k, c, With
  <1> QED
    BY <1>2, <1>5, <1>6, <1>7

LEMMA WithoutLinks ==
    ASSUME NEW g \in Graphs, NEW e \in Entities
    PROVE  LET k == WithoutComponent(g, e)
           IN  /\ k \in Graphs
               /\ \A x \in Ref :
                    /\ Has(k, x) <=> Has(g, x) /\ x # e
                    /\ ParentOf(k, x) = IF x = e THEN null ELSE ParentOf(g, x)
                    /\ FirstOf(k, x) = IF x = e THEN null ELSE FirstOf(g, x)
                    /\ NextOf(k, x) = IF x = e THEN null ELSE NextOf(g, x)
                    /\ PrevOf(k, x) = IF x = e THEN null ELSE PrevOf(g, x)
  <1> DEFINE k == [g EXCEPT ![e] = NoHierarchy]
  <1>2. k \in Graphs
    BY DEF Graphs
  <1>3. k[e] = NoHierarchy /\ \A x \in Entities \ {e} : k[x] = g[x]
    BY DEF Graphs
  <1>4. e # null
    BY DEF Entities, null
  <1>5. ASSUME NEW x \in Ref
        PROVE  /\ Has(k, x) <=> Has(g, x) /\ x # e
               /\ x # e /\ Has(k, x) => k[x] = g[x]
    <2>1. CASE x = e
      BY <1>3, <1>4, <2>1 DEF Has
    <2>2. CASE x # e /\ x \in Entities
      BY <1>3, <2>2 DEF Has
    <2>3. CASE x = null
      BY <1>4, <2>3 DEF Has
    <2> QED
      BY <2>1, <2>2, <2>3 DEF Ref
  <1> HIDE DEF k
  <1>6. ASSUME NEW x \in Ref
        PROVE  /\ ParentOf(k, x) = IF x = e THEN null ELSE ParentOf(g, x)
               /\ FirstOf(k, x) = IF x = e THEN null ELSE FirstOf(g, x)
               /\ NextOf(k, x) = IF x = e THEN null ELSE NextOf(g, x)
               /\ PrevOf(k, x) = IF x = e THEN null ELSE PrevOf(g, x)
    BY <1>5 DEF ParentOf, FirstOf, NextOf, PrevOf
  <1>7. k = WithoutComponent(g, e)
    BY DEF k, WithoutComponent
  <1> QED
    BY <1>2, <1>5, <1>6, <1>7

LEMMA SetFirstLinks ==
    ASSUME NEW g \in Graphs, NEW e \in Ref, NEW y \in Ref
    PROVE  LET k == SetFirst(g, e, y)
           IN  /\ k \in Graphs
               /\ \A x \in Ref :
                    /\ Has(k, x) <=> Has(g, x)
                    /\ ParentOf(k, x) = ParentOf(g, x)
                    /\ FirstOf(k, x) = IF x = e /\ Has(g, e) THEN y ELSE FirstOf(g, x)
                    /\ NextOf(k, x) = NextOf(g, x)
                    /\ PrevOf(k, x) = PrevOf(g, x)
  <1>1. CASE Has(g, e)
    <2> DEFINE k == With(g, e, ParentOf(g, e), y, NextOf(g, e), PrevOf(g, e))
    <2>1. /\ e \in Entities /\ ParentOf(g, e) \in Ref /\ NextOf(g, e) \in Ref
          /\ PrevOf(g, e) \in Ref
      BY <1>1, Access
    <2>2. SetFirst(g, e, y) = k
      BY <1>1, Access DEF SetFirst, With
    <2>3. /\ k \in Graphs
          /\ \A x \in Ref :
               /\ Has(k, x) <=> Has(g, x) \/ x = e
               /\ ParentOf(k, x) = IF x = e THEN ParentOf(g, e) ELSE ParentOf(g, x)
               /\ FirstOf(k, x) = IF x = e THEN y ELSE FirstOf(g, x)
               /\ NextOf(k, x) = IF x = e THEN NextOf(g, e) ELSE NextOf(g, x)
               /\ PrevOf(k, x) = IF x = e THEN PrevOf(g, e) ELSE PrevOf(g, x)
      BY <2>1, WithLinks
    <2> HIDE DEF k
    <2> QED
      BY <1>1, <2>2, <2>3
  <1>2. CASE ~Has(g, e)
    BY <1>2 DEF SetFirst
  <1> QED
    BY <1>1, <1>2

LEMMA SetNextLinks ==
    ASSUME NEW g \in Graphs, NEW e \in Ref, NEW y \in Ref
    PROVE  LET k == SetNext(g, e, y)
           IN  /\ k \in Graphs
               /\ \A x \in Ref :
                    /\ Has(k, x) <=> Has(g, x)
                    /\ ParentOf(k, x) = ParentOf(g, x)
                    /\ FirstOf(k, x) = FirstOf(g, x)
                    /\ NextOf(k, x) = IF x = e /\ Has(g, e) THEN y ELSE NextOf(g, x)
                    /\ PrevOf(k, x) = PrevOf(g, x)
  <1>1. CASE Has(g, e)
    <2> DEFINE k == With(g, e, ParentOf(g, e), FirstOf(g, e), y, PrevOf(g, e))
    <2>1. /\ e \in Entities /\ ParentOf(g, e) \in Ref /\ FirstOf(g, e) \in Ref
          /\ PrevOf(g, e) \in Ref
      BY <1>1, Access
    <2>2. SetNext(g, e, y) = k
      BY <1>1, Access DEF SetNext, With
    <2>3. /\ k \in Graphs
          /\ \A x \in Ref :
               /\ Has(k, x) <=> Has(g, x) \/ x = e
               /\ ParentOf(k, x) = IF x = e THEN ParentOf(g, e) ELSE ParentOf(g, x)
               /\ FirstOf(k, x) = IF x = e THEN FirstOf(g, e) ELSE FirstOf(g, x)
               /\ NextOf(k, x) = IF x = e THEN y ELSE NextOf(g, x)
               /\ PrevOf(k, x) = IF x = e THEN PrevOf(g, e) ELSE PrevOf(g, x)
      BY <2>1, WithLinks
    <2> HIDE DEF k
    <2> QED
      BY <1>1, <2>2, <2>3
  <1>2. CASE ~Has(g, e)
    BY <1>2 DEF SetNext
  <1> QED
    BY <1>1, <1>2

LEMMA SetPrevLinks ==
    ASSUME NEW g \in Graphs, NEW e \in Ref, NEW y \in Ref
    PROVE  LET k == SetPrev(g, e, y)
           IN  /\ k \in Graphs
               /\ \A x \in Ref :
                    /\ Has(k, x) <=> Has(g, x)
                    /\ ParentOf(k, x) = ParentOf(g, x)
                    /\ FirstOf(k, x) = FirstOf(g, x)
                    /\ NextOf(k, x) = NextOf(g, x)
                    /\ PrevOf(k, x) = IF x = e /\ Has(g, e) THEN y ELSE PrevOf(g, x)
  <1>1. CASE Has(g, e)
    <2> DEFINE k == With(g, e, ParentOf(g, e), FirstOf(g, e), NextOf(g, e), y)
    <2>1. /\ e \in Entities /\ ParentOf(g, e) \in Ref /\ FirstOf(g, e) \in Ref
          /\ NextOf(g, e) \in Ref
      BY <1>1, Access
    <2>2. SetPrev(g, e, y) = k
      BY <1>1, Access DEF SetPrev, With
    <2>3. /\ k \in Graphs
          /\ \A x \in Ref :
               /\ Has(k, x) <=> Has(g, x) \/ x = e
               /\ ParentOf(k, x) = IF x = e THEN ParentOf(g, e) ELSE ParentOf(g, x)
               /\ FirstOf(k, x) = IF x = e THEN FirstOf(g, e) ELSE FirstOf(g, x)
               /\ NextOf(k, x) = IF x = e THEN NextOf(g, e) ELSE NextOf(g, x)
               /\ PrevOf(k, x) = IF x = e THEN y ELSE PrevOf(g, x)
      BY <2>1, WithLinks
    <2> HIDE DEF k
    <2> QED
      BY <1>1, <2>2, <2>3
  <1>2. CASE ~Has(g, e)
    BY <1>2 DEF SetPrev
  <1> QED
    BY <1>1, <1>2

-----------------------------------------------------------------------------
(* What holds of the links at all times; rank grows from an entity to its *)
(* children, and from a child to the next.                                *)
LinkedAt(g, valid, rank, x) ==
    /\ x \in valid
    /\ NextOf(g, x) # null =>
         /\ Has(g, NextOf(g, x))
         /\ PrevOf(g, NextOf(g, x)) = x
         /\ ParentOf(g, NextOf(g, x)) = ParentOf(g, x)
         /\ rank[x] < rank[NextOf(g, x)]
    /\ FirstOf(g, x) # null =>
         /\ Has(g, FirstOf(g, x))
         /\ PrevOf(g, FirstOf(g, x)) = null
         /\ ParentOf(g, FirstOf(g, x)) = x
    /\ PrevOf(g, x) \in valid => Has(g, PrevOf(g, x)) /\ NextOf(g, PrevOf(g, x)) = x
    /\ ParentOf(g, x) # null => rank[ParentOf(g, x)] < rank[x]
    /\ ParentOf(g, x) = null => PrevOf(g, x) = null /\ NextOf(g, x) = null

Linked(g, valid, rank) ==
    /\ g \in Graphs
    /\ valid \subseteq Entities
    /\ rank \in [Entities -> Nat]
    /\ \A x \in Entities : Has(g, x) => LinkedAt(g, valid, rank, x)

(* The links back and up lead to where the links forward come from. *)
TidyAt(g, T, x) ==
    /\ PrevOf(g, x) # null => PrevOf(g, x) \in T /\ Has(g, PrevOf(g, x))
    /\ ParentOf(g, x) # null => Has(g, ParentOf(g, x))
    /\ ParentOf(g, x) # null /\ PrevOf(g, x) = null => FirstOf(g, ParentOf(g, x)) = x

Tidy(g, T) == \A x \in T : Has(g, x) => TidyAt(g, T, x)

LEMMA Bridged ==
    ASSUME NEW g, NEW valid, NEW rank, Linked(g, valid, rank),
           NEW e \in Entities, Has(g, e)
    PROVE  LET k == OnDestroy(g, valid, e)
               inner == PrevOf(g, e) \in valid
               head == ~inner /\ ParentOf(g, e) \in valid /\ Has(g, ParentOf(g, e))
           IN  /\ k \in Graphs
               /\ \A x \in Ref :
                    /\ Has(k, x) <=> Has(g, x)
                    /\ ParentOf(k, x) = ParentOf(g, x)
                    /\ FirstOf(k, x) = IF head /\ x = ParentOf(g, e)
                                       THEN NextOf(g, e) ELSE FirstOf(g, x)
                    /\ NextOf(k, x) = IF inner /\ x = PrevOf(g, e)
                                      THEN NextOf(g, e) ELSE NextOf(g, x)
                    /\ PrevOf(k, x) = IF x # null /\ x = NextOf(g, e) /\ (inner \/ head)
                                      THEN IF inner THEN PrevOf(g, e) ELSE null
                                      ELSE PrevOf(g, x)
  <1> DEFINE k == OnDestroy(g, valid, e)
             inner == PrevOf(g, e) \in valid
             head == ~inner /\ ParentOf(g, e) \in valid /\ Has(g, ParentOf(g, e))
             n == NextOf(g, e)
             b == PrevOf(g, e)
             p == ParentOf(g, e)
  <1>1. /\ g \in Graphs /\ valid \subseteq Entities /\ null \notin valid
        /\ e \in Ref /\ null \in Ref
    BY DEF Linked, Entities, null, Ref
  <1>2. /\ n \in Ref /\ b \in Ref /\ p \in Ref
        /\ g[e].next = n /\ g[e].prev = b /\ g[e].parent = p
    BY <1>1, Access
  <1>3. LinkedAt(g, valid, rank, e)
    BY DEF Linked
  <1>4. ~Has(g, null)
    BY DEF Has
  <1>5. CASE inner
    <2> DEFINE k1 == SetNext(g, b, n)
               k2 == SetPrev(k1, n, b)
    <2>1. OnDestroy(g, valid, e) = k2
      BY <1>1, <1>2, <1>5 DEF OnDestroy
    <2>2. /\ k1 \in Graphs
          /\ \A x \in Ref :
               /\ Has(k1, x) <=> Has(g, x)
               /\ ParentOf(k1, x) = ParentOf(g, x)
               /\ FirstOf(k1, x) = FirstOf(g, x)
               /\ NextOf(k1, x) = IF x = b /\ Has(g, b) THEN n ELSE NextOf(g, x)
               /\ PrevOf(k1, x) = PrevOf(g, x)
      BY <1>1, <1>2, SetNextLinks
    <2> HIDE DEF k1
    <2>3. /\ k2 \in Graphs
          /\ \A x \in Ref :
               /\ Has(k2, x) <=> Has(k1, x)
               /\ ParentOf(k2, x) = ParentOf(k1, x)
               /\ FirstOf(k2, x) = FirstOf(k1, x)
               /\ NextOf(k2, x) = NextOf(k1, x)
               /\ PrevOf(k2, x) = IF x = n /\ Has(k1, n) THEN b ELSE PrevOf(k1, x)
      BY <1>2, <2>2, SetPrevLinks
    <2>4. Has(g, b) /\ (n # null => Has(g, n))
      BY <1>3, <1>5 DEF LinkedAt
    <2> HIDE DEF k2, n, b, p
    <2>5. k = k2 /\ inner
      BY <2>1, <1>5
    <2>6. \A x \in Ref :
               /\ Has(k2, x) <=> Has(g, x)
               /\ ParentOf(k2, x) = ParentOf(g, x)
               /\ FirstOf(k2, x) = FirstOf(g, x)
               /\ NextOf(k2, x) = IF x = b THEN n ELSE NextOf(g, x)
               /\ PrevOf(k2, x) = IF x # null /\ x = n THEN b ELSE PrevOf(g, x)
      BY <1>2, <1>4, <2>2, <2>3, <2>4
    <2> QED
      BY <2>3, <2>5, <2>6 DEF n, b, p
  <1>6. CASE head
    <2> DEFINE k1 == SetFirst(g, p, n)
               k2 == SetPrev(k1, n, null)
    <2>1. OnDestroy(g, valid, e) = k2
      BY <1>1, <1>2, <1>6 DEF OnDestroy
    <2>2. /\ k1 \in Graphs
          /\ \A x \in Ref :
               /\ Has(k1, x) <=> Has(g, x)
               /\ ParentOf(k1, x) = ParentOf(g, x)
               /\ FirstOf(k1, x) = IF x = p /\ Has(g, p) THEN n ELSE FirstOf(g, x)
               /\ NextOf(k1, x) = NextOf(g, x)
               /\ PrevOf(k1, x) = PrevOf(g, x)
      BY <1>1, <1>2, SetFirstLinks
    <2> HIDE DEF k1
    <2>3. /\ k2 \in Graphs
          /\ \A x \in Ref :
               /\ Has(k2, x) <=> Has(k1, x)
               /\ ParentOf(k2, x) = ParentOf(k1, x)
               /\ FirstOf(k2, x) = FirstOf(k1, x)
               /\ NextOf(k2, x) = NextOf(k1, x)
               /\ PrevOf(k2, x) = IF x = n /\ Has(k1, n) THEN null ELSE PrevOf(k1, x)
      BY <1>1, <1>2, <2>2, SetPrevLinks
    <2>4. Has(g, p) /\ (n # null => Has(g, n))
      BY <1>3, <1>6 DEF LinkedAt
    <2> HIDE DEF k2, n, b, p
    <2>5. k = k2
      BY <2>1
    <2>6. \A x \in Ref :
               /\ Has(k2, x) <=> Has(g, x)
               /\ ParentOf(k2, x) = ParentOf(g, x)
               /\ FirstOf(k2, x) = IF x = p THEN n ELSE FirstOf(g, x)
               /\ NextOf(k2, x) = NextOf(g, x)
               /\ PrevOf(k2, x) = IF x # null /\ x = n THEN null ELSE PrevOf(g, x)
      BY <1>2, <1>4, <2>2, <2>3, <2>4
    <2> QED
      BY <1>6, <2>3, <2>5, <2>6 DEF n, b, p
  <1>7. CASE ~inner /\ ~head
    <2>1. OnDestroy(g, valid, e) = g
      BY <1>1, <1>2, <1>7 DEF OnDestroy
    <2> QED
      BY <1>1, <1>7, <2>1
  <1> QED
    BY <1>5, <1>6, <1>7

-----------------------------------------------------------------------------
(* Destroying one entity *)
LEMMA GoneLinks ==
    ASSUME NEW g, NEW valid, NEW rank, Linked(g, valid, rank),
           NEW e \in Entities, Has(g, e)
    PROVE  LET k == DestroyOne([alive |-> valid, h |-> g], e).h
               inner == PrevOf(g, e) \in valid
               head == ~inner /\ ParentOf(g, e) \in valid /\ Has(g, ParentOf(g, e))
           IN  /\ k \in Graphs
               /\ \A x \in Ref :
                    /\ Has(k, x) <=> Has(g, x) /\ x # e
                    /\ x # e =>
                         /\ ParentOf(k, x) = ParentOf(g, x)
                         /\ FirstOf(k, x) = IF head /\ x = ParentOf(g, e)
                                            THEN NextOf(g, e) ELSE FirstOf(g, x)
                         /\ NextOf(k, x) = IF inner /\ x = PrevOf(g, e)
                                           THEN NextOf(g, e) ELSE NextOf(g, x)
                         /\ PrevOf(k, x) = IF x # null /\ x = NextOf(g, e) /\ (inner \/ head)
                                           THEN IF inner THEN PrevOf(g, e) ELSE null
                                           ELSE PrevOf(g, x)
  <1> DEFINE m == OnDestroy(g, valid, e)
             k == WithoutComponent(m, e)
             inner == PrevOf(g, e) \in valid
             head == ~inner /\ ParentOf(g, e) \in valid /\ Has(g, ParentOf(g, e))
  <1>1. /\ m \in Graphs
        /\ \A x \in Ref :
             /\ Has(m, x) <=> Has(g, x)
             /\ ParentOf(m, x) = ParentOf(g, x)
             /\ FirstOf(m, x) = IF head /\ x = ParentOf(g, e)
                                THEN NextOf(g, e) ELSE FirstOf(g, x)
             /\ NextOf(m, x) = IF inner /\ x = PrevOf(g, e)
                               THEN NextOf(g, e) ELSE NextOf(g, x)
             /\ PrevOf(m, x) = IF x # null /\ x = NextOf(g, e) /\ (inner \/ head)
                               THEN IF inner THEN PrevOf(g, e) ELSE null
                               ELSE PrevOf(g, x)
    BY Bridged
  <1>2. DestroyOne([alive |-> valid, h |-> g], e).h = k
    BY DEF DestroyOne, WithoutComponent
  <1> HIDE DEF m, inner, head
  <1>3. /\ k \in Graphs
        /\ \A x \in Ref :
             /\ Has(k, x) <=> Has(m, x) /\ x # e
             /\ x # e =>
                  /\ ParentOf(k, x) = ParentOf(m, x)
                  /\ FirstOf(k, x) = FirstOf(m, x)
                  /\ NextOf(k, x) = NextOf(m, x)
                  /\ PrevOf(k, x) = PrevOf(m, x)
    BY <1>1, WithoutLinks
  <1> HIDE DEF k
  <1> QED
    BY <1>1, <1>2, <1>3 DEF inner, head

LEMMA NotThere ==
    ASSUME NEW g \in Graphs, NEW valid, NEW e \in Entities, ~Has(g, e)
    PROVE  DestroyOne([alive |-> valid, h |-> g], e).h = g
  <1>1. g[e] = NoHierarchy
    BY DEF Has, Entities, null
  <1>2. [g EXCEPT ![e] = NoHierarchy] = g
    BY <1>1 DEF Graphs
  <1> QED
    BY <1>2 DEF DestroyOne

LEMMA DestroyKeepsLinked ==
    ASSUME NEW g, NEW valid, NEW rank, Linked(g, valid, rank), NEW e \in Entities
    PROVE  LET k == DestroyOne([alive |-> valid, h |-> g], e)
           IN  k.alive = valid \ {e} /\ Linked(k.h, valid \ {e}, rank)
  <1> DEFINE k == DestroyOne([alive |-> valid, h |-> g], e).h
             v == valid \ {e}
             inner == PrevOf(g, e) \in valid
             head == ~inner /\ ParentOf(g, e) \in valid /\ Has(g, ParentOf(g, e))
  <1>1. DestroyOne([alive |-> valid, h |-> g], e).alive = v
    BY DEF DestroyOne
  <1>2. /\ g \in Graphs /\ valid \subseteq Entities /\ rank \in [Entities -> Nat]
        /\ \A x \in Entities : Has(g, x) => LinkedAt(g, valid, rank, x)
        /\ null \notin valid /\ e # null /\ e \in Ref /\ null \in Ref
        /\ ~Has(g, null)
        /\ \A x \in Entities : x \in Ref /\ x # null
    BY DEF Linked, Entities, null, Ref, Has
  <1>3. CASE ~Has(g, e)
    <2>1. k = g
      BY <1>2, <1>3, NotThere
    <2>2. ASSUME NEW x \in Entities, Has(g, x) PROVE LinkedAt(g, v, rank, x)
      BY <1>2, <1>3, <2>2 DEF LinkedAt
    <2>3. Linked(g, v, rank)
      BY <1>2, <2>2 DEF Linked
    <2> QED
      BY <1>1, <2>1, <2>3
  <1>4. CASE Has(g, e)
    <2>1. /\ k \in Graphs
          /\ \A x \in Ref :
                    /\ Has(k, x) <=> Has(g, x) /\ x # e
                    /\ x # e =>
                         /\ ParentOf(k, x) = ParentOf(g, x)
                         /\ FirstOf(k, x) = IF head /\ x = ParentOf(g, e)
                                            THEN NextOf(g, e) ELSE FirstOf(g, x)
                         /\ NextOf(k, x) = IF inner /\ x = PrevOf(g, e)
                                           THEN NextOf(g, e) ELSE NextOf(g, x)
                         /\ PrevOf(k, x) = IF x # null /\ x = NextOf(g, e) /\ (inner \/ head)
                                           THEN IF inner THEN PrevOf(g, e) ELSE null
                                           ELSE PrevOf(g, x)
      BY <1>4, GoneLinks
    <2> HIDE DEF k
    <2>2. LinkedAt(g, valid, rank, e)
      BY <1>2, <1>4
    <2>3. ASSUME NEW x \in Ref
          PROVE  /\ ParentOf(g, x) \in Ref /\ FirstOf(g, x) \in Ref
                 /\ NextOf(g, x) \in Ref /\ PrevOf(g, x) \in Ref
                 /\ x # null => x \in Entities
                 /\ x \in Entities => rank[x] \in Nat
      BY <1>2, Access DEF Ref
    <2>4. ASSUME NEW x \in Entities, Has(k, x) PROVE LinkedAt(k, v, rank, x)
      <3>1. Has(g, x) /\ x # e /\ x \in Ref /\ LinkedAt(g, valid, rank, x)
        BY <1>2, <2>1, <2>4
      <3>2. CASE inner
        <4>1. Has(g, PrevOf(g, e)) /\ NextOf(g, PrevOf(g, e)) = e /\ PrevOf(g, e) # null
          BY <1>2, <2>2, <3>2 DEF LinkedAt
        <4>2. LinkedAt(g, valid, rank, PrevOf(g, e))
          BY <1>2, <2>3, <4>1
        <4> QED
          BY <1>2, <2>1, <2>2, <2>3, <3>1, <3>2, <4>1, <4>2 DEF LinkedAt
      <3>3. CASE head
        BY <1>2, <2>1, <2>2, <2>3, <3>1, <3>3 DEF LinkedAt
      <3>4. CASE ~inner /\ ~head
        BY <1>2, <2>1, <2>2, <2>3, <3>1, <3>4 DEF LinkedAt
      <3> QED
        BY <3>2, <3>3, <3>4
    <2>5. Linked(k, v, rank)
      BY <1>2, <2>1, <2>4 DEF Linked
    <2> QED
      BY <1>1, <2>5 DEF k
  <1> QED
    BY <1>3, <1>4

-----------------------------------------------------------------------------
(* Tidy links stay tidy when an entity that has no children is destroyed.  *)
LEMMA LinkedFacts ==
    ASSUME NEW g, NEW valid, NEW rank, Linked(g, valid, rank)
    PROVE  /\ g \in Graphs /\ valid \subseteq Entities /\ rank \in [Entities -> Nat]
           /\ null \notin valid /\ null \in Ref /\ ~Has(g, null)
           /\ \A x \in Entities : x \in Ref /\ x # null /\ rank[x] \in Nat
           /\ \A x \in Ref :
                /\ ParentOf(g, x) \in Ref /\ FirstOf(g, x) \in Ref
                /\ NextOf(g, x) \in Ref /\ PrevOf(g, x) \in Ref
                /\ x # null => x \in Entities
                /\ Has(g, x) => x \in Entities /\ x \in valid /\ LinkedAt(g, valid, rank, x)
                /\ ~Has(g, x) => /\ ParentOf(g, x) = null /\ FirstOf(g, x) = null
                                 /\ NextOf(g, x) = null /\ PrevOf(g, x) = null
  <1>1. /\ g \in Graphs /\ valid \subseteq Entities /\ rank \in [Entities -> Nat]
        /\ null \notin valid /\ null \in Ref /\ ~Has(g, null)
        /\ \A x \in Entities : x \in Ref /\ x # null /\ rank[x] \in Nat
    BY DEF Linked, Entities, null, Ref, Has
  <1>2. ASSUME NEW x \in Ref
        PROVE  /\ ParentOf(g, x) \in Ref /\ FirstOf(g, x) \in Ref
               /\ NextOf(g, x) \in Ref /\ PrevOf(g, x) \in Ref
               /\ x # null => x \in Entities
               /\ Has(g, x) => x \in Entities
               /\ ~Has(g, x) => /\ ParentOf(g, x) = null /\ FirstOf(g, x) = null
                                /\ NextOf(g, x) = null /\ PrevOf(g, x) = null
    BY <1>1, Access DEF Ref
  <1>3. ASSUME NEW x \in Entities, Has(g, x)
        PROVE  x \in valid /\ LinkedAt(g, valid, rank, x)
    BY <1>3 DEF Linked, LinkedAt
  <1> QED
    BY <1>1, <1>2, <1>3

(* An entity without a first child is nobody's parent. *)
LEMMA Childless ==
    ASSUME NEW g, NEW valid, NEW rank, Linked(g, valid, rank),
           NEW T, T \subseteq Entities, Tidy(g, T),
           NEW e \in Entities, FirstOf(g, e) = null
    PROVE  \A x \in T : Has(g, x) => ParentOf(g, x) # e
  <1> DEFINE C == {x \in T : Has(g, x) /\ ParentOf(g, x) = e}
             R == {rank[x] : x \in C}
  <1> SUFFICES ASSUME C # {} PROVE FALSE
    OBVIOUS
  <1>1. R \subseteq Nat /\ R # {}
    BY LinkedFacts
  <1>2. PICK r \in R : \A s \in R : r <= s
    BY <1>1, LeastNumber
  <1>3. PICK x \in C : rank[x] = r
    BY <1>2
  <1>4. \A y \in C : rank[x] <= rank[y]
    BY <1>2, <1>3
  <1> HIDE DEF R
  <1>5. x \in T /\ Has(g, x) /\ ParentOf(g, x) = e /\ x \in Entities /\ x \in Ref /\ e # null
    BY <1>3, LinkedFacts
  <1>6. TidyAt(g, T, x) /\ LinkedAt(g, valid, rank, x)
    BY <1>5, LinkedFacts DEF Tidy
  <1>7. PrevOf(g, x) # null
    BY <1>5, <1>6, LinkedFacts DEF TidyAt, Entities, null
  <1>8. PrevOf(g, x) \in T /\ Has(g, PrevOf(g, x)) /\ PrevOf(g, x) \in Entities
    BY <1>5, <1>6, <1>7 DEF TidyAt
  <1>9. LinkedAt(g, valid, rank, PrevOf(g, x)) /\ PrevOf(g, x) \in valid
    BY <1>8, LinkedFacts
  <1>10. NextOf(g, PrevOf(g, x)) = x
    BY <1>6, <1>9 DEF LinkedAt
  <1>11. ParentOf(g, PrevOf(g, x)) = e /\ rank[PrevOf(g, x)] < rank[x]
    BY <1>5, <1>9, <1>10, LinkedFacts DEF LinkedAt
  <1>12. PrevOf(g, x) \in C
    BY <1>8, <1>11
  <1> QED
    BY <1>4, <1>5, <1>8, <1>11, <1>12, LinkedFacts

LEMMA DestroyKeepsTidy ==
    ASSUME NEW g, NEW valid, NEW rank, Linked(g, valid, rank),
           NEW T, T \subseteq Entities, Tidy(g, T),
           NEW e \in T, FirstOf(g, e) = null
    PROVE  Tidy(DestroyOne([alive |-> valid, h |-> g], e).h, T)
  <1> DEFINE k == DestroyOne([alive |-> valid, h |-> g], e).h
             inner == PrevOf(g, e) \in valid
             head == ~inner /\ ParentOf(g, e) \in valid /\ Has(g, ParentOf(g, e))
  <1>1. CASE ~Has(g, e)
    BY <1>1, NotThere, LinkedFacts
  <1>2. CASE Has(g, e)
    <2>1. /\ k \in Graphs
          /\ \A x \in Ref :
                    /\ Has(k, x) <=> Has(g, x) /\ x # e
                    /\ x # e =>
                         /\ ParentOf(k, x) = ParentOf(g, x)
                         /\ FirstOf(k, x) = IF head /\ x = ParentOf(g, e)
                                            THEN NextOf(g, e) ELSE FirstOf(g, x)
                         /\ NextOf(k, x) = IF inner /\ x = PrevOf(g, e)
                                           THEN NextOf(g, e) ELSE NextOf(g, x)
                         /\ PrevOf(k, x) = IF x # null /\ x = NextOf(g, e) /\ (inner \/ head)
                                           THEN IF inner THEN PrevOf(g, e) ELSE null
                                           ELSE PrevOf(g, x)
      BY <1>2, GoneLinks
    <2> HIDE DEF k
    <2>2. LinkedAt(g, valid, rank, e) /\ TidyAt(g, T, e) /\ e \in Ref
      BY <1>2, LinkedFacts DEF Tidy
    <2>3. \A x \in T : Has(g, x) => ParentOf(g, x) # e
      BY Childless
    <2>4. ASSUME NEW x \in T, Has(k, x) PROVE TidyAt(k, T, x)
      <3>1. Has(g, x) /\ x # e /\ x \in Ref /\ LinkedAt(g, valid, rank, x) /\ TidyAt(g, T, x)
        BY <2>1, <2>4, LinkedFacts DEF Tidy
      <3>2. CASE x = NextOf(g, e)
        BY <2>1, <2>2, <2>3, <3>1, <3>2, LinkedFacts DEF LinkedAt, TidyAt
      <3>3. CASE x # NextOf(g, e)
        <4>1. PrevOf(g, x) # e
          BY <1>2, <2>2, <3>1, <3>3, LinkedFacts DEF LinkedAt
        <4> QED
          BY <2>1, <2>2, <2>3, <3>1, <3>3, <4>1, LinkedFacts DEF LinkedAt, TidyAt
      <3> QED
        BY <3>2, <3>3
    <2> QED
      BY <2>4 DEF Tidy, k
  <1> QED
    BY <1>1, <1>2

-----------------------------------------------------------------------------
(* Taking an entity out of its list *)
Detached(g, valid, e) == Reparent(g, valid, e, null)

LEMMA DetachedLinks ==
    ASSUME NEW g, NEW valid, NEW rank, Linked(g, valid, rank),
           NEW e \in Entities, Has(g, e)
    PROVE  LET k == Detached(g, valid, e)
               inner == PrevOf(g, e) \in valid
               head == ~inner /\ ParentOf(g, e) \in valid /\ Has(g, ParentOf(g, e))
           IN  /\ k \in Graphs
               /\ \A x \in Ref : Has(k, x) <=> Has(g, x)
               /\ /\ ParentOf(k, e) = null /\ FirstOf(k, e) = FirstOf(g, e)
                  /\ NextOf(k, e) = null /\ PrevOf(k, e) = null
               /\ \A x \in Ref \ {e} :
                    /\ ParentOf(k, x) = ParentOf(g, x)
                    /\ FirstOf(k, x) = IF head /\ x = ParentOf(g, e)
                                       THEN NextOf(g, e) ELSE FirstOf(g, x)
                    /\ NextOf(k, x) = IF inner /\ x = PrevOf(g, e)
                                      THEN NextOf(g, e) ELSE NextOf(g, x)
                    /\ PrevOf(k, x) = IF x # null /\ x = NextOf(g, e) /\ (inner \/ head)
                                      THEN IF inner THEN PrevOf(g, e) ELSE null
                                      ELSE PrevOf(g, x)
  <1> DEFINE m == OnDestroy(g, valid, e)
             f == FirstOf(g, e)
             k == With(m, e, null, f, null, null)
             inner == PrevOf(g, e) \in valid
             head == ~inner /\ ParentOf(g, e) \in valid /\ Has(g, ParentOf(g, e))
  <1>1. /\ m \in Graphs
        /\ \A x \in Ref :
             /\ Has(m, x) <=> Has(g, x)
             /\ ParentOf(m, x) = ParentOf(g, x)
             /\ FirstOf(m, x) = IF head /\ x = ParentOf(g, e)
                                THEN NextOf(g, e) ELSE FirstOf(g, x)
             /\ NextOf(m, x) = IF inner /\ x = PrevOf(g, e)
                               THEN NextOf(g, e) ELSE NextOf(g, x)
             /\ PrevOf(m, x) = IF x # null /\ x = NextOf(g, e) /\ (inner \/ head)
                               THEN IF inner THEN PrevOf(g, e) ELSE null
                               ELSE PrevOf(g, x)
    BY Bridged
  <1>2. ParentOf(g, e) # e /\ e \in Ref /\ f \in Ref /\ null \in Ref
    <2>1. LinkedAt(g, valid, rank, e) /\ rank[e] \in Nat /\ e # null
      BY LinkedFacts
    <2> QED
      BY <2>1, LinkedFacts DEF LinkedAt
  <1> HIDE DEF m, inner, head
  <1>3. FirstOf(m, e) = f /\ Has(m, e) /\ m[e].first = f
    BY <1>1, <1>2, Access
  <1>4. Detached(g, valid, e) = k
    BY <1>3 DEF Detached, Reparent, With, m
  <1> HIDE DEF f
  <1>5. /\ k \in Graphs
        /\ \A x \in Ref :
             /\ Has(k, x) <=> Has(m, x) \/ x = e
             /\ ParentOf(k, x) = IF x = e THEN null ELSE ParentOf(m, x)
             /\ FirstOf(k, x) = IF x = e THEN f ELSE FirstOf(m, x)
             /\ NextOf(k, x) = IF x = e THEN null ELSE NextOf(m, x)
             /\ PrevOf(k, x) = IF x = e THEN null ELSE PrevOf(m, x)
    BY <1>1, <1>2, WithLinks
  <1> HIDE DEF k
  <1> QED
    BY <1>1, <1>2, <1>3, <1>4, <1>5 DEF inner, head, f

LEMMA DetachKeeps ==
    ASSUME NEW g, NEW valid, NEW rank, Linked(g, valid, rank),
           NEW T, T \subseteq Entities,
           NEW e \in T, Has(g, e), TidyAt(g, T, e)
    PROVE  /\ Linked(Detached(g, valid, e), valid, rank)
           /\ Tidy(g, T) => Tidy(Detached(g, valid, e), T)
  <1> DEFINE k == Detached(g, valid, e)
             inner == PrevOf(g, e) \in valid
             head == ~inner /\ ParentOf(g, e) \in valid /\ Has(g, ParentOf(g, e))
  <1>1. /\ k \in Graphs
        /\ \A x \in Ref : Has(k, x) <=> Has(g, x)
        /\ /\ ParentOf(k, e) = null /\ FirstOf(k, e) = FirstOf(g, e)
           /\ NextOf(k, e) = null /\ PrevOf(k, e) = null
        /\ \A x \in Ref \ {e} :
                    /\ ParentOf(k, x) = ParentOf(g, x)
                    /\ FirstOf(k, x) = IF head /\ x = ParentOf(g, e)
                                       THEN NextOf(g, e) ELSE FirstOf(g, x)
                    /\ NextOf(k, x) = IF inner /\ x = PrevOf(g, e)
                                      THEN NextOf(g, e) ELSE NextOf(g, x)
                    /\ PrevOf(k, x) = IF x # null /\ x = NextOf(g, e) /\ (inner \/ head)
                                      THEN IF inner THEN PrevOf(g, e) ELSE null
                                      ELSE PrevOf(g, x)
    BY DetachedLinks
  <1> HIDE DEF k
  <1>2. LinkedAt(g, valid, rank, e) /\ e \in Ref /\ e \in Entities
    BY LinkedFacts
  <1>3. /\ inner \/ head \/ (ParentOf(g, e) = null /\ NextOf(g, e) = null)
        /\ inner \/ PrevOf(g, e) = null
        /\ head => FirstOf(g, ParentOf(g, e)) = e
        /\ inner => NextOf(g, PrevOf(g, e)) = e
    BY <1>2, LinkedFacts DEF LinkedAt, TidyAt
  <1>4. ASSUME NEW x \in Entities, Has(k, x)
        PROVE  LinkedAt(k, valid, rank, x) /\ (TidyAt(g, T, x) => TidyAt(k, T, x))
    <2>1. Has(g, x) /\ x \in Ref /\ LinkedAt(g, valid, rank, x)
      BY <1>1, <1>4, LinkedFacts
    <2>2. CASE x = e
      BY <1>1, <1>2, <2>1, <2>2, LinkedFacts DEF LinkedAt, TidyAt
    <2>3. CASE x # e
      <3>1. CASE inner
        <4>1. Has(g, PrevOf(g, e)) /\ LinkedAt(g, valid, rank, PrevOf(g, e))
          BY <1>2, <3>1, LinkedFacts DEF LinkedAt
        <4>2. LinkedAt(k, valid, rank, x)
          BY <1>1, <1>2, <1>3, <2>1, <2>3, <3>1, <4>1, LinkedFacts DEF LinkedAt
        <4>3. TidyAt(g, T, x) => TidyAt(k, T, x)
          BY <1>1, <1>2, <1>3, <2>1, <2>3, <3>1, <4>1, LinkedFacts DEF LinkedAt, TidyAt
        <4> QED
          BY <4>2, <4>3
      <3>2. CASE head
        <4>2. LinkedAt(k, valid, rank, x)
          BY <1>1, <1>2, <1>3, <2>1, <2>3, <3>2, LinkedFacts DEF LinkedAt
        <4>3. TidyAt(g, T, x) => TidyAt(k, T, x)
          BY <1>1, <1>2, <1>3, <2>1, <2>3, <3>2, LinkedFacts DEF LinkedAt, TidyAt
        <4> QED
          BY <4>2, <4>3
      <3>3. CASE ~inner /\ ~head
        <4>2. LinkedAt(k, valid, rank, x)
          BY <1>1, <1>2, <1>3, <2>1, <2>3, <3>3, LinkedFacts DEF LinkedAt
        <4>3. TidyAt(g, T, x) => TidyAt(k, T, x)
          BY <1>1, <1>2, <1>3, <2>1, <2>3, <3>3, LinkedFacts DEF LinkedAt, TidyAt
        <4> QED
          BY <4>2, <4>3
      <3> QED
        BY <3>1, <3>2, <3>3
    <2> QED
      BY <2>2, <2>3
  <1>5. Linked(k, valid, rank)
    BY <1>1, <1>4, LinkedFacts DEF Linked
  <1>6. Tidy(g, T) => Tidy(k, T)
    BY <1>1, <1>4, LinkedFacts DEF Tidy
  <1> QED
    BY <1>5, <1>6 DEF k

-----------------------------------------------------------------------------
(* Recursion along the numbers up to a bound *)
LEMMA Upto ==
    ASSUME NEW N \in Nat, NEW G, 0 \in G,
           \A n \in 1 .. N : n - 1 \in G => n \in G
    PROVE  \A n \in 0 .. N : n \in G
  <1> DEFINE B == {n \in 0 .. N : n \notin G}
  <1> SUFFICES ASSUME B # {} PROVE FALSE
    OBVIOUS
  <1>1. B \subseteq Nat
    OBVIOUS
  <1>2. PICK n \in B : \A m \in B : n <= m
    BY <1>1, LeastNumber
  <1>3. n \in 1 .. N /\ n - 1 \in 0 .. N
    BY <1>2
  <1>4. n - 1 \notin B
    BY <1>2, <1>3
  <1> QED
    BY <1>2, <1>3, <1>4

Recurs(f, N, V, a, F) ==
    f \in [0 .. N -> V] /\ f[0] = a /\ \A n \in 1 .. N : f[n] = F[n][f[n - 1]]

LEMMA Recursion ==
    ASSUME NEW N \in Nat, NEW V, NEW a \in V, NEW F \in [1 .. N -> [V -> V]]
    PROVE  \E f : Recurs(f, N, V, a, F)
  <1> DEFINE Good(f, n) == f[0] = a /\ \A i \in 1 .. n : f[i] = F[i][f[i - 1]]
             G == {n \in 0 .. N : \E f \in [0 .. N -> V] : Good(f, n)}
  <1>1. 0 \in G
    <2> DEFINE k == [i \in 0 .. N |-> a]
    <2>1. k \in [0 .. N -> V] /\ k[0] = a
      OBVIOUS
    <2> HIDE DEF k
    <2>2. Good(k, 0)
      BY <2>1
    <2>3. \E f \in [0 .. N -> V] : Good(f, 0)
      BY <2>1, <2>2
    <2> HIDE DEF Good
    <2> QED
      BY <2>3
  <1>2. ASSUME NEW n \in 1 .. N, n - 1 \in G PROVE n \in G
    <2>1. PICK f \in [0 .. N -> V] : Good(f, n - 1)
      BY <1>2
    <2> DEFINE k == [f EXCEPT ![n] = F[n][f[n - 1]]]
    <2>2. k \in [0 .. N -> V]
      OBVIOUS
    <2>3. \A i \in 0 .. N : i # n => k[i] = f[i]
      OBVIOUS
    <2>4. k[n] = F[n][f[n - 1]]
      OBVIOUS
    <2> HIDE DEF k
    <2>5. Good(k, n)
      <3>1. k[0] = a
        BY <2>1, <2>3
      <3>2. ASSUME NEW i \in 1 .. n PROVE k[i] = F[i][k[i - 1]]
        <4>1. k[i - 1] = f[i - 1]
          BY <2>3
        <4>2. CASE i = n
          BY <2>4, <4>1, <4>2
        <4>3. CASE i # n
          <5>1. i \in 1 .. n - 1 /\ i \in 0 .. N
            BY <4>3
          <5> QED
            BY <2>1, <2>3, <4>1, <4>3, <5>1
        <4> QED
          BY <4>2, <4>3
      <3> QED
        BY <3>1, <3>2
    <2> QED
      BY <2>2, <2>5
  <1> HIDE DEF G
  <1>3. \A n \in 1 .. N : n - 1 \in G => n \in G
    BY <1>2
  <1>4. \A n \in 0 .. N : n \in G
    BY ONLY N \in Nat, <1>1, <1>3, Upto
  <1>5. N \in G
    BY <1>4
  <1> QED
    BY <1>5 DEF G, Recurs

-----------------------------------------------------------------------------
(* The lists that InOrder makes *)
LEMMA Joined ==
    ASSUME NEW a \in Seq(Entities), NEW b \in Seq(Entities), NEW y \in Entities
    PROVE  LET s == a \o <<y>> \o b
           IN  /\ s \in Seq(Entities)
               /\ Len(a) \in Nat /\ Len(b) \in Nat /\ Len(s) = Len(a) + 1 + Len(b)
               /\ DOMAIN s = 1 .. Len(a) + 1 + Len(b)
               /\ DOMAIN a = 1 .. Len(a) /\ DOMAIN b = 1 .. Len(b)
               /\ \A i \in 1 .. Len(a) : s[i] = a[i]
               /\ s[Len(a) + 1] = y
               /\ \A i \in 1 .. Len(b) : s[Len(a) + 1 + i] = b[i]
               /\ ToSet(s) = ToSet(a) \cup {y} \cup ToSet(b)
  <1> DEFINE c == a \o <<y>>
             s == c \o b
  <1>1. <<y>> \in Seq(Entities) /\ Len(<<y>>) = 1 /\ <<y>>[1] = y
    OBVIOUS
  <1>2. /\ Len(a) \in Nat /\ Len(b) \in Nat
        /\ DOMAIN a = 1 .. Len(a) /\ DOMAIN b = 1 .. Len(b)
    BY LenProperties
  <1>3. /\ c \in Seq(Entities) /\ Len(c) = Len(a) + 1
        /\ \A i \in 1 .. Len(a) + 1 : c[i] = IF i <= Len(a) THEN a[i] ELSE <<y>>[i - Len(a)]
    BY <1>1, ConcatProperties
  <1> HIDE DEF c
  <1>4. /\ s \in Seq(Entities) /\ Len(s) = Len(c) + Len(b)
        /\ \A i \in 1 .. Len(c) + Len(b) : s[i] = IF i <= Len(c) THEN c[i] ELSE b[i - Len(c)]
    <2>1. c \in Seq(Entities) /\ b \in Seq(Entities)
      BY <1>3
    <2> QED
      BY ONLY <2>1, ConcatProperties
  <1>5. DOMAIN s = 1 .. Len(a) + 1 + Len(b) /\ Len(s) = Len(a) + 1 + Len(b)
    BY <1>3, <1>4, LenProperties
  <1> HIDE DEF s
  <1>6. \A i \in 1 .. Len(a) : s[i] = a[i]
    BY <1>2, <1>3, <1>4
  <1>7. s[Len(a) + 1] = y
    <2>1. c[Len(a) + 1] = <<y>>[1]
      BY <1>2, <1>3
    <2> QED
      BY <1>1, <1>2, <1>3, <1>4, <2>1
  <1>8. ASSUME NEW i \in 1 .. Len(b) PROVE s[Len(a) + 1 + i] = b[i]
    <2>1. Len(a) + 1 + i \in 1 .. Len(c) + Len(b) /\ ~(Len(a) + 1 + i <= Len(c))
          /\ Len(a) + 1 + i - Len(c) = i
      BY <1>2, <1>3
    <2> QED
      BY <1>4, <2>1
  <1>9. ToSet(s) = ToSet(a) \cup {y} \cup ToSet(b)
    <2>1. ASSUME NEW i \in 1 .. Len(a) + 1 + Len(b)
          PROVE  s[i] \in ToSet(a) \cup {y} \cup ToSet(b)
      <3>1. CASE i <= Len(a)
        BY <1>2, <1>6, <3>1 DEF ToSet
      <3>2. CASE i = Len(a) + 1
        BY <1>7, <3>2
      <3>3. CASE i > Len(a) + 1
        <4>1. i - (Len(a) + 1) \in 1 .. Len(b) /\ Len(a) + 1 + (i - (Len(a) + 1)) = i
          BY <1>2, <3>3
        <4>2. s[i] = b[i - (Len(a) + 1)]
          BY <1>8, <4>1
        <4> QED
          BY <1>2, <4>1, <4>2 DEF ToSet
      <3> QED
        BY <1>2, <3>1, <3>2, <3>3
    <2>2. ToSet(s) \subseteq ToSet(a) \cup {y} \cup ToSet(b)
      BY <1>5, <2>1 DEF ToSet
    <2>3. ToSet(a) \subseteq ToSet(s)
      BY <1>2, <1>5, <1>6 DEF ToSet
    <2>4. y \in ToSet(s)
      BY <1>2, <1>5, <1>7 DEF ToSet
    <2>5. ToSet(b) \subseteq ToSet(s)
      <3>1. ASSUME NEW i \in 1 .. Len(b) PROVE b[i] \in ToSet(s)
        <4>1. Len(a) + 1 + i \in DOMAIN s
          BY <1>2, <1>5
        <4> QED
          BY <1>8, <4>1 DEF ToSet
      <3> QED
        BY <1>2, <3>1 DEF ToSet
    <2> QED
      BY <2>2, <2>3, <2>4, <2>5
  <1> QED
    BY <1>2, <1>4, <1>5, <1>6, <1>7, <1>8, <1>9 DEF s, c

Row(left, right, t) ==
    [y \in Ref |-> IF y = null THEN <<>> ELSE t[left[y]] \o <<y>> \o t[right[y]]]

Rows == [Ref -> Seq(Entities)]

IsTree(t, left, right) ==
    /\ t \in [0 .. MaxEntities -> Rows]
    /\ t[0] = [y \in Ref |-> <<>>]
    /\ \A n \in 1 .. MaxEntities : t[n] = Row(left, right, t[n - 1])

LEMMA RowType ==
    ASSUME NEW left \in [Ref -> Ref], NEW right \in [Ref -> Ref], NEW t \in Rows
    PROVE  Row(left, right, t) \in Rows
  <1>1. ASSUME NEW y \in Ref
        PROVE  (IF y = null THEN <<>> ELSE t[left[y]] \o <<y>> \o t[right[y]]) \in Seq(Entities)
    <2>1. CASE y = null
      BY <2>1
    <2>2. CASE y # null
      <3>1. y \in Entities /\ t[left[y]] \in Seq(Entities) /\ t[right[y]] \in Seq(Entities)
        BY <2>2 DEF Ref, Rows
      <3>2. t[left[y]] \o <<y>> \o t[right[y]] \in Seq(Entities)
        BY ONLY <3>1, Joined
      <3> QED
        BY <2>2, <3>2
    <2> QED
      BY <2>1, <2>2
  <1> QED
    BY <1>1 DEF Row, Rows

LEMMA InOrderTree ==
    ASSUME NEW left \in [Ref -> Ref], NEW right \in [Ref -> Ref]
    PROVE  \E t : IsTree(t, left, right) /\ \A x \in Ref : InOrder(x, left, right) = t[MaxEntities][x]
  <1> DEFINE N == MaxEntities
             F == [n \in 1 .. N |-> [t \in Rows |-> Row(left, right, t)]]
             a == [y \in Ref |-> <<>>]
             Eq(f) == [n \in 0 .. N |->
                         [y \in Ref |-> IF n = 0 \/ y = null THEN <<>>
                                        ELSE f[n - 1][left[y]] \o <<y>> \o f[n - 1][right[y]]]]
             c == CHOOSE f : f = Eq(f)
  <1>1. N \in Nat
    BY HierarchyAssumption
  <1>2. a \in Rows /\ F \in [1 .. N -> [Rows -> Rows]]
    <2>1. \A t \in Rows : Row(left, right, t) \in Rows
      BY RowType
    <2>2. F \in [1 .. N -> [Rows -> Rows]]
      BY <2>1
    <2>3. <<>> \in Seq(Entities)
      OBVIOUS
    <2> QED
      BY <2>2, <2>3 DEF Rows
  <1>3. \A n \in 1 .. N, t \in Rows : F[n][t] = Row(left, right, t)
    OBVIOUS
  <1> HIDE DEF F
  <1>20. PICK f : Recurs(f, N, Rows, a, F)
    <2> HIDE DEF a
    <2> QED
      BY ONLY <1>1, <1>2, Recursion
  <1>21. f \in [0 .. N -> Rows] /\ f[0] = a /\ \A n \in 1 .. N : f[n] = F[n][f[n - 1]]
    BY <1>20 DEF Recurs
  <1>4. ASSUME NEW n \in 1 .. N
        PROVE  n - 1 \in 0 .. N /\ f[n] = Row(left, right, f[n - 1])
    <2>1. n - 1 \in 0 .. N
      BY <1>1
    <2>2. f[n - 1] \in Rows
      BY <1>21, <2>1
    <2> QED
      BY <1>3, <1>21, <2>1, <2>2
  <1>5. f = Eq(f)
    <2>1. ASSUME NEW n \in 0 .. N
          PROVE  f[n] = [y \in Ref |-> IF n = 0 \/ y = null THEN <<>>
                                       ELSE f[n - 1][left[y]] \o <<y>> \o f[n - 1][right[y]]]
      <3>1. CASE n = 0
        BY <1>21, <3>1
      <3>2. CASE n # 0
        <4>1. n \in 1 .. N
          BY <1>1, <3>2
        <4> QED
          BY <1>4, <3>2, <4>1 DEF Row
      <3> QED
        BY <3>1, <3>2
    <2> QED
      BY <1>21, <2>1
  <1>6. c = Eq(c)
    BY <1>5
  <1>7. \A x \in Ref : InOrder(x, left, right) = c[N][x]
    BY DEF InOrder
  <1> HIDE DEF c
  <1>8. c[0] = a
    <2>1. 0 \in 0 .. N
      BY <1>1
    <2>2. Eq(c)[0] = a
      BY <2>1
    <2> HIDE DEF Eq
    <2> QED
      BY <1>6, <2>2
  <1>9. ASSUME NEW n \in 1 .. N PROVE c[n] = Row(left, right, c[n - 1])
    <2>1. n \in 0 .. N /\ n # 0
      BY <1>1
    <2>2. Eq(c)[n] = Row(left, right, c[n - 1])
      BY <2>1 DEF Row
    <2> HIDE DEF Eq
    <2> QED
      BY <1>6, <2>2
  <1> DEFINE G == {n \in 0 .. N : c[n] = f[n]}
  <1>10. 0 \in G
    BY <1>1, <1>21, <1>8
  <1>11. \A n \in 1 .. N : n - 1 \in G => n \in G
    BY <1>1, <1>4, <1>9
  <1> HIDE DEF G
  <1>12. \A n \in 0 .. N : n \in G
    BY ONLY <1>1, <1>10, <1>11, Upto
  <1>13. c[N] = f[N]
    BY <1>1, <1>12 DEF G
  <1>14. IsTree(f, left, right)
    BY <1>21, <1>4 DEF IsTree
  <1> QED
    BY <1>7, <1>13, <1>14

Closed(S, left, right) ==
    \A z \in S : left[z] \in S \cup {null} /\ right[z] \in S \cup {null}

LEMMA InOrderInside ==
    ASSUME NEW left \in [Ref -> Ref], NEW right \in [Ref -> Ref], NEW x \in Ref
    PROVE  /\ InOrder(x, left, right) \in Seq(Entities)
           /\ \A S \in SUBSET Entities :
                x \in S \cup {null} /\ Closed(S, left, right) =>
                  ToSet(InOrder(x, left, right)) \subseteq S
  <1> DEFINE N == MaxEntities
  <1>1. N \in Nat
    BY HierarchyAssumption
  <1>2. PICK t : IsTree(t, left, right) /\ \A y \in Ref : InOrder(y, left, right) = t[N][y]
    BY InOrderTree
  <1>3. /\ \A n \in 0 .. N : t[n] \in Rows
        /\ t[0] = [y \in Ref |-> <<>>]
        /\ \A n \in 1 .. N : t[n] = Row(left, right, t[n - 1])
    BY <1>2 DEF IsTree
  <1>4. InOrder(x, left, right) = t[N][x] /\ t[N][x] \in Seq(Entities)
    BY <1>1, <1>2, <1>3 DEF Rows
  <1>5. ASSUME NEW S \in SUBSET Entities, x \in S \cup {null}, Closed(S, left, right)
        PROVE  ToSet(t[N][x]) \subseteq S
    <2> DEFINE G == {n \in 0 .. N : \A y \in S \cup {null} : ToSet(t[n][y]) \subseteq S}
    <2>1. S \cup {null} \subseteq Ref
      BY DEF Ref
    <2>2. 0 \in G
      <3>1. ASSUME NEW y \in S \cup {null} PROVE ToSet(t[0][y]) \subseteq S
        <4>1. t[0][y] = <<>>
          BY <1>3, <2>1
        <4> QED
          BY <4>1 DEF ToSet
      <3> QED
        BY <1>1, <3>1
    <2>3. ASSUME NEW n \in 1 .. N, n - 1 \in G PROVE n \in G
      <3>1. ASSUME NEW y \in S \cup {null} PROVE ToSet(t[n][y]) \subseteq S
        <4>1. t[n][y] = IF y = null THEN <<>>
                        ELSE t[n - 1][left[y]] \o <<y>> \o t[n - 1][right[y]]
          BY <1>3, <2>1 DEF Row
        <4>2. CASE y = null
          BY <4>1, <4>2 DEF ToSet
        <4>3. CASE y # null
          <5>1. y \in S /\ y \in Entities /\ left[y] \in S \cup {null} /\ right[y] \in S \cup {null}
            BY <1>5, <4>3 DEF Closed
          <5>2. n - 1 \in 0 .. N /\ t[n - 1] \in [Ref -> Seq(Entities)]
            <6>1. n - 1 \in 0 .. N
              BY <1>1
            <6> QED
              BY <1>3, <6>1 DEF Rows
          <5>3. t[n - 1][left[y]] \in Seq(Entities) /\ t[n - 1][right[y]] \in Seq(Entities)
            BY <2>1, <5>1, <5>2
          <5>4. ToSet(t[n - 1][left[y]]) \subseteq S /\ ToSet(t[n - 1][right[y]]) \subseteq S
            BY <2>3, <5>1
          <5>5. ToSet(t[n - 1][left[y]] \o <<y>> \o t[n - 1][right[y]])
                  = ToSet(t[n - 1][left[y]]) \cup {y} \cup ToSet(t[n - 1][right[y]])
            BY ONLY <5>1, <5>3, Joined
          <5> QED
            BY <4>1, <4>3, <5>1, <5>4, <5>5
        <4> QED
          BY <4>2, <4>3
      <3> QED
        BY <3>1
    <2>4. \A n \in 1 .. N : n - 1 \in G => n \in G
      BY <2>3
    <2> HIDE DEF G
    <2>5. \A n \in 0 .. N : n \in G
      BY ONLY <1>1, <2>2, <2>4, Upto
    <2>6. N \in G
      BY <1>1, <2>5
    <2> QED
      BY <1>5, <2>6 DEF G
  <1> QED
    BY <1>4, <1>5

(* Every link leads further into the list, and what is to the left first. *)
LeftFirst(s, left, right) ==
    \A i \in 1 .. Len(s) : \E S \in SUBSET Entities :
        /\ \A z \in S : \E j \in 1 .. i - 1 : s[j] = z
        /\ left[s[i]] \in S \cup {null}
        /\ \A z \in S : right[z] \in S \cup {null}

Rising(rank, link) == \A y \in Entities : link[y] # null => rank[y] < rank[link[y]]

Above(rank, y) == {z \in Entities : rank[y] <= rank[z]}

LEMMA AboveShrinks ==
    ASSUME NEW rank \in [Entities -> Nat], NEW y \in Entities, NEW z \in Entities,
           rank[y] < rank[z]
    PROVE  Cardinality(Above(rank, z)) < Cardinality(Above(rank, y))
  <1>1. IsFiniteSet(Entities)
    BY HierarchyAssumption, FS_Interval DEF Entities
  <1>2. Above(rank, y) \in SUBSET Entities /\ Above(rank, z) \in SUBSET Entities
    BY DEF Above
  <1>3. IsFiniteSet(Above(rank, y))
    BY <1>1, <1>2, FS_Subset
  <1>4. Above(rank, z) \in SUBSET Above(rank, y)
    BY DEF Above
  <1>5. y \in Above(rank, y) /\ y \notin Above(rank, z)
    BY DEF Above
  <1>6. /\ IsFiniteSet(Above(rank, z))
        /\ Cardinality(Above(rank, z)) <= Cardinality(Above(rank, y))
        /\ Cardinality(Above(rank, y)) # Cardinality(Above(rank, z))
    <2> HIDE DEF Above
    <2> QED
      BY <1>3, <1>4, <1>5, FS_Subset
  <1>7. Cardinality(Above(rank, z)) \in Nat /\ Cardinality(Above(rank, y)) \in Nat
    BY <1>3, <1>6, FS_CardinalityType
  <1> QED
    BY <1>6, <1>7

LEMMA AboveBound ==
    ASSUME NEW rank \in [Entities -> Nat], NEW y \in Entities
    PROVE  /\ Cardinality(Above(rank, y)) \in Nat
           /\ Cardinality(Above(rank, y)) <= MaxEntities
           /\ Cardinality(Above(rank, y)) >= 1
  <1>1. IsFiniteSet(Entities) /\ Cardinality(Entities) = MaxEntities
    BY HierarchyAssumption, FS_Interval DEF Entities
  <1>2. Above(rank, y) \in SUBSET Entities /\ y \in Above(rank, y)
    BY DEF Above
  <1>3. IsFiniteSet(Above(rank, y)) /\ Cardinality(Above(rank, y)) <= MaxEntities
    BY <1>1, <1>2, FS_Subset
  <1>4. Cardinality(Above(rank, y)) \in Nat
    BY <1>3, FS_CardinalityType
  <1>5. Cardinality(Above(rank, y)) # 0
    BY <1>2, <1>3, FS_EmptySet
  <1> QED
    BY <1>3, <1>4, <1>5

LEMMA LeftFirstJoined ==
    ASSUME NEW left \in [Ref -> Ref], NEW right \in [Ref -> Ref], NEW y \in Entities,
           NEW a \in Seq(Entities), NEW b \in Seq(Entities),
           LeftFirst(a, left, right), LeftFirst(b, left, right),
           left[y] \in ToSet(a) \cup {null},
           \A z \in ToSet(a) : right[z] \in ToSet(a) \cup {null}
    PROVE  LeftFirst(a \o <<y>> \o b, left, right)
  <1> DEFINE s == a \o <<y>> \o b
  <1>1. /\ s \in Seq(Entities)
        /\ Len(a) \in Nat /\ Len(b) \in Nat /\ Len(s) = Len(a) + 1 + Len(b)
        /\ \A i \in 1 .. Len(a) : s[i] = a[i]
        /\ s[Len(a) + 1] = y
        /\ \A i \in 1 .. Len(b) : s[Len(a) + 1 + i] = b[i]
    BY Joined
  <1>2. DOMAIN a = 1 .. Len(a) /\ \A i \in 1 .. Len(a) : a[i] \in Entities
    BY LenProperties, ElementOfSeq
  <1> HIDE DEF s
  <1>3. ASSUME NEW i \in 1 .. Len(s)
        PROVE  \E S \in SUBSET Entities :
                 /\ \A z \in S : \E j \in 1 .. i - 1 : s[j] = z
                 /\ left[s[i]] \in S \cup {null}
                 /\ \A z \in S : right[z] \in S \cup {null}
    <2>1. CASE i <= Len(a)
      <3>1. i \in 1 .. Len(a) /\ s[i] = a[i]
        BY <1>1, <2>1
      <3>2. PICK S \in SUBSET Entities :
                 /\ \A z \in S : \E j \in 1 .. i - 1 : a[j] = z
                 /\ left[a[i]] \in S \cup {null}
                 /\ \A z \in S : right[z] \in S \cup {null}
        BY <3>1 DEF LeftFirst
      <3>3. \A j \in 1 .. i - 1 : s[j] = a[j]
        BY <1>1, <3>1
      <3>4. \A z \in S : \E j \in 1 .. i - 1 : s[j] = z
        BY <3>2, <3>3
      <3> QED
        BY <3>1, <3>2, <3>4
    <2>2. CASE i = Len(a) + 1
      <3>1. s[i] = y
        BY <1>1, <2>2
      <3>2. ToSet(a) \in SUBSET Entities
        BY <1>2 DEF ToSet
      <3>3. ASSUME NEW z \in ToSet(a) PROVE \E j \in 1 .. i - 1 : s[j] = z
        <4>1. PICK j \in 1 .. Len(a) : a[j] = z
          BY <1>2 DEF ToSet
        <4>2. j \in 1 .. i - 1
          BY <1>1, <2>2
        <4> QED
          BY <1>1, <4>1, <4>2
      <3> DEFINE S == ToSet(a)
      <3>4. /\ S \in SUBSET Entities
            /\ \A z \in S : \E j \in 1 .. i - 1 : s[j] = z
            /\ left[s[i]] \in S \cup {null}
            /\ \A z \in S : right[z] \in S \cup {null}
        BY <3>1, <3>2, <3>3
      <3> HIDE DEF S
      <3>5. S \in SUBSET Entities
        BY <3>4
      <3> WITNESS S \in SUBSET Entities
      <3> QED
        BY <3>4
    <2>3. CASE i > Len(a) + 1
      <3> DEFINE k == i - (Len(a) + 1)
      <3>1. k \in 1 .. Len(b) /\ Len(a) + 1 + k = i
        BY <1>1, <2>3
      <3>2. s[i] = b[k]
        BY <1>1, <3>1
      <3>3. PICK S \in SUBSET Entities :
                 /\ \A z \in S : \E j \in 1 .. k - 1 : b[j] = z
                 /\ left[b[k]] \in S \cup {null}
                 /\ \A z \in S : right[z] \in S \cup {null}
        BY <3>1 DEF LeftFirst
      <3>4. ASSUME NEW z \in S PROVE \E j \in 1 .. i - 1 : s[j] = z
        <4>1. PICK j \in 1 .. k - 1 : b[j] = z
          BY <3>3
        <4>2. j \in 1 .. Len(b) /\ Len(a) + 1 + j \in 1 .. i - 1
          BY <1>1, <3>1
        <4>3. s[Len(a) + 1 + j] = z
          BY <1>1, <4>1, <4>2
        <4> QED
          BY <4>2, <4>3
      <3> QED
        BY <3>2, <3>3, <3>4
    <2>4. i <= Len(a) \/ i = Len(a) + 1 \/ i > Len(a) + 1
      BY <1>1
    <2> QED
      BY ONLY <2>1, <2>2, <2>3, <2>4
  <1> QED
    BY <1>3 DEF LeftFirst, s

InOrdered(s, y, left, right) ==
    /\ s \in Seq(Entities)
    /\ y # null => y \in ToSet(s)
    /\ Closed(ToSet(s), left, right)
    /\ LeftFirst(s, left, right)

LEMMA InOrderedJoined ==
    ASSUME NEW left \in [Ref -> Ref], NEW right \in [Ref -> Ref], NEW y \in Entities,
           NEW a, InOrdered(a, left[y], left, right),
           NEW b, InOrdered(b, right[y], left, right)
    PROVE  InOrdered(a \o <<y>> \o b, y, left, right)
  <1>1. a \in Seq(Entities) /\ b \in Seq(Entities)
    BY DEF InOrdered
  <1>2. /\ a \o <<y>> \o b \in Seq(Entities)
        /\ ToSet(a \o <<y>> \o b) = ToSet(a) \cup {y} \cup ToSet(b)
    BY ONLY <1>1, y \in Entities, Joined
  <1>3. LeftFirst(a \o <<y>> \o b, left, right)
    BY <1>1, LeftFirstJoined DEF InOrdered, Closed
  <1>4. Closed(ToSet(a \o <<y>> \o b), left, right)
    BY <1>2 DEF InOrdered, Closed
  <1> QED
    BY <1>2, <1>3, <1>4 DEF InOrdered

LEMMA InOrderComplete ==
    ASSUME NEW left \in [Ref -> Ref], NEW right \in [Ref -> Ref], NEW x \in Ref,
           NEW rank \in [Entities -> Nat], Rising(rank, left), Rising(rank, right)
    PROVE  InOrdered(InOrder(x, left, right), x, left, right)
  <1> DEFINE N == MaxEntities
             Deep(y) == Cardinality(Above(rank, y))
  <1>1. N \in Nat
    BY HierarchyAssumption
  <1>2. PICK t : IsTree(t, left, right) /\ \A y \in Ref : InOrder(y, left, right) = t[N][y]
    BY InOrderTree
  <1>3. /\ \A n \in 0 .. N : t[n] \in Rows
        /\ t[0] = [y \in Ref |-> <<>>]
        /\ \A n \in 1 .. N : t[n] = Row(left, right, t[n - 1])
    BY <1>2 DEF IsTree
  <1>4. InOrdered(<<>>, null, left, right)
    BY DEF InOrdered, Closed, LeftFirst, ToSet
  <1> DEFINE Right(n, y) == InOrdered(t[n][y], y, left, right)
             G == {n \in 0 .. N : Right(n, null) /\ \A y \in Entities : Deep(y) <= n => Right(n, y)}
  <1>5. \A y \in Entities : Deep(y) \in Nat /\ 1 <= Deep(y) /\ Deep(y) <= N
    BY AboveBound
  <1>6. null \in Ref /\ \A y \in Ref : y = null \/ y \in Entities
    BY DEF Ref
  <1>7. 0 \in G
    <2>1. t[0][null] = <<>>
      BY <1>3, <1>6
    <2>2. \A y \in Entities : ~(Deep(y) <= 0)
      BY <1>5
    <2> QED
      BY <1>1, <1>4, <2>1, <2>2
  <1>8. ASSUME NEW n \in 1 .. N, n - 1 \in G PROVE n \in G
    <2>1. \A y \in Ref : t[n][y] = IF y = null THEN <<>>
                                   ELSE t[n - 1][left[y]] \o <<y>> \o t[n - 1][right[y]]
      <3>1. t[n] = Row(left, right, t[n - 1])
        BY <1>3
      <3> QED
        BY ONLY <3>1 DEF Row
    <2>2. Right(n, null)
      BY <1>4, <1>6, <2>1
    <2>3. ASSUME NEW y \in Entities, Deep(y) <= n PROVE Right(n, y)
      <3>1. ASSUME NEW z \in Ref, z # null => rank[y] < rank[z] PROVE Right(n - 1, z)
        <4>1. CASE z = null
          BY <1>8, <4>1
        <4>2. CASE z # null
          <5>1. z \in Entities /\ rank[y] < rank[z]
            BY <1>6, <3>1, <4>2
          <5>2. Deep(z) < Deep(y)
            BY ONLY <5>1, rank \in [Entities -> Nat], y \in Entities, AboveShrinks
          <5> HIDE DEF Deep, Right
          <5>3. Deep(z) <= n - 1
            BY <1>1, <1>5, <2>3, <5>1, <5>2
          <5> QED
            BY <1>8, <5>1, <5>3
        <4> QED
          BY <4>1, <4>2
      <3>2. y \in Ref /\ y # null /\ left[y] \in Ref /\ right[y] \in Ref
        BY DEF Ref, Entities, null
      <3>3. Right(n - 1, left[y]) /\ Right(n - 1, right[y])
        <4> HIDE DEF Right
        <4> QED
          BY <3>1, <3>2 DEF Rising
      <3>4. InOrdered(t[n - 1][left[y]] \o <<y>> \o t[n - 1][right[y]], y, left, right)
        BY <3>3, InOrderedJoined
      <3> QED
        BY <2>1, <3>2, <3>4
    <2> HIDE DEF Deep, Right
    <2> QED
      BY <2>2, <2>3
  <1>9. \A n \in 1 .. N : n - 1 \in G => n \in G
    BY <1>8
  <1> HIDE DEF G
  <1>10. \A n \in 0 .. N : n \in G
    BY ONLY <1>1, <1>7, <1>9, Upto
  <1>11. N \in G
    BY <1>1, <1>10
  <1> HIDE DEF Deep
  <1>12. Right(N, x)
    BY <1>5, <1>6, <1>11 DEF G
  <1> QED
    BY <1>2, <1>12

LEMMA LinkFunctions ==
    ASSUME NEW g, NEW valid, NEW rank, Linked(g, valid, rank)
    PROVE  /\ Firsts(g) \in [Ref -> Ref] /\ Nexts(g) \in [Ref -> Ref] /\ Nothing \in [Ref -> Ref]
           /\ \A x \in Ref : /\ Firsts(g)[x] = FirstOf(g, x) /\ Nexts(g)[x] = NextOf(g, x)
                             /\ Nothing[x] = null
           /\ rank \in [Entities -> Nat]
           /\ Rising(rank, Firsts(g)) /\ Rising(rank, Nexts(g)) /\ Rising(rank, Nothing)
  <1>1. /\ Firsts(g) \in [Ref -> Ref] /\ Nexts(g) \in [Ref -> Ref] /\ Nothing \in [Ref -> Ref]
        /\ \A x \in Ref : /\ Firsts(g)[x] = FirstOf(g, x) /\ Nexts(g)[x] = NextOf(g, x)
                          /\ Nothing[x] = null
    BY LinkedFacts DEF Firsts, Nexts, Nothing
  <1>2. ASSUME NEW y \in Entities
        PROVE  /\ FirstOf(g, y) # null => rank[y] < rank[FirstOf(g, y)]
               /\ NextOf(g, y) # null => rank[y] < rank[NextOf(g, y)]
    <2>1. y \in Ref /\ y # null
      BY LinkedFacts
    <2>2. CASE Has(g, y)
      <3>1. LinkedAt(g, valid, rank, y)
        BY <2>1, <2>2, LinkedFacts
      <3>2. FirstOf(g, y) # null =>
              /\ FirstOf(g, y) \in Entities
              /\ LinkedAt(g, valid, rank, FirstOf(g, y))
              /\ ParentOf(g, FirstOf(g, y)) = y
        BY <2>1, <3>1, LinkedFacts DEF LinkedAt
      <3> QED
        BY <2>1, <3>1, <3>2 DEF LinkedAt
    <2>3. CASE ~Has(g, y)
      BY <2>1, <2>3, LinkedFacts
    <2> QED
      BY <2>2, <2>3
  <1>3. \A y \in Entities : y \in Ref
    BY LinkedFacts
  <1> QED
    BY <1>1, <1>2, <1>3, LinkedFacts DEF Rising

LEMMA SiblingsFacts ==
    ASSUME NEW g, NEW valid, NEW rank, Linked(g, valid, rank), NEW x \in Ref
    PROVE  LET R == ToSet(Siblings(g, x))
           IN  /\ x # null => x \in R
               /\ \A z \in R : NextOf(g, z) \in R \cup {null}
               /\ R \subseteq Entities
               /\ \A S \in SUBSET Entities :
                    x \in S \cup {null} /\ (\A z \in S : NextOf(g, z) \in S \cup {null})
                      => R \subseteq S
  <1> DEFINE s == InOrder(x, Nothing, Nexts(g))
  <1>1. Siblings(g, x) = s
    BY DEF Siblings
  <1>2. /\ Nothing \in [Ref -> Ref] /\ Nexts(g) \in [Ref -> Ref]
        /\ rank \in [Entities -> Nat] /\ Rising(rank, Nothing) /\ Rising(rank, Nexts(g))
    BY LinkFunctions
  <1>3. InOrdered(s, x, Nothing, Nexts(g))
    BY ONLY <1>2, x \in Ref, InOrderComplete
  <1>4. /\ s \in Seq(Entities)
        /\ \A S \in SUBSET Entities :
                x \in S \cup {null} /\ Closed(S, Nothing, Nexts(g)) => ToSet(s) \subseteq S
    BY ONLY <1>2, x \in Ref, InOrderInside
  <1> HIDE DEF s
  <1>5. ToSet(s) \subseteq Entities
    BY <1>4, ElementOfSeq, LenProperties DEF ToSet
  <1>6. \A z \in Entities : Nexts(g)[z] = NextOf(g, z) /\ Nothing[z] = null
    BY LinkFunctions, LinkedFacts
  <1>7. \A z \in ToSet(s) : NextOf(g, z) \in ToSet(s) \cup {null}
    BY <1>3, <1>5, <1>6 DEF InOrdered, Closed
  <1>8. ASSUME NEW S \in SUBSET Entities,
               x \in S \cup {null}, \A z \in S : NextOf(g, z) \in S \cup {null}
        PROVE  ToSet(s) \subseteq S
    <2>1. Closed(S, Nothing, Nexts(g))
      BY <1>6, <1>8 DEF Closed
    <2> QED
      BY <1>4, <1>8, <2>1
  <1> QED
    BY <1>1, <1>3, <1>5, <1>7, <1>8 DEF InOrdered

LEMMA LastOne ==
    ASSUME NEW g, NEW valid, NEW rank, Linked(g, valid, rank), NEW f \in Ref, Has(g, f)
    PROVE  LET y == LastSibling(g, f)
           IN  /\ y \in Entities /\ Has(g, y)
               /\ NextOf(g, y) = null /\ ParentOf(g, y) = ParentOf(g, f)
               /\ \A Q \in SUBSET Entities :
                    f \in Q /\ (\A z \in Q : NextOf(g, z) \in Q \cup {null}) => y \in Q
  <1> DEFINE R == ToSet(Siblings(g, f))
             S == {z \in Entities : Has(g, z) /\ ParentOf(g, z) = ParentOf(g, f)}
             Deep(z) == Cardinality(Above(rank, z))
             M == {Deep(z) : z \in R}
  <1>1. /\ f # null => f \in R
        /\ \A z \in R : NextOf(g, z) \in R \cup {null}
        /\ R \subseteq Entities
        /\ \A Q \in SUBSET Entities :
             f \in Q \cup {null} /\ (\A z \in Q : NextOf(g, z) \in Q \cup {null}) => R \subseteq Q
    BY SiblingsFacts
  <1>2. f # null /\ f \in Entities
    BY LinkedFacts
  <1>3. f \in S /\ \A z \in S : NextOf(g, z) \in S \cup {null}
    <2>1. ASSUME NEW z \in S, NextOf(g, z) # null PROVE NextOf(g, z) \in S
      <3>1. LinkedAt(g, valid, rank, z) /\ z \in Ref
        BY LinkedFacts
      <3> QED
        BY <2>1, <3>1, LinkedFacts DEF LinkedAt
    <2> QED
      BY <1>2, <2>1
  <1>4. R \subseteq S
    BY <1>1, <1>3
  <1> HIDE DEF R
  <1>5. \A z \in Entities : Deep(z) \in Nat
    BY LinkedFacts, AboveBound
  <1>6. M \subseteq Nat /\ M # {}
    BY <1>1, <1>2, <1>5
  <1>7. PICK r \in M : \A q \in M : r <= q
    BY <1>6, LeastNumber
  <1>8. PICK y \in R : \A z \in R : Deep(y) <= Deep(z)
    BY <1>7
  <1>9. NextOf(g, y) = null
    <2> SUFFICES ASSUME NextOf(g, y) # null PROVE FALSE
      OBVIOUS
    <2>1. NextOf(g, y) \in R /\ NextOf(g, y) \in Entities /\ y \in Entities /\ Has(g, y)
      BY <1>1, <1>4, <1>8
    <2>2. rank[y] < rank[NextOf(g, y)] /\ rank \in [Entities -> Nat]
      BY <2>1, LinkedFacts DEF LinkedAt
    <2>3. Deep(NextOf(g, y)) < Deep(y)
      BY ONLY <2>1, <2>2, AboveShrinks
    <2> HIDE DEF Deep
    <2> QED
      BY <1>5, <1>8, <2>1, <2>3
  <1>10. \A z \in R : z \in Ref /\ Has(g, z) /\ g[z].next = NextOf(g, z)
    BY <1>4, LinkedFacts, Access
  <1>11. LastSibling(g, f) \in R /\ g[LastSibling(g, f)].next = null
    BY <1>8, <1>9, <1>10 DEF LastSibling, R
  <1> QED
    BY <1>1, <1>4, <1>10, <1>11

LEMMA RankBound ==
    ASSUME NEW rank \in [Entities -> Nat]
    PROVE  \E K \in Nat : \A x \in Entities : rank[x] < K
  <1> DEFINE G == {n \in 0 .. MaxEntities : \E K \in Nat : \A x \in 1 .. n : rank[x] < K}
  <1>1. MaxEntities \in Nat
    BY HierarchyAssumption
  <1>2. 0 \in G
    BY <1>1
  <1>3. ASSUME NEW n \in 1 .. MaxEntities, n - 1 \in G PROVE n \in G
    <2>1. PICK K \in Nat : \A x \in 1 .. n - 1 : rank[x] < K
      BY <1>3
    <2>2. n \in Entities /\ rank[n] \in Nat
      BY DEF Entities
    <2> DEFINE L == K + rank[n] + 1
    <2>3. L \in Nat
      BY <2>2
    <2>4. ASSUME NEW x \in 1 .. n PROVE rank[x] < L
      <3>1. x \in Entities /\ rank[x] \in Nat
        BY <1>1 DEF Entities
      <3>2. CASE x = n
        BY <2>2, <3>2
      <3>3. CASE x # n
        <4>1. x \in 1 .. n - 1
          BY <3>3
        <4> QED
          BY <2>1, <2>2, <3>1, <4>1
      <3> QED
        BY <3>2, <3>3
    <2> HIDE DEF L
    <2> QED
      BY <2>3, <2>4
  <1>4. \A n \in 1 .. MaxEntities : n - 1 \in G => n \in G
    BY <1>3
  <1> HIDE DEF G
  <1>5. \A n \in 0 .. MaxEntities : n \in G
    BY ONLY <1>1, <1>2, <1>4, Upto
  <1>6. MaxEntities \in G
    BY <1>1, <1>5
  <1> QED
    BY <1>6 DEF G, Entities

(* D: e and what is below it *)
Below(g, D, e) ==
    /\ D \subseteq Entities /\ e \in D
    /\ \A x \in Entities : Has(g, x) /\ ParentOf(g, x) \in D => x \in D
    /\ \A x \in D \ {e} : Has(g, x) => ParentOf(g, x) \in D

Lifted(rank, D, K) == [x \in Entities |-> IF x \in D THEN rank[x] + K ELSE rank[x]]

LEMMA LiftKeepsLinked ==
    ASSUME NEW g, NEW valid, NEW rank, Linked(g, valid, rank),
           NEW e \in Entities, ParentOf(g, e) = null,
           NEW D, Below(g, D, e), NEW K \in Nat
    PROVE  Linked(g, valid, Lifted(rank, D, K))
  <1> DEFINE r == Lifted(rank, D, K)
  <1>1. /\ r \in [Entities -> Nat]
        /\ \A x \in Entities : r[x] = IF x \in D THEN rank[x] + K ELSE rank[x]
    BY LinkedFacts DEF Lifted
  <1> HIDE DEF r
  <1>2. ASSUME NEW x \in Entities, Has(g, x) PROVE LinkedAt(g, valid, r, x)
    <2>1. LinkedAt(g, valid, rank, x) /\ x \in Ref
      BY <1>2, LinkedFacts
    <2>2. NextOf(g, x) # null => r[x] < r[NextOf(g, x)]
      <3> SUFFICES ASSUME NextOf(g, x) # null PROVE r[x] < r[NextOf(g, x)]
        OBVIOUS
      <3>1. /\ NextOf(g, x) \in Entities /\ Has(g, NextOf(g, x)) /\ x # e
            /\ ParentOf(g, NextOf(g, x)) = ParentOf(g, x) /\ rank[x] < rank[NextOf(g, x)]
        BY <2>1, LinkedFacts DEF LinkedAt
      <3>2. x \in D => NextOf(g, x) \in D
        BY <1>2, <3>1 DEF Below
      <3> QED
        BY <1>1, <3>1, <3>2, LinkedFacts
    <2>3. ParentOf(g, x) # null => r[ParentOf(g, x)] < r[x]
      <3> SUFFICES ASSUME ParentOf(g, x) # null PROVE r[ParentOf(g, x)] < r[x]
        OBVIOUS
      <3>1. ParentOf(g, x) \in Entities /\ rank[ParentOf(g, x)] < rank[x]
        BY <2>1, LinkedFacts DEF LinkedAt
      <3>2. ParentOf(g, x) \in D => x \in D
        BY <1>2 DEF Below
      <3> QED
        BY <1>1, <3>1, <3>2, LinkedFacts
    <2> QED
      BY <2>1, <2>2, <2>3 DEF LinkedAt
  <1> QED
    BY <1>1, <1>2, LinkedFacts DEF Linked, r

LEMMA EmplacedLinks ==
    ASSUME NEW g \in Graphs, NEW p \in Entities
    PROVE  LET k == GetOrEmplace(g, p)
           IN  /\ k \in Graphs
               /\ \A x \in Ref :
                    /\ Has(k, x) <=> Has(g, x) \/ x = p
                    /\ ParentOf(k, x) = ParentOf(g, x)
                    /\ FirstOf(k, x) = FirstOf(g, x)
                    /\ NextOf(k, x) = NextOf(g, x)
                    /\ PrevOf(k, x) = PrevOf(g, x)
  <1>1. p \in Ref /\ null \in Ref
    BY DEF Ref
  <1>2. CASE Has(g, p)
    BY <1>2 DEF GetOrEmplace
  <1>3. CASE ~Has(g, p)
    <2> DEFINE k == With(g, p, null, null, null, null)
    <2>1. GetOrEmplace(g, p) = k
      BY <1>3 DEF GetOrEmplace, With
    <2>2. /\ k \in Graphs
          /\ \A x \in Ref :
               /\ Has(k, x) <=> Has(g, x) \/ x = p
               /\ ParentOf(k, x) = IF x = p THEN null ELSE ParentOf(g, x)
               /\ FirstOf(k, x) = IF x = p THEN null ELSE FirstOf(g, x)
               /\ NextOf(k, x) = IF x = p THEN null ELSE NextOf(g, x)
               /\ PrevOf(k, x) = IF x = p THEN null ELSE PrevOf(g, x)
      BY <1>1, WithLinks
    <2> HIDE DEF k
    <2>3. /\ ParentOf(g, p) = null /\ FirstOf(g, p) = null
          /\ NextOf(g, p) = null /\ PrevOf(g, p) = null
      BY <1>1, <1>3, Access
    <2> QED
      BY <2>1, <2>2, <2>3
  <1> QED
    BY <1>2, <1>3

-----------------------------------------------------------------------------
(* Putting an entity that is in no list at the end of a node's children *)
Attached(g, e, p) == OnConstruct(With(g, e, p, FirstOf(g, e), null, null), e)

(* ... when e and p both have their component, but e is not yet in the list *)
Prepared(g, e, p) == GetOrEmplace(With(g, e, p, FirstOf(g, e), null, null), p)

LEMMA PreparedLinks ==
    ASSUME NEW g, NEW valid, NEW rank, Linked(g, valid, rank),
           NEW e \in Entities, NEW p \in Entities, e # p, ParentOf(g, e) = null
    PROVE  LET m == Prepared(g, e, p)
           IN  /\ m \in Graphs
               /\ \A x \in Ref :
                    /\ Has(m, x) <=> Has(g, x) \/ x = e \/ x = p
                    /\ ParentOf(m, x) = IF x = e THEN p ELSE ParentOf(g, x)
                    /\ FirstOf(m, x) = FirstOf(g, x)
                    /\ NextOf(m, x) = NextOf(g, x)
                    /\ PrevOf(m, x) = PrevOf(g, x)
               /\ NextOf(g, e) = null /\ PrevOf(g, e) = null
  <1> DEFINE f == FirstOf(g, e)
             w == With(g, e, p, f, null, null)
             m == GetOrEmplace(w, p)
  <1>1. e \in Ref /\ p \in Ref /\ null \in Ref /\ f \in Ref /\ g \in Graphs
    BY LinkedFacts
  <1>2. NextOf(g, e) = null /\ PrevOf(g, e) = null
    BY <1>1, LinkedFacts DEF LinkedAt
  <1>3. f = FirstOf(g, e) /\ Prepared(g, e, p) = m
    BY DEF Prepared
  <1> HIDE DEF f
  <1>4. /\ w \in Graphs
        /\ \A x \in Ref :
             /\ Has(w, x) <=> Has(g, x) \/ x = e
             /\ ParentOf(w, x) = IF x = e THEN p ELSE ParentOf(g, x)
             /\ FirstOf(w, x) = IF x = e THEN f ELSE FirstOf(g, x)
             /\ NextOf(w, x) = IF x = e THEN null ELSE NextOf(g, x)
             /\ PrevOf(w, x) = IF x = e THEN null ELSE PrevOf(g, x)
    BY <1>1, WithLinks
  <1> HIDE DEF w
  <1>5. /\ m \in Graphs
        /\ \A x \in Ref :
             /\ Has(m, x) <=> Has(w, x) \/ x = p
             /\ ParentOf(m, x) = ParentOf(w, x)
             /\ FirstOf(m, x) = FirstOf(w, x)
             /\ NextOf(m, x) = NextOf(w, x)
             /\ PrevOf(m, x) = PrevOf(w, x)
    BY <1>4, EmplacedLinks
  <1> HIDE DEF m
  <1> QED
    BY <1>2, <1>3, <1>4, <1>5

LEMMA PreparedLinked ==
    ASSUME NEW g, NEW valid, NEW rank, Linked(g, valid, rank),
           NEW e \in valid, NEW p \in valid, e # p, ParentOf(g, e) = null,
           rank[p] < rank[e]
    PROVE  /\ Linked(Prepared(g, e, p), valid, rank)
           /\ Tidy(g, valid) =>
                \A x \in valid \ {e} : Has(Prepared(g, e, p), x) =>
                  TidyAt(Prepared(g, e, p), valid, x)
  <1> DEFINE m == Prepared(g, e, p)
  <1>1. e \in Entities /\ p \in Entities /\ e \in Ref /\ p \in Ref
    BY LinkedFacts
  <1>2. /\ m \in Graphs
        /\ \A x \in Ref :
             /\ Has(m, x) <=> Has(g, x) \/ x = e \/ x = p
             /\ ParentOf(m, x) = IF x = e THEN p ELSE ParentOf(g, x)
             /\ FirstOf(m, x) = FirstOf(g, x)
             /\ NextOf(m, x) = NextOf(g, x)
             /\ PrevOf(m, x) = PrevOf(g, x)
        /\ NextOf(g, e) = null /\ PrevOf(g, e) = null
    BY <1>1, PreparedLinks
  <1> HIDE DEF m
  <1>3. ASSUME NEW x \in Entities, Has(m, x) PROVE LinkedAt(m, valid, rank, x)
    <2>1. x \in Ref /\ x # null
      BY LinkedFacts
    <2>2. CASE Has(g, x)
      <3>1. LinkedAt(g, valid, rank, x)
        BY <2>1, <2>2, LinkedFacts
      <3>2. NextOf(g, x) # e /\ FirstOf(g, x) # e /\ NextOf(g, x) \in Ref /\ FirstOf(g, x) \in Ref
            /\ PrevOf(g, x) \in Ref
        <4>1. NextOf(g, x) \in Ref /\ FirstOf(g, x) \in Ref /\ PrevOf(g, x) \in Ref
          BY <2>1, LinkedFacts
        <4>2. NextOf(g, x) = e => PrevOf(g, e) = x
          BY <1>1, <3>1, LinkedFacts DEF LinkedAt
        <4>3. FirstOf(g, x) = e => ParentOf(g, e) = x
          BY <1>1, <3>1, LinkedFacts DEF LinkedAt
        <4> QED
          BY <1>2, <2>1, <4>1, <4>2, <4>3
      <3>3. ParentOf(m, x) # null => rank[ParentOf(m, x)] < rank[x]
        BY <1>2, <2>1, <3>1 DEF LinkedAt
      <3>4. ParentOf(m, x) = null => PrevOf(m, x) = null /\ NextOf(m, x) = null
        BY <1>1, <1>2, <2>1, <3>1, LinkedFacts DEF LinkedAt
      <3>5. NextOf(m, x) # null =>
              /\ Has(m, NextOf(m, x)) /\ PrevOf(m, NextOf(m, x)) = x
              /\ ParentOf(m, NextOf(m, x)) = ParentOf(m, x) /\ rank[x] < rank[NextOf(m, x)]
        BY <1>2, <2>1, <3>1, <3>2 DEF LinkedAt
      <3>6. FirstOf(m, x) # null =>
              /\ Has(m, FirstOf(m, x)) /\ PrevOf(m, FirstOf(m, x)) = null
              /\ ParentOf(m, FirstOf(m, x)) = x
        BY <1>2, <2>1, <3>1, <3>2 DEF LinkedAt
      <3>7. PrevOf(m, x) \in valid => Has(m, PrevOf(m, x)) /\ NextOf(m, PrevOf(m, x)) = x
        BY <1>2, <2>1, <3>1, <3>2 DEF LinkedAt
      <3> QED
        BY <3>1, <3>3, <3>4, <3>5, <3>6, <3>7 DEF LinkedAt
    <2>3. CASE ~Has(g, x)
      <3>1. /\ FirstOf(g, x) = null /\ NextOf(g, x) = null /\ PrevOf(g, x) = null
            /\ ParentOf(g, x) = null /\ (x = e \/ x = p) /\ null \notin valid
        BY <1>2, <1>3, <2>1, <2>3, LinkedFacts
      <3>2. /\ FirstOf(m, x) = null /\ NextOf(m, x) = null /\ PrevOf(m, x) = null
            /\ ParentOf(m, x) = IF x = e THEN p ELSE null
        BY <1>2, <2>1, <3>1
      <3> QED
        BY <1>1, <3>1, <3>2, LinkedFacts DEF LinkedAt
    <2> QED
      BY <2>2, <2>3
  <1>4. Linked(m, valid, rank)
    BY <1>2, <1>3, LinkedFacts DEF Linked
  <1>5. ASSUME NEW x \in valid \ {e}, Has(m, x), Tidy(g, valid) PROVE TidyAt(m, valid, x)
    <2>1. x \in Ref /\ x # null
      BY LinkedFacts
    <2>2. CASE Has(g, x)
      <3>1. TidyAt(g, valid, x)
        BY <1>5, <2>2 DEF Tidy
      <3> QED
        BY <1>2, <1>5, <2>1, <3>1, LinkedFacts DEF TidyAt
    <2>3. CASE ~Has(g, x)
      BY <1>2, <1>5, <2>1, <2>3, LinkedFacts DEF TidyAt
    <2> QED
      BY <2>2, <2>3
  <1> QED
    BY <1>4, <1>5 DEF m

\* Q has x and what follows its members.
InList(g, Q, x) == x \in Q /\ \A z \in Q : NextOf(g, z) \in Q \cup {null}

\* k is g with e at the end of the list of p's children.
Lengthened(g, k, e, p) ==
    IF FirstOf(g, p) = null
    THEN \A x \in Ref : /\ FirstOf(k, x) = IF x = p THEN e ELSE FirstOf(g, x)
                        /\ NextOf(k, x) = NextOf(g, x)
    ELSE \E l \in Entities :
           /\ NextOf(g, l) = null
           /\ \A Q \in SUBSET Entities : InList(g, Q, FirstOf(g, p)) => l \in Q
           /\ \A x \in Ref : /\ FirstOf(k, x) = FirstOf(g, x)
                              /\ NextOf(k, x) = IF x = l THEN e ELSE NextOf(g, x)

LEMMA AttachKeeps ==
    ASSUME NEW g, NEW valid, NEW rank, Linked(g, valid, rank),
           NEW e \in valid, NEW p \in valid, e # p, ParentOf(g, e) = null,
           NEW D, Below(g, D, e), p \notin D
    PROVE  LET k == Attached(g, e, p)
           IN  /\ \E r : Linked(k, valid, r)
               /\ Tidy(g, valid) => Tidy(k, valid)
               /\ \A x \in Ref : /\ ParentOf(k, x) = IF x = e THEN p ELSE ParentOf(g, x)
                                 /\ PrevOf(k, x) \in {PrevOf(g, x)} \cup valid
               /\ Lengthened(g, k, e, p)
  <1> DEFINE m == Prepared(g, e, p)
             k == Attached(g, e, p)
  <1>1. PICK K \in Nat : \A x \in Entities : rank[x] < K
    BY LinkedFacts, RankBound
  <1> DEFINE r == Lifted(rank, D, K)
  <1>2. e \in Entities /\ p \in Entities /\ e \in Ref /\ p \in Ref /\ p # null /\ e # null
    BY LinkedFacts
  <1>3. Linked(g, valid, r)
    BY <1>2, LiftKeepsLinked
  <1>4. /\ \A x \in Entities : r[x] = IF x \in D THEN rank[x] + K ELSE rank[x]
        /\ \A x \in Entities : rank[x] \in Nat
    BY LinkedFacts DEF Lifted
  <1>5. \A x \in Entities \ D : r[x] < r[e]
    <2>1. e \in D
      BY DEF Below
    <2> QED
      BY <1>1, <1>2, <1>4, <2>1
  <1> HIDE DEF r
  <1>6. /\ Linked(m, valid, r)
        /\ Tidy(g, valid) => \A x \in valid \ {e} : Has(m, x) => TidyAt(m, valid, x)
    BY <1>2, <1>3, <1>5, PreparedLinked
  <1>7. /\ m \in Graphs
        /\ \A x \in Ref :
             /\ Has(m, x) <=> Has(g, x) \/ x = e \/ x = p
             /\ ParentOf(m, x) = IF x = e THEN p ELSE ParentOf(g, x)
             /\ FirstOf(m, x) = FirstOf(g, x)
             /\ NextOf(m, x) = NextOf(g, x)
             /\ PrevOf(m, x) = PrevOf(g, x)
        /\ NextOf(g, e) = null /\ PrevOf(g, e) = null
    BY <1>2, PreparedLinks
  <1> DEFINE w == With(g, e, p, FirstOf(g, e), null, null)
  <1>8. w[e].parent = p /\ m = GetOrEmplace(w, p) /\ k = OnConstruct(w, e)
    <2>1. FirstOf(g, e) \in Ref /\ null \in Ref /\ g \in Graphs
      BY <1>2, LinkedFacts
    <2>2. w[e] = Component(p, FirstOf(g, e), null, null)
      BY <1>2, <2>1 DEF With, Graphs
    <2> QED
      BY <1>2, <2>1, <2>2, ComponentFields DEF Attached, Prepared
  <1> HIDE DEF w, m, k
  <1>9. Has(m, p) /\ m[p].first = FirstOf(m, p) /\ FirstOf(m, p) \in Ref
    BY <1>2, <1>7, Access
  <1>10. CASE FirstOf(m, p) = null
    <2>1. k = SetFirst(m, p, e)
      BY <1>8, <1>9, <1>10 DEF OnConstruct
    <2>2. /\ k \in Graphs
          /\ \A x \in Ref :
               /\ Has(k, x) <=> Has(m, x)
               /\ ParentOf(k, x) = ParentOf(m, x)
               /\ FirstOf(k, x) = IF x = p /\ Has(m, p) THEN e ELSE FirstOf(m, x)
               /\ NextOf(k, x) = NextOf(m, x)
               /\ PrevOf(k, x) = PrevOf(m, x)
      BY <1>2, <1>7, <2>1, SetFirstLinks
    <2>3. ASSUME NEW x \in Entities, Has(k, x) PROVE LinkedAt(k, valid, r, x)
      <3>1. x \in Ref /\ LinkedAt(m, valid, r, x)
        BY <1>6, <2>2, <2>3, LinkedFacts
      <3>2. PrevOf(m, e) = null /\ ParentOf(m, e) = p /\ Has(m, e)
        BY <1>2, <1>7
      <3>3. /\ NextOf(m, x) \in Ref /\ FirstOf(m, x) \in Ref /\ PrevOf(m, x) \in Ref
        BY <1>6, <3>1, LinkedFacts
      <3>4. FirstOf(k, x) # null =>
              /\ Has(k, FirstOf(k, x)) /\ PrevOf(k, FirstOf(k, x)) = null
              /\ ParentOf(k, FirstOf(k, x)) = x
        <4>1. CASE x = p
          BY <1>2, <1>9, <2>2, <3>1, <3>2, <4>1
        <4>2. CASE x # p
          BY <2>2, <3>1, <3>3, <4>2 DEF LinkedAt
        <4> QED
          BY <4>1, <4>2
      <3> QED
        BY <2>2, <3>1, <3>3, <3>4 DEF LinkedAt
    <2>4. Linked(k, valid, r)
      BY <1>6, <2>2, <2>3, LinkedFacts DEF Linked
    <2>5. ASSUME NEW x \in valid, Has(k, x), Tidy(g, valid) PROVE TidyAt(k, valid, x)
      <3>1. CASE x = e
        BY <1>2, <1>7, <1>9, <2>2, <3>1 DEF TidyAt
      <3>2. CASE x # e
        <4>1. x \in Ref /\ TidyAt(m, valid, x)
          BY <1>6, <2>2, <2>5, <3>2, LinkedFacts
        <4> QED
          BY <1>2, <1>6, <1>9, <1>10, <2>2, <3>2, <4>1, LinkedFacts DEF TidyAt
      <3> QED
        BY <3>1, <3>2
    <2>6. Tidy(g, valid) => Tidy(k, valid)
      BY <2>5 DEF Tidy
    <2>7. Lengthened(g, k, e, p)
      BY <1>2, <1>7, <1>9, <1>10, <2>2 DEF Lengthened
    <2> QED
      BY <1>7, <2>2, <2>4, <2>6, <2>7 DEF k
  <1>11. CASE FirstOf(m, p) # null
    <2> DEFINE f == FirstOf(m, p)
               l == LastSibling(m, f)
               S == {z \in Entities : Has(m, z) /\ ParentOf(m, z) = p /\ z # e}
    <2>1. Has(m, f) /\ ParentOf(m, f) = p /\ f \in Entities /\ f # e /\ f \in Ref
      <3>1. LinkedAt(m, valid, r, p) /\ LinkedAt(g, valid, r, p)
        BY <1>2, <1>3, <1>6, <1>7, <1>9, <1>11, LinkedFacts
      <3> QED
        BY <1>2, <1>3, <1>6, <1>7, <1>11, <3>1, LinkedFacts DEF LinkedAt
    <2>2. \A z \in S : NextOf(m, z) \in S \cup {null}
      <3>1. ASSUME NEW z \in S, NextOf(m, z) # null PROVE NextOf(m, z) \in S
        <4>1. z \in Ref /\ z # null /\ LinkedAt(m, valid, r, z) /\ NextOf(m, z) \in Ref
          BY <1>6, LinkedFacts
        <4> QED
          BY <1>6, <1>7, <3>1, <4>1, LinkedFacts DEF LinkedAt
      <3> QED
        BY <3>1
    <2>3. /\ l \in Entities /\ Has(m, l)
          /\ NextOf(m, l) = null /\ ParentOf(m, l) = ParentOf(m, f)
          /\ \A Q \in SUBSET Entities :
               f \in Q /\ (\A z \in Q : NextOf(m, z) \in Q \cup {null}) => l \in Q
      BY <1>6, <2>1, LastOne
    <2>4. f \in S /\ S \in SUBSET Entities
      BY <2>1
    <2>5. k = SetPrev(SetNext(m, l, e), e, l)
      BY <1>8, <1>9, <1>11 DEF OnConstruct
    <2> HIDE DEF l
    <2>6. l \in S
      BY <2>2, <2>3, <2>4
    <2> HIDE DEF f
    <2>7. l \in Ref /\ l # null /\ l \in valid /\ l # e /\ ParentOf(m, l) = p /\ LinkedAt(m, valid, r, l)
      BY <1>6, <2>3, <2>6, LinkedFacts
    <2>8. l # p
      BY <1>2, <1>6, <2>7, LinkedFacts DEF LinkedAt
    <2>9. l \notin D
      <3>1. Has(g, l) /\ ParentOf(g, l) = p
        BY <1>7, <2>3, <2>7, <2>8
      <3> QED
        BY <2>7, <3>1 DEF Below
    <2>10. r[l] < r[e]
      BY <1>5, <2>3, <2>9
    <2> DEFINE n == SetNext(m, l, e)
    <2>11. /\ n \in Graphs
           /\ \A x \in Ref :
               /\ Has(n, x) <=> Has(m, x)
               /\ ParentOf(n, x) = ParentOf(m, x)
               /\ FirstOf(n, x) = FirstOf(m, x)
               /\ NextOf(n, x) = IF x = l /\ Has(m, l) THEN e ELSE NextOf(m, x)
               /\ PrevOf(n, x) = PrevOf(m, x)
      BY <1>2, <1>7, <2>7, SetNextLinks
    <2> HIDE DEF n
    <2>12. /\ k \in Graphs
           /\ \A x \in Ref :
               /\ Has(k, x) <=> Has(n, x)
               /\ ParentOf(k, x) = ParentOf(n, x)
               /\ FirstOf(k, x) = FirstOf(n, x)
               /\ NextOf(k, x) = NextOf(n, x)
               /\ PrevOf(k, x) = IF x = e /\ Has(n, e) THEN l ELSE PrevOf(n, x)
      <3>1. e \in Ref /\ l \in Ref /\ n \in Graphs
        BY <1>2, <2>7, <2>11
      <3>2. k = SetPrev(n, e, l)
        BY ONLY <2>5 DEF n
      <3> HIDE DEF k
      <3> QED
        BY ONLY <3>1, <3>2, SetPrevLinks
    <2>13. \A x \in Ref :
               /\ Has(k, x) <=> Has(m, x)
               /\ ParentOf(k, x) = ParentOf(m, x)
               /\ FirstOf(k, x) = FirstOf(m, x)
               /\ NextOf(k, x) = IF x = l THEN e ELSE NextOf(m, x)
               /\ PrevOf(k, x) = IF x = e THEN l ELSE PrevOf(m, x)
      BY <1>2, <1>7, <2>3, <2>11, <2>12
    <2>14. ParentOf(m, e) = p /\ NextOf(m, e) = null /\ PrevOf(m, e) = null /\ Has(m, e)
      BY <1>2, <1>7
    <2>15. ASSUME NEW x \in Entities, Has(k, x) PROVE LinkedAt(k, valid, r, x)
      <3>1. x \in Ref /\ x # null /\ LinkedAt(m, valid, r, x)
        BY <1>6, <2>13, <2>15, LinkedFacts
      <3>2. FirstOf(m, x) # e
        BY <1>2, <1>6, <1>7, <1>11, <2>1, <2>14, <3>1, LinkedFacts DEF LinkedAt, f
      <3>3. CASE x = e
        BY <1>2, <1>6, <2>3, <2>7, <2>10, <2>13, <2>14, <3>1, <3>2, <3>3, LinkedFacts DEF LinkedAt
      <3>4. CASE x = l
        BY <1>2, <1>6, <2>3, <2>7, <2>10, <2>13, <2>14, <3>1, <3>2, <3>4, LinkedFacts DEF LinkedAt
      <3>5. CASE x # e /\ x # l
        BY <1>2, <1>6, <2>3, <2>7, <2>13, <2>14, <3>1, <3>2, <3>5, LinkedFacts DEF LinkedAt
      <3> QED
        BY <3>3, <3>4, <3>5
    <2>16. Linked(k, valid, r)
      BY <1>6, <2>12, <2>15, LinkedFacts DEF Linked
    <2>17. ASSUME NEW x \in valid, Has(k, x), Tidy(g, valid) PROVE TidyAt(k, valid, x)
      <3>1. CASE x = e
        BY <1>2, <1>9, <2>3, <2>7, <2>13, <2>14, <3>1 DEF TidyAt
      <3>2. CASE x # e
        <4>1. x \in Ref /\ TidyAt(m, valid, x)
          BY <1>6, <2>13, <2>17, <3>2, LinkedFacts
        <4> QED
          BY <1>2, <1>6, <2>13, <3>2, <4>1, LinkedFacts DEF TidyAt
      <3> QED
        BY <3>1, <3>2
    <2>18. Tidy(g, valid) => Tidy(k, valid)
      BY <2>17 DEF Tidy
    <2>19. \A x \in Ref : /\ ParentOf(k, x) = IF x = e THEN p ELSE ParentOf(g, x)
                          /\ PrevOf(k, x) \in {PrevOf(g, x)} \cup valid
      BY <1>7, <2>7, <2>13
    <2>20. \A Q \in SUBSET Entities : InList(g, Q, FirstOf(g, p)) => l \in Q
      <3>1. ASSUME NEW Q \in SUBSET Entities, InList(g, Q, FirstOf(g, p)) PROVE l \in Q
        <4>1. FirstOf(g, p) = f
          BY <1>2, <1>7 DEF f
        <4>2. \A z \in Q : NextOf(m, z) = NextOf(g, z)
          BY <1>3, <1>7, LinkedFacts
        <4> QED
          BY <2>3, <3>1, <4>1, <4>2 DEF InList
      <3> QED
        BY <3>1
    <2>21. Lengthened(g, k, e, p)
      <3>1. FirstOf(g, p) # null /\ NextOf(g, l) = null /\ l \in Entities
        BY <1>2, <1>7, <1>11, <2>3, <2>7
      <3>2. \A x \in Ref : FirstOf(k, x) = FirstOf(g, x) /\ NextOf(k, x) = IF x = l THEN e ELSE NextOf(g, x)
        BY <1>7, <2>13
      <3> QED
        BY <2>20, <3>1, <3>2 DEF Lengthened
    <2> QED
      BY <2>16, <2>18, <2>19, <2>21 DEF k
  <1> QED
    BY <1>10, <1>11

-----------------------------------------------------------------------------
(* Ancestors *)
UpClosed(g, S) == \A x \in S : ParentOf(g, x) \in S

Up(g, S) == S \cup {ParentOf(g, x) : x \in S}

LEMMA AncestorsSteps ==
    ASSUME NEW g \in Graphs, NEW e \in Ref
    PROVE  \E f : /\ Recurs(f, MaxEntities, SUBSET Ref, {ParentOf(g, e)},
                            [n \in 1 .. MaxEntities |-> [S \in SUBSET Ref |-> Up(g, S)]])
                  /\ Ancestors(g, e) = f[MaxEntities]
  <1> DEFINE N == MaxEntities
             V == SUBSET Ref
             a == {ParentOf(g, e)}
             F == [n \in 1 .. N |-> [S \in V |-> Up(g, S)]]
             Eq(f) == [n \in 0 .. N |->
                         IF n = 0 THEN {ParentOf(g, e)}
                         ELSE f[n - 1] \cup {ParentOf(g, x) : x \in f[n - 1]}]
             c == CHOOSE f : f = Eq(f)
  <1>1. N \in Nat
    BY HierarchyAssumption
  <1>2. a \in V /\ F \in [1 .. N -> [V -> V]]
    <2>1. \A x \in Ref : ParentOf(g, x) \in Ref
      BY Access
    <2>2. \A S \in V : Up(g, S) \in V
      BY <2>1 DEF Up
    <2>3. F \in [1 .. N -> [V -> V]]
      <3> HIDE DEF V
      <3> QED
        BY <2>2
    <2> QED
      BY <2>1, <2>3
  <1>3. \A n \in 1 .. N, S \in V : F[n][S] = Up(g, S)
    OBVIOUS
  <1> HIDE DEF F
  <1>4. PICK f : Recurs(f, N, V, a, F)
    <2> HIDE DEF a, V
    <2> QED
      BY ONLY <1>1, <1>2, Recursion
  <1>5. f \in [0 .. N -> V] /\ f[0] = a /\ \A n \in 1 .. N : f[n] = F[n][f[n - 1]]
    BY <1>4 DEF Recurs
  <1>6. ASSUME NEW n \in 1 .. N
        PROVE  n - 1 \in 0 .. N /\ f[n] = Up(g, f[n - 1])
    <2>1. n - 1 \in 0 .. N
      BY <1>1
    <2>2. f[n - 1] \in V
      BY <1>5, <2>1
    <2> QED
      BY <1>3, <1>5, <2>1, <2>2
  <1>7. f = Eq(f)
    <2>1. ASSUME NEW n \in 0 .. N
          PROVE  f[n] = IF n = 0 THEN {ParentOf(g, e)}
                        ELSE f[n - 1] \cup {ParentOf(g, x) : x \in f[n - 1]}
      <3>1. CASE n = 0
        BY <1>5, <3>1
      <3>2. CASE n # 0
        <4>1. n \in 1 .. N
          BY <1>1, <3>2
        <4> QED
          BY <1>6, <3>2, <4>1 DEF Up
      <3> QED
        BY <3>1, <3>2
    <2> QED
      BY <1>5, <2>1
  <1>8. c = Eq(c)
    BY <1>7
  <1>9. Ancestors(g, e) = c[N]
    BY DEF Ancestors
  <1> HIDE DEF c
  <1>10. c[0] = a
    <2>1. 0 \in 0 .. N
      BY <1>1
    <2>2. Eq(c)[0] = a
      BY <2>1
    <2> HIDE DEF Eq
    <2> QED
      BY <1>8, <2>2
  <1>11. ASSUME NEW n \in 1 .. N PROVE c[n] = Up(g, c[n - 1])
    <2>1. n \in 0 .. N /\ n # 0
      BY <1>1
    <2>2. Eq(c)[n] = Up(g, c[n - 1])
      BY <2>1 DEF Up
    <2> HIDE DEF Eq
    <2> QED
      BY <1>8, <2>2
  <1> DEFINE G == {n \in 0 .. N : c[n] = f[n]}
  <1>12. 0 \in G
    <2>1. 0 \in 0 .. N
      BY <1>1
    <2>2. c[0] = f[0]
      BY ONLY <1>5, <1>10
    <2> QED
      BY <2>1, <2>2
  <1>13. \A n \in 1 .. N : n - 1 \in G => n \in G
    BY <1>1, <1>6, <1>11
  <1> HIDE DEF G
  <1>14. \A n \in 0 .. N : n \in G
    BY ONLY <1>1, <1>12, <1>13, Upto
  <1>15. c[N] = f[N]
    BY <1>1, <1>14 DEF G
  <1> QED
    BY <1>4, <1>9, <1>15 DEF F

LEMMA AncestorsFacts ==
    ASSUME NEW g \in Graphs, NEW e \in Ref
    PROVE  /\ Ancestors(g, e) \subseteq Ref
           /\ ParentOf(g, e) \in Ancestors(g, e)
           /\ UpClosed(g, Ancestors(g, e))
           /\ \A S \in SUBSET Ref :
                ParentOf(g, e) \in S /\ UpClosed(g, S) => Ancestors(g, e) \subseteq S
  <1> DEFINE N == MaxEntities
             F == [n \in 1 .. N |-> [S \in SUBSET Ref |-> Up(g, S)]]
  <1>1. N \in Nat
    BY HierarchyAssumption
  <1>2. PICK f : Recurs(f, N, SUBSET Ref, {ParentOf(g, e)}, F) /\ Ancestors(g, e) = f[N]
    BY AncestorsSteps
  <1>3. /\ \A n \in 0 .. N : f[n] \in SUBSET Ref
        /\ f[0] = {ParentOf(g, e)}
        /\ \A n \in 1 .. N : f[n] = F[n][f[n - 1]]
    BY <1>2 DEF Recurs
  <1>4. ASSUME NEW n \in 1 .. N PROVE n - 1 \in 0 .. N /\ f[n] = Up(g, f[n - 1])
    <2>1. n - 1 \in 0 .. N
      BY <1>1
    <2>2. f[n - 1] \in SUBSET Ref
      BY <1>3, <2>1
    <2> QED
      BY <1>3, <2>1, <2>2
  <1> HIDE DEF F
  <1>5. IsFiniteSet(Ref) /\ Cardinality(Ref) = N + 1
    <2>1. Ref = 0 .. N
      BY HierarchyAssumption DEF Ref, Entities, null
    <2> QED
      BY <1>1, <2>1, FS_Interval
  <1>6. ASSUME NEW S \in SUBSET Ref
        PROVE  IsFiniteSet(S) /\ Cardinality(S) \in Nat /\ Cardinality(S) <= N + 1
               /\ (Cardinality(S) = N + 1 => S = Ref)
    <2>1. IsFiniteSet(S) /\ Cardinality(S) <= N + 1 /\ (Cardinality(S) = N + 1 => S = Ref)
      BY <1>5, FS_Subset
    <2> QED
      BY <2>1, FS_CardinalityType
  <1>7. UpClosed(g, f[N])
    <2> DEFINE G == {n \in 0 .. N : UpClosed(g, f[n]) \/ Cardinality(f[n]) >= n + 1}
    <2>1. 0 \in G
      <3>1. Cardinality(f[0]) = 1
        BY <1>3, FS_Singleton
      <3> QED
        BY <1>1, <3>1
    <2>2. ASSUME NEW n \in 1 .. N, n - 1 \in G PROVE n \in G
      <3>1. CASE UpClosed(g, f[n - 1])
        <4> DEFINE S == f[n - 1]
        <4> HIDE DEF S
        <4>2. Up(g, S) = S
          BY <3>1 DEF Up, UpClosed, S
        <4>1. f[n] = f[n - 1]
          BY <1>4, <4>2 DEF S
        <4> QED
          BY <1>1, <3>1, <4>1
      <3>2. CASE ~UpClosed(g, f[n - 1])
        <4>1. PICK x \in f[n - 1] : ParentOf(g, x) \notin f[n - 1]
          BY <3>2 DEF UpClosed
        <4>2. f[n] \in SUBSET Ref /\ f[n - 1] \in SUBSET Ref
          BY <1>1, <1>3, <1>4
        <4>3. f[n - 1] \in SUBSET f[n] /\ f[n - 1] # f[n]
          BY <1>4, <4>1 DEF Up
        <4>4. /\ IsFiniteSet(f[n]) /\ Cardinality(f[n]) \in Nat
              /\ Cardinality(f[n - 1]) \in Nat
          BY <1>6, <4>2
        <4>5. /\ Cardinality(f[n - 1]) <= Cardinality(f[n])
              /\ Cardinality(f[n]) # Cardinality(f[n - 1])
          BY <4>3, <4>4, FS_Subset
        <4>6. Cardinality(f[n - 1]) >= n
          BY <2>2, <3>2
        <4> QED
          BY <1>1, <4>4, <4>5, <4>6
      <3> QED
        BY <3>1, <3>2
    <2>3. \A n \in 1 .. N : n - 1 \in G => n \in G
      BY <2>2
    <2> HIDE DEF G
    <2>4. \A n \in 0 .. N : n \in G
      BY ONLY <1>1, <2>1, <2>3, Upto
    <2>5. UpClosed(g, f[N]) \/ Cardinality(f[N]) >= N + 1
      BY <1>1, <2>4 DEF G
    <2>6. f[N] \in SUBSET Ref
      BY <1>1, <1>3
    <2>7. CASE Cardinality(f[N]) >= N + 1
      <3>1. f[N] = Ref
        BY <1>1, <1>6, <2>6, <2>7
      <3> QED
        BY <3>1, Access DEF UpClosed
    <2> QED
      BY <2>5, <2>7
  <1> DEFINE H == {n \in 0 .. N : ParentOf(g, e) \in f[n]}
  <1>8. 0 \in H
    BY <1>1, <1>3
  <1>9. \A n \in 1 .. N : n - 1 \in H => n \in H
    BY <1>1, <1>4 DEF Up
  <1> HIDE DEF H
  <1>10. \A n \in 0 .. N : n \in H
    BY ONLY <1>1, <1>8, <1>9, Upto
  <1>11. ParentOf(g, e) \in f[N]
    BY <1>1, <1>10 DEF H
  <1>12. ASSUME NEW S \in SUBSET Ref, ParentOf(g, e) \in S, UpClosed(g, S)
         PROVE  f[N] \subseteq S
    <2> DEFINE G == {n \in 0 .. N : f[n] \subseteq S}
    <2>1. 0 \in G
      BY <1>1, <1>3, <1>12
    <2>2. ASSUME NEW n \in 1 .. N, n - 1 \in G PROVE n \in G
      <3>1. f[n] = Up(g, f[n - 1]) /\ f[n - 1] \subseteq S /\ n \in 0 .. N
        <4>1. f[n] = Up(g, f[n - 1]) /\ n - 1 \in 0 .. N
          BY ONLY <1>4
        <4>2. n \in 0 .. N
          BY <1>1
        <4>3. f[n - 1] \subseteq S
          BY ONLY <2>2
        <4> QED
          BY ONLY <4>1, <4>2, <4>3
      <3> DEFINE T == f[n - 1]
      <3> HIDE DEF T
      <3>2. Up(g, T) \subseteq S
        BY <1>12, <3>1 DEF Up, UpClosed, T
      <3> QED
        BY ONLY <3>1, <3>2 DEF T
    <2> HIDE DEF G
    <2>4. \A n \in 1 .. N : n - 1 \in G => n \in G
      BY <2>2
    <2> HIDE DEF G
    <2>3. \A n \in 0 .. N : n \in G
      BY ONLY <1>1, <2>1, <2>4, Upto
    <2> QED
      BY <1>1, <2>3 DEF G
  <1> QED
    BY <1>1, <1>2, <1>3, <1>7, <1>11, <1>12

(* e and the entities that have e as an ancestor *)
Descendants(g, e) == {x \in Entities : x = e \/ e \in Ancestors(g, x)}

LEMMA DescendantsBelow ==
    ASSUME NEW g \in Graphs, NEW e \in Entities
    PROVE  Below(g, Descendants(g, e), e)
  <1> DEFINE D == Descendants(g, e)
  <1>1. /\ \A x \in Entities : x \in Ref
        /\ null \in Ref /\ e # null /\ ParentOf(g, null) = null
        /\ \A x \in Ref : ParentOf(g, x) \in Ref /\ (x # null => x \in Entities)
    BY Access DEF Ref, Entities, null, ParentOf, Has
  <1>2. ASSUME NEW x \in Entities, ParentOf(g, x) \in D PROVE x \in D
    <2> DEFINE y == ParentOf(g, x)
    <2>1. y \in Ancestors(g, x) /\ UpClosed(g, Ancestors(g, x)) /\ Ancestors(g, x) \subseteq Ref
      BY <1>1, AncestorsFacts
    <2>2. CASE y = e
      BY <2>1, <2>2 DEF Descendants
    <2>3. CASE y # e
      <3>1. e \in Ancestors(g, y) /\ y \in Ref
        BY <1>1, <1>2, <2>3 DEF Descendants
      <3>2. ParentOf(g, y) \in Ancestors(g, x)
        BY <2>1 DEF UpClosed
      <3>3. Ancestors(g, y) \subseteq Ancestors(g, x)
        BY <2>1, <3>1, <3>2, AncestorsFacts
      <3> QED
        BY <3>1, <3>3 DEF Descendants
    <2> QED
      BY <2>2, <2>3
  <1>3. ASSUME NEW x \in D \ {e} PROVE ParentOf(g, x) \in D
    <2> DEFINE y == ParentOf(g, x)
               S == {y} \cup Ancestors(g, y)
    <2>1. x \in Ref /\ e \in Ancestors(g, x) /\ y \in Ref
      BY <1>1 DEF Descendants
    <2>2. /\ Ancestors(g, y) \subseteq Ref /\ ParentOf(g, y) \in Ancestors(g, y)
          /\ UpClosed(g, Ancestors(g, y))
      BY <2>1, AncestorsFacts
    <2>3. S \in SUBSET Ref /\ UpClosed(g, S) /\ ParentOf(g, x) \in S
      BY <2>1, <2>2 DEF UpClosed
    <2>4. Ancestors(g, x) \subseteq S
      BY <2>1, <2>3, AncestorsFacts
    <2>5. y # null
      <3> SUFFICES ASSUME y = null PROVE FALSE
        OBVIOUS
      <3>1. {null} \in SUBSET Ref /\ ParentOf(g, null) \in {null} /\ UpClosed(g, {null})
        BY <1>1 DEF UpClosed
      <3>2. Ancestors(g, null) \subseteq {null}
        BY <1>1, <3>1, AncestorsFacts
      <3> QED
        BY <1>1, <2>1, <2>4, <3>2
    <2> QED
      BY <1>1, <2>1, <2>4, <2>5 DEF Descendants
  <1>4. D \subseteq Entities /\ e \in D
    BY DEF Descendants
  <1> QED
    BY <1>2, <1>3, <1>4 DEF Below

-----------------------------------------------------------------------------
(* What is below an entity *)
Underneath(g, e) == ToSet(InOrder(FirstOf(g, e), Firsts(g), Nexts(g)))

LEMMA SubtreeFacts ==
    ASSUME NEW g, NEW valid, NEW rank, Linked(g, valid, rank), NEW e \in Entities
    PROVE  /\ PostOrder(g, e) \in Seq(Entities)
           /\ LeftFirst(PostOrder(g, e), Firsts(g), Nexts(g))
           /\ Subtree(g, e) = Underneath(g, e) \cup {e}
           /\ Underneath(g, e) \subseteq Entities
           /\ FirstOf(g, e) \in Underneath(g, e) \cup {null}
           /\ \A z \in Underneath(g, e) : /\ FirstOf(g, z) \in Underneath(g, e) \cup {null}
                                          /\ NextOf(g, z) \in Underneath(g, e) \cup {null}
           /\ \A S \in SUBSET Entities :
                /\ FirstOf(g, e) \in S \cup {null}
                /\ \A z \in S : FirstOf(g, z) \in S \cup {null} /\ NextOf(g, z) \in S \cup {null}
                => Underneath(g, e) \subseteq S
  <1> DEFINE a == InOrder(FirstOf(g, e), Firsts(g), Nexts(g))
             L == Firsts(g)
             R == Nexts(g)
             f == FirstOf(g, e)
  <1>1. /\ L \in [Ref -> Ref] /\ R \in [Ref -> Ref]
        /\ rank \in [Entities -> Nat] /\ Rising(rank, L) /\ Rising(rank, R)
    BY LinkFunctions
  <1>2. /\ \A x \in Ref : L[x] = FirstOf(g, x) /\ R[x] = NextOf(g, x)
        /\ f \in Ref /\ e \in Ref
        /\ \A x \in Entities : x \in Ref
    BY LinkFunctions, LinkedFacts
  <1>3. InOrdered(a, f, L, R)
    <2> HIDE DEF L, R, f
    <2>1. InOrdered(InOrder(f, L, R), f, L, R)
      BY ONLY <1>1, <1>2, InOrderComplete
    <2> QED
      BY <2>1 DEF L, R, f
  <1>4. /\ a \in Seq(Entities)
        /\ \A S \in SUBSET Entities :
             f \in S \cup {null} /\ Closed(S, L, R) => ToSet(a) \subseteq S
    <2> HIDE DEF L, R, f
    <2>1. /\ InOrder(f, L, R) \in Seq(Entities)
          /\ \A S \in SUBSET Entities :
               f \in S \cup {null} /\ Closed(S, L, R) => ToSet(InOrder(f, L, R)) \subseteq S
      BY ONLY <1>1, <1>2, InOrderInside
    <2> QED
      BY <2>1 DEF L, R, f
  <1>5. PostOrder(g, e) = a \o <<e>> \o <<>>
    <2>1. <<e>> \in Seq(Entities)
      OBVIOUS
    <2>2. a \o <<e>> \in Seq(Entities)
      BY <1>4, <2>1
    <2> QED
      BY <2>2 DEF PostOrder
  <1> HIDE DEF a, L, R, f
  <1>6. /\ a \o <<e>> \o <<>> \in Seq(Entities)
        /\ ToSet(a \o <<e>> \o <<>>) = ToSet(a) \cup {e}
    <2>1. <<>> \in Seq(Entities) /\ ToSet(<<>>) = {}
      BY DEF ToSet
    <2>2. /\ a \o <<e>> \o <<>> \in Seq(Entities)
          /\ ToSet(a \o <<e>> \o <<>>) = ToSet(a) \cup {e} \cup ToSet(<<>>)
      BY ONLY <1>4, <2>1, e \in Entities, Joined
    <2> QED
      BY <2>1, <2>2
  <1>7. /\ f # null => f \in ToSet(a)
        /\ Closed(ToSet(a), L, R) /\ LeftFirst(a, L, R)
    BY <1>3 DEF InOrdered
  <1>8. LeftFirst(a \o <<e>> \o <<>>, L, R)
    <2>1. L[e] \in ToSet(a) \cup {null}
      BY <1>2, <1>7 DEF f
    <2>2. \A z \in ToSet(a) : R[z] \in ToSet(a) \cup {null}
      BY <1>7 DEF Closed
    <2>3. <<>> \in Seq(Entities) /\ LeftFirst(<<>>, L, R)
      BY DEF LeftFirst
    <2> QED
      BY ONLY <1>1, <1>4, <1>7, <2>1, <2>2, <2>3, e \in Entities, LeftFirstJoined
  <1>9. ToSet(a) \subseteq Entities
    BY <1>4 DEF ToSet
  <1>10. Underneath(g, e) = ToSet(a)
    BY DEF Underneath, a
  <1>11. ASSUME NEW S \in SUBSET Entities
         PROVE  Closed(S, L, R) <=>
                  \A z \in S : FirstOf(g, z) \in S \cup {null} /\ NextOf(g, z) \in S \cup {null}
    BY <1>2 DEF Closed
  <1>12. /\ PostOrder(g, e) \in Seq(Entities)
         /\ LeftFirst(PostOrder(g, e), Firsts(g), Nexts(g))
         /\ Subtree(g, e) = Underneath(g, e) \cup {e}
    BY <1>5, <1>6, <1>8, <1>10 DEF Subtree, L, R
  <1>13. f \in Underneath(g, e) \cup {null}
    BY <1>7, <1>10
  <1>14. \A z \in Underneath(g, e) : /\ FirstOf(g, z) \in Underneath(g, e) \cup {null}
                                     /\ NextOf(g, z) \in Underneath(g, e) \cup {null}
    BY <1>7, <1>9, <1>10, <1>11
  <1>15. ASSUME NEW S \in SUBSET Entities, f \in S \cup {null},
                \A z \in S : FirstOf(g, z) \in S \cup {null} /\ NextOf(g, z) \in S \cup {null}
         PROVE  Underneath(g, e) \subseteq S
    BY <1>4, <1>10, <1>11, <1>15
  <1> QED
    BY <1>9, <1>10, <1>12, <1>13, <1>14, <1>15 DEF f

-----------------------------------------------------------------------------
(* What is drawn: whatever the panel shows hangs together. *)
AllHave(g, e) == \A y \in Ancestors(g, e) : y = null \/ Has(g, y)

LEMMA DrawnFacts ==
    ASSUME NEW g, NEW valid, NEW rank, Linked(g, valid, rank), NEW e \in Drawn(g, valid)
    PROVE  /\ e \in valid
           /\ Has(g, e) => TidyAt(g, valid, e)
           /\ AllHave(g, e)
  <1> DEFINE U == {x \in Entities : Has(g, x) /\ TidyAt(g, valid, x) /\ AllHave(g, x)}
  <1>1. /\ g \in Graphs /\ valid \subseteq Entities /\ null \in Ref /\ ~Has(g, null)
        /\ \A x \in Entities : x \in Ref /\ x # null
        /\ \A x \in Ref : /\ ParentOf(g, x) \in Ref /\ FirstOf(g, x) \in Ref /\ NextOf(g, x) \in Ref
                          /\ Has(g, x) => x \in valid /\ LinkedAt(g, valid, rank, x)
                          /\ ~Has(g, x) => /\ ParentOf(g, x) = null /\ FirstOf(g, x) = null
                                           /\ NextOf(g, x) = null /\ PrevOf(g, x) = null
    BY LinkedFacts
  <1>2. ASSUME NEW x \in Ref, ParentOf(g, x) = null PROVE AllHave(g, x)
    <2>1. {null} \in SUBSET Ref /\ UpClosed(g, {null})
      BY <1>1 DEF UpClosed
    <2>2. Ancestors(g, x) \subseteq {null}
      BY <1>1, <1>2, <2>1, AncestorsFacts
    <2> QED
      BY <2>2 DEF AllHave
  <1>3. ASSUME NEW x \in U, NEW y \in Ref, y = FirstOf(g, x) \/ y = NextOf(g, x), y # null
        PROVE  y \in U
    <2>1. x \in Ref /\ x \in valid /\ Has(g, x) /\ LinkedAt(g, valid, rank, x)
      BY <1>1
    <2>2. Has(g, y) /\ y \in valid /\ y \in Entities
      BY <1>1, <1>3, <2>1 DEF LinkedAt
    <2>3. /\ Ancestors(g, x) \subseteq Ref /\ UpClosed(g, Ancestors(g, x))
          /\ ParentOf(g, x) \in Ancestors(g, x)
      BY <1>1, <2>1, AncestorsFacts
    <2>4. CASE y = FirstOf(g, x)
      <3>1. PrevOf(g, y) = null /\ ParentOf(g, y) = x
        BY <1>3, <2>1, <2>4 DEF LinkedAt
      <3>2. TidyAt(g, valid, y)
        BY <2>1, <2>4, <3>1 DEF TidyAt
      <3> DEFINE S == {x} \cup Ancestors(g, x)
      <3>3. S \in SUBSET Ref /\ ParentOf(g, y) \in S /\ UpClosed(g, S)
        BY <2>1, <2>3, <3>1 DEF UpClosed
      <3>4. Ancestors(g, y) \subseteq S
        BY <1>1, <1>3, <3>3, AncestorsFacts
      <3>5. AllHave(g, y)
        BY <2>1, <3>4 DEF AllHave
      <3> QED
        BY <2>2, <3>2, <3>5
    <2>5. CASE y = NextOf(g, x)
      <3>1. PrevOf(g, y) = x /\ ParentOf(g, y) = ParentOf(g, x)
        BY <1>3, <2>1, <2>5 DEF LinkedAt
      <3>2. TidyAt(g, valid, x)
        OBVIOUS
      <3>3. TidyAt(g, valid, y)
        BY <1>1, <2>1, <3>1, <3>2 DEF TidyAt
      <3>4. Ancestors(g, y) \subseteq Ancestors(g, x)
        BY <1>1, <1>3, <2>3, <3>1, AncestorsFacts
      <3>5. AllHave(g, y)
        BY <3>4 DEF AllHave
      <3> QED
        BY <2>2, <3>3, <3>5
    <2> QED
      BY <1>3, <2>4, <2>5
  <1>4. ASSUME NEW r \in valid, Has(g, r), g[r].parent = null PROVE Subtree(g, r) \subseteq U
    <2>1. ParentOf(g, r) = null /\ r \in Ref /\ r \in Entities
      BY <1>1, <1>4, Access
    <2>2. PrevOf(g, r) = null
      BY <1>1, <1>4, <2>1 DEF LinkedAt
    <2>3. r \in U
      BY <1>2, <1>4, <2>1, <2>2 DEF TidyAt
    <2>4. \A z \in U : FirstOf(g, z) \in U \cup {null} /\ NextOf(g, z) \in U \cup {null}
      BY <1>1, <1>3
    <2>5. U \in SUBSET Entities
      OBVIOUS
    <2> HIDE DEF U
    <2>6. FirstOf(g, r) \in U \cup {null}
      BY <2>3, <2>4
    <2>7. /\ Subtree(g, r) = Underneath(g, r) \cup {r}
          /\ \A S \in SUBSET Entities :
               /\ FirstOf(g, r) \in S \cup {null}
               /\ \A z \in S : FirstOf(g, z) \in S \cup {null} /\ NextOf(g, z) \in S \cup {null}
               => Underneath(g, r) \subseteq S
      BY <2>1, SubtreeFacts
    <2>8. Underneath(g, r) \subseteq U
      BY ONLY <2>4, <2>5, <2>6, <2>7
    <2> QED
      BY <2>3, <2>7, <2>8
  <1>5. CASE e \in valid /\ ~Has(g, e)
    BY <1>1, <1>2, <1>5
  <1>6. CASE e \in U
    BY <1>1, <1>6
  <1> QED
    BY <1>4, <1>5, <1>6 DEF Drawn

-----------------------------------------------------------------------------
(* Links back and up never lead to an entity that is yet to be created. *)
Aged(g, c) == \A x \in Entities : ParentOf(g, x) <= c /\ PrevOf(g, x) <= c

Sound(g, valid, c) ==
    /\ c \in 0 .. MaxEntities
    /\ valid \subseteq 1 .. c
    /\ Aged(g, c)
    /\ \E rank : Linked(g, valid, rank)

LEMMA SoundFacts ==
    ASSUME NEW g, NEW valid, NEW c, Sound(g, valid, c)
    PROVE  /\ g \in Graphs /\ valid \subseteq Entities /\ c \in Nat
           /\ \A x \in valid : x \in Nat /\ x <= c
           /\ \A x \in Entities \ valid : g[x] = NoHierarchy
           /\ \A x \in Ref : /\ ParentOf(g, x) \in Ref /\ ParentOf(g, x) <= c
                             /\ PrevOf(g, x) \in Ref /\ PrevOf(g, x) <= c
                             /\ Has(g, x) => x \in valid
  <1>1. PICK rank : Linked(g, valid, rank)
    BY DEF Sound
  <1>2. /\ g \in Graphs /\ valid \subseteq Entities
        /\ \A x \in Entities : x # null
        /\ \A x \in Ref : /\ ParentOf(g, x) \in Ref /\ PrevOf(g, x) \in Ref
                          /\ x # null => x \in Entities
                          /\ Has(g, x) => x \in valid
        /\ null \in Ref /\ ~Has(g, null)
    BY <1>1, LinkedFacts
  <1>3. c \in Nat /\ \A x \in valid : x \in Nat /\ x <= c
    BY HierarchyAssumption DEF Sound
  <1>4. ParentOf(g, null) = null /\ PrevOf(g, null) = null /\ null = 0
    BY <1>2 DEF ParentOf, PrevOf, null
  <1>5. ASSUME NEW x \in Ref PROVE ParentOf(g, x) <= c /\ PrevOf(g, x) <= c
    <2>1. \A y \in Entities : ParentOf(g, y) <= c /\ PrevOf(g, y) <= c
      BY DEF Sound, Aged
    <2>2. CASE x = null
      BY <1>3, <1>4, <2>2
    <2>3. CASE x # null
      BY <1>2, <2>1, <2>3
    <2> QED
      BY <2>2, <2>3
  <1>6. ASSUME NEW x \in Entities \ valid PROVE g[x] = NoHierarchy
    <2>1. x \in Ref /\ x # null
      BY <1>2 DEF Ref
    <2>2. ~Has(g, x)
      BY <1>2, <2>1
    <2> QED
      BY <2>1, <2>2 DEF Has
  <1>7. ASSUME NEW x \in Ref
        PROVE  /\ ParentOf(g, x) \in Ref /\ PrevOf(g, x) \in Ref
               /\ Has(g, x) => x \in valid
    BY <1>2
  <1> QED
    BY ONLY <1>2, <1>3, <1>5, <1>6, <1>7

(* Creating an entity *)
LEMMA CreateKeeps ==
    ASSUME NEW g, NEW valid, NEW c, Sound(g, valid, c), c < MaxEntities
    PROVE  LET e == c + 1
           IN  /\ Sound(g, valid \cup {e}, e)
               /\ e \in Entities /\ e \notin valid /\ ~Has(g, e)
               /\ Tidy(g, valid) => Tidy(g, valid \cup {e})
  <1> DEFINE e == c + 1
             v == valid \cup {e}
  <1>1. /\ g \in Graphs /\ valid \subseteq Entities /\ c \in Nat
        /\ \A x \in valid : x \in Nat /\ x <= c
        /\ \A x \in Ref : /\ ParentOf(g, x) \in Ref /\ ParentOf(g, x) <= c
                          /\ PrevOf(g, x) \in Ref /\ PrevOf(g, x) <= c
                          /\ Has(g, x) => x \in valid
    BY SoundFacts
  <1>2. PICK rank : Linked(g, valid, rank)
    BY DEF Sound
  <1>3. /\ e \in Entities /\ e \in 1 .. e /\ e \in 0 .. MaxEntities /\ e \notin valid
        /\ \A x \in Ref : ParentOf(g, x) <= e /\ PrevOf(g, x) <= e /\ PrevOf(g, x) # e
        /\ \A x \in Entities : x \in Ref
    <2>1. e \in Entities /\ e \in 1 .. e /\ e \in 0 .. MaxEntities /\ e \notin valid
      BY <1>1, HierarchyAssumption DEF Entities
    <2>2. \A x \in Ref : x \in Nat
      BY DEF Ref, Entities, null
    <2>3. ASSUME NEW x \in Ref
          PROVE  ParentOf(g, x) <= e /\ PrevOf(g, x) <= e /\ PrevOf(g, x) # e
      <3>1. ParentOf(g, x) \in Nat /\ PrevOf(g, x) \in Nat /\ ParentOf(g, x) <= c /\ PrevOf(g, x) <= c
        BY <1>1, <2>2
      <3> QED
        BY <1>1, <3>1
    <2> QED
      BY <2>1, <2>3 DEF Ref
  <1>4. v \subseteq 1 .. e /\ Aged(g, e)
    <2>1. \A x \in valid : x \in 1 .. c
      BY DEF Sound
    <2>2. \A x \in 1 .. c : x \in 1 .. e
      BY <1>1
    <2> QED
      BY <1>3, <2>1, <2>2 DEF Aged
  <1> HIDE DEF e
  <1>5. Linked(g, v, rank)
    <2>1. ASSUME NEW x \in Entities, Has(g, x) PROVE LinkedAt(g, v, rank, x)
      <3>1. LinkedAt(g, valid, rank, x) /\ x \in Ref
        BY <1>2, <1>3, <2>1 DEF Linked
      <3> QED
        BY <1>3, <3>1 DEF LinkedAt
    <2> QED
      BY <1>1, <1>2, <1>3, <2>1 DEF Linked
  <1>6. ~Has(g, e)
    <2>1. e \in Ref
      BY <1>3
    <2> QED
      BY <1>1, <1>3, <2>1
  <1>7. Tidy(g, valid) => Tidy(g, v)
    BY <1>6 DEF Tidy, TidyAt
  <1>8. Sound(g, v, e)
    BY <1>3, <1>4, <1>5 DEF Sound
  <1> QED
    BY <1>3, <1>6, <1>7, <1>8 DEF e

-----------------------------------------------------------------------------
(* Moving an entity below a node *)
LEMMA MoveIsAttach ==
    ASSUME NEW g, NEW valid, NEW rank, Linked(g, valid, rank),
           NEW e \in Entities, Has(g, e), NEW p \in Entities
    PROVE  Reparent(g, valid, e, p) = Attached(Detached(g, valid, e), e, p)
  <1> DEFINE out == OnDestroy(g, valid, e)
             d == With(out, e, null, out[e].first, null, null)
  <1>1. e \in Ref /\ null \in Ref /\ p # null /\ Has(g, e)
    BY LinkedFacts
  <1>2. out \in Graphs /\ Has(out, e)
    BY <1>1, Bridged
  <1>3. out[e].first \in Ref
    BY <1>1, <1>2, Access
  <1>4. Detached(g, valid, e) = d
    BY DEF Detached, Reparent, With
  <1>5. Reparent(g, valid, e, p) = OnConstruct(With(out, e, p, out[e].first, null, null), e)
    BY <1>1 DEF Reparent, With
  <1> HIDE DEF out
  <1>6. FirstOf(d, e) = out[e].first
    BY ONLY <1>1, <1>2, <1>3, e \in Entities, WithLinks
  <1>7. With(d, e, p, out[e].first, null, null) = With(out, e, p, out[e].first, null, null)
    BY <1>2 DEF With, Graphs
  <1> QED
    BY <1>4, <1>5, <1>6, <1>7 DEF Attached

LEMMA MoveKeeps ==
    ASSUME NEW g, NEW valid, NEW c, Sound(g, valid, c),
           NEW e \in valid, NEW p \in valid, e # p, p \notin Descendants(g, e),
           Has(g, e) => TidyAt(g, valid, e)
    PROVE  LET k == Attach(g, valid, e, p, TRUE)
           IN  Sound(k, valid, c) /\ (Tidy(g, valid) => Tidy(k, valid))
  <1> DEFINE D == Descendants(g, e)
             k == Attach(g, valid, e, p, TRUE)
  <1>1. PICK rank : Linked(g, valid, rank)
    BY DEF Sound
  <1>2. /\ g \in Graphs /\ valid \subseteq Entities /\ c \in Nat
        /\ \A x \in valid : x \in Nat /\ x <= c
        /\ \A x \in Ref : /\ ParentOf(g, x) \in Ref /\ ParentOf(g, x) <= c
                          /\ PrevOf(g, x) \in Ref /\ PrevOf(g, x) <= c
    BY SoundFacts
  <1>3. Below(g, D, e)
    BY <1>2, DescendantsBelow
  <1>4. /\ e \in Entities /\ e \in Ref /\ p \in Entities
        /\ \A x \in Entities : x \in Ref
        /\ null = 0 /\ 0 <= c
        /\ ~Has(g, e) => ParentOf(g, e) = null /\ FirstOf(g, e) = null
    <2>1. null = 0
      BY DEF null
    <2> QED
      BY <1>1, <1>2, <2>1, LinkedFacts
  <1> HIDE DEF D
  <1>5. CASE Has(g, e)
    <2> DEFINE d == Detached(g, valid, e)
    <2>1. /\ Linked(d, valid, rank)
          /\ Tidy(g, valid) => Tidy(d, valid)
      BY <1>1, <1>2, <1>5, DetachKeeps
    <2>2. /\ \A x \in Ref : Has(d, x) <=> Has(g, x)
          /\ ParentOf(d, e) = null /\ PrevOf(d, e) = null
          /\ \A x \in Ref \ {e} : /\ ParentOf(d, x) = ParentOf(g, x)
                                  /\ PrevOf(d, x) \in {PrevOf(g, x), PrevOf(g, e), null}
      BY <1>1, <1>4, <1>5, DetachedLinks
    <2>3. k = Attached(d, e, p)
      BY <1>1, <1>4, <1>5, MoveIsAttach DEF Attach
    <2> HIDE DEF d
    <2>4. Below(d, D, e)
      BY <1>3, <1>4, <2>2 DEF Below
    <2>5. /\ \E r : Linked(k, valid, r)
          /\ Tidy(d, valid) => Tidy(k, valid)
          /\ \A x \in Ref : /\ ParentOf(k, x) = IF x = e THEN p ELSE ParentOf(d, x)
                            /\ PrevOf(k, x) \in {PrevOf(d, x)} \cup valid
      <3>1. p \notin D
        BY DEF D
      <3> HIDE DEF k
      <3> QED
        BY <2>1, <2>2, <2>3, <2>4, <3>1, AttachKeeps
    <2>6. Aged(k, c)
      <3>1. ASSUME NEW x \in Entities PROVE ParentOf(k, x) <= c /\ PrevOf(k, x) <= c
        <4>1. x \in Ref
          BY <1>4
        <4>2. PrevOf(d, x) <= c
          BY <1>2, <1>4, <2>2, <4>1
        <4>3. ParentOf(k, x) <= c
          BY <1>2, <1>4, <2>2, <2>5, <4>1
        <4>4. PrevOf(k, x) = PrevOf(d, x) \/ PrevOf(k, x) \in valid
          BY <2>5, <4>1
        <4> QED
          BY <1>2, <4>2, <4>3, <4>4
      <3> QED
        BY <3>1 DEF Aged
    <2> QED
      BY <2>1, <2>5, <2>6 DEF Sound
  <1>6. CASE ~Has(g, e)
    <2>1. k = Attached(g, e, p)
      BY <1>4, <1>6 DEF Attach, Emplace, Attached, With
    <2>2. /\ \E r : Linked(k, valid, r)
          /\ Tidy(g, valid) => Tidy(k, valid)
          /\ \A x \in Ref : /\ ParentOf(k, x) = IF x = e THEN p ELSE ParentOf(g, x)
                            /\ PrevOf(k, x) \in {PrevOf(g, x)} \cup valid
      <3>1. p \notin D
        BY DEF D
      <3> HIDE DEF k
      <3> QED
        BY <1>1, <1>3, <1>4, <1>6, <2>1, <3>1, AttachKeeps
    <2>3. Aged(k, c)
      <3>1. ASSUME NEW x \in Entities PROVE ParentOf(k, x) <= c /\ PrevOf(k, x) <= c
        <4>1. x \in Ref
          BY <1>4
        <4>2. PrevOf(k, x) = PrevOf(g, x) \/ PrevOf(k, x) \in valid
          BY <2>2, <4>1
        <4> QED
          BY <1>2, <2>2, <4>1, <4>2
      <3> QED
        BY <3>1 DEF Aged
    <2> QED
      BY <2>2, <2>3 DEF Sound
  <1> QED
    BY <1>5, <1>6

LEMMA OutsideKeeps ==
    ASSUME NEW g, NEW valid, NEW c, Sound(g, valid, c),
           NEW e \in valid, Has(g, e), TidyAt(g, valid, e)
    PROVE  LET k == Detached(g, valid, e)
           IN  Sound(k, valid, c) /\ (Tidy(g, valid) => Tidy(k, valid))
  <1> DEFINE d == Detached(g, valid, e)
  <1>1. PICK rank : Linked(g, valid, rank)
    BY DEF Sound
  <1>2. /\ g \in Graphs /\ valid \subseteq Entities /\ c \in Nat
        /\ \A x \in Ref : /\ ParentOf(g, x) \in Ref /\ ParentOf(g, x) <= c
                          /\ PrevOf(g, x) \in Ref /\ PrevOf(g, x) <= c
    BY SoundFacts
  <1>3. /\ e \in Entities /\ e \in Ref
        /\ \A x \in Entities : x \in Ref
        /\ null = 0 /\ 0 <= c
    <2>1. null = 0
      BY DEF null
    <2> QED
      BY <1>1, <1>2, <2>1, LinkedFacts
  <1>4. /\ Linked(d, valid, rank)
        /\ Tidy(g, valid) => Tidy(d, valid)
    BY <1>1, <1>2, DetachKeeps
  <1>5. /\ ParentOf(d, e) = null /\ PrevOf(d, e) = null
        /\ \A x \in Ref \ {e} : /\ ParentOf(d, x) = ParentOf(g, x)
                                /\ PrevOf(d, x) \in {PrevOf(g, x), PrevOf(g, e), null}
    BY <1>1, <1>3, DetachedLinks
  <1> HIDE DEF d
  <1>6. Aged(d, c)
    <2>1. ASSUME NEW x \in Entities PROVE ParentOf(d, x) <= c /\ PrevOf(d, x) <= c
      <3>1. x \in Ref
        BY <1>3
      <3> QED
        BY <1>2, <1>3, <1>5, <3>1
    <2> QED
      BY <2>1 DEF Aged
  <1> QED
    BY <1>4, <1>6 DEF Sound, d

(* Dropping an entity on the panel's area: its component goes. *)
LEMMA PanelKeeps ==
    ASSUME NEW g, NEW valid, NEW c, Sound(g, valid, c),
           NEW e \in valid, Has(g, e), TidyAt(g, valid, e)
    PROVE  LET k == WithoutComponent(Detached(g, valid, e), e)
           IN  /\ Sound(k, valid, c)
               /\ Tidy(g, valid) /\ FirstOf(g, e) = null => Tidy(k, valid)
  <1> DEFINE d == Detached(g, valid, e)
             k == WithoutComponent(d, e)
  <1>1. Sound(d, valid, c) /\ (Tidy(g, valid) => Tidy(d, valid))
    BY OutsideKeeps
  <1>2. valid \subseteq Entities /\ e \in Entities /\ e \in Ref
    BY SoundFacts DEF Ref
  <1>3. FirstOf(d, e) = FirstOf(g, e) /\ ParentOf(d, e) = null /\ NextOf(d, e) = null /\ Has(d, e)
    <2>1. PICK rank : Linked(g, valid, rank)
      BY DEF Sound
    <2> QED
      BY <1>2, <2>1, DetachedLinks
  <1> HIDE DEF d
  <1>4. PICK rank : Linked(d, valid, rank)
    BY <1>1 DEF Sound
  <1>5. /\ d \in Graphs /\ rank \in [Entities -> Nat] /\ null \in Ref /\ null \notin valid
        /\ \A x \in Entities : x \in Ref
        /\ \A x \in Ref : /\ NextOf(d, x) \in Ref /\ FirstOf(d, x) \in Ref
                          /\ PrevOf(d, x) \in Ref /\ ParentOf(d, x) \in Ref
                          /\ Has(d, x) => x \in valid /\ LinkedAt(d, valid, rank, x)
    BY <1>4, LinkedFacts
  <1>6. /\ k \in Graphs
        /\ \A x \in Ref : /\ Has(k, x) <=> Has(d, x) /\ x # e
                          /\ ParentOf(k, x) = IF x = e THEN null ELSE ParentOf(d, x)
                          /\ FirstOf(k, x) = IF x = e THEN null ELSE FirstOf(d, x)
                          /\ NextOf(k, x) = IF x = e THEN null ELSE NextOf(d, x)
                          /\ PrevOf(k, x) = IF x = e THEN null ELSE PrevOf(d, x)
    BY <1>2, <1>5, WithoutLinks
  <1> HIDE DEF k
  <1>7. PrevOf(d, e) = null
    BY <1>2, <1>3, <1>5 DEF LinkedAt
  <1>8. ASSUME NEW x \in Ref, Has(d, x)
        PROVE  NextOf(d, x) # e /\ FirstOf(d, x) # e
    BY <1>2, <1>3, <1>5, <1>7, <1>8 DEF LinkedAt
  <1>9. ASSUME NEW x \in Ref, Has(d, x) PROVE PrevOf(d, x) # e
    <2>1. LinkedAt(d, valid, rank, x) /\ x # null
      BY <1>5, <1>9
    <2> QED
      BY <1>3, <1>5, <2>1 DEF LinkedAt
  <1>10. ASSUME NEW x \in Entities, Has(k, x) PROVE LinkedAt(k, valid, rank, x)
    <2>1. x \in Ref /\ Has(d, x) /\ x # e
      BY <1>5, <1>6, <1>10
    <2>2. /\ ParentOf(k, x) = ParentOf(d, x) /\ FirstOf(k, x) = FirstOf(d, x)
          /\ NextOf(k, x) = NextOf(d, x) /\ PrevOf(k, x) = PrevOf(d, x)
      BY <1>6, <2>1
    <2>3. /\ LinkedAt(d, valid, rank, x) /\ x \in valid
          /\ NextOf(d, x) \in Ref /\ FirstOf(d, x) \in Ref /\ PrevOf(d, x) \in Ref
          /\ NextOf(d, x) # e /\ FirstOf(d, x) # e /\ PrevOf(d, x) # e
      BY <1>5, <1>8, <1>9, <2>1
    <2>4. ASSUME NEW y \in Ref, y # e
          PROVE  /\ Has(k, y) <=> Has(d, y)
                 /\ ParentOf(k, y) = ParentOf(d, y) /\ NextOf(k, y) = NextOf(d, y)
                 /\ PrevOf(k, y) = PrevOf(d, y)
      BY <1>6, <2>4
    <2> QED
      BY <2>2, <2>3, <2>4 DEF LinkedAt
  <1>11. Linked(k, valid, rank)
    BY <1>2, <1>5, <1>6, <1>10, SoundFacts DEF Linked
  <1>12. Aged(k, c)
    <2>1. null = 0 /\ c \in Nat
      BY SoundFacts DEF null
    <2>2. \A x \in Ref : ParentOf(d, x) <= c /\ PrevOf(d, x) <= c
      BY <1>1, SoundFacts
    <2>3. ASSUME NEW x \in Entities PROVE ParentOf(k, x) <= c /\ PrevOf(k, x) <= c
      <3>1. x \in Ref
        BY <1>5
      <3>2. ParentOf(d, x) <= c /\ PrevOf(d, x) <= c
        BY <2>2, <3>1
      <3>3. CASE x = e
        BY <1>6, <2>1, <3>1, <3>3
      <3>4. CASE x # e
        BY <1>6, <3>1, <3>2, <3>4
      <3> QED
        BY <3>3, <3>4
    <2> QED
      BY <2>3 DEF Aged
  <1>13. ASSUME Tidy(g, valid), FirstOf(g, e) = null PROVE Tidy(k, valid)
    <2>1. Tidy(d, valid)
      BY <1>1, <1>13
    <2>2. \A x \in valid : Has(d, x) => ParentOf(d, x) # e
      <3>1. valid \subseteq Entities
        BY SoundFacts
      <3> QED
        BY <1>2, <1>3, <1>4, <1>13, <2>1, <3>1, Childless
    <2>3. ASSUME NEW x \in valid, Has(k, x) PROVE TidyAt(k, valid, x)
      <3>1. x \in Ref /\ Has(d, x) /\ x # e
        BY <1>2, <1>5, <1>6, <2>3, SoundFacts
      <3>2. /\ ParentOf(k, x) = ParentOf(d, x) /\ PrevOf(k, x) = PrevOf(d, x)
            /\ ParentOf(d, x) # e /\ PrevOf(d, x) # e
            /\ ParentOf(d, x) \in Ref /\ PrevOf(d, x) \in Ref
            /\ TidyAt(d, valid, x)
        BY <1>5, <1>6, <1>9, <2>1, <2>2, <3>1 DEF Tidy
      <3>3. ASSUME NEW y \in Ref, y # e
            PROVE  (Has(k, y) <=> Has(d, y)) /\ FirstOf(k, y) = FirstOf(d, y)
        BY <1>6, <3>3
      <3> QED
        BY <3>2, <3>3 DEF TidyAt
    <2> QED
      BY <2>3 DEF Tidy
  <1> QED
    BY <1>1, <1>11, <1>12, <1>13 DEF Sound, k, d

-----------------------------------------------------------------------------
(* Destroying the entities of a list *)
Scenes == [alive : SUBSET Entities, h : Graphs]

LEMMA DestroyOneType ==
    ASSUME NEW s \in Scenes, NEW e \in Entities
    PROVE  DestroyOne(s, e) \in Scenes
  <1> DEFINE g == s.h
  <1>1. g \in Graphs /\ s.alive \in SUBSET Entities /\ e \in Ref /\ null \in Ref
    BY DEF Scenes, Ref
  <1>2. ASSUME Has(g, e) PROVE OnDestroy(g, s.alive, e) \in Graphs
    <2>1. g[e].parent \in Ref /\ g[e].next \in Ref /\ g[e].prev \in Ref
      BY <1>1, <1>2, Access
    <2> DEFINE p == g[e].parent
               n == g[e].next
               b == g[e].prev
               k1 == SetFirst(g, p, n)
               k2 == SetNext(g, b, n)
    <2>2. k1 \in Graphs /\ k2 \in Graphs
      <3> HIDE DEF p, n, b, g
      <3> QED
        BY <1>1, <2>1, SetFirstLinks, SetNextLinks DEF p, n, b
    <2>3. SetPrev(k1, n, null) \in Graphs /\ SetPrev(k2, n, b) \in Graphs
      <3> HIDE DEF k1, k2, p, n, b, g
      <3> QED
        BY <1>1, <2>1, <2>2, SetPrevLinks DEF n, b
    <2> QED
      BY <1>1, <2>3 DEF OnDestroy
  <1> DEFINE k == IF Has(g, e) THEN OnDestroy(g, s.alive, e) ELSE g
  <1>3. k \in Graphs
    BY <1>1, <1>2
  <1> HIDE DEF k
  <1>4. WithoutComponent(k, e) \in Graphs
    BY <1>3, WithoutLinks
  <1>5. DestroyOne(s, e) = [alive |-> s.alive \ {e}, h |-> WithoutComponent(k, e)]
    BY DEF DestroyOne, WithoutComponent, k
  <1>6. s.alive \ {e} \in SUBSET Entities
    BY <1>1
  <1> HIDE DEF g
  <1> QED
    BY <1>4, <1>5, <1>6 DEF Scenes

LEMMA DestroyAllSteps ==
    ASSUME NEW s \in Scenes, NEW list \in Seq(Entities)
    PROVE  \E f : /\ Recurs(f, Len(list), Scenes, s,
                            [n \in 1 .. Len(list) |-> [v \in Scenes |-> DestroyOne(v, list[n])]])
                  /\ DestroyAll(s, list) = f[Len(list)]
  <1> DEFINE N == Len(list)
             F == [n \in 1 .. N |-> [v \in Scenes |-> DestroyOne(v, list[n])]]
             Eq(f) == [n \in 0 .. N |-> IF n = 0 THEN s ELSE DestroyOne(f[n - 1], list[n])]
             c == CHOOSE f : f = Eq(f)
  <1>1. N \in Nat /\ \A n \in 1 .. N : list[n] \in Entities
    OBVIOUS
  <1>2. F \in [1 .. N -> [Scenes -> Scenes]]
    <2>1. ASSUME NEW n \in 1 .. N, NEW v \in Scenes PROVE DestroyOne(v, list[n]) \in Scenes
      BY <1>1, DestroyOneType
    <2> HIDE DEF N
    <2> QED
      BY <2>1
  <1>3. \A n \in 1 .. N, v \in Scenes : F[n][v] = DestroyOne(v, list[n])
    OBVIOUS
  <1>4. DestroyAll(s, list) = c[N]
    BY DEF DestroyAll
  <1> HIDE DEF F, N
  <1>5. PICK f : Recurs(f, N, Scenes, s, F)
    BY ONLY <1>1, <1>2, s \in Scenes, Recursion
  <1>6. f \in [0 .. N -> Scenes] /\ f[0] = s /\ \A n \in 1 .. N : f[n] = F[n][f[n - 1]]
    BY <1>5 DEF Recurs
  <1>7. ASSUME NEW n \in 1 .. N
        PROVE  n - 1 \in 0 .. N /\ f[n] = DestroyOne(f[n - 1], list[n])
    <2>1. n - 1 \in 0 .. N
      BY <1>1
    <2>2. f[n - 1] \in Scenes
      BY <1>6, <2>1
    <2> QED
      BY <1>3, <1>6, <2>1, <2>2
  <1>8. f = Eq(f)
    <2>1. ASSUME NEW n \in 0 .. N
          PROVE  f[n] = IF n = 0 THEN s ELSE DestroyOne(f[n - 1], list[n])
      <3>1. CASE n = 0
        BY <1>6, <3>1
      <3>2. CASE n # 0
        <4>1. n \in 1 .. N
          BY <1>1, <3>2
        <4> QED
          BY <1>7, <3>2, <4>1
      <3> QED
        BY <3>1, <3>2
    <2> QED
      BY <1>6, <2>1
  <1>9. c = Eq(c)
    BY <1>8
  <1> HIDE DEF c
  <1>10. c[0] = s
    <2>1. 0 \in 0 .. N
      BY <1>1
    <2>2. Eq(c)[0] = s
      BY <2>1
    <2> HIDE DEF Eq
    <2> QED
      BY <1>9, <2>2
  <1>11. ASSUME NEW n \in 1 .. N PROVE c[n] = DestroyOne(c[n - 1], list[n])
    <2>1. n \in 0 .. N /\ n # 0
      BY <1>1
    <2>2. Eq(c)[n] = DestroyOne(c[n - 1], list[n])
      BY <2>1
    <2> HIDE DEF Eq
    <2> QED
      BY <1>9, <2>2
  <1> DEFINE G == {n \in 0 .. N : c[n] = f[n]}
  <1>12. 0 \in G
    <2>1. 0 \in 0 .. N
      BY <1>1
    <2>2. c[0] = f[0]
      BY ONLY <1>6, <1>10
    <2> QED
      BY <2>1, <2>2
  <1>13. \A n \in 1 .. N : n - 1 \in G => n \in G
    BY <1>1, <1>7, <1>11
  <1> HIDE DEF G
  <1>14. \A n \in 0 .. N : n \in G
    BY ONLY <1>1, <1>12, <1>13, Upto
  <1>15. c[N] = f[N]
    BY <1>1, <1>14 DEF G
  <1> QED
    BY <1>4, <1>5, <1>15 DEF F, N

LEMMA DestroyKeeps ==
    ASSUME NEW g, NEW valid, NEW c, Sound(g, valid, c), NEW e \in Entities
    PROVE  LET k == DestroyOne([alive |-> valid, h |-> g], e)
           IN  /\ k.alive = valid \ {e}
               /\ Sound(k.h, valid \ {e}, c)
               /\ Tidy(g, valid) /\ FirstOf(g, e) = null => Tidy(k.h, valid \ {e})
  <1> DEFINE k == DestroyOne([alive |-> valid, h |-> g], e)
  <1>1. PICK rank : Linked(g, valid, rank)
    BY DEF Sound
  <1>2. k.alive = valid \ {e} /\ Linked(k.h, valid \ {e}, rank)
    BY <1>1, DestroyKeepsLinked
  <1>3. /\ g \in Graphs /\ valid \subseteq Entities /\ c \in Nat
        /\ \A x \in Ref : /\ ParentOf(g, x) \in Ref /\ ParentOf(g, x) <= c
                          /\ PrevOf(g, x) \in Ref /\ PrevOf(g, x) <= c
                          /\ Has(g, x) => x \in valid
    BY SoundFacts
  <1>4. /\ \A x \in Entities : x \in Ref
        /\ null = 0 /\ 0 <= c
    BY <1>3 DEF null, Ref
  <1>5. CASE Has(g, e)
    <2>1. \A x \in Ref : /\ Has(k.h, x) <=> Has(g, x) /\ x # e
                         /\ x # e => /\ ParentOf(k.h, x) = ParentOf(g, x)
                                     /\ PrevOf(k.h, x) \in {PrevOf(g, x), PrevOf(g, e), null}
      BY <1>1, <1>5, GoneLinks
    <2>2. k.h \in Graphs
      BY <1>2, LinkedFacts
    <2> HIDE DEF k
    <2>3. ASSUME NEW x \in Entities PROVE ParentOf(k.h, x) <= c /\ PrevOf(k.h, x) <= c
      <3>1. x \in Ref /\ e \in Ref
        BY <1>4
      <3>2. CASE x = e
        <4>1. ParentOf(k.h, x) = null /\ PrevOf(k.h, x) = null
          BY <2>1, <2>2, <3>1, <3>2, Access
        <4> QED
          BY <1>4, <4>1
      <3>3. CASE x # e
        BY <1>3, <1>4, <2>1, <3>1, <3>3
      <3> QED
        BY <3>2, <3>3
    <2>4. Aged(k.h, c)
      BY <2>3 DEF Aged
    <2>5. Sound(k.h, valid \ {e}, c)
      BY <1>2, <2>4 DEF Sound
    <2>6. ASSUME Tidy(g, valid), FirstOf(g, e) = null PROVE Tidy(k.h, valid \ {e})
      <3>1. e \in valid
        BY <1>3, <1>4, <1>5
      <3>2. Tidy(k.h, valid)
        BY <1>1, <1>3, <2>6, <3>1, DestroyKeepsTidy DEF k
      <3>3. ~Has(k.h, e)
        BY <1>4, <2>1
      <3> QED
        BY <3>2, <3>3 DEF Tidy, TidyAt
    <2> QED
      BY <1>2, <2>5, <2>6 DEF k
  <1>6. CASE ~Has(g, e)
    <2>1. k.h = g
      BY <1>3, <1>6, NotThere
    <2>2. Sound(g, valid \ {e}, c)
      BY <1>2, <2>1 DEF Sound
    <2>3. Tidy(g, valid) => Tidy(g, valid \ {e})
      BY <1>6 DEF Tidy, TidyAt
    <2> QED
      BY <1>2, <2>1, <2>2, <2>3
  <1> QED
    BY <1>5, <1>6

(* The children of x are in S. *)
Chain(g, x, S) ==
    FirstOf(g, x) \in S \cup {null} /\ \A z \in S : NextOf(g, z) \in S \cup {null}

LEMMA ChainKept ==
    ASSUME NEW g, NEW valid, NEW c, Sound(g, valid, c), Tidy(g, valid),
           NEW e \in Entities, NEW x \in Entities, NEW S \in SUBSET Entities,
           Chain(g, x, S)
    PROVE  Chain(DestroyOne([alive |-> valid, h |-> g], e).h, x, S)
  <1> DEFINE k == DestroyOne([alive |-> valid, h |-> g], e).h
  <1>1. PICK rank : Linked(g, valid, rank)
    BY DEF Sound
  <1>2. /\ g \in Graphs /\ valid \subseteq Entities /\ null \notin valid /\ ~Has(g, null)
        /\ \A y \in Entities : y \in Ref /\ y # null
        /\ \A y \in Ref : /\ PrevOf(g, y) \in Ref /\ NextOf(g, y) \in Ref
                          /\ Has(g, y) => y \in valid /\ LinkedAt(g, valid, rank, y)
    BY <1>1, LinkedFacts
  <1>3. CASE ~Has(g, e)
    BY <1>2, <1>3, NotThere
  <1>4. CASE Has(g, e)
    <2> DEFINE p == ParentOf(g, e)
               b == PrevOf(g, e)
               n == NextOf(g, e)
    <2>1. /\ k \in Graphs
          /\ \A y \in Ref :
               /\ Has(k, y) <=> Has(g, y) /\ y # e
               /\ y # e =>
                    /\ FirstOf(k, y) = FirstOf(g, y) \/ (y = p /\ b \notin valid /\ FirstOf(k, y) = n)
                    /\ NextOf(k, y) = NextOf(g, y) \/ (y = b /\ b \in valid /\ NextOf(k, y) = n)
      BY <1>1, <1>4, GoneLinks
    <2>2. FirstOf(k, e) = null /\ NextOf(k, e) = null
      BY <1>2, <2>1, Access
    <2>3. e \in S => n \in S \cup {null}
      BY DEF Chain
    <2> HIDE DEF k
    <2>4. LinkedAt(g, valid, rank, e) /\ TidyAt(g, valid, e)
      BY <1>2, <1>4 DEF Tidy
    <2>5. FirstOf(k, x) \in S \cup {null}
      <3>1. CASE x = e
        BY <2>2, <3>1
      <3>2. CASE x # e /\ FirstOf(k, x) = FirstOf(g, x)
        BY <3>2 DEF Chain
      <3>3. CASE x = p /\ b \notin valid /\ FirstOf(k, x) = n
        <4>1. FirstOf(g, x) = e
          BY <1>2, <2>4, <3>3 DEF TidyAt
        <4>2. e \in S
          BY <1>2, <4>1 DEF Chain
        <4> QED
          BY <2>3, <3>3, <4>2
      <3> QED
        BY <1>2, <2>1, <3>1, <3>2, <3>3
    <2>6. ASSUME NEW z \in S PROVE NextOf(k, z) \in S \cup {null}
      <3>1. CASE z = e
        BY <2>2, <3>1
      <3>2. CASE z # e /\ NextOf(k, z) = NextOf(g, z)
        BY <3>2 DEF Chain
      <3>3. CASE z = b /\ b \in valid /\ NextOf(k, z) = n
        <4>1. NextOf(g, z) = e
          BY <2>4, <3>3 DEF LinkedAt
        <4>2. e \in S
          BY <1>2, <4>1 DEF Chain
        <4> QED
          BY <2>3, <3>3, <4>2
      <3>4. z \in Ref
        BY <1>2
      <3> QED
        BY <2>1, <3>1, <3>2, <3>3, <3>4
    <2> QED
      BY <2>5, <2>6 DEF Chain, k
  <1> QED
    BY <1>3, <1>4

LEMMA DestroyAllKeeps ==
    ASSUME NEW g, NEW valid, NEW c, Sound(g, valid, c), NEW list \in Seq(Entities)
    PROVE  LET k == DestroyAll([alive |-> valid, h |-> g], list)
           IN  /\ Sound(k.h, k.alive, c)
               /\ k.alive \subseteq valid
               /\ \A i \in DOMAIN list : list[i] \notin k.alive
               /\ Tidy(g, valid) /\ LeftFirst(list, Firsts(g), Nexts(g)) => Tidy(k.h, k.alive)
  <1> DEFINE N == Len(list)
             s == [alive |-> valid, h |-> g]
             F == [n \in 1 .. N |-> [v \in Scenes |-> DestroyOne(v, list[n])]]
             k == DestroyAll(s, list)
  <1>1. /\ N \in Nat /\ \A n \in 1 .. N : list[n] \in Entities
        /\ DOMAIN list = 1 .. N
    OBVIOUS
  <1>2. /\ g \in Graphs /\ valid \subseteq Entities
        /\ \A x \in Ref : Has(g, x) => x \in valid
    BY SoundFacts
  <1>3. s \in Scenes
    BY <1>2 DEF Scenes
  <1>4. PICK f : Recurs(f, N, Scenes, s, F) /\ k = f[N]
    BY <1>3, DestroyAllSteps
  <1>5. /\ \A n \in 0 .. N : f[n] \in Scenes
        /\ f[0] = s
        /\ \A n \in 1 .. N : f[n] = F[n][f[n - 1]]
    BY <1>4 DEF Recurs
  <1>6. ASSUME NEW n \in 1 .. N
        PROVE  /\ n - 1 \in 0 .. N /\ n \in 0 .. N /\ list[n] \in Entities
               /\ f[n - 1] \in Scenes
               /\ f[n] = DestroyOne(f[n - 1], list[n])
    <2>1. n - 1 \in 0 .. N /\ n \in 0 .. N
      BY <1>1
    <2>2. f[n - 1] \in Scenes
      BY <1>5, <2>1
    <2> QED
      BY <1>1, <1>5, <2>1, <2>2
  <1> HIDE DEF F, k, N
  <1> DEFINE tidy == Tidy(g, valid) /\ LeftFirst(list, Firsts(g), Nexts(g))
             P(n) == /\ Sound(f[n].h, f[n].alive, c)
                     /\ f[n].alive \subseteq valid
                     /\ \A i \in 1 .. n : list[i] \notin f[n].alive
                     /\ tidy => /\ Tidy(f[n].h, f[n].alive)
                                /\ \A x \in Entities, S \in SUBSET Entities :
                                     Chain(g, x, S) => Chain(f[n].h, x, S)
  <1>7. P(0)
    BY <1>5
  <1>8. ASSUME NEW n \in 1 .. N, P(n - 1) PROVE P(n)
    <2> DEFINE m == f[n - 1].h
               v == f[n - 1].alive
               e == list[n]
    <2>1. f[n - 1] = [alive |-> v, h |-> m]
      BY <1>6 DEF Scenes
    <2>2. e \in Entities /\ Sound(m, v, c)
      BY <1>6, <1>8
    <2>3. f[n] = DestroyOne([alive |-> v, h |-> m], e)
      BY ONLY <1>6, <2>1
    <2>4. /\ v \subseteq valid /\ \A i \in 1 .. n - 1 : list[i] \notin v
          /\ tidy => /\ Tidy(m, v)
                     /\ \A x \in Entities, S \in SUBSET Entities :
                          Chain(g, x, S) => Chain(m, x, S)
      BY <1>8
    <2> HIDE DEF P, m, v, e, tidy
    <2>5. /\ f[n].alive = v \ {e}
          /\ Sound(f[n].h, v \ {e}, c)
          /\ Tidy(m, v) /\ FirstOf(m, e) = null => Tidy(f[n].h, v \ {e})
      <3> DEFINE k1 == DestroyOne([alive |-> v, h |-> m], e)
      <3>1. /\ k1.alive = v \ {e}
            /\ Sound(k1.h, v \ {e}, c)
            /\ Tidy(m, v) /\ FirstOf(m, e) = null => Tidy(k1.h, v \ {e})
        BY ONLY <2>2, DestroyKeeps
      <3>2. f[n] = k1
        BY ONLY <2>3
      <3> HIDE DEF k1
      <3> QED
        BY ONLY <3>1, <3>2
    <2>6. \A i \in 1 .. n : list[i] \notin f[n].alive
      <3>1. \A i \in 1 .. n : i \in 1 .. n - 1 \/ i = n
        BY <1>1
      <3> QED
        BY <2>4, <2>5, <3>1 DEF e
    <2>7. ASSUME tidy, NEW x \in Entities, NEW S \in SUBSET Entities, Chain(g, x, S)
          PROVE  Chain(f[n].h, x, S)
      <3>1. Tidy(m, v) /\ Chain(m, x, S)
        BY <2>4, <2>7
      <3> QED
        BY <2>2, <2>3, <3>1, ChainKept
    <2>8. ASSUME tidy PROVE FirstOf(m, e) = null
      <3>1. LeftFirst(list, Firsts(g), Nexts(g)) /\ n \in 1 .. Len(list)
        BY <2>8 DEF tidy, N
      <3>2. PICK S \in SUBSET Entities :
              /\ \A z \in S : \E j \in 1 .. n - 1 : list[j] = z
              /\ Firsts(g)[e] \in S \cup {null}
              /\ \A z \in S : Nexts(g)[z] \in S \cup {null}
        BY <3>1 DEF LeftFirst, e
      <3>3. /\ Firsts(g)[e] = FirstOf(g, e)
            /\ \A z \in S : Nexts(g)[z] = NextOf(g, z)
        BY <2>2 DEF Firsts, Nexts, Ref
      <3>4. Chain(g, e, S)
        BY <3>2, <3>3 DEF Chain
      <3>5. Chain(m, e, S)
        BY <2>2, <2>4, <2>8, <3>4
      <3>6. ASSUME FirstOf(m, e) # null PROVE FALSE
        <4>1. FirstOf(m, e) \in S
          BY <3>5, <3>6 DEF Chain
        <4>2. FirstOf(m, e) \notin v
          BY <2>4, <3>2, <4>1
        <4>3. PICK rank : Linked(m, v, rank)
          BY <2>2 DEF Sound
        <4>4. e \in Ref
          BY <2>2 DEF Ref
        <4>5. Has(m, e)
          BY <3>6, <4>3, <4>4, LinkedFacts
        <4>6. LinkedAt(m, v, rank, e)
          BY <2>2, <4>3, <4>5 DEF Linked
        <4>7. Has(m, FirstOf(m, e)) /\ FirstOf(m, e) \in Ref
          BY <3>6, <4>3, <4>4, <4>6, LinkedFacts DEF LinkedAt
        <4> QED
          BY <4>2, <4>3, <4>7, LinkedFacts
      <3> QED
        BY <3>6
    <2>9. f[n].alive \subseteq valid /\ Sound(f[n].h, f[n].alive, c)
      BY <2>4, <2>5
    <2>10. tidy => Tidy(f[n].h, f[n].alive)
      BY <2>4, <2>5, <2>8
    <2> QED
      BY <2>6, <2>7, <2>9, <2>10 DEF P
  <1> DEFINE G == {n \in 0 .. N : P(n)}
  <1>9. 0 \in G
    <2>1. 0 \in 0 .. N
      BY <1>1
    <2> QED
      BY <1>7, <2>1
  <1>10. \A n \in 1 .. N : n - 1 \in G => n \in G
    <2> HIDE DEF P
    <2> QED
      BY <1>6, <1>8
  <1> HIDE DEF G
  <1>11. \A n \in 0 .. N : n \in G
    BY ONLY <1>1, <1>9, <1>10, Upto
  <1>12. N \in G
    BY <1>1, <1>11
  <1>13. P(N)
    BY <1>12 DEF G
  <1> QED
    BY <1>1, <1>4, <1>13 DEF k

LEMMA DeleteKeeps ==
    ASSUME NEW g, NEW valid, NEW c, Sound(g, valid, c), NEW e \in Entities
    PROVE  LET k == DestroyAll([alive |-> valid, h |-> g], PostOrder(g, e))
           IN  /\ Sound(k.h, k.alive, c)
               /\ k.alive \subseteq valid
               /\ Tidy(g, valid) => Tidy(k.h, k.alive)
  <1>1. PICK rank : Linked(g, valid, rank)
    BY DEF Sound
  <1>2. PostOrder(g, e) \in Seq(Entities) /\ LeftFirst(PostOrder(g, e), Firsts(g), Nexts(g))
    BY <1>1, SubtreeFacts
  <1> QED
    BY <1>2, DestroyAllKeeps

-----------------------------------------------------------------------------
(* Copying an entity and what is below it *)
UnderneathAt(g, U, e, x) ==
    /\ Has(g, x) /\ x # e
    /\ ParentOf(g, x) \in U \cup {e} /\ Has(g, ParentOf(g, x))
    /\ PrevOf(g, x) \in U \cup {null}
    /\ PrevOf(g, x) = null => FirstOf(g, ParentOf(g, x)) = x

LEMMA UnderneathFacts ==
    ASSUME NEW g, NEW valid, NEW rank, Linked(g, valid, rank), NEW e \in Entities
    PROVE  \A x \in Underneath(g, e) : UnderneathAt(g, Underneath(g, e), e, x)
  <1> DEFINE U == Underneath(g, e)
             Q == {x \in U : UnderneathAt(g, U, e, x) /\ rank[e] < rank[x]}
  <1>1. /\ U \subseteq Entities
        /\ FirstOf(g, e) \in U \cup {null}
        /\ \A z \in U : FirstOf(g, z) \in U \cup {null} /\ NextOf(g, z) \in U \cup {null}
        /\ \A S \in SUBSET Entities :
             /\ FirstOf(g, e) \in S \cup {null}
             /\ \A z \in S : FirstOf(g, z) \in S \cup {null} /\ NextOf(g, z) \in S \cup {null}
             => U \subseteq S
    BY SubtreeFacts
  <1>2. /\ rank \in [Entities -> Nat]
        /\ \A x \in Entities : x \in Ref /\ x # null /\ rank[x] \in Nat
        /\ \A x \in Ref : /\ Has(g, x) => x \in Entities /\ LinkedAt(g, valid, rank, x)
                          /\ ~Has(g, x) => FirstOf(g, x) = null /\ NextOf(g, x) = null
    BY LinkedFacts
  <1> HIDE DEF U
  <1>3. ASSUME NEW x \in U \cup {e}, x = e \/ x \in Q, FirstOf(g, x) # null
        PROVE  FirstOf(g, x) \in Q
    <2> DEFINE f == FirstOf(g, x)
    <2>1. x \in Ref /\ x \in Entities /\ f \in U /\ f \in Entities
      BY <1>1, <1>2, <1>3
    <2>2. Has(g, x) /\ LinkedAt(g, valid, rank, x)
      BY <1>2, <1>3, <2>1
    <2>3. Has(g, f) /\ PrevOf(g, f) = null /\ ParentOf(g, f) = x
      BY <1>3, <2>2 DEF LinkedAt
    <2>4. LinkedAt(g, valid, rank, f)
      BY <1>2, <2>1, <2>3
    <2>5. rank[x] < rank[f]
      BY <1>2, <2>1, <2>3, <2>4 DEF LinkedAt
    <2>6. rank[e] < rank[f] /\ f # e
      <3>1. x = e \/ rank[e] < rank[x]
        BY <1>3
      <3>2. rank[e] \in Nat /\ rank[x] \in Nat /\ rank[f] \in Nat
        BY <1>2, <2>1
      <3> HIDE DEF f
      <3> QED
        BY <2>5, <3>1, <3>2
    <2> HIDE DEF f
    <2>7. UnderneathAt(g, U, e, f)
      BY <2>2, <2>3, <2>6 DEF UnderneathAt, f
    <2> QED
      BY <2>1, <2>6, <2>7 DEF f
  <1>4. ASSUME NEW x \in Q, NextOf(g, x) # null PROVE NextOf(g, x) \in Q
    <2> DEFINE n == NextOf(g, x)
    <2>1. x \in Ref /\ x \in Entities /\ n \in U /\ n \in Entities
      BY <1>1, <1>2, <1>4
    <2>2. Has(g, x) /\ LinkedAt(g, valid, rank, x) /\ UnderneathAt(g, U, e, x) /\ rank[e] < rank[x]
      BY <1>2, <1>4, <2>1
    <2>3. /\ Has(g, n) /\ PrevOf(g, n) = x /\ ParentOf(g, n) = ParentOf(g, x)
          /\ rank[x] < rank[n]
      BY <1>4, <2>2 DEF LinkedAt
    <2>4. rank[e] < rank[n] /\ n # e
      <3>1. rank[e] \in Nat /\ rank[x] \in Nat /\ rank[n] \in Nat
        BY <1>2, <2>1
      <3> HIDE DEF n
      <3> QED
        BY <2>2, <2>3, <3>1
    <2> HIDE DEF n
    <2>5. x # null /\ x \in U
      BY <1>2, <1>4, <2>1
    <2>6. UnderneathAt(g, U, e, n)
      BY <2>2, <2>3, <2>4, <2>5 DEF UnderneathAt
    <2> QED
      BY <2>1, <2>4, <2>6 DEF n
  <1>5. \A z \in Q : FirstOf(g, z) \in Q \cup {null} /\ NextOf(g, z) \in Q \cup {null}
    BY <1>3, <1>4
  <1>6. FirstOf(g, e) \in Q \cup {null}
    BY <1>3
  <1>7. Q \in SUBSET Entities
    BY <1>1
  <1>8. \A x \in Q : UnderneathAt(g, U, e, x)
    OBVIOUS
  <1> HIDE DEF Q
  <1>9. U \subseteq Q
    BY ONLY <1>1, <1>5, <1>6, <1>7
  <1> QED
    BY <1>8, <1>9 DEF U

Copying(copy, L, c, d) ==
    /\ DOMAIN copy = L
    /\ \A x \in L : copy[x] \in c + 1 .. d
    /\ \A x, y \in L : copy[x] = copy[y] => x = y

CopyRef(copy, x) == IF x = null THEN null ELSE copy[x]

LEMMA CopiedLinks ==
    ASSUME NEW g, NEW valid, NEW c, Sound(g, valid, c), NEW e \in Entities,
           NEW d \in 0 .. MaxEntities, NEW copy, Copying(copy, Subtree(g, e), c, d)
    PROVE  LET k == Copies(g, e, copy)
               L == Subtree(g, e)
           IN  /\ k \in Graphs
               /\ \A y \in Ref \ Range(copy) :
                    /\ Has(k, y) <=> Has(g, y)
                    /\ ParentOf(k, y) = ParentOf(g, y) /\ FirstOf(k, y) = FirstOf(g, y)
                    /\ NextOf(k, y) = NextOf(g, y) /\ PrevOf(k, y) = PrevOf(g, y)
               /\ \A x \in L :
                    /\ Has(k, copy[x]) <=> Has(g, x)
                    /\ FirstOf(k, copy[x]) = CopyRef(copy, FirstOf(g, x))
                    /\ x = e => /\ ParentOf(k, copy[x]) = null
                                /\ NextOf(k, copy[x]) = null /\ PrevOf(k, copy[x]) = null
                    /\ x # e => /\ ParentOf(k, copy[x]) = CopyRef(copy, ParentOf(g, x))
                                /\ NextOf(k, copy[x]) = CopyRef(copy, NextOf(g, x))
                                /\ PrevOf(k, copy[x]) = CopyRef(copy, PrevOf(g, x))
  <1> DEFINE k == Copies(g, e, copy)
             L == Subtree(g, e)
             U == Underneath(g, e)
             To(x) == CopyRef(copy, x)
             CopyOf(x) ==
               IF ~Has(g, x) THEN NoHierarchy
               ELSE IF x = e THEN Component(null, To(g[x].first), null, null)
               ELSE Component(To(g[x].parent), To(g[x].first), To(g[x].next), To(g[x].prev))
  <1>1. PICK rank : Linked(g, valid, rank)
    BY DEF Sound
  <1>2. /\ g \in Graphs /\ null \in Ref /\ null \notin Entities
        /\ \A x \in Entities : x \in Ref
        /\ \A x \in Ref : x # null => x \in Entities
    BY <1>1, LinkedFacts
  <1>3. L = U \cup {e} /\ U \subseteq Entities
        /\ FirstOf(g, e) \in U \cup {null}
        /\ \A z \in U : FirstOf(g, z) \in U \cup {null} /\ NextOf(g, z) \in U \cup {null}
    BY <1>1, SubtreeFacts
  <1>4. \A x \in U : Has(g, x) /\ ParentOf(g, x) \in L /\ PrevOf(g, x) \in U \cup {null}
    BY <1>1, <1>3, UnderneathFacts DEF UnderneathAt
  <1>5. \A x \in L : copy[x] \in Entities
    <2>1. c \in Nat
      BY SoundFacts
    <2>2. c + 1 .. d \subseteq Entities
      BY <2>1, HierarchyAssumption DEF Entities
    <2> QED
      BY <2>2 DEF Copying
  <1> HIDE DEF L, U
  <1>6. \A x \in L \cup {null} : To(x) \in Ref
    BY <1>2, <1>5 DEF CopyRef
  <1>7. Range(copy) \subseteq Entities /\ \A x \in L : copy[x] \in Range(copy)
    BY <1>5 DEF Copying, Range, L
  <1>8. ASSUME NEW x \in L PROVE k[copy[x]] = CopyOf(x)
    <2> DEFINE o == CHOOSE z \in DOMAIN copy : copy[z] = copy[x]
    <2>1. x \in DOMAIN copy
      BY DEF Copying, L
    <2>2. o \in DOMAIN copy /\ copy[o] = copy[x]
      BY <2>1
    <2>3. o = x
      BY <2>1, <2>2 DEF Copying
    <2>4. k[copy[x]] = CopyOf(o)
      BY <1>5, <1>7 DEF Copies, CopyRef
    <2> HIDE DEF o, CopyOf
    <2> QED
      BY ONLY <2>3, <2>4
  <1>9. \A y \in Entities \ Range(copy) : k[y] = g[y]
    BY DEF Copies
  <1>10. ASSUME NEW x \in L
         PROVE  /\ ~Has(g, x) => CopyOf(x) = NoHierarchy
                /\ Has(g, x) =>
                     \E p, f, n, b \in Ref :
                        /\ CopyOf(x) = Component(p, f, n, b)
                        /\ f = To(FirstOf(g, x))
                        /\ x = e => p = null /\ n = null /\ b = null
                        /\ x # e => p = To(ParentOf(g, x)) /\ n = To(NextOf(g, x)) /\ b = To(PrevOf(g, x))
    <2>1. x \in Ref
      BY <1>2, <1>3
    <2>2. ASSUME Has(g, x)
          PROVE  /\ g[x].parent = ParentOf(g, x) /\ g[x].first = FirstOf(g, x)
                 /\ g[x].next = NextOf(g, x) /\ g[x].prev = PrevOf(g, x)
      BY <1>2, <2>1, <2>2, Access
    <2>3. To(FirstOf(g, x)) \in Ref
      BY <1>3, <1>6
    <2>4. CASE Has(g, x) /\ x = e
      <3>1. CopyOf(x) = Component(null, To(FirstOf(g, x)), null, null)
        BY <2>2, <2>4
      <3> HIDE DEF CopyOf, To
      <3> QED
        BY <1>2, <2>3, <2>4, <3>1
    <2>5. CASE Has(g, x) /\ x # e
      <3>1. CopyOf(x) = Component(To(ParentOf(g, x)), To(FirstOf(g, x)),
                                  To(NextOf(g, x)), To(PrevOf(g, x)))
        BY <2>2, <2>5
      <3>2. x \in U
        BY <1>3, <2>5
      <3>3. To(ParentOf(g, x)) \in Ref /\ To(NextOf(g, x)) \in Ref /\ To(PrevOf(g, x)) \in Ref
        BY <1>3, <1>4, <1>6, <3>2
      <3> HIDE DEF CopyOf, To
      <3> QED
        BY <2>3, <2>5, <3>1, <3>3
    <2> QED
      BY <2>4, <2>5
  <1>11. k \in Graphs
    <2>1. ASSUME NEW y \in Entities PROVE k[y] \in Hierarchy \cup {NoHierarchy}
      <3>1. CASE y \in Range(copy)
        <4>1. PICK x \in L : y = copy[x]
          BY <3>1 DEF Range, Copying, L
        <4>2. k[y] = CopyOf(x)
          BY <1>8, <4>1
        <4> HIDE DEF CopyOf
        <4> QED
          BY <1>10, <4>2, ComponentFields
      <3>2. CASE y \notin Range(copy)
        BY <1>2, <1>9, <3>2 DEF Graphs
      <3> QED
        BY <3>1, <3>2
    <2>2. k = [y \in Entities |-> k[y]]
      BY DEF Copies
    <2> HIDE DEF k
    <2> QED
      BY <2>1, <2>2 DEF Graphs
  <1> HIDE DEF k
  <1>12. ASSUME NEW y \in Ref \ Range(copy)
         PROVE  /\ Has(k, y) <=> Has(g, y)
                /\ ParentOf(k, y) = ParentOf(g, y) /\ FirstOf(k, y) = FirstOf(g, y)
                /\ NextOf(k, y) = NextOf(g, y) /\ PrevOf(k, y) = PrevOf(g, y)
    <2>1. y # null => k[y] = g[y]
      BY <1>2, <1>9
    <2> QED
      BY <2>1 DEF Has, ParentOf, FirstOf, NextOf, PrevOf
  <1>13. ASSUME NEW x \in L
         PROVE  /\ Has(k, copy[x]) <=> Has(g, x)
                /\ FirstOf(k, copy[x]) = To(FirstOf(g, x))
                /\ x = e => /\ ParentOf(k, copy[x]) = null
                            /\ NextOf(k, copy[x]) = null /\ PrevOf(k, copy[x]) = null
                /\ x # e => /\ ParentOf(k, copy[x]) = To(ParentOf(g, x))
                            /\ NextOf(k, copy[x]) = To(NextOf(g, x))
                            /\ PrevOf(k, copy[x]) = To(PrevOf(g, x))
    <2> DEFINE y == copy[x]
    <2>1. y \in Ref /\ y # null /\ x \in Ref /\ k[y] = CopyOf(x)
      BY <1>2, <1>3, <1>5, <1>8
    <2> HIDE DEF y, CopyOf
    <2>2. CASE ~Has(g, x)
      <3>1. ~Has(k, y)
        BY <1>10, <2>1, <2>2 DEF Has
      <3>2. /\ ParentOf(k, y) = null /\ FirstOf(k, y) = null
            /\ NextOf(k, y) = null /\ PrevOf(k, y) = null
        BY <1>11, <2>1, <3>1, Access
      <3>3. /\ ParentOf(g, x) = null /\ FirstOf(g, x) = null
            /\ NextOf(g, x) = null /\ PrevOf(g, x) = null
        BY <1>2, <2>1, <2>2, Access
      <3> QED
        BY <2>2, <3>1, <3>2, <3>3 DEF CopyRef, y
    <2>3. CASE Has(g, x)
      <3>1. PICK p, f, n, b \in Ref :
              /\ k[y] = Component(p, f, n, b)
              /\ f = To(FirstOf(g, x))
              /\ x = e => p = null /\ n = null /\ b = null
              /\ x # e => p = To(ParentOf(g, x)) /\ n = To(NextOf(g, x)) /\ b = To(PrevOf(g, x))
        BY <1>10, <2>1, <2>3
      <3>2. Has(k, y)
        BY <2>1, <3>1, ComponentFields DEF Has
      <3>3. /\ ParentOf(k, y) = p /\ FirstOf(k, y) = f
            /\ NextOf(k, y) = n /\ PrevOf(k, y) = b
        BY <3>1, <3>2, ComponentFields DEF ParentOf, FirstOf, NextOf, PrevOf
      <3> QED
        BY <2>3, <3>1, <3>2, <3>3 DEF y
    <2> QED
      BY <2>2, <2>3
  <1> QED
    BY <1>11, <1>12, <1>13 DEF k, L

(* The links of the graph k, which has the copies in addition *)
CopyOK(g, k, v, e, copy) ==
    /\ Tidy(g, v \ Range(copy)) => Tidy(k, v)
    /\ Below(k, Range(copy), copy[e])
    /\ ParentOf(k, copy[e]) = null /\ PrevOf(k, copy[e]) = null
    /\ Has(k, copy[e]) <=> Has(g, e)
    /\ ~Has(g, e) => \A x \in Entities : ParentOf(k, x) # copy[e] /\ PrevOf(k, x) # copy[e]

LEMMA CopiedKeeps ==
    ASSUME NEW g, NEW valid, NEW c, Sound(g, valid, c), NEW e \in valid,
           NEW d \in 0 .. MaxEntities, c <= d, NEW copy, Copying(copy, Subtree(g, e), c, d)
    PROVE  LET k == Copies(g, e, copy)
               v == valid \cup Range(copy)
           IN  /\ Sound(k, v, d)
               /\ CopyOK(g, k, v, e, copy)
               /\ valid \cap Range(copy) = {}
               /\ copy[e] \in v
  <1> DEFINE k == Copies(g, e, copy)
             L == Subtree(g, e)
             U == Underneath(g, e)
             C == Range(copy)
             v == valid \cup C
             To(x) == CopyRef(copy, x)
  <1>1. PICK rank : Linked(g, valid, rank)
    BY DEF Sound
  <1>2. /\ g \in Graphs /\ null \in Ref /\ null \notin Entities /\ valid \subseteq Entities
        /\ \A x \in Entities : x \in Ref /\ rank[x] \in Nat
        /\ rank \in [Entities -> Nat]
        /\ \A x \in Ref : /\ x # null => x \in Entities
                          /\ Has(g, x) => x \in valid /\ LinkedAt(g, valid, rank, x)
                          /\ ParentOf(g, x) \in Ref /\ FirstOf(g, x) \in Ref
                          /\ NextOf(g, x) \in Ref /\ PrevOf(g, x) \in Ref
                          /\ ~Has(g, x) => ParentOf(g, x) = null
    BY <1>1, LinkedFacts
  <1>3. e \in Entities
    BY <1>2
  <1>4. L = U \cup {e} /\ U \subseteq Entities
        /\ FirstOf(g, e) \in U \cup {null}
        /\ \A z \in U : FirstOf(g, z) \in U \cup {null} /\ NextOf(g, z) \in U \cup {null}
    BY <1>1, <1>3, SubtreeFacts
  <1>5. \A x \in U : UnderneathAt(g, U, e, x)
    BY <1>1, <1>3, UnderneathFacts
  <1>6. /\ k \in Graphs
        /\ \A y \in Ref \ C :
             /\ Has(k, y) <=> Has(g, y)
             /\ ParentOf(k, y) = ParentOf(g, y) /\ FirstOf(k, y) = FirstOf(g, y)
             /\ NextOf(k, y) = NextOf(g, y) /\ PrevOf(k, y) = PrevOf(g, y)
        /\ \A x \in L :
             /\ Has(k, copy[x]) <=> Has(g, x)
             /\ FirstOf(k, copy[x]) = To(FirstOf(g, x))
             /\ x = e => /\ ParentOf(k, copy[x]) = null
                         /\ NextOf(k, copy[x]) = null /\ PrevOf(k, copy[x]) = null
             /\ x # e => /\ ParentOf(k, copy[x]) = To(ParentOf(g, x))
                         /\ NextOf(k, copy[x]) = To(NextOf(g, x))
                         /\ PrevOf(k, copy[x]) = To(PrevOf(g, x))
    BY <1>3, CopiedLinks
  <1>7. /\ c \in Nat /\ d \in Nat
        /\ \A x \in valid : x \in Nat /\ x <= c
        /\ \A x \in Ref : /\ ParentOf(g, x) <= c /\ PrevOf(g, x) <= c
    BY SoundFacts
  <1>8. /\ DOMAIN copy = L
        /\ \A x \in L : copy[x] \in c + 1 .. d
        /\ \A x, y \in L : copy[x] = copy[y] => x = y
    BY DEF Copying
  <1>9. /\ \A x \in L : copy[x] \in C /\ copy[x] \in Entities /\ copy[x] \in Ref
        /\ C \subseteq Entities
        /\ \A y \in C : \E x \in L : y = copy[x]
        /\ \A y \in C : y \in c + 1 .. d
    <2>1. c + 1 .. d \subseteq Entities
      BY <1>7, HierarchyAssumption DEF Entities
    <2>2. C = {copy[x] : x \in L}
      BY <1>8 DEF Range
    <2> HIDE DEF L, C
    <2>3. \A x \in L : copy[x] \in Entities
      BY <1>8, <2>1
    <2> QED
      BY <1>2, <1>8, <2>2, <2>3
  <1>10. \A x \in Ref : x <= c => x \notin C
    <2>1. \A x \in Ref : x \in Nat
      BY DEF Ref, Entities, null
    <2> QED
      BY <1>7, <1>9, <2>1
  <1>11. \A x \in valid : x \notin C
    BY <1>2, <1>7, <1>10
  <1>12. \A x \in L : To(x) = copy[x] /\ x \in Ref
    BY <1>2, <1>3, <1>4 DEF CopyRef
  <1>13. To(null) = null
    BY DEF CopyRef
  <1> HIDE DEF k, C, To, L, U
  <1> DEFINE old(y) == CHOOSE x \in L : y = copy[x]
             ranks == [y \in Entities |-> IF y \in C THEN rank[old(y)] ELSE rank[y]]
  <1>14. ranks \in [Entities -> Nat]
    <2>1. ASSUME NEW y \in C PROVE rank[old(y)] \in Nat
      <3>1. old(y) \in L
        BY <1>9
      <3> HIDE DEF old
      <3> QED
        BY <1>2, <1>3, <1>4, <3>1
    <2> QED
      BY <1>2, <2>1
  <1>15. ASSUME NEW x \in L PROVE ranks[copy[x]] = rank[x]
    <2>1. old(copy[x]) \in L /\ copy[x] = copy[old(copy[x])]
      OBVIOUS
    <2>2. old(copy[x]) = x
      BY <1>8, <2>1
    <2> HIDE DEF old
    <2> QED
      BY <1>9, <2>2
  <1>16. \A y \in Entities \ C : ranks[y] = rank[y]
    OBVIOUS
  <1> HIDE DEF ranks
  <1>17. ASSUME NEW y \in Entities \ C, Has(k, y) PROVE LinkedAt(k, v, ranks, y)
    <2> DEFINE n == NextOf(g, y)
               f == FirstOf(g, y)
               b == PrevOf(g, y)
               p == ParentOf(g, y)
    <2>1. /\ y \in Ref \ C /\ Has(g, y)
          /\ NextOf(k, y) = n /\ FirstOf(k, y) = f /\ PrevOf(k, y) = b /\ ParentOf(k, y) = p
      BY <1>2, <1>6, <1>17
    <2>2. y \in valid /\ LinkedAt(g, valid, rank, y) /\ n \in Ref /\ f \in Ref /\ b \in Ref /\ p \in Ref
      BY <1>2, <2>1
    <2>3. b \notin C /\ p \notin C
      BY <1>7, <1>10, <2>1, <2>2
    <2>4. n # null => /\ Has(k, n) /\ PrevOf(k, n) = y /\ ParentOf(k, n) = p
                      /\ ranks[y] < ranks[n]
      <3>1. SUFFICES ASSUME n # null PROVE Has(k, n) /\ PrevOf(k, n) = y /\ ParentOf(k, n) = p
                                           /\ ranks[y] < ranks[n]
        OBVIOUS
      <3>2. Has(g, n) /\ PrevOf(g, n) = y /\ ParentOf(g, n) = p /\ rank[y] < rank[n]
        BY <2>2, <3>1 DEF LinkedAt
      <3>3. n \notin C /\ n \in Entities
        BY <1>2, <1>11, <2>2, <3>2
      <3> QED
        BY <1>6, <1>16, <2>2, <3>2, <3>3
    <2>5. f # null => Has(k, f) /\ PrevOf(k, f) = null /\ ParentOf(k, f) = y
      <3>1. SUFFICES ASSUME f # null PROVE Has(k, f) /\ PrevOf(k, f) = null /\ ParentOf(k, f) = y
        OBVIOUS
      <3>2. Has(g, f) /\ PrevOf(g, f) = null /\ ParentOf(g, f) = y
        BY <2>2, <3>1 DEF LinkedAt
      <3>3. f \notin C
        BY <1>2, <1>11, <2>2, <3>2
      <3> QED
        BY <1>6, <2>2, <3>2, <3>3
    <2>6. b \in v => Has(k, b) /\ NextOf(k, b) = y
      <3>1. b \in valid => Has(g, b) /\ NextOf(g, b) = y
        BY <2>2 DEF LinkedAt
      <3> QED
        BY <1>6, <2>2, <2>3, <3>1
    <2>7. p # null => ranks[p] < ranks[y]
      <3>1. p # null => rank[p] < rank[y] /\ p \in Entities
        BY <1>2, <2>2 DEF LinkedAt
      <3> QED
        BY <1>16, <2>3, <3>1
    <2>8. p = null => b = null /\ n = null
      BY <2>2 DEF LinkedAt
    <2> HIDE DEF n, f, b, p
    <2> QED
      BY <2>1, <2>2, <2>4, <2>5, <2>6, <2>7, <2>8 DEF LinkedAt
  <1>18. ASSUME NEW x \in L, Has(g, x), FirstOf(g, x) # null
         PROVE  LET f == FirstOf(k, copy[x])
                IN  f = copy[FirstOf(g, x)] /\ Has(k, f) /\ PrevOf(k, f) = null
                    /\ ParentOf(k, f) = copy[x]
    <2> DEFINE z == FirstOf(g, x)
    <2>1. z \in U /\ z \in L /\ z # e
      BY <1>4, <1>5, <1>18 DEF UnderneathAt
    <2>2. Has(g, z) /\ PrevOf(g, z) = null /\ ParentOf(g, z) = x
      BY <1>2, <1>12, <1>18 DEF LinkedAt
    <2> HIDE DEF z
    <2>3. FirstOf(k, copy[x]) = copy[z]
      BY <1>6, <1>12, <2>1 DEF z
    <2>4. Has(k, copy[z]) /\ PrevOf(k, copy[z]) = null /\ ParentOf(k, copy[z]) = copy[x]
      BY <1>6, <1>12, <1>13, <2>1, <2>2
    <2> QED
      BY <2>3, <2>4 DEF z
  <1>19. ASSUME Has(g, e) PROVE LinkedAt(k, v, ranks, copy[e])
    <2>1. e \in L /\ copy[e] \in v
      BY <1>4, <1>9
    <2>2. ParentOf(k, copy[e]) = null /\ NextOf(k, copy[e]) = null /\ PrevOf(k, copy[e]) = null
      BY <1>6, <2>1
    <2>3. FirstOf(k, copy[e]) = To(FirstOf(g, e))
      BY <1>6, <2>1
    <2>4. null \notin v
      BY <1>2, <1>9
    <2>5. FirstOf(k, copy[e]) # null => FirstOf(g, e) # null
      BY <1>13, <2>3
    <2> QED
      BY <1>18, <1>19, <2>1, <2>2, <2>4, <2>5 DEF LinkedAt
  <1>20. ASSUME NEW x \in U
         PROVE  /\ LinkedAt(k, v, ranks, copy[x]) /\ TidyAt(k, v, copy[x])
                /\ ParentOf(k, copy[x]) \in C
                /\ ~Has(g, e) => ParentOf(k, copy[x]) # copy[e]
                /\ PrevOf(k, copy[x]) # copy[e]
    <2> DEFINE y == copy[x]
               n == NextOf(g, x)
               b == PrevOf(g, x)
               p == ParentOf(g, x)
    <2>1. x \in L /\ x \in Ref /\ x \in Entities /\ x # e /\ Has(g, x) /\ y \in v /\ y \in C
      BY <1>4, <1>5, <1>9, <1>12 DEF UnderneathAt
    <2>2. LinkedAt(g, valid, rank, x) /\ x \in valid
      BY <1>2, <2>1
    <2>3. /\ p \in L /\ Has(g, p) /\ b \in U \cup {null} /\ n \in U \cup {null}
          /\ b = null => FirstOf(g, p) = x
      BY <1>4, <1>5 DEF UnderneathAt
    <2>4. /\ NextOf(k, y) = To(n) /\ PrevOf(k, y) = To(b) /\ ParentOf(k, y) = copy[p]
          /\ Has(k, y)
          /\ FirstOf(k, y) = To(FirstOf(g, x))
      BY <1>6, <1>12, <2>1, <2>3
    <2> HIDE DEF y, n, b, p
    <2>5. p # null /\ copy[p] # null /\ copy[p] \in C
      BY <1>2, <1>3, <1>4, <1>9, <2>3
    <2>6. To(n) # null => /\ Has(k, To(n)) /\ PrevOf(k, To(n)) = y
                          /\ ParentOf(k, To(n)) = copy[p] /\ ranks[y] < ranks[To(n)]
      <3>1. SUFFICES ASSUME To(n) # null
                     PROVE  /\ Has(k, To(n)) /\ PrevOf(k, To(n)) = y
                            /\ ParentOf(k, To(n)) = copy[p] /\ ranks[y] < ranks[To(n)]
        OBVIOUS
      <3>2. n \in U /\ n \in L /\ n # null /\ To(n) = copy[n]
        BY <1>2, <1>4, <1>12, <1>13, <2>3, <3>1
      <3>3. /\ Has(g, n) /\ PrevOf(g, n) = x /\ ParentOf(g, n) = p /\ rank[x] < rank[n]
        BY <2>2, <3>2 DEF LinkedAt, n, p
      <3>4. n # e
        BY <1>5, <3>2 DEF UnderneathAt
      <3>5. Has(k, copy[n]) /\ PrevOf(k, copy[n]) = copy[x] /\ ParentOf(k, copy[n]) = copy[p]
        BY <1>6, <1>12, <2>1, <2>3, <3>2, <3>3, <3>4
      <3>6. ranks[copy[x]] < ranks[copy[n]]
        BY <1>15, <2>1, <3>2, <3>3
      <3> QED
        BY <3>2, <3>5, <3>6 DEF y
    <2>7. To(b) # null => b \in U /\ To(b) = copy[b] /\ Has(k, copy[b]) /\ NextOf(k, copy[b]) = y
      <3>1. SUFFICES ASSUME To(b) # null
                     PROVE  b \in U /\ To(b) = copy[b] /\ Has(k, copy[b]) /\ NextOf(k, copy[b]) = y
        OBVIOUS
      <3>2. b \in U /\ b \in L /\ b # e /\ To(b) = copy[b] /\ Has(g, b)
        BY <1>4, <1>5, <1>12, <1>13, <2>3, <3>1 DEF UnderneathAt
      <3>3. b \in valid
        BY <1>2, <1>12, <3>2
      <3>4. NextOf(g, b) = x
        BY <2>2, <3>3 DEF LinkedAt, b
      <3> QED
        BY <1>6, <1>12, <2>1, <3>2, <3>4 DEF y
    <2>8. rank[p] < rank[x]
      BY <2>2, <2>5 DEF LinkedAt, p
    <2>9. ranks[copy[p]] < ranks[y]
      BY <1>15, <2>1, <2>3, <2>8 DEF y
    <2>10. FirstOf(k, y) # null =>
             /\ Has(k, FirstOf(k, y)) /\ PrevOf(k, FirstOf(k, y)) = null
             /\ ParentOf(k, FirstOf(k, y)) = y
      <3>1. FirstOf(k, y) # null => FirstOf(g, x) # null
        BY <1>13, <2>4
      <3> QED
        BY <1>18, <2>1, <3>1 DEF y
    <2>11. null \notin v
      BY <1>2, <1>9
    <2>12. LinkedAt(k, v, ranks, y)
      BY <2>1, <2>4, <2>5, <2>6, <2>7, <2>9, <2>10, <2>11 DEF LinkedAt
    <2>13. PrevOf(k, y) # null => PrevOf(k, y) \in v /\ Has(k, PrevOf(k, y))
      <3>1. U \subseteq L
        BY <1>4
      <3> QED
        BY <1>9, <2>4, <2>7, <3>1
    <2>14. Has(k, copy[p])
      BY <1>6, <2>3
    <2>15. PrevOf(k, y) = null => FirstOf(k, copy[p]) = y
      <3>1. SUFFICES ASSUME To(b) = null PROVE FirstOf(k, copy[p]) = y
        BY <2>4
      <3>2. b = null
        <4>1. ASSUME b # null PROVE FALSE
          <5>1. b \in L
            BY <1>4, <2>3, <4>1
          <5>2. To(b) \in Entities
            BY <1>9, <1>12, <5>1
          <5> QED
            BY <1>2, <3>1, <5>2
        <4> QED
          BY <4>1
      <3> QED
        BY <1>6, <1>12, <2>1, <2>3, <3>2 DEF y
    <2>16. TidyAt(k, v, y)
      BY <2>4, <2>13, <2>14, <2>15 DEF TidyAt
    <2>17. ~Has(g, e) => copy[p] # copy[e]
      <3>1. e \in L
        BY <1>4
      <3> QED
        BY <1>8, <2>3, <3>1
    <2>18. PrevOf(k, y) # copy[e]
      <3>1. e \in L /\ U \subseteq L /\ e \notin U /\ copy[e] # null
        BY <1>2, <1>4, <1>5, <1>9 DEF UnderneathAt
      <3> QED
        BY <1>8, <2>4, <2>7, <3>1
    <2> QED
      BY <2>4, <2>5, <2>12, <2>16, <2>17, <2>18 DEF y
  <1>21. \A y \in C : y = copy[e] \/ \E x \in U : y = copy[x]
    BY <1>4, <1>9
  <1>22. e \in L /\ copy[e] \in C /\ (Has(k, copy[e]) <=> Has(g, e))
         /\ ParentOf(k, copy[e]) = null /\ PrevOf(k, copy[e]) = null
    BY <1>4, <1>6, <1>9
  <1>23. Linked(k, v, ranks)
    <2>1. ASSUME NEW y \in Entities, Has(k, y) PROVE LinkedAt(k, v, ranks, y)
      BY <1>17, <1>19, <1>20, <1>21, <1>22, <2>1
    <2> QED
      BY <1>2, <1>6, <1>9, <1>14, <2>1 DEF Linked
  <1>24. Aged(k, d)
    <2>1. ASSUME NEW y \in Entities PROVE ParentOf(k, y) <= d /\ PrevOf(k, y) <= d
      <3>1. null = 0 /\ \A z \in C : z <= d
        BY <1>7, <1>9 DEF null
      <3>2. CASE y \notin C
        <4>1. ParentOf(g, y) \in Nat /\ PrevOf(g, y) \in Nat /\ ParentOf(g, y) <= c /\ PrevOf(g, y) <= c
          <5>1. \A x \in Ref : x \in Nat
            BY DEF Ref, Entities, null
          <5> QED
            BY <1>2, <1>7, <5>1
        <4>2. ParentOf(k, y) = ParentOf(g, y) /\ PrevOf(k, y) = PrevOf(g, y)
          BY <1>2, <1>6, <3>2
        <4> QED
          BY <1>7, <4>1, <4>2
      <3>3. CASE y = copy[e]
        BY <1>7, <1>22, <3>1, <3>3
      <3>4. ASSUME NEW x \in U, y = copy[x] PROVE ParentOf(k, y) <= d /\ PrevOf(k, y) <= d
        <4>1. ParentOf(k, y) <= d
          BY <1>20, <3>1, <3>4
        <4>2. PrevOf(k, y) # null => PrevOf(k, y) \in v
          BY <1>20, <3>4 DEF TidyAt
        <4>3. \A z \in v : z <= d
          BY <1>7, <3>1
        <4> QED
          BY <1>7, <3>1, <4>1, <4>2, <4>3
      <3> QED
        BY <1>21, <3>2, <3>3, <3>4
    <2> QED
      BY <2>1 DEF Aged
  <1>25. v \subseteq 1 .. d
    <2>1. \A y \in C : y \in 1 .. d
      BY <1>7, <1>9
    <2>2. \A y \in valid : y \in 1 .. d
      BY <1>2, <1>7 DEF Entities
    <2> QED
      BY <2>1, <2>2
  <1>26. Sound(k, v, d)
    BY <1>23, <1>24, <1>25 DEF Sound
  <1>27. ASSUME Tidy(g, valid) PROVE Tidy(k, v)
    <2>1. ASSUME NEW y \in valid, Has(k, y) PROVE TidyAt(k, v, y)
      <3>1. y \in Ref /\ y \notin C
        BY <1>2, <1>11
      <3>2. /\ Has(g, y)
            /\ PrevOf(k, y) = PrevOf(g, y) /\ ParentOf(k, y) = ParentOf(g, y)
            /\ PrevOf(g, y) \in Ref /\ ParentOf(g, y) \in Ref
            /\ PrevOf(g, y) \notin C /\ ParentOf(g, y) \notin C
        BY <1>2, <1>6, <1>7, <1>10, <2>1, <3>1
      <3>3. TidyAt(g, valid, y)
        BY <1>27, <3>2 DEF Tidy
      <3>4. \A z \in Ref \ C : (Has(k, z) <=> Has(g, z)) /\ FirstOf(k, z) = FirstOf(g, z)
        BY <1>6
      <3> QED
        BY <3>2, <3>3, <3>4 DEF TidyAt
    <2>2. TidyAt(k, v, copy[e])
      BY <1>22 DEF TidyAt
    <2> QED
      BY <1>20, <1>21, <2>1, <2>2 DEF Tidy
  <1>28. Below(k, C, copy[e])
    <2>1. ASSUME NEW x \in Entities, ParentOf(k, x) \in C PROVE x \in C
      <3>1. ASSUME x \notin C PROVE FALSE
        <4>1. ParentOf(k, x) = ParentOf(g, x) /\ ParentOf(g, x) \in Ref /\ ParentOf(g, x) <= c
          BY <1>2, <1>6, <1>7, <3>1
        <4> QED
          BY <1>10, <2>1, <4>1
      <3> QED
        BY <3>1
    <2>2. \A x \in C \ {copy[e]} : ParentOf(k, x) \in C
      BY <1>20, <1>21
    <2> QED
      BY <1>9, <1>22, <2>1, <2>2 DEF Below
  <1>29. ASSUME ~Has(g, e), NEW x \in Entities
         PROVE  ParentOf(k, x) # copy[e] /\ PrevOf(k, x) # copy[e]
    <2>1. CASE x \notin C
      BY <1>2, <1>6, <1>7, <1>10, <1>22, <2>1
    <2>2. CASE x = copy[e]
      BY <1>2, <1>9, <1>22, <2>2
    <2> QED
      BY <1>20, <1>21, <1>29, <2>1, <2>2
  <1>30. v \ C = valid
    BY <1>11
  <1>31. CopyOK(g, k, v, e, copy)
    BY <1>22, <1>27, <1>28, <1>29, <1>30 DEF CopyOK, C
  <1> QED
    BY <1>11, <1>22, <1>26, <1>31 DEF k, C

LEMMA PasteKeeps ==
    ASSUME NEW g, NEW valid, NEW c, Sound(g, valid, c),
           NEW e \in valid, NEW p \in valid, e # p,
           ParentOf(g, e) = null, PrevOf(g, e) = null,
           NEW D, Below(g, D, e), p \notin D,
           ~Has(g, e) => \A x \in Entities : ParentOf(g, x) # e /\ PrevOf(g, x) # e
    PROVE  LET k == Attach(g, valid, e, p, FALSE)
           IN  /\ Sound(k, valid, c)
               /\ Has(g, e) /\ Tidy(g, valid) => Tidy(k, valid)
  <1> DEFINE k == Attach(g, valid, e, p, FALSE)
  <1>1. PICK rank : Linked(g, valid, rank)
    BY DEF Sound
  <1>2. /\ g \in Graphs /\ valid \subseteq Entities /\ c \in Nat
        /\ \A x \in valid : x \in Nat /\ x <= c
        /\ \A x \in Ref : /\ ParentOf(g, x) \in Ref /\ ParentOf(g, x) <= c
                          /\ PrevOf(g, x) \in Ref /\ PrevOf(g, x) <= c
    BY SoundFacts
  <1>3. /\ e \in Entities /\ e \in Ref /\ p \in Entities /\ p \in Ref /\ null \in Ref
        /\ null \notin valid /\ p # null
        /\ rank \in [Entities -> Nat]
        /\ \A x \in Entities : x \in Ref /\ x # null
        /\ \A x \in Ref : /\ x # null => x \in Entities
                          /\ NextOf(g, x) \in Ref /\ FirstOf(g, x) \in Ref
                          /\ Has(g, x) => x \in valid /\ LinkedAt(g, valid, rank, x)
    BY <1>1, <1>2, LinkedFacts
  <1>4. null = 0 /\ 0 <= c
    BY <1>2 DEF null
  <1>5. CASE Has(g, e)
    <2>1. g[e].parent = null /\ g[e].prev = null /\ g[e].first = FirstOf(g, e)
      BY <1>2, <1>3, <1>5, Access
    <2>2. OnDestroy(g, valid, e) = g
      BY <1>3, <2>1 DEF OnDestroy
    <2>3. k = Attached(g, e, p)
      BY <1>3, <1>5, <2>1, <2>2 DEF Attach, Reparent, Attached, With
    <2>4. /\ \E r : Linked(k, valid, r)
          /\ Tidy(g, valid) => Tidy(k, valid)
          /\ \A x \in Ref : /\ ParentOf(k, x) = IF x = e THEN p ELSE ParentOf(g, x)
                            /\ PrevOf(k, x) \in {PrevOf(g, x)} \cup valid
      <3> HIDE DEF k
      <3> QED
        BY <1>1, <2>3, AttachKeeps
    <2>5. Aged(k, c)
      <3>1. ASSUME NEW x \in Entities PROVE ParentOf(k, x) <= c /\ PrevOf(k, x) <= c
        <4>1. x \in Ref
          BY <1>3
        <4>2. PrevOf(k, x) = PrevOf(g, x) \/ PrevOf(k, x) \in valid
          BY <2>4, <4>1
        <4> QED
          BY <1>2, <2>4, <4>1, <4>2
      <3> QED
        BY <3>1 DEF Aged
    <2> QED
      BY <2>4, <2>5 DEF Sound
  <1>6. CASE ~Has(g, e)
    <2>1. k = With(g, e, p, null, null, null)
      BY <1>6 DEF Attach, Emplace, With
    <2>2. /\ k \in Graphs
          /\ \A x \in Ref : /\ Has(k, x) <=> Has(g, x) \/ x = e
                            /\ ParentOf(k, x) = IF x = e THEN p ELSE ParentOf(g, x)
                            /\ FirstOf(k, x) = IF x = e THEN null ELSE FirstOf(g, x)
                            /\ NextOf(k, x) = IF x = e THEN null ELSE NextOf(g, x)
                            /\ PrevOf(k, x) = IF x = e THEN null ELSE PrevOf(g, x)
      <3> HIDE DEF k
      <3>1. g \in Graphs /\ e \in Entities /\ p \in Ref /\ null \in Ref
        BY <1>2, <1>3
      <3> QED
        BY ONLY <2>1, <3>1, WithLinks
    <2> HIDE DEF k
    <2> DEFINE ranks == [x \in Entities |-> IF x = e THEN rank[p] + 1 ELSE rank[x]]
    <2>3. /\ ranks \in [Entities -> Nat]
          /\ ranks[e] = rank[p] + 1 /\ rank[p] \in Nat
          /\ \A x \in Entities \ {e} : ranks[x] = rank[x]
      BY <1>3
    <2> HIDE DEF ranks
    <2>4. LinkedAt(k, valid, ranks, e)
      <3>1. ranks[p] < ranks[e]
        BY <1>3, <2>3
      <3> QED
        BY <1>3, <2>2, <3>1 DEF LinkedAt
    <2>5. ASSUME NEW x \in Entities, x # e, Has(k, x) PROVE LinkedAt(k, valid, ranks, x)
      <3>1. /\ x \in Ref /\ Has(g, x) /\ x \in valid /\ LinkedAt(g, valid, rank, x)
            /\ ParentOf(k, x) = ParentOf(g, x) /\ FirstOf(k, x) = FirstOf(g, x)
            /\ NextOf(k, x) = NextOf(g, x) /\ PrevOf(k, x) = PrevOf(g, x)
        BY <1>3, <2>2, <2>5
      <3>2. ParentOf(g, x) # e /\ PrevOf(g, x) # e
        BY <1>6
      <3>3. NextOf(g, x) # null => NextOf(g, x) # e /\ NextOf(g, x) \in Entities
        BY <1>3, <1>6, <3>1 DEF LinkedAt
      <3>4. FirstOf(g, x) # null => FirstOf(g, x) # e
        BY <1>3, <1>6, <3>1 DEF LinkedAt
      <3>5. ASSUME NEW y \in Ref, y # e
            PROVE  /\ Has(k, y) <=> Has(g, y)
                   /\ ParentOf(k, y) = ParentOf(g, y) /\ PrevOf(k, y) = PrevOf(g, y)
                   /\ NextOf(k, y) = NextOf(g, y)
                   /\ y # null => ranks[y] = rank[y]
        BY <1>3, <2>2, <2>3, <3>5
      <3>6. /\ ParentOf(g, x) \in Ref /\ FirstOf(g, x) \in Ref
            /\ NextOf(g, x) \in Ref /\ PrevOf(g, x) \in Ref
        BY <1>2, <1>3, <3>1
      <3>7. NextOf(k, x) # null =>
              /\ Has(k, NextOf(k, x)) /\ PrevOf(k, NextOf(k, x)) = x
              /\ ParentOf(k, NextOf(k, x)) = ParentOf(k, x) /\ ranks[x] < ranks[NextOf(k, x)]
        BY <2>3, <2>5, <3>1, <3>3, <3>5, <3>6 DEF LinkedAt
      <3>8. FirstOf(k, x) # null =>
              /\ Has(k, FirstOf(k, x)) /\ PrevOf(k, FirstOf(k, x)) = null
              /\ ParentOf(k, FirstOf(k, x)) = x
        BY <3>1, <3>4, <3>5, <3>6 DEF LinkedAt
      <3>9. PrevOf(k, x) \in valid => Has(k, PrevOf(k, x)) /\ NextOf(k, PrevOf(k, x)) = x
        BY <3>1, <3>2, <3>5, <3>6 DEF LinkedAt
      <3>10. ParentOf(k, x) # null => ranks[ParentOf(k, x)] < ranks[x]
        BY <2>3, <2>5, <3>1, <3>2, <3>5, <3>6 DEF LinkedAt
      <3>11. ParentOf(k, x) = null => PrevOf(k, x) = null /\ NextOf(k, x) = null
        BY <3>1 DEF LinkedAt
      <3> QED
        BY <3>1, <3>7, <3>8, <3>9, <3>10, <3>11 DEF LinkedAt
    <2>6. Linked(k, valid, ranks)
      BY <1>2, <2>2, <2>3, <2>4, <2>5 DEF Linked
    <2>7. Aged(k, c)
      <3>1. ASSUME NEW x \in Entities PROVE ParentOf(k, x) <= c /\ PrevOf(k, x) <= c
        <4>1. x \in Ref
          BY <1>3
        <4>2. CASE x = e
          BY <1>2, <1>4, <2>2, <4>1, <4>2
        <4>3. CASE x # e
          BY <1>2, <2>2, <4>1, <4>3
        <4> QED
          BY <4>2, <4>3
      <3> QED
        BY <3>1 DEF Aged
    <2> QED
      BY <1>6, <2>6, <2>7 DEF Sound, k
  <1> QED
    BY <1>5, <1>6

-----------------------------------------------------------------------------
(* What Linked and Tidy say about the lists: nothing is below its own children, *)
(* a child names its parent, a parent lists its child, and roots lead to all.   *)
LEMMA ForwardHolds ==
    ASSUME NEW g, NEW valid, NEW rank, Linked(g, valid, rank),
           NEW e \in Entities, NEW x \in GetChildren(g, e)
    PROVE  e \notin Subtree(g, x)
  <1> DEFINE S == {z \in Entities : Has(g, z) /\ rank[e] < rank[z]}
  <1>1. /\ rank \in [Entities -> Nat] /\ null \in Ref
        /\ \A z \in Entities : z \in Ref /\ rank[z] \in Nat
        /\ \A z \in Ref : /\ z # null => z \in Entities
                          /\ FirstOf(g, z) \in Ref /\ NextOf(g, z) \in Ref
                          /\ Has(g, z) => LinkedAt(g, valid, rank, z)
                          /\ ~Has(g, z) => FirstOf(g, z) = null
    BY LinkedFacts
  <1>2. ASSUME NEW z \in Entities, Has(g, z), FirstOf(g, z) # null
        PROVE  LET f == FirstOf(g, z)
               IN  f \in Entities /\ Has(g, f) /\ rank[z] < rank[f]
    <2> DEFINE f == FirstOf(g, z)
    <2>1. f \in Entities /\ f \in Ref /\ z # null
      BY <1>1, <1>2 DEF null, Entities
    <2>2. Has(g, f) /\ ParentOf(g, f) = z
      BY <1>1, <1>2 DEF LinkedAt
    <2>3. LinkedAt(g, valid, rank, f)
      BY <1>1, <2>1, <2>2
    <2> QED
      BY <2>1, <2>2, <2>3 DEF LinkedAt
  <1>3. ASSUME NEW z \in S
        PROVE  FirstOf(g, z) \in S \cup {null} /\ NextOf(g, z) \in S \cup {null}
    <2>1. z \in Entities /\ z \in Ref /\ Has(g, z) /\ LinkedAt(g, valid, rank, z)
          /\ rank[e] \in Nat /\ rank[z] \in Nat /\ rank[e] < rank[z]
      BY <1>1
    <2>2. FirstOf(g, z) \in S \cup {null}
      <3>1. FirstOf(g, z) # null => rank[FirstOf(g, z)] \in Nat
        BY <1>1, <2>1
      <3> QED
        BY <1>2, <2>1, <3>1
    <2>3. NextOf(g, z) \in S \cup {null}
      <3>1. NextOf(g, z) # null =>
              /\ NextOf(g, z) \in Entities /\ Has(g, NextOf(g, z)) /\ rank[z] < rank[NextOf(g, z)]
              /\ rank[NextOf(g, z)] \in Nat
        BY <1>1, <2>1 DEF LinkedAt
      <3> QED
        BY <2>1, <3>1
    <2> QED
      BY <2>2, <2>3
  <1>4. S \in SUBSET Entities
    OBVIOUS
  <1>5. FirstOf(g, e) \in S \cup {null}
    BY <1>1, <1>2
  <1>6. e \notin S
    BY <1>1
  <1> HIDE DEF S
  <1>7. x \in S
    <2>1. FirstOf(g, e) \in Ref
      BY <1>1
    <2>2. ToSet(Siblings(g, FirstOf(g, e))) \subseteq S
      BY <1>3, <1>4, <1>5, <2>1, SiblingsFacts
    <2> QED
      BY <2>2 DEF GetChildren, ChildList
  <1>8. x \in Entities /\ FirstOf(g, x) \in S \cup {null}
    BY <1>3, <1>4, <1>7
  <1>9. /\ Subtree(g, x) = Underneath(g, x) \cup {x}
        /\ \A T \in SUBSET Entities :
             /\ FirstOf(g, x) \in T \cup {null}
             /\ \A z \in T : FirstOf(g, z) \in T \cup {null} /\ NextOf(g, z) \in T \cup {null}
             => Underneath(g, x) \subseteq T
    BY <1>8, SubtreeFacts
  <1>10. Underneath(g, x) \subseteq S
    BY ONLY <1>3, <1>4, <1>8, <1>9
  <1> QED
    BY <1>6, <1>7, <1>9, <1>10

LEMMA ParentsAgree ==
    ASSUME NEW g, NEW valid, NEW rank, Linked(g, valid, rank),
           NEW e \in Entities, NEW x \in GetChildren(g, e)
    PROVE  Has(g, x) /\ ParentOf(g, x) = e
  <1> DEFINE S == {z \in Entities : Has(g, z) /\ ParentOf(g, z) = e}
  <1>1. /\ null \in Ref
        /\ \A z \in Entities : z \in Ref
        /\ \A z \in Ref : /\ z # null => z \in Entities
                          /\ FirstOf(g, z) \in Ref /\ NextOf(g, z) \in Ref
                          /\ Has(g, z) => LinkedAt(g, valid, rank, z)
                          /\ ~Has(g, z) => FirstOf(g, z) = null
    BY LinkedFacts
  <1>2. S \in SUBSET Entities
    OBVIOUS
  <1>3. \A z \in S : NextOf(g, z) \in S \cup {null}
    BY <1>1 DEF LinkedAt
  <1>4. FirstOf(g, e) \in Ref /\ FirstOf(g, e) \in S \cup {null}
    BY <1>1 DEF LinkedAt
  <1>5. \A z \in S : Has(g, z) /\ ParentOf(g, z) = e
    OBVIOUS
  <1> HIDE DEF S
  <1>6. ToSet(Siblings(g, FirstOf(g, e))) \subseteq S
    BY <1>2, <1>3, <1>4, SiblingsFacts
  <1> QED
    BY <1>5, <1>6 DEF GetChildren, ChildList

LEMMA ListedByParent ==
    ASSUME NEW g, NEW valid, NEW rank, Linked(g, valid, rank), Tidy(g, valid),
           NEW e \in Entities, Has(g, e), ParentOf(g, e) # null
    PROVE  e \in GetChildren(g, ParentOf(g, e))
  <1> DEFINE Unlisted == {x \in Entities : /\ Has(g, x) /\ ParentOf(g, x) # null
                                           /\ x \notin GetChildren(g, ParentOf(g, x))}
             T == {rank[x] : x \in Unlisted}
  <1>1. /\ null \in Ref /\ null \notin valid
        /\ \A z \in Entities : z \in Ref /\ rank[z] \in Nat
        /\ \A z \in Ref : /\ z # null => z \in Entities
                          /\ ParentOf(g, z) \in Ref /\ PrevOf(g, z) \in Ref
                          /\ FirstOf(g, z) \in Ref
                          /\ Has(g, z) => z \in valid /\ LinkedAt(g, valid, rank, z)
    BY LinkedFacts
  <1>2. SUFFICES ASSUME Unlisted # {} PROVE FALSE
    OBVIOUS
  <1>3. T \subseteq Nat /\ T # {}
    BY <1>1, <1>2
  <1>4. PICK x \in Unlisted : \A y \in Unlisted : rank[x] <= rank[y]
    <2> HIDE DEF Unlisted
    <2>1. \E m \in T : \A t \in T : m <= t
      <3> HIDE DEF T
      <3> QED
        BY <1>3, LeastNumber
    <2> QED
      BY <2>1
  <1> DEFINE p == ParentOf(g, x)
             R == GetChildren(g, p)
             b == PrevOf(g, x)
  <1>5. /\ x \in Entities /\ x \in Ref /\ Has(g, x) /\ p # null /\ x \notin R
        /\ p \in Ref /\ b \in Ref /\ x \in valid
        /\ LinkedAt(g, valid, rank, x) /\ TidyAt(g, valid, x)
    BY <1>1 DEF Tidy
  <1>6. /\ FirstOf(g, p) # null => FirstOf(g, p) \in R
        /\ \A z \in R : NextOf(g, z) \in R \cup {null}
    BY <1>1, <1>5, SiblingsFacts DEF GetChildren, ChildList
  <1>7. CASE b = null
    <2>1. FirstOf(g, p) = x
      BY <1>5, <1>7 DEF TidyAt
    <2> QED
      BY <1>1, <1>5, <1>6, <2>1 DEF Entities, null
  <1>8. CASE b # null
    <2>1. b \in valid /\ Has(g, b) /\ NextOf(g, b) = x /\ b \in Entities
      BY <1>1, <1>5, <1>8 DEF TidyAt, LinkedAt
    <2>2. LinkedAt(g, valid, rank, b) /\ x # null
      BY <1>1, <1>5, <2>1
    <2>3. ParentOf(g, b) = p /\ rank[b] < rank[x]
      BY <2>1, <2>2 DEF LinkedAt
    <2>4. b \notin Unlisted
      BY <1>1, <1>4, <1>5, <2>1, <2>3
    <2>5. b \in R
      BY <1>5, <2>1, <2>3, <2>4
    <2> QED
      BY <1>5, <1>6, <2>1, <2>2, <2>5
  <1> QED
    BY <1>7, <1>8

LEMMA NoCycle ==
    ASSUME NEW g, NEW valid, NEW rank, Linked(g, valid, rank), NEW e \in Entities
    PROVE  null \in Ancestors(g, e)
  <1> DEFINE A == Ancestors(g, e)
             T == {rank[x] : x \in A}
  <1>1. /\ g \in Graphs
        /\ \A z \in Entities : z \in Ref /\ rank[z] \in Nat
        /\ \A z \in Ref : /\ z # null => z \in Entities
                          /\ Has(g, z) => LinkedAt(g, valid, rank, z)
                          /\ ~Has(g, z) => ParentOf(g, z) = null
    BY LinkedFacts
  <1>2. A \subseteq Ref /\ ParentOf(g, e) \in A /\ UpClosed(g, A)
    BY <1>1, AncestorsFacts
  <1> HIDE DEF A
  <1>3. SUFFICES ASSUME null \notin A PROVE FALSE
    BY DEF A
  <1>4. A \subseteq Entities
    BY <1>1, <1>2, <1>3
  <1>5. T \subseteq Nat /\ T # {}
    BY <1>1, <1>2, <1>4
  <1>6. PICK x \in A : \A y \in A : rank[x] <= rank[y]
    <2>1. \E m \in T : \A t \in T : m <= t
      <3> HIDE DEF T
      <3> QED
        BY <1>5, LeastNumber
    <2> QED
      BY <2>1
  <1> DEFINE p == ParentOf(g, x)
  <1>7. p \in A /\ p # null /\ p \in Entities /\ x \in Entities
    BY <1>2, <1>3, <1>4, <1>6 DEF UpClosed
  <1>8. rank[p] < rank[x]
    <2>1. LinkedAt(g, valid, rank, x)
      BY <1>1, <1>7
    <2> QED
      BY <1>7, <2>1 DEF LinkedAt
  <1> QED
    BY <1>1, <1>6, <1>7, <1>8

LEMMA AllDrawn ==
    ASSUME NEW g, NEW valid, NEW rank, Linked(g, valid, rank), Tidy(g, valid)
    PROVE  Drawn(g, valid) = valid
  <1> DEFINE D == Drawn(g, valid)
             Hidden == valid \ D
             T == {rank[x] : x \in Hidden}
  <1>1. /\ g \in Graphs /\ valid \subseteq Entities /\ null \in Ref /\ null \notin valid
        /\ \A z \in Entities : z \in Ref /\ rank[z] \in Nat /\ z # null
        /\ \A z \in Ref : /\ z # null => z \in Entities
                          /\ ParentOf(g, z) \in Ref /\ PrevOf(g, z) \in Ref
                          /\ FirstOf(g, z) \in Ref
                          /\ Has(g, z) => z \in valid /\ LinkedAt(g, valid, rank, z)
    BY LinkedFacts
  <1>2. D \subseteq valid
    BY DrawnFacts
  <1>3. SUFFICES ASSUME Hidden # {} PROVE FALSE
    BY <1>2
  <1>4. ASSUME NEW x \in D, Has(g, x), NEW y \in Ref, y # null,
               y = FirstOf(g, x) \/ (y = NextOf(g, x) /\ ParentOf(g, x) # null)
        PROVE  y \in D
    <2>1. PICK r \in valid : Has(g, r) /\ g[r].parent = null /\ x \in Subtree(g, r)
      BY <1>4 DEF Drawn
    <2>2. r \in Entities /\ r \in Ref /\ ParentOf(g, r) = null
      BY <1>1, <2>1, Access
    <2>3. /\ Subtree(g, r) = Underneath(g, r) \cup {r}
          /\ FirstOf(g, r) \in Underneath(g, r) \cup {null}
          /\ \A z \in Underneath(g, r) : /\ FirstOf(g, z) \in Underneath(g, r) \cup {null}
                                         /\ NextOf(g, z) \in Underneath(g, r) \cup {null}
      BY <2>2, SubtreeFacts
    <2>4. y \in Subtree(g, r)
      BY <1>4, <2>1, <2>2, <2>3
    <2> QED
      BY <2>1, <2>4 DEF Drawn
  <1>5. ASSUME NEW x \in valid, ~Has(g, x) PROVE x \in D
    BY <1>5 DEF Drawn
  <1>6. ASSUME NEW x \in valid, Has(g, x), ParentOf(g, x) = null PROVE x \in D
    <2>1. x \in Entities /\ g[x].parent = null
      BY <1>1, <1>6, Access
    <2>2. x \in Subtree(g, x)
      BY <2>1, SubtreeFacts
    <2> QED
      BY <1>6, <2>1, <2>2 DEF Drawn
  <1> HIDE DEF D
  <1>7. T \subseteq Nat /\ T # {}
    BY <1>1, <1>3
  <1>8. PICK x \in Hidden : \A y \in Hidden : rank[x] <= rank[y]
    <2> HIDE DEF Hidden
    <2>1. \E m \in T : \A t \in T : m <= t
      <3> HIDE DEF T
      <3> QED
        BY <1>7, LeastNumber
    <2> QED
      BY <2>1
  <1> DEFINE p == ParentOf(g, x)
             b == PrevOf(g, x)
  <1>9. /\ x \in valid /\ x \notin D /\ x \in Entities /\ x \in Ref /\ x # null
        /\ Has(g, x) /\ p # null /\ p \in Ref /\ p \in Entities /\ b \in Ref
        /\ LinkedAt(g, valid, rank, x) /\ TidyAt(g, valid, x)
    BY <1>1, <1>5, <1>6, <1>8 DEF Tidy
  <1>10. CASE b = null
    <2>1. FirstOf(g, p) = x /\ Has(g, p) /\ rank[p] < rank[x] /\ p \in valid
      BY <1>1, <1>9, <1>10 DEF TidyAt, LinkedAt
    <2>2. p \in D
      BY <1>1, <1>8, <1>9, <2>1
    <2> QED
      BY <1>4, <1>9, <2>1, <2>2
  <1>11. CASE b # null
    <2>1. b \in valid /\ Has(g, b) /\ NextOf(g, b) = x /\ b \in Entities
      BY <1>1, <1>9, <1>11 DEF TidyAt, LinkedAt
    <2>2. LinkedAt(g, valid, rank, b)
      BY <1>1, <2>1
    <2>3. ParentOf(g, b) = p /\ rank[b] < rank[x]
      BY <1>9, <2>1, <2>2 DEF LinkedAt
    <2>4. b \in D
      BY <1>1, <1>8, <1>9, <2>1, <2>3
    <2> QED
      BY <1>4, <1>9, <2>1, <2>3, <2>4
  <1> QED
    BY <1>10, <1>11

-----------------------------------------------------------------------------
(***************************************************************************)
(* The inductive invariant.  What holds of the links in every state is     *)
(* Linked: links forward lead to a component that points back, and a rank  *)
(* grows along them and down from a parent, so that nothing is reached     *)
(* twice and no loop over links goes on for ever.  It speaks of every      *)
(* component, also of one that no list leads to any more, because OnDestroy*)
(* and OnConstruct are called for those, too.  A link back may dangle      *)
(* after links have been lost; that it never names an entity yet to be     *)
(* created (Aged) is what keeps a new entity from being linked to by       *)
(* accident.  Until links are lost, they are Tidy: the links back and up   *)
(* lead to where the links forward come from.                              *)
(*                                                                         *)
(* What the user can name in a drop is drawn, and whatever is drawn hangs  *)
(* together up to its root (DrawnFacts): that is why the test of           *)
(* IsParentOfEntity is enough to keep a drop from making a cycle.          *)
(***************************************************************************)
HierarchyInv ==
    /\ HierarchyTypeOK
    /\ Sound(h, alive, created)
    /\ lost = {} => Tidy(h, alive)

LEMMA HierarchyInitInv == HierarchyInit => HierarchyInv
  <1> SUFFICES ASSUME HierarchyInit PROVE HierarchyInv
    OBVIOUS
  <1>1. /\ created = 0 /\ alive = {} /\ doomed = null /\ lost = {}
        /\ h = [e \in Entities |-> NoHierarchy]
    BY DEF HierarchyInit
  <1>2. h \in Graphs
    BY <1>1 DEF Graphs
  <1>3. \A x \in Entities : ~Has(h, x) /\ x \in Ref
    BY <1>1 DEF Has, Ref
  <1>4. Aged(h, created)
    BY <1>1, <1>2, <1>3 DEF Aged, ParentOf, PrevOf, null
  <1>5. Linked(h, alive, [x \in Entities |-> 0])
    BY <1>1, <1>2, <1>3 DEF Linked
  <1>6. Tidy(h, alive)
    BY <1>1 DEF Tidy
  <1>7. created \in 0 .. MaxEntities
    BY <1>1, HierarchyAssumption
  <1>8. Sound(h, alive, created)
    BY <1>1, <1>4, <1>5, <1>7 DEF Sound
  <1>9. HierarchyTypeOK
    BY <1>1, <1>2, <1>7 DEF HierarchyTypeOK, Graphs
  <1> QED
    BY <1>6, <1>8, <1>9 DEF HierarchyInv

LEMMA NextInv ==
    ASSUME Sound(h', alive', created'), lost' = {} => Tidy(h', alive'),
           doomed' \in alive' \cup {null}, lost' \subseteq Losses
    PROVE  HierarchyInv'
  <1>1. /\ h' \in Graphs
        /\ \A x \in Entities \ alive' : h'[x] = NoHierarchy
    BY SoundFacts
  <1>2. created' \in 0 .. MaxEntities /\ alive' \subseteq 1 .. created'
    BY DEF Sound
  <1>3. HierarchyTypeOK'
    BY <1>1, <1>2 DEF HierarchyTypeOK, Graphs
  <1> QED
    BY <1>3 DEF HierarchyInv

LEMMA DrawnNow ==
    ASSUME HierarchyInv, NEW e \in Drawn(h, alive)
    PROVE  /\ e \in alive /\ e \in Entities /\ e # null
           /\ Has(h, e) => TidyAt(h, alive, e)
           /\ AllHave(h, e)
  <1>1. PICK rank : Linked(h, alive, rank)
    BY DEF HierarchyInv, Sound
  <1>2. e \in alive /\ (Has(h, e) => TidyAt(h, alive, e)) /\ AllHave(h, e)
    BY <1>1, DrawnFacts
  <1> QED
    BY <1>1, <1>2, LinkedFacts

LEMMA CreateEntityInv == HierarchyInv /\ CreateEntity => HierarchyInv'
  <1> SUFFICES ASSUME HierarchyInv, CreateEntity PROVE HierarchyInv'
    OBVIOUS
  <1>1. /\ created < MaxEntities /\ created' = created + 1
        /\ alive' = alive \cup {created + 1}
        /\ h' = h /\ doomed' = doomed /\ lost' = lost
    BY DEF CreateEntity, New
  <1>2. Sound(h, alive, created) /\ (lost = {} => Tidy(h, alive))
        /\ doomed \in alive \cup {null} /\ lost \subseteq Losses
    BY DEF HierarchyInv, HierarchyTypeOK
  <1>3. Sound(h', alive', created') /\ (Tidy(h, alive) => Tidy(h', alive'))
    BY <1>1, <1>2, CreateKeeps
  <1> QED
    BY <1>1, <1>2, <1>3, NextInv

LEMMA AddChildInv ==
    ASSUME HierarchyInv, NEW e \in Drawn(h, alive), AddChild(e)
    PROVE  HierarchyInv'
  <1> DEFINE n == created + 1
             v == alive \cup {n}
  <1>1. /\ created < MaxEntities /\ created' = n
        /\ alive' = v
        /\ h' = Attach(h, v, n, e, TRUE) /\ doomed' = doomed /\ lost' = lost
    BY DEF AddChild, New
  <1>2. Sound(h, alive, created) /\ (lost = {} => Tidy(h, alive))
        /\ doomed \in alive \cup {null} /\ lost \subseteq Losses
    BY DEF HierarchyInv, HierarchyTypeOK
  <1>3. e \in alive /\ e \in Entities /\ AllHave(h, e)
    BY DrawnNow
  <1>4. /\ Sound(h, v, n) /\ n \in Entities /\ n \notin alive /\ ~Has(h, n)
        /\ Tidy(h, alive) => Tidy(h, v)
    BY <1>1, <1>2, CreateKeeps
  <1>5. e \notin Descendants(h, n)
    <2>1. n # null
      BY <1>4 DEF Entities, null
    <2>2. n \notin Ancestors(h, e)
      BY <1>4, <2>1, <1>3 DEF AllHave
    <2> QED
      BY <1>3, <1>4, <2>2 DEF Descendants
  <1> HIDE DEF n
  <1>6. Sound(h', v, n) /\ (Tidy(h, v) => Tidy(h', v))
    <2>1. n \in v /\ e \in v /\ n # e
      BY <1>3, <1>4
    <2> HIDE DEF v
    <2>2. /\ Sound(Attach(h, v, n, e, TRUE), v, n)
          /\ Tidy(h, v) => Tidy(Attach(h, v, n, e, TRUE), v)
      BY <1>4, <1>5, <2>1, MoveKeeps
    <2> QED
      BY <1>1, <2>2
  <1> QED
    BY <1>1, <1>2, <1>4, <1>6, NextInv

LEMMA DropInv ==
    ASSUME HierarchyInv, NEW e \in Drawn(h, alive), NEW node \in Drawn(h, alive), Drop(e, node)
    PROVE  HierarchyInv'
  <1>1. /\ e # node
        /\ Has(h, e) => e \notin Ancestors(h, node)
        /\ h' = Attach(h, alive, e, node, TRUE)
        /\ created' = created /\ alive' = alive /\ doomed' = doomed /\ lost' = lost
    BY DEF Drop, Acceptable, IsParentOfEntity
  <1>2. Sound(h, alive, created) /\ (lost = {} => Tidy(h, alive))
        /\ doomed \in alive \cup {null} /\ lost \subseteq Losses
    BY DEF HierarchyInv, HierarchyTypeOK
  <1>3. /\ e \in alive /\ e # null /\ (Has(h, e) => TidyAt(h, alive, e))
        /\ node \in alive /\ AllHave(h, node)
    BY DrawnNow
  <1>4. node \notin Descendants(h, e)
    BY <1>1, <1>3 DEF AllHave, Descendants
  <1>5. /\ Sound(Attach(h, alive, e, node, TRUE), alive, created)
        /\ Tidy(h, alive) => Tidy(Attach(h, alive, e, node, TRUE), alive)
    BY <1>1, <1>2, <1>3, <1>4, MoveKeeps
  <1> QED
    BY <1>1, <1>2, <1>5, NextInv

LEMMA DropOutsideInv ==
    ASSUME HierarchyInv, NEW e \in Drawn(h, alive), DropOutside(e)
    PROVE  HierarchyInv'
  <1>1. /\ Has(h, e) /\ h' = Detached(h, alive, e)
        /\ created' = created /\ alive' = alive /\ doomed' = doomed /\ lost' = lost
    BY DEF DropOutside, Detached
  <1>2. Sound(h, alive, created) /\ (lost = {} => Tidy(h, alive))
        /\ doomed \in alive \cup {null} /\ lost \subseteq Losses
    BY DEF HierarchyInv, HierarchyTypeOK
  <1>3. e \in alive /\ TidyAt(h, alive, e)
    BY <1>1, DrawnNow
  <1>4. /\ Sound(Detached(h, alive, e), alive, created)
        /\ Tidy(h, alive) => Tidy(Detached(h, alive, e), alive)
    BY <1>1, <1>2, <1>3, OutsideKeeps
  <1> QED
    BY <1>1, <1>2, <1>4, NextInv

LEMMA DropOnPanelAreaInv ==
    ASSUME HierarchyInv, NEW e \in Drawn(h, alive), DropOnPanelArea(e)
    PROVE  HierarchyInv'
  <1>1. /\ Has(h, e) /\ h' = WithoutComponent(Detached(h, alive, e), e)
        /\ lost' = IF h[e].first = null THEN lost ELSE lost \cup {"panel"}
        /\ created' = created /\ alive' = alive /\ doomed' = doomed
    BY DEF DropOnPanelArea, Detached, WithoutComponent
  <1>2. Sound(h, alive, created) /\ (lost = {} => Tidy(h, alive))
        /\ doomed \in alive \cup {null} /\ lost \subseteq Losses
    BY DEF HierarchyInv, HierarchyTypeOK
  <1>3. e \in alive /\ TidyAt(h, alive, e) /\ e \in Entities
    BY <1>1, DrawnNow
  <1>4. FirstOf(h, e) = h[e].first
    BY <1>1 DEF FirstOf
  <1> DEFINE k == WithoutComponent(Detached(h, alive, e), e)
  <1>5. Sound(k, alive, created) /\ (Tidy(h, alive) /\ FirstOf(h, e) = null => Tidy(k, alive))
    BY <1>1, <1>2, <1>3, PanelKeeps
  <1>6. lost' \subseteq Losses /\ (lost' = {} => lost = {} /\ FirstOf(h, e) = null)
    BY <1>1, <1>2, <1>4 DEF Losses
  <1> HIDE DEF k
  <1>7. h' = k
    BY <1>1 DEF k
  <1> QED
    BY <1>1, <1>2, <1>5, <1>6, <1>7, NextInv

LEMMA DestroyEntityInv ==
    ASSUME HierarchyInv, NEW e \in Entities, DestroyEntity(e), doomed' = null, lost' = lost
    PROVE  HierarchyInv'
  <1> DEFINE k == DestroyAll([alive |-> alive, h |-> h], PostOrder(h, e))
  <1>1. alive' = k.alive /\ h' = k.h /\ created' = created
    BY DEF DestroyEntity
  <1>2. Sound(h, alive, created) /\ (lost = {} => Tidy(h, alive)) /\ lost \subseteq Losses
    BY DEF HierarchyInv, HierarchyTypeOK
  <1>3. Sound(k.h, k.alive, created) /\ (Tidy(h, alive) => Tidy(k.h, k.alive))
    BY <1>2, DeleteKeeps
  <1> QED
    BY <1>1, <1>2, <1>3, NextInv

LEMMA CopyMapFacts ==
    ASSUME HierarchyInv, NEW e \in Entities
    PROVE  Copying(CopyMap(e), Subtree(h, e), created, created + Len(PostOrder(h, e)))
  <1> DEFINE list == PostOrder(h, e)
             N == Len(list)
             L == ToSet(list)
             At(x) == CHOOSE i \in DOMAIN list : list[i] = x
  <1>1. PICK rank : Linked(h, alive, rank)
    BY DEF HierarchyInv, Sound
  <1>2. list \in Seq(Entities)
    BY <1>1, SubtreeFacts
  <1>3. created \in Nat
    BY DEF HierarchyInv, HierarchyTypeOK
  <1>4. CopyMap(e) = [x \in L |-> created + 1 + (N - At(x))]
    BY DEF CopyMap, New
  <1>5. Subtree(h, e) = L
    BY DEF Subtree
  <1> HIDE DEF list
  <1>6. N \in Nat /\ DOMAIN list = 1 .. N
    BY <1>2
  <1>7. ASSUME NEW x \in L PROVE At(x) \in 1 .. N /\ list[At(x)] = x
    <2>1. \E i \in DOMAIN list : list[i] = x
      BY DEF ToSet
    <2> QED
      BY <1>6, <2>1
  <1> HIDE DEF At, L, N
  <1> DEFINE copy == [x \in L |-> created + 1 + (N - At(x))]
  <1>8. ASSUME NEW x \in L PROVE copy[x] \in created + 1 .. created + N
    BY <1>3, <1>6, <1>7
  <1>9. ASSUME NEW x \in L, NEW y \in L, copy[x] = copy[y] PROVE x = y
    <2>1. At(x) \in Nat /\ At(y) \in Nat
      BY <1>6, <1>7
    <2>2. At(x) = At(y)
      BY <1>3, <1>6, <1>9, <2>1
    <2> QED
      BY <1>7, <2>2
  <1>10. Copying(copy, L, created, created + N)
    BY <1>8, <1>9 DEF Copying
  <1> QED
    BY <1>4, <1>5, <1>10 DEF N, list

LEMMA DuplicateInv ==
    ASSUME HierarchyInv, NEW e \in alive, NEW node \in alive \cup {null},
           NEW t \in alive \cup {null}, DuplicateEntity(e, node, t)
    PROVE  HierarchyInv'
  <1> DEFINE copy == CopyMap(e)
             d == created + Len(PostOrder(h, e))
             g == Copies(h, e, copy)
             v == alive \cup Range(copy)
             ce == copy[e]
  <1>1. /\ created' = d /\ d <= MaxEntities /\ alive' = v
        /\ h' = IF node = null THEN g ELSE Attach(g, v, ce, node, FALSE)
        /\ doomed' = t
        /\ lost' = IF node = null \/ Has(h, e) THEN lost ELSE lost \cup {"paste"}
    BY DEF DuplicateEntity
  <1>2. /\ Sound(h, alive, created) /\ (lost = {} => Tidy(h, alive))
        /\ lost \subseteq Losses /\ created \in Nat
    BY DEF HierarchyInv, HierarchyTypeOK
  <1>3. e \in Entities /\ alive \subseteq Entities /\ null \notin alive
    BY <1>2, SoundFacts DEF Entities, null
  <1>4. Copying(copy, Subtree(h, e), created, d)
    BY <1>3, CopyMapFacts
  <1>5. d \in 0 .. MaxEntities /\ created <= d
    <2>1. Len(PostOrder(h, e)) \in Nat
      <3>1. PICK rank : Linked(h, alive, rank)
        BY <1>2 DEF Sound
      <3>2. PostOrder(h, e) \in Seq(Entities)
        BY <1>3, <3>1, SubtreeFacts
      <3> QED
        BY <3>2
    <2> QED
      BY <1>1, <1>2, <2>1, HierarchyAssumption
  <1> HIDE DEF copy, d
  <1>6. /\ Sound(g, v, d)
        /\ CopyOK(h, g, v, e, copy)
        /\ alive \cap Range(copy) = {}
        /\ ce \in v
    BY <1>2, <1>4, <1>5, CopiedKeeps
  <1> HIDE DEF g
  <1>7. v \ Range(copy) = alive
    BY <1>6
  <1>8. /\ Tidy(h, alive) => Tidy(g, v)
        /\ Below(g, Range(copy), ce)
        /\ ParentOf(g, ce) = null /\ PrevOf(g, ce) = null
        /\ Has(g, ce) <=> Has(h, e)
        /\ ~Has(h, e) => \A x \in Entities : ParentOf(g, x) # ce /\ PrevOf(g, x) # ce
    BY <1>6, <1>7 DEF CopyOK
  <1>9. ce \in Range(copy)
    BY <1>8 DEF Below
  <1>10. lost' \subseteq Losses /\ (lost' = {} => lost = {} /\ (node = null \/ Has(h, e)))
    BY <1>1, <1>2 DEF Losses
  <1>11. doomed' \in alive' \cup {null}
    BY <1>1
  <1>12. CASE node = null
    BY <1>1, <1>2, <1>6, <1>8, <1>10, <1>11, <1>12, NextInv
  <1>13. CASE node # null
    <2> DEFINE k == Attach(g, v, ce, node, FALSE)
    <2>1. node \in v /\ node \notin Range(copy) /\ node # ce
      BY <1>6, <1>9, <1>13
    <2>2. /\ Sound(k, v, d)
          /\ Has(g, ce) /\ Tidy(g, v) => Tidy(k, v)
      <3> HIDE DEF v, ce
      <3> QED
        BY <1>6, <1>8, <2>1, PasteKeeps
    <2>3. h' = k
      BY <1>1, <1>13
    <2> HIDE DEF k
    <2>4. lost' = {} => Tidy(h', alive')
      BY <1>1, <1>2, <1>8, <1>10, <1>13, <2>2, <2>3
    <2>5. Sound(h', alive', created')
      BY <1>1, <2>2, <2>3
    <2> QED
      BY <1>10, <1>11, <2>4, <2>5, NextInv
  <1> QED
    BY <1>12, <1>13

LEMMA ExitSceneInv == HierarchyInv /\ ExitScene => HierarchyInv'
  <1> SUFFICES ASSUME HierarchyInv, ExitScene PROVE HierarchyInv'
    OBVIOUS
  <1>1. /\ created' = 0 /\ alive' = {} /\ doomed' = null /\ lost' = {}
        /\ h' = [e \in Entities |-> NoHierarchy]
    BY DEF ExitScene, Ready
  <1> DEFINE g == [e \in Entities |-> NoHierarchy]
  <1>2. g \in Graphs
    BY DEF Graphs
  <1>3. \A x \in Entities : ~Has(g, x) /\ x \in Ref
    BY DEF Has, Ref
  <1>4. Aged(g, 0)
    BY <1>2, <1>3 DEF Aged, ParentOf, PrevOf, null
  <1>5. Linked(g, {}, [x \in Entities |-> 0])
    BY <1>2, <1>3 DEF Linked
  <1>6. Tidy(g, {})
    BY DEF Tidy
  <1>7. Sound(g, {}, 0)
    BY <1>4, <1>5, HierarchyAssumption DEF Sound
  <1> HIDE DEF g
  <1>8. h' = g
    BY <1>1 DEF g
  <1> QED
    BY <1>1, <1>6, <1>7, <1>8, NextInv

LEMMA LoadSceneInv ==
    ASSUME HierarchyInv, NEW n \in Entities, LoadScene(n)
    PROVE  HierarchyInv'
  <1> DEFINE P(x) == IF x = 1 THEN null ELSE 1
             F(x) == IF x = 1 THEN 2 ELSE null
             X(x) == IF x = 1 \/ x = n THEN null ELSE x + 1
             B(x) == IF x = 1 \/ x = 2 THEN null ELSE x - 1
             In(x) == n >= 2 /\ x <= n
             g == [x \in Entities |-> IF In(x) THEN Component(P(x), F(x), X(x), B(x)) ELSE NoHierarchy]
             v == 1 .. n
             rank == [x \in Entities |-> x]
  <1>1. /\ created' = n /\ alive' = v /\ doomed' = null /\ lost' = lost
        /\ h' = [e \in Entities |->
               IF n < 2 \/ e > n THEN NoHierarchy
               ELSE IF e = 1 THEN Component(null, 2, null, null)
               ELSE Component(1, null, IF e = n THEN null ELSE e + 1,
                                       IF e = 2 THEN null ELSE e - 1)]
    BY DEF LoadScene, Ready
  <1>2. /\ n \in Nat /\ n >= 1 /\ n <= MaxEntities /\ MaxEntities \in Nat
        /\ Entities = 1 .. MaxEntities /\ null = 0 /\ Ref = 0 .. MaxEntities
    BY HierarchyAssumption DEF Entities, null, Ref
  <1>3. h' = g
    <2>1. ASSUME NEW x \in Entities PROVE h'[x] = g[x]
      <3>1. In(x) <=> ~(n < 2 \/ x > n)
        BY <1>2
      <3> QED
        BY <1>1, <3>1
    <2>2. h' = [x \in Entities |-> h'[x]]
      BY <1>1
    <2> HIDE DEF g
    <2>3. g = [x \in Entities |-> g[x]]
      BY DEF g
    <2> QED
      BY <2>1, <2>2, <2>3
  <1>4. ASSUME NEW x \in Entities, In(x)
        PROVE  /\ P(x) \in Ref /\ F(x) \in Ref /\ X(x) \in Ref /\ B(x) \in Ref
               /\ P(x) \in 0 .. n /\ B(x) \in 0 .. n
               /\ X(x) # null => X(x) = x + 1 /\ In(X(x)) /\ X(x) \in Entities /\ x # 1
               /\ F(x) # null => x = 1 /\ F(x) = 2 /\ In(2) /\ 2 \in Entities
               /\ B(x) # null => B(x) = x - 1 /\ In(B(x)) /\ B(x) \in Entities /\ B(x) # 1 /\ x # 1
               /\ P(x) # null => P(x) = 1 /\ x > 1 /\ In(1) /\ 1 \in Entities
               /\ P(x) = null => x = 1
    BY <1>2, <1>4
  <1>5. ASSUME NEW x \in Entities
        PROVE  /\ g[x] \in Hierarchy \cup {NoHierarchy}
               /\ Has(g, x) <=> In(x)
               /\ In(x) => /\ ParentOf(g, x) = P(x) /\ FirstOf(g, x) = F(x)
                           /\ NextOf(g, x) = X(x) /\ PrevOf(g, x) = B(x)
    <2>1. x # null
      BY <1>2
    <2>2. CASE In(x)
      <3>1. P(x) \in Ref /\ F(x) \in Ref /\ X(x) \in Ref /\ B(x) \in Ref
        BY <1>4, <2>2
      <3>2. g[x] = Component(P(x), F(x), X(x), B(x))
        BY <2>2
      <3> HIDE DEF g, P, F, X, B
      <3>3. Has(g, x)
        BY <2>1, <3>1, <3>2, ComponentFields DEF Has
      <3> QED
        BY <2>2, <3>1, <3>2, <3>3, ComponentFields DEF ParentOf, FirstOf, NextOf, PrevOf
    <2>3. CASE ~In(x)
      <3>1. g[x] = NoHierarchy
        BY <2>3
      <3> HIDE DEF g
      <3> QED
        BY <2>3, <3>1 DEF Has
    <2> QED
      BY <2>2, <2>3
  <1>6. g \in Graphs
    <2>1. g = [x \in Entities |-> g[x]]
      OBVIOUS
    <2> HIDE DEF g
    <2> QED
      BY <1>5, <2>1 DEF Graphs
  <1> HIDE DEF g
  <1>7. ASSUME NEW x \in Entities, Has(g, x)
        PROVE  LinkedAt(g, v, rank, x) /\ TidyAt(g, v, x)
    <2>1. /\ In(x) /\ x \in v
          /\ ParentOf(g, x) = P(x) /\ FirstOf(g, x) = F(x)
          /\ NextOf(g, x) = X(x) /\ PrevOf(g, x) = B(x)
      BY <1>2, <1>5, <1>7
    <2>2. X(x) # null => /\ Has(g, X(x)) /\ PrevOf(g, X(x)) = x
                         /\ ParentOf(g, X(x)) = P(x) /\ rank[x] < rank[X(x)]
      <3>1. SUFFICES ASSUME X(x) # null
                     PROVE  /\ Has(g, X(x)) /\ PrevOf(g, X(x)) = x
                            /\ ParentOf(g, X(x)) = P(x) /\ rank[x] < rank[X(x)]
        OBVIOUS
      <3>2. X(x) = x + 1 /\ In(x + 1) /\ x + 1 \in Entities /\ x # 1
        BY <1>4, <2>1, <3>1
      <3>3. Has(g, x + 1) /\ PrevOf(g, x + 1) = B(x + 1) /\ ParentOf(g, x + 1) = P(x + 1)
        BY <1>5, <3>2
      <3>4. B(x + 1) = x /\ P(x + 1) = P(x) /\ rank[x] < rank[x + 1]
        BY <1>2, <3>2
      <3> QED
        BY <3>2, <3>3, <3>4
    <2>3. F(x) # null => /\ Has(g, F(x)) /\ PrevOf(g, F(x)) = null /\ ParentOf(g, F(x)) = x
      <3>1. SUFFICES ASSUME F(x) # null
                     PROVE  Has(g, F(x)) /\ PrevOf(g, F(x)) = null /\ ParentOf(g, F(x)) = x
        OBVIOUS
      <3>2. x = 1 /\ F(x) = 2 /\ In(2) /\ 2 \in Entities
        BY <1>4, <2>1, <3>1
      <3>3. Has(g, 2) /\ PrevOf(g, 2) = B(2) /\ ParentOf(g, 2) = P(2)
        BY <1>5, <3>2
      <3> QED
        BY <3>2, <3>3
    <2>4. B(x) # null => B(x) \in v /\ Has(g, B(x)) /\ NextOf(g, B(x)) = x
      <3>1. SUFFICES ASSUME B(x) # null PROVE B(x) \in v /\ Has(g, B(x)) /\ NextOf(g, B(x)) = x
        OBVIOUS
      <3>2. B(x) = x - 1 /\ In(x - 1) /\ x - 1 \in Entities /\ x - 1 # 1
        BY <1>4, <2>1, <3>1
      <3>3. Has(g, x - 1) /\ NextOf(g, x - 1) = X(x - 1)
        BY <1>5, <3>2
      <3>4. X(x - 1) = x /\ x - 1 \in v
        BY <1>2, <2>1, <3>2
      <3> QED
        BY <3>2, <3>3, <3>4
    <2>5. P(x) # null => /\ Has(g, P(x)) /\ rank[P(x)] < rank[x]
                         /\ B(x) = null => FirstOf(g, P(x)) = x
      <3>1. SUFFICES ASSUME P(x) # null
                     PROVE  /\ Has(g, P(x)) /\ rank[P(x)] < rank[x]
                            /\ B(x) = null => FirstOf(g, P(x)) = x
        OBVIOUS
      <3>2. P(x) = 1 /\ x > 1 /\ In(1) /\ 1 \in Entities
        BY <1>4, <2>1, <3>1
      <3>3. Has(g, 1) /\ FirstOf(g, 1) = F(1)
        BY <1>5, <3>2
      <3>4. B(x) = null => x = 2
        BY <1>2, <3>2
      <3> QED
        BY <3>2, <3>3, <3>4
    <2>6. P(x) = null => B(x) = null /\ X(x) = null
      BY <1>4, <2>1
    <2>7. null \notin v
      BY <1>2
    <2> HIDE DEF P, F, X, B, rank, v
    <2>8. LinkedAt(g, v, rank, x)
      BY <2>1, <2>2, <2>3, <2>4, <2>5, <2>6, <2>7 DEF LinkedAt
    <2>9. TidyAt(g, v, x)
      BY <2>1, <2>4, <2>5 DEF TidyAt
    <2> QED
      BY <2>8, <2>9
  <1>8. rank \in [Entities -> Nat] /\ v \subseteq Entities
    BY <1>2
  <1>9. Linked(g, v, rank)
    BY <1>6, <1>7, <1>8 DEF Linked
  <1>10. Tidy(g, v)
    BY <1>7, <1>8 DEF Tidy
  <1>11. Aged(g, n)
    <2>1. ASSUME NEW x \in Entities PROVE ParentOf(g, x) <= n /\ PrevOf(g, x) <= n
      <3>1. CASE In(x)
        <4>1. ParentOf(g, x) \in 0 .. n /\ PrevOf(g, x) \in 0 .. n
          BY <1>4, <1>5, <3>1
        <4> QED
          BY <1>2, <4>1
      <3>2. CASE ~In(x)
        <4>1. ~Has(g, x) /\ x \in Ref
          BY <1>5, <3>2 DEF Ref
        <4>2. ParentOf(g, x) = null /\ PrevOf(g, x) = null
          BY <1>6, <4>1, Access
        <4> QED
          BY <1>2, <4>2
      <3> QED
        BY <3>1, <3>2
    <2> QED
      BY <2>1 DEF Aged
  <1>12. Sound(g, v, n)
    <2>1. n \in 0 .. MaxEntities
      BY <1>2
    <2> QED
      BY <1>9, <1>11, <2>1 DEF Sound
  <1>13. lost \subseteq Losses
    BY DEF HierarchyInv, HierarchyTypeOK
  <1> QED
    BY <1>1, <1>3, <1>10, <1>12, <1>13, NextInv

LEMMA HierarchyNextInv == HierarchyInv /\ [HierarchyNext]_hierarchyVars => HierarchyInv'
  <1> SUFFICES ASSUME HierarchyInv, [HierarchyNext]_hierarchyVars PROVE HierarchyInv'
    OBVIOUS
  <1>1. /\ alive \subseteq Entities /\ null \notin alive
        /\ doomed \in alive \cup {null}
    <2>1. Sound(h, alive, created) /\ doomed \in alive \cup {null}
      BY DEF HierarchyInv, HierarchyTypeOK
    <2> QED
      BY <2>1, SoundFacts DEF Entities, null
  <1>2. \A e \in Drawn(h, alive) : e \in alive
    BY DrawnNow
  <1>3. CASE CreateEntity
    BY <1>3, CreateEntityInv
  <1>4. ASSUME NEW e \in Drawn(h, alive), AddChild(e) PROVE HierarchyInv'
    BY <1>4, AddChildInv
  <1>5. ASSUME NEW e \in Drawn(h, alive), DropOutside(e) PROVE HierarchyInv'
    BY <1>5, DropOutsideInv
  <1>6. ASSUME NEW e \in Drawn(h, alive), DropOnPanelArea(e) PROVE HierarchyInv'
    BY <1>6, DropOnPanelAreaInv
  <1>7. ASSUME NEW e \in Drawn(h, alive), Delete(e) PROVE HierarchyInv'
    <2>1. DestroyEntity(e) /\ doomed' = null /\ lost' = lost
      BY <1>7 DEF Delete, Ready
    <2> QED
      BY <1>1, <1>2, <2>1, DestroyEntityInv
  <1>8. ASSUME NEW e \in Drawn(h, alive), Duplicate(e) PROVE HierarchyInv'
    BY <1>2, <1>8, DuplicateInv DEF Duplicate
  <1>9. ASSUME NEW e \in Drawn(h, alive), NEW node \in Drawn(h, alive), Drop(e, node)
        PROVE  HierarchyInv'
    BY <1>9, DropInv
  <1>10. ASSUME NEW e \in alive, NEW cut \in BOOLEAN, PasteRoot(e, cut) PROVE HierarchyInv'
    <2>1. DuplicateEntity(e, null, IF cut THEN e ELSE null)
      BY <1>10 DEF PasteRoot
    <2> QED
      BY <2>1, DuplicateInv
  <1>11. ASSUME NEW e \in alive, NEW cut \in BOOLEAN, NEW node \in Drawn(h, alive),
                Paste(e, node, cut)
         PROVE  HierarchyInv'
    <2>1. DuplicateEntity(e, node, IF cut THEN node ELSE null) /\ node \in alive
      BY <1>2, <1>11 DEF Paste
    <2> QED
      BY <2>1, DuplicateInv
  <1>12. CASE DestroyDoomed
    <2>1. doomed \in Entities /\ DestroyEntity(doomed) /\ doomed' = null /\ lost' = lost
      BY <1>1, <1>12 DEF DestroyDoomed
    <2> QED
      BY <2>1, DestroyEntityInv
  <1>13. CASE ExitScene
    BY <1>13, ExitSceneInv
  <1>14. ASSUME NEW n \in Entities, LoadScene(n) PROVE HierarchyInv'
    BY <1>14, LoadSceneInv
  <1>15. CASE UNCHANGED hierarchyVars
    BY <1>15 DEF hierarchyVars, HierarchyInv, HierarchyTypeOK
  <1> QED
    BY <1>3, <1>4, <1>5, <1>6, <1>7, <1>8, <1>9, <1>10, <1>11, <1>12, <1>13, <1>14, <1>15
       DEF HierarchyNext

LEMMA HierarchyInvWellLinked == HierarchyInv => WellLinked
  <1> SUFFICES ASSUME HierarchyInv PROVE WellLinked
    OBVIOUS
  <1>1. PICK rank : Linked(h, alive, rank)
    BY DEF HierarchyInv, Sound
  <1>2. /\ h \in Graphs /\ alive \subseteq Entities /\ null \notin alive
        /\ \A x \in Entities : x \in Ref
        /\ \A x \in Ref : Has(h, x) => x \in Entities /\ x \in alive /\ LinkedAt(h, alive, rank, x)
    BY <1>1, LinkedFacts
  <1>3. ASSUME NEW x \in Ref, Has(h, x)
        PROVE  /\ h[x].parent = ParentOf(h, x) /\ h[x].first = FirstOf(h, x)
               /\ h[x].next = NextOf(h, x) /\ h[x].prev = PrevOf(h, x)
               /\ FirstOf(h, x) \in Ref /\ NextOf(h, x) \in Ref /\ PrevOf(h, x) \in Ref
               /\ ParentOf(h, x) \in Ref
    BY <1>2, <1>3, Access
  <1>4. ForwardLinks
    <2>1. ASSUME NEW e \in Entities, Has(h, e)
          PROVE  /\ h[e].next # null => Has(h, h[e].next) /\ h[h[e].next].prev = e
                 /\ h[e].first # null => Has(h, h[e].first) /\ h[h[e].first].prev = null
                 /\ e \notin UNION {Subtree(h, x) : x \in GetChildren(h, e)}
      <3>1. e \in Ref /\ LinkedAt(h, alive, rank, e)
        BY <1>2, <2>1
      <3>2. h[e].next # null => Has(h, h[e].next) /\ h[h[e].next].prev = e
        BY <1>3, <2>1, <3>1 DEF LinkedAt
      <3>3. h[e].first # null => Has(h, h[e].first) /\ h[h[e].first].prev = null
        BY <1>3, <2>1, <3>1 DEF LinkedAt
      <3>4. \A x \in GetChildren(h, e) : e \notin Subtree(h, x)
        BY <1>1, ForwardHolds
      <3> QED
        BY <3>2, <3>3, <3>4
    <2> QED
      BY <2>1 DEF ForwardLinks
  <1>5. SiblingLinks
    <2>1. ASSUME lost = {}, NEW e \in Entities, Has(h, e)
          PROVE  /\ h[e].prev # null => Has(h, h[e].prev) /\ h[h[e].prev].next = e
                 /\ \A x \in GetChildren(h, e) : h[x].parent = e
                 /\ h[e].parent # null => e \in GetChildren(h, h[e].parent)
      <3>1. Tidy(h, alive)
        BY <2>1 DEF HierarchyInv
      <3>2. e \in Ref /\ LinkedAt(h, alive, rank, e) /\ TidyAt(h, alive, e)
        BY <1>2, <2>1, <3>1 DEF Tidy
      <3>3. h[e].prev # null => Has(h, h[e].prev) /\ h[h[e].prev].next = e
        BY <1>3, <2>1, <3>2 DEF LinkedAt, TidyAt
      <3>4. ASSUME NEW x \in GetChildren(h, e) PROVE h[x].parent = e
        <4>1. Has(h, x) /\ ParentOf(h, x) = e
          BY <1>1, ParentsAgree
        <4> QED
          BY <4>1 DEF ParentOf
      <3>5. h[e].parent # null => e \in GetChildren(h, h[e].parent)
        BY <1>1, <1>3, <2>1, <3>1, <3>2, ListedByParent
      <3> QED
        BY <3>3, <3>4, <3>5
    <2> QED
      BY <2>1 DEF SiblingLinks
  <1>6. Acyclic
    BY <1>1, <1>2, NoCycle DEF Acyclic
  <1> QED
    BY <1>4, <1>5, <1>6 DEF WellLinked, HierarchyInv

LEMMA HierarchyInvDrawn == HierarchyInv => EveryEntityDrawn
  <1> SUFFICES ASSUME HierarchyInv, lost = {} PROVE Drawn(h, alive) = alive
    BY DEF EveryEntityDrawn
  <1>1. PICK rank : Linked(h, alive, rank)
    BY DEF HierarchyInv, Sound
  <1>2. Tidy(h, alive)
    BY DEF HierarchyInv
  <1> QED
    BY <1>1, <1>2, AllDrawn

\* The child lists that OnConstruct, OnDestroy and Reparent keep stay lists, each
\* entity is in at most one, and nothing is its own ancestor; and the links back
\* and up agree with them as long as no operation has lost links.  So after any
\* sequence of drops, pastes and deletions the walks of the panel and of
\* SceneGraph::Update end and meet an entity only once.
THEOREM WellLinkedAlways == HierarchySpec => []WellLinked
  BY HierarchyInitInv, HierarchyNextInv, HierarchyInvWellLinked, PTL DEF HierarchySpec

\* Only a paste of an entity without Hierarchy and a drop of an entity with
\* children on the panel's area can make an entity of the scene drop out of the
\* panel's tree and of SceneGraph::Update.
THEOREM EveryEntityAlwaysDrawn == HierarchySpec => []EveryEntityDrawn
  BY HierarchyInitInv, HierarchyNextInv, HierarchyInvDrawn, PTL DEF HierarchySpec

-----------------------------------------------------------------------------
(***************************************************************************)
(* The promise of the hierarchy: what a list of children is, and what      *)
(* happens to it                                                           *)
(***************************************************************************)
\* What follows the last of a list is null, as in the links.
Item(s, i) == IF i \in 1 .. Len(s) THEN s[i] ELSE null

\* s is the list that starts at x.
Spells(g, s, x) ==
    /\ s \in Seq(Entities)
    /\ Item(s, 1) = x
    /\ \A i \in 1 .. Len(s) : NextOf(g, s[i]) = Item(s, i + 1)

LEMMA SpellsLonger ==
    ASSUME NEW g, NEW y \in Entities, NEW s, Spells(g, s, NextOf(g, y))
    PROVE  Spells(g, <<>> \o <<y>> \o s, y)
  <1> DEFINE t == <<>> \o <<y>> \o s
  <1>1. s \in Seq(Entities) /\ <<>> \in Seq(Entities)
    BY DEF Spells
  <1>2. /\ t \in Seq(Entities) /\ Len(s) \in Nat /\ Len(t) = 1 + Len(s)
        /\ t[1] = y
        /\ \A i \in 1 .. Len(s) : t[1 + i] = s[i]
    <2>1. Len(<<>>) = 0
      OBVIOUS
    <2> QED
      BY <1>1, <2>1, Joined
  <1> HIDE DEF t
  <1>3. \A i \in 1 .. Len(t) : i = 1 \/ (i - 1 \in 1 .. Len(s) /\ t[i] = s[i - 1])
    <2>1. ASSUME NEW i \in 1 .. Len(t), i # 1 PROVE i - 1 \in 1 .. Len(s) /\ t[i] = s[i - 1]
      <3>1. i - 1 \in 1 .. Len(s) /\ 1 + (i - 1) = i
        BY <1>2, <2>1
      <3> QED
        BY <1>2, <3>1
    <2> QED
      BY <2>1
  <1>4. \A i \in 1 .. Len(s) + 1 : Item(t, i + 1) = Item(s, i)
    <2> TAKE i \in 1 .. Len(s) + 1
    <2>1. CASE i \in 1 .. Len(s)
      BY <1>2, <2>1 DEF Item
    <2>2. CASE i = Len(s) + 1
      BY <1>2, <2>2 DEF Item
    <2> QED
      BY <1>2, <2>1, <2>2
  <1>5. ASSUME NEW i \in 1 .. Len(t) PROVE NextOf(g, t[i]) = Item(t, i + 1)
    <2>1. CASE i = 1
      BY <1>2, <1>4, <2>1 DEF Spells
    <2>2. CASE i # 1
      <3>1. i - 1 \in 1 .. Len(s) /\ t[i] = s[i - 1] /\ i \in 1 .. Len(s) + 1
        BY <1>2, <1>3, <2>2
      <3>2. NextOf(g, s[i - 1]) = Item(s, (i - 1) + 1)
        BY <3>1 DEF Spells
      <3>3. (i - 1) + 1 = i
        BY <3>1
      <3> QED
        BY <1>4, <3>1, <3>2, <3>3
    <2> QED
      BY <2>1, <2>2
  <1>6. Item(t, 1) = y
    BY <1>2 DEF Item
  <1>7. Spells(g, t, y)
    BY <1>2, <1>5, <1>6 DEF Spells
  <1> QED
    BY <1>7 DEF t

LEMMA SiblingsSpelled ==
    ASSUME NEW g, NEW valid, NEW rank, Linked(g, valid, rank), NEW x \in Ref
    PROVE  Spells(g, Siblings(g, x), x)
  <1> DEFINE N == MaxEntities
             left == Nothing
             right == Nexts(g)
             Deep(y) == Cardinality(Above(rank, y))
  <1>1. N \in Nat
    BY HierarchyAssumption
  <1>2. /\ left \in [Ref -> Ref] /\ right \in [Ref -> Ref]
        /\ \A y \in Ref : right[y] = NextOf(g, y) /\ left[y] = null
        /\ rank \in [Entities -> Nat] /\ Rising(rank, right)
    BY LinkFunctions
  <1> HIDE DEF left, right
  <1>3. PICK t : IsTree(t, left, right) /\ \A y \in Ref : InOrder(y, left, right) = t[N][y]
    BY <1>2, InOrderTree
  <1>4. /\ t[0] = [y \in Ref |-> <<>>]
        /\ \A n \in 1 .. N : t[n] = Row(left, right, t[n - 1])
    BY <1>3 DEF IsTree
  <1>5. /\ null \in Ref /\ null \notin Entities /\ \A y \in Ref : y = null \/ y \in Entities
        /\ \A y \in Entities : y \in Ref
    BY DEF Ref, Entities, null
  <1>6. Spells(g, <<>>, null)
    <2>1. Len(<<>>) = 0 /\ 1 .. 0 = {} /\ <<>> \in Seq(Entities)
      OBVIOUS
    <2> QED
      BY <2>1 DEF Spells, Item
  <1>7. \A y \in Entities : Deep(y) \in Nat /\ 1 <= Deep(y) /\ Deep(y) <= N
    BY <1>2, AboveBound
  <1> DEFINE Right(n, y) == Spells(g, t[n][y], y)
             G == {n \in 0 .. N : t[n][null] = <<>> /\ \A y \in Entities : Deep(y) <= n => Right(n, y)}
  <1>8. 0 \in G
    <2>1. t[0][null] = <<>>
      BY <1>4, <1>5
    <2>2. \A y \in Entities : ~(Deep(y) <= 0)
      BY <1>7
    <2> QED
      BY <1>1, <2>1, <2>2
  <1>9. ASSUME NEW n \in 1 .. N, n - 1 \in G PROVE n \in G
    <2>1. \A y \in Ref : t[n][y] = IF y = null THEN <<>>
                                   ELSE t[n - 1][left[y]] \o <<y>> \o t[n - 1][right[y]]
      <3>1. t[n] = Row(left, right, t[n - 1])
        BY <1>4
      <3> QED
        BY ONLY <3>1 DEF Row
    <2>2. t[n][null] = <<>>
      BY <1>5, <2>1
    <2>3. ASSUME NEW y \in Entities, Deep(y) <= n PROVE Right(n, y)
      <3> DEFINE z == NextOf(g, y)
      <3>1. y \in Ref /\ y # null /\ z \in Ref /\ right[y] = z /\ left[y] = null
        BY <1>2, <1>5, LinkedFacts
      <3>2. z # null => rank[y] < rank[z]
        BY <1>2, <3>1 DEF Rising
      <3> HIDE DEF z
      <3>3. Spells(g, t[n - 1][z], z)
        <4>1. CASE z = null
          BY <1>6, <1>9, <4>1
        <4>2. CASE z # null
          <5>1. z \in Entities /\ rank[y] < rank[z]
            BY <1>5, <3>1, <3>2, <4>2
          <5>2. Deep(z) < Deep(y)
            BY ONLY <1>2, <5>1, y \in Entities, AboveShrinks
          <5> HIDE DEF Deep
          <5>3. Deep(z) <= n - 1
            BY <1>1, <1>7, <2>3, <5>1, <5>2
          <5> QED
            BY <1>9, <5>1, <5>3
        <4> QED
          BY <4>1, <4>2
      <3>4. t[n][y] = <<>> \o <<y>> \o t[n - 1][z]
        BY <1>9, <2>1, <3>1
      <3>5. Spells(g, <<>> \o <<y>> \o t[n - 1][z], y)
        BY <3>3, SpellsLonger DEF z
      <3> QED
        BY <3>4, <3>5
    <2> HIDE DEF Deep, Right
    <2> QED
      BY <2>2, <2>3
  <1>10. \A n \in 1 .. N : n - 1 \in G => n \in G
    BY <1>9
  <1> HIDE DEF G
  <1>11. \A n \in 0 .. N : n \in G
    BY ONLY <1>1, <1>8, <1>10, Upto
  <1>12. N \in G
    BY <1>1, <1>11
  <1> HIDE DEF Deep
  <1>13. Spells(g, t[N][x], x)
    BY <1>5, <1>6, <1>7, <1>12 DEF G
  <1>14. Siblings(g, x) = t[N][x]
    BY <1>3 DEF Siblings, left, right
  <1> QED
    BY <1>13, <1>14

LEMMA SpellsOnce ==
    ASSUME NEW g, NEW x, NEW s, NEW t, Spells(g, s, x), Spells(g, t, x)
    PROVE  s = t
  <1>1. /\ s \in Seq(Entities) /\ t \in Seq(Entities)
        /\ Len(s) \in Nat /\ Len(t) \in Nat
        /\ \A i \in 1 .. Len(s) : s[i] \in Entities
        /\ \A i \in 1 .. Len(t) : t[i] \in Entities
    BY ElementOfSeq, LenProperties DEF Spells
  <1>2. null \notin Entities
    BY DEF null, Entities
  <1> DEFINE N == Len(s) + Len(t)
             G == {n \in 0 .. N : Item(s, n + 1) = Item(t, n + 1)}
  <1>3. N \in Nat
    BY <1>1
  <1>4. 0 \in G
    BY <1>3 DEF Spells
  <1>5. ASSUME NEW n \in 1 .. N, n - 1 \in G PROVE n \in G
    <2>1. n \in 0 .. N /\ (n - 1) + 1 = n /\ Item(s, n) = Item(t, n)
      BY <1>3, <1>5
    <2>2. CASE Item(s, n) = null
      <3>1. n \notin 1 .. Len(s) /\ n \notin 1 .. Len(t)
        BY <1>1, <1>2, <2>1, <2>2 DEF Item
      <3>2. n + 1 \notin 1 .. Len(s) /\ n + 1 \notin 1 .. Len(t)
        BY <1>1, <3>1
      <3> QED
        BY <2>1, <3>2 DEF Item
    <2>3. CASE Item(s, n) # null
      <3>1. n \in 1 .. Len(s) /\ n \in 1 .. Len(t) /\ s[n] = t[n]
        BY <2>1, <2>3 DEF Item
      <3>2. Item(s, n + 1) = NextOf(g, s[n]) /\ Item(t, n + 1) = NextOf(g, t[n])
        BY <3>1 DEF Spells
      <3> QED
        BY <2>1, <3>1, <3>2
    <2> QED
      BY <2>2, <2>3
  <1>6. \A n \in 1 .. N : n - 1 \in G => n \in G
    BY <1>5
  <1> HIDE DEF G
  <1>7. \A n \in 0 .. N : n \in G
    BY ONLY <1>3, <1>4, <1>6, Upto
  <1>8. \A i \in 1 .. N + 1 : Item(s, i) = Item(t, i)
    <2> TAKE i \in 1 .. N + 1
    <2>1. i - 1 \in 0 .. N /\ (i - 1) + 1 = i
      BY <1>3
    <2> QED
      BY <1>7, <2>1 DEF G
  <1>9. \A i \in 1 .. N + 1 : i \in 1 .. Len(s) <=> i \in 1 .. Len(t)
    BY <1>1, <1>2, <1>8 DEF Item
  <1>10. Len(s) = Len(t)
    <2>1. ~(Len(s) < Len(t))
      <3> SUFFICES ASSUME Len(s) < Len(t) PROVE FALSE
        OBVIOUS
      <3>1. Len(t) \in 1 .. N + 1 /\ Len(t) \in 1 .. Len(t) /\ Len(t) \notin 1 .. Len(s)
        BY <1>1
      <3> QED
        BY <1>9, <3>1
    <2>2. ~(Len(t) < Len(s))
      <3> SUFFICES ASSUME Len(t) < Len(s) PROVE FALSE
        OBVIOUS
      <3>1. Len(s) \in 1 .. N + 1 /\ Len(s) \in 1 .. Len(s) /\ Len(s) \notin 1 .. Len(t)
        BY <1>1
      <3> QED
        BY <1>9, <3>1
    <2> QED
      BY <1>1, <2>1, <2>2
  <1>11. \A i \in 1 .. Len(s) : s[i] = t[i]
    <2> TAKE i \in 1 .. Len(s)
    <2>1. i \in 1 .. N + 1 /\ i \in 1 .. Len(t)
      BY <1>1, <1>10
    <2> QED
      BY <1>8, <2>1 DEF Item
  <1> QED
    BY <1>1, <1>10, <1>11, SeqEqual

LEMMA ListIs ==
    ASSUME NEW g, NEW valid, NEW rank, Linked(g, valid, rank),
           NEW y \in Entities, NEW s, Spells(g, s, FirstOf(g, y))
    PROVE  ChildList(g, y) = s
  <1>1. FirstOf(g, y) \in Ref
    BY LinkedFacts
  <1>2. Spells(g, ChildList(g, y), FirstOf(g, y))
    BY <1>1, SiblingsSpelled DEF ChildList
  <1> QED
    BY <1>2, SpellsOnce

LEMMA ChildrenSpelled ==
    ASSUME NEW g, NEW valid, NEW rank, Linked(g, valid, rank), NEW e \in Entities
    PROVE  LET s == ChildList(g, e)
           IN  /\ s \in Seq(Entities) /\ Len(s) \in Nat /\ DOMAIN s = 1 .. Len(s)
               /\ Spells(g, s, FirstOf(g, e))
               /\ GetChildren(g, e) = {s[i] : i \in 1 .. Len(s)}
               /\ \A i \in 1 .. Len(s) :
                    /\ s[i] \in Entities /\ Has(g, s[i]) /\ ParentOf(g, s[i]) = e
                    /\ PrevOf(g, s[i]) = Item(s, i - 1)
               /\ \A i, j \in 1 .. Len(s) : s[i] = s[j] => i = j
  <1> DEFINE s == ChildList(g, e)
  <1>1. FirstOf(g, e) \in Ref /\ null \notin Entities
    BY LinkedFacts DEF null, Entities
  <1>2. Spells(g, s, FirstOf(g, e))
    BY <1>1, SiblingsSpelled DEF ChildList
  <1>3. /\ s \in Seq(Entities) /\ Len(s) \in Nat /\ DOMAIN s = 1 .. Len(s)
        /\ \A i \in 1 .. Len(s) : s[i] \in Entities
    BY <1>2, ElementOfSeq, LenProperties DEF Spells
  <1>4. GetChildren(g, e) = {s[i] : i \in 1 .. Len(s)}
    BY <1>3 DEF GetChildren, ToSet
  <1> HIDE DEF s
  <1>5. ASSUME NEW i \in 1 .. Len(s) PROVE Has(g, s[i]) /\ ParentOf(g, s[i]) = e
    <2>1. s[i] \in GetChildren(g, e)
      BY <1>4
    <2> QED
      BY <2>1, ParentsAgree
  <1>6. ASSUME NEW i \in 1 .. Len(s), i + 1 \in 1 .. Len(s)
        PROVE  /\ NextOf(g, s[i]) = s[i + 1]
               /\ PrevOf(g, s[i + 1]) = s[i]
               /\ rank[s[i]] < rank[s[i + 1]]
    <2>1. NextOf(g, s[i]) = s[i + 1]
      BY <1>2, <1>6 DEF Spells, Item
    <2>2. s[i] \in Entities /\ s[i] \in Ref /\ s[i + 1] # null /\ Has(g, s[i])
      BY <1>1, <1>3, <1>5, <1>6 DEF Ref
    <2>3. LinkedAt(g, valid, rank, s[i])
      BY <2>2, LinkedFacts
    <2> QED
      BY <2>1, <2>2, <2>3 DEF LinkedAt
  <1>7. ASSUME NEW i \in 1 .. Len(s) PROVE PrevOf(g, s[i]) = Item(s, i - 1)
    <2>1. CASE i = 1
      <3>1. FirstOf(g, e) = s[1] /\ s[1] # null /\ e \in Ref
        BY <1>1, <1>2, <1>3, <2>1 DEF Spells, Item, Ref
      <3>2. Has(g, e)
        BY <3>1, LinkedFacts
      <3>3. LinkedAt(g, valid, rank, e)
        BY <3>1, <3>2, LinkedFacts
      <3>4. PrevOf(g, s[1]) = null
        BY <3>1, <3>3 DEF LinkedAt
      <3> QED
        BY <2>1, <3>4 DEF Item
    <2>2. CASE i # 1
      <3>1. i - 1 \in 1 .. Len(s) /\ (i - 1) + 1 = i
        BY <1>3, <2>2
      <3>2. PrevOf(g, s[(i - 1) + 1]) = s[i - 1]
        BY <1>6, <3>1
      <3> QED
        BY <3>1, <3>2 DEF Item
    <2> QED
      BY <2>1, <2>2
  <1> DEFINE G == {n \in 0 .. Len(s) : \A i, j \in 1 .. n : i < j => rank[s[i]] < rank[s[j]]}
  <1>8. \A i \in 1 .. Len(s) : rank[s[i]] \in Nat
    BY <1>3, LinkedFacts
  <1>9. 0 \in G
    BY <1>3
  <1>10. ASSUME NEW n \in 1 .. Len(s), n - 1 \in G PROVE n \in G
    <2>1. ASSUME NEW i \in 1 .. n, NEW j \in 1 .. n, i < j PROVE rank[s[i]] < rank[s[j]]
      <3>1. CASE j < n
        <4>1. i \in 1 .. n - 1 /\ j \in 1 .. n - 1
          BY <1>3, <2>1, <3>1
        <4> QED
          BY <1>10, <2>1, <4>1
      <3>2. CASE j = n /\ i = n - 1
        <4>1. i \in 1 .. Len(s) /\ i + 1 \in 1 .. Len(s) /\ i + 1 = j
          BY <1>3, <3>2
        <4> QED
          BY <1>6, <4>1
      <3>3. CASE j = n /\ i < n - 1
        <4>1. /\ i \in 1 .. n - 1 /\ n - 1 \in 1 .. n - 1
              /\ n - 1 \in 1 .. Len(s) /\ (n - 1) + 1 = n /\ i \in 1 .. Len(s)
          BY <1>3, <2>1, <3>3
        <4>2. rank[s[i]] < rank[s[n - 1]]
          BY <1>10, <3>3, <4>1
        <4>3. rank[s[n - 1]] < rank[s[n]]
          BY <1>6, <4>1
        <4> QED
          BY <1>8, <3>3, <4>1, <4>2, <4>3
      <3> QED
        BY <1>3, <2>1, <3>1, <3>2, <3>3
    <2> QED
      BY <1>3, <2>1
  <1>11. \A n \in 1 .. Len(s) : n - 1 \in G => n \in G
    BY <1>10
  <1> HIDE DEF G
  <1>12. \A n \in 0 .. Len(s) : n \in G
    BY ONLY <1>3, <1>9, <1>11, Upto
  <1>13. Len(s) \in G
    BY <1>3, <1>12
  <1>14. ASSUME NEW i \in 1 .. Len(s), NEW j \in 1 .. Len(s), s[i] = s[j] PROVE i = j
    <2>1. ~(i < j) /\ ~(j < i)
      BY <1>8, <1>13, <1>14 DEF G
    <2> QED
      BY <1>3, <2>1
  <1> QED
    BY <1>2, <1>3, <1>4, <1>5, <1>7, <1>14 DEF s

LEMMA OmitNothing ==
    ASSUME NEW s \in Seq(Entities), NEW e, \A i \in 1 .. Len(s) : s[i] # e
    PROVE  RemoveFirst(s, e) = s
  BY DEF RemoveFirst

\* t is s without its i-th item.
Shortened(t, s, i) ==
    /\ t \in Seq(Entities)
    /\ Len(t) = Len(s) - 1
    /\ \A j \in 1 .. Len(t) : t[j] = IF j < i THEN s[j] ELSE s[j + 1]

LEMMA OmitOne ==
    ASSUME NEW s \in Seq(Entities), NEW i \in 1 .. Len(s),
           \A j \in 1 .. Len(s) : s[i] = s[j] => i = j
    PROVE  Shortened(RemoveFirst(s, s[i]), s, i)
  <1>1. Len(s) \in Nat /\ i \in Nat /\ 1 <= i /\ i <= Len(s)
    BY LenProperties
  <1>2. {j \in 1 .. Len(s) : s[j] = s[i]} = {i}
    OBVIOUS
  <1>3. SelectInSeq(s, LAMBDA v : v = s[i]) = i
    <2>1. Min({i}) = i
      BY <1>1 DEF Min
    <2> QED
      BY <1>2, <2>1 DEF SelectInSeq
  <1>4. RemoveFirst(s, s[i]) = SubSeq(s, 1, i - 1) \o SubSeq(s, i + 1, Len(s))
    BY <1>2, <1>3 DEF RemoveFirst, RemoveAt
  <1> DEFINE a == SubSeq(s, 1, i - 1)
             b == SubSeq(s, i + 1, Len(s))
  <1>5. /\ a \in Seq(Entities) /\ Len(a) = i - 1
        /\ \A j \in 1 .. i - 1 : a[j] = s[j]
    <2>1. \A j \in 1 .. i - 1 : s[j] \in Entities /\ 1 + j - 1 = j
      BY <1>1, ElementOfSeq
    <2>2. 1 \in Int /\ i - 1 \in Int /\ (i - 1) - 1 + 1 = i - 1
      BY <1>1
    <2>3. /\ a \in Seq(Entities)
          /\ Len(a) = IF 1 <= i - 1 THEN (i - 1) - 1 + 1 ELSE 0
          /\ \A j \in 1 .. (i - 1) - 1 + 1 : a[j] = s[1 + j - 1]
      BY <2>1, <2>2, SubSeqProperties
    <2> HIDE DEF a
    <2> QED
      BY <1>1, <2>1, <2>2, <2>3
  <1>6. /\ b \in Seq(Entities) /\ Len(b) = Len(s) - i
        /\ \A j \in 1 .. Len(s) - i : b[j] = s[i + j]
    <2>1. /\ \A j \in i + 1 .. Len(s) : s[j] \in Entities
          /\ \A j \in 1 .. Len(s) - i : (i + 1) + j - 1 = i + j
      BY <1>1, ElementOfSeq
    <2>2. i + 1 \in Int /\ Len(s) \in Int /\ Len(s) - (i + 1) + 1 = Len(s) - i
      BY <1>1
    <2>3. /\ b \in Seq(Entities)
          /\ Len(b) = IF i + 1 <= Len(s) THEN Len(s) - (i + 1) + 1 ELSE 0
          /\ \A j \in 1 .. Len(s) - (i + 1) + 1 : b[j] = s[(i + 1) + j - 1]
      BY <2>1, <2>2, SubSeqProperties
    <2> HIDE DEF b
    <2>4. ASSUME NEW j \in 1 .. Len(s) - i PROVE b[j] = s[i + j]
      <3>1. j \in 1 .. Len(s) - (i + 1) + 1 /\ (i + 1) + j - 1 = i + j
        BY <1>1
      <3> QED
        BY <2>3, <3>1
    <2>5. Len(b) = Len(s) - i
      <3>1. CASE i + 1 <= Len(s)
        BY <1>1, <2>2, <2>3, <3>1
      <3>2. CASE ~(i + 1 <= Len(s))
        BY <1>1, <2>3, <3>2
      <3> QED
        BY <3>1, <3>2
    <2> QED
      BY <2>3, <2>4, <2>5
  <1> HIDE DEF a, b
  <1>7. /\ a \o b \in Seq(Entities) /\ Len(a \o b) = Len(s) - 1
        /\ \A j \in 1 .. Len(s) - 1 : (a \o b)[j] = IF j <= i - 1 THEN a[j] ELSE b[j - (i - 1)]
    <2>1. Len(a) + Len(b) = Len(s) - 1
      BY <1>1, <1>5, <1>6
    <2>2. /\ a \o b \in Seq(Entities) /\ Len(a \o b) = Len(a) + Len(b)
          /\ \A j \in 1 .. Len(a) + Len(b) :
               (a \o b)[j] = IF j <= Len(a) THEN a[j] ELSE b[j - Len(a)]
      BY <1>5, <1>6, ConcatProperties
    <2> QED
      BY <1>5, <2>1, <2>2
  <1>8. ASSUME NEW j \in 1 .. Len(s) - 1
        PROVE  (a \o b)[j] = IF j < i THEN s[j] ELSE s[j + 1]
    <2>1. CASE j < i
      BY <1>1, <1>5, <1>7, <2>1
    <2>2. CASE ~(j < i)
      <3>1. j - (i - 1) \in 1 .. Len(s) - i /\ i + (j - (i - 1)) = j + 1 /\ ~(j <= i - 1)
        BY <1>1, <2>2
      <3> QED
        BY <1>6, <1>7, <2>2, <3>1
    <2> QED
      BY <2>1, <2>2
  <1> QED
    BY <1>4, <1>7, <1>8 DEF Shortened, a, b

LEMMA OmitSeq ==
    ASSUME NEW s \in Seq(Entities), \A i, j \in 1 .. Len(s) : s[i] = s[j] => i = j, NEW e
    PROVE  RemoveFirst(s, e) \in Seq(Entities)
  <1>1. ASSUME NEW i \in 1 .. Len(s), s[i] = e PROVE RemoveFirst(s, e) \in Seq(Entities)
    <2>1. Shortened(RemoveFirst(s, s[i]), s, i)
      BY OmitOne
    <2> QED
      BY <1>1, <2>1 DEF Shortened
  <1>2. ASSUME \A i \in 1 .. Len(s) : s[i] # e PROVE RemoveFirst(s, e) \in Seq(Entities)
    BY <1>2, OmitNothing
  <1> QED
    BY <1>1, <1>2

LEMMA SpellsShorter ==
    ASSUME NEW g, NEW k, NEW s, NEW t, NEW f, NEW i \in 1 .. Len(s),
           Spells(g, s, f), Shortened(t, s, i),
           \A j \in 1 .. Len(s) : j # i =>
             NextOf(k, s[j]) = IF j = i - 1 THEN NextOf(g, s[i]) ELSE NextOf(g, s[j])
    PROVE  Spells(k, t, IF i = 1 THEN NextOf(g, s[i]) ELSE f)
  <1>1. /\ s \in Seq(Entities) /\ t \in Seq(Entities) /\ Len(s) \in Nat
        /\ Len(t) \in Nat /\ Len(t) = Len(s) - 1
        /\ i \in Nat /\ 1 <= i /\ i <= Len(s)
        /\ \A j \in 1 .. Len(t) : t[j] = IF j < i THEN s[j] ELSE s[j + 1]
    <2>1. s \in Seq(Entities) /\ t \in Seq(Entities) /\ Len(t) = Len(s) - 1
          /\ \A j \in 1 .. Len(t) : t[j] = IF j < i THEN s[j] ELSE s[j + 1]
      BY DEF Spells, Shortened
    <2>2. Len(s) \in Nat /\ Len(t) \in Nat
      BY <2>1, LenProperties
    <2>3. i \in Nat /\ 1 <= i /\ i <= Len(s)
      BY ONLY <2>2, i \in 1 .. Len(s)
    <2> QED
      BY ONLY <2>1, <2>2, <2>3
  <1>2. /\ Item(s, 1) = f
        /\ \A j \in 1 .. Len(s) : NextOf(g, s[j]) = Item(s, j + 1)
    BY DEF Spells
  <1>3. ASSUME NEW j \in Nat, j >= 1
        PROVE  Item(t, j) = IF j < i THEN Item(s, j) ELSE Item(s, j + 1)
    <2>1. CASE j \in 1 .. Len(t)
      <3>1. j \in 1 .. Len(s) /\ j + 1 \in 1 .. Len(s)
        BY <1>1, <2>1
      <3> QED
        BY <1>1, <2>1, <3>1 DEF Item
    <2>2. CASE j \notin 1 .. Len(t)
      <3>1. ~(j < i) /\ j + 1 \notin 1 .. Len(s)
        BY <1>1, <1>3, <2>2
      <3> QED
        BY <2>2, <3>1 DEF Item
    <2> QED
      BY <2>1, <2>2
  <1>4. Item(t, 1) = IF i = 1 THEN NextOf(g, s[i]) ELSE f
    BY <1>1, <1>2, <1>3
  <1>5. ASSUME NEW j \in 1 .. Len(t) PROVE NextOf(k, t[j]) = Item(t, j + 1)
    <2>1. j \in Nat /\ j >= 1 /\ j + 1 \in Nat /\ j + 1 >= 1 /\ j \in 1 .. Len(s) /\ j + 1 \in 1 .. Len(s)
      BY <1>1
    <2>2. Item(t, j + 1) = IF j + 1 < i THEN Item(s, j + 1) ELSE Item(s, j + 2)
      <3>1. (j + 1) + 1 = j + 2
        BY <2>1
      <3> QED
        BY <1>3, <2>1, <3>1
    <2>3. CASE j + 1 < i
      <3>1. j < i /\ j # i /\ j # i - 1
        BY <1>1, <2>1, <2>3
      <3> QED
        BY <1>1, <1>2, <2>1, <2>2, <2>3, <3>1
    <2>4. CASE j + 1 = i
      <3>1. j < i /\ j # i /\ j = i - 1 /\ i + 1 = j + 2 /\ ~(j + 1 < i)
        BY <1>1, <2>1, <2>4
      <3> QED
        BY <1>1, <1>2, <2>1, <2>2, <2>4, <3>1
    <2>5. CASE j + 1 > i
      <3>1. ~(j < i) /\ j + 1 # i /\ j + 1 # i - 1 /\ ~(j + 1 < i) /\ (j + 1) + 1 = j + 2
        BY <1>1, <2>1, <2>5
      <3>2. t[j] = s[j + 1] /\ NextOf(g, s[j + 1]) = Item(s, j + 2)
        BY <1>1, <1>2, <2>1, <3>1
      <3> QED
        BY <2>1, <2>2, <3>1, <3>2
    <2> QED
      BY <1>1, <2>1, <2>3, <2>4, <2>5
  <1> QED
    BY <1>1, <1>4, <1>5 DEF Spells

\* k has e taken out of the lists of g, as OnDestroy does it, and as far as the
\* children of y tell.
LEMMA ListWithout ==
    ASSUME NEW g, NEW valid, NEW rank, Linked(g, valid, rank),
           NEW k, NEW v, NEW r, Linked(k, v, r),
           NEW e \in Entities, Has(g, e), NEW y \in Entities,
           \A x \in Ref \ {e} :
             NextOf(k, x) = IF PrevOf(g, e) \in valid /\ x = PrevOf(g, e)
                            THEN NextOf(g, e) ELSE NextOf(g, x),
           FirstOf(k, y) = IF /\ PrevOf(g, e) \notin valid /\ ParentOf(g, e) \in valid
                              /\ Has(g, ParentOf(g, e)) /\ y = ParentOf(g, e)
                           THEN NextOf(g, e) ELSE FirstOf(g, y),
           ParentOf(g, e) = y => e \in GetChildren(g, y)
    PROVE  ChildList(k, y) = RemoveFirst(ChildList(g, y), e)
  <1> DEFINE s == ChildList(g, y)
  <1>1. /\ s \in Seq(Entities) /\ Len(s) \in Nat
        /\ Spells(g, s, FirstOf(g, y))
        /\ GetChildren(g, y) = {s[i] : i \in 1 .. Len(s)}
        /\ \A i \in 1 .. Len(s) :
             /\ s[i] \in Entities /\ Has(g, s[i]) /\ ParentOf(g, s[i]) = y
             /\ PrevOf(g, s[i]) = Item(s, i - 1)
        /\ \A i, j \in 1 .. Len(s) : s[i] = s[j] => i = j
    BY ChildrenSpelled
  <1>2. /\ null \notin valid /\ y \in Ref /\ e \in Ref
        /\ \A x \in Entities : x \in Ref /\ x # null
        /\ \A x \in Ref : Has(g, x) => x \in valid
    BY LinkedFacts
  <1> HIDE DEF s
  <1>3. CASE \E i \in 1 .. Len(s) : s[i] = e
    <2>1. PICK i \in 1 .. Len(s) : s[i] = e
      BY <1>3
    <2> DEFINE t == RemoveFirst(s, e)
    <2>2. Shortened(t, s, i)
      BY <1>1, <2>1, OmitOne
    <2>3. ParentOf(g, e) = y /\ PrevOf(g, e) = Item(s, i - 1)
      BY <1>1, <2>1
    <2>4. CASE i = 1
      <3>1. 0 \notin 1 .. Len(s) /\ 1 \in 1 .. Len(s) /\ i - 1 = 0
        BY <1>1, <2>4
      <3>2. PrevOf(g, e) = null /\ FirstOf(g, y) = e
        BY <1>1, <2>1, <2>3, <2>4, <3>1 DEF Item, Spells
      <3>3. Has(g, y)
        BY <1>2, <3>2, LinkedFacts
      <3>4. FirstOf(k, y) = NextOf(g, e)
        BY <1>2, <2>3, <3>2, <3>3
      <3>5. \A j \in 1 .. Len(s) : j # i =>
              NextOf(k, s[j]) = IF j = i - 1 THEN NextOf(g, s[i]) ELSE NextOf(g, s[j])
        BY <1>1, <1>2, <2>1, <3>1, <3>2
      <3> HIDE DEF t
      <3>6. Spells(k, t, IF i = 1 THEN NextOf(g, s[i]) ELSE FirstOf(g, y))
        BY <1>1, <2>2, <3>5, SpellsShorter
      <3>7. Spells(k, t, FirstOf(k, y))
        BY <2>1, <2>4, <3>4, <3>6
      <3> QED
        BY <3>7, ListIs DEF s, t
    <2>5. CASE i # 1
      <3>1. i - 1 \in 1 .. Len(s)
        BY <1>1, <2>5
      <3>2. PrevOf(g, e) = s[i - 1] /\ s[i - 1] \in valid
        BY <1>1, <1>2, <2>3, <3>1 DEF Item
      <3>3. \A j \in 1 .. Len(s) : j # i =>
              NextOf(k, s[j]) = IF j = i - 1 THEN NextOf(g, s[i]) ELSE NextOf(g, s[j])
        BY <1>1, <1>2, <2>1, <3>1, <3>2
      <3> HIDE DEF t
      <3>4. Spells(k, t, IF i = 1 THEN NextOf(g, s[i]) ELSE FirstOf(g, y))
        BY <1>1, <2>2, <3>3, SpellsShorter
      <3>5. Spells(k, t, FirstOf(k, y))
        BY <2>5, <3>2, <3>4
      <3> QED
        BY <3>5, ListIs DEF s, t
    <2> QED
      BY <2>4, <2>5
  <1>4. CASE \A i \in 1 .. Len(s) : s[i] # e
    <2>1. RemoveFirst(s, e) = s
      BY <1>1, <1>4, OmitNothing
    <2>2. FirstOf(k, y) = FirstOf(g, y)
      BY <1>1, <1>4
    <2>3. ASSUME NEW i \in 1 .. Len(s) PROVE NextOf(k, s[i]) = Item(s, i + 1)
      <3>1. NextOf(g, s[i]) = Item(s, i + 1)
        BY <1>1 DEF Spells
      <3>2. ~(PrevOf(g, e) \in valid /\ s[i] = PrevOf(g, e))
        <4> SUFFICES ASSUME PrevOf(g, e) \in valid, s[i] = PrevOf(g, e) PROVE FALSE
          OBVIOUS
        <4>1. NextOf(g, s[i]) = e
          BY <1>2, LinkedFacts DEF LinkedAt
        <4>2. Item(s, i + 1) = e /\ e # null
          BY <1>2, <3>1, <4>1
        <4> QED
          BY <1>4, <4>2 DEF Item
      <3> QED
        BY <1>1, <1>2, <1>4, <3>1, <3>2
    <2>4. Spells(k, s, FirstOf(k, y))
      BY <1>1, <2>2, <2>3 DEF Spells
    <2> QED
      BY <2>1, <2>4, ListIs DEF s
  <1> QED
    BY <1>3, <1>4

LEMMA ListDestroyed ==
    ASSUME NEW g, NEW valid, NEW rank, Linked(g, valid, rank),
           NEW e \in Entities, NEW y \in Entities \ {e},
           Has(g, e) /\ ParentOf(g, e) = y => e \in GetChildren(g, y)
    PROVE  ChildList(DestroyOne([alive |-> valid, h |-> g], e).h, y)
             = RemoveFirst(ChildList(g, y), e)
  <1> DEFINE k == DestroyOne([alive |-> valid, h |-> g], e).h
  <1>1. Linked(k, valid \ {e}, rank)
    BY DestroyKeepsLinked
  <1>2. y \in Ref
    BY LinkedFacts
  <1>3. CASE Has(g, e)
    <2>1. \A x \in Ref \ {e} :
            /\ FirstOf(k, x) = IF PrevOf(g, e) \notin valid /\ ParentOf(g, e) \in valid
                                  /\ Has(g, ParentOf(g, e)) /\ x = ParentOf(g, e)
                               THEN NextOf(g, e) ELSE FirstOf(g, x)
            /\ NextOf(k, x) = IF PrevOf(g, e) \in valid /\ x = PrevOf(g, e)
                              THEN NextOf(g, e) ELSE NextOf(g, x)
      BY <1>3, GoneLinks
    <2> HIDE DEF k
    <2> QED
      BY <1>1, <1>2, <1>3, <2>1, ListWithout DEF k
  <1>4. CASE ~Has(g, e)
    <2>1. k = g
      BY <1>4, LinkedFacts, NotThere
    <2> DEFINE s == ChildList(g, y)
    <2>2. s \in Seq(Entities) /\ \A i \in 1 .. Len(s) : Has(g, s[i])
      BY ChildrenSpelled
    <2> HIDE DEF s
    <2>3. RemoveFirst(s, e) = s
      BY <1>4, <2>2, OmitNothing
    <2> QED
      BY <2>1, <2>3 DEF s
  <1> QED
    BY <1>3, <1>4

LEMMA ListDetached ==
    ASSUME NEW g, NEW valid, NEW rank, Linked(g, valid, rank), Tidy(g, valid),
           NEW e \in valid, Has(g, e), NEW y \in Entities
    PROVE  ChildList(Detached(g, valid, e), y) = RemoveFirst(ChildList(g, y), e)
  <1> DEFINE k == Detached(g, valid, e)
  <1>1. e \in Entities /\ e \in Ref /\ y \in Ref /\ valid \subseteq Entities /\ TidyAt(g, valid, e)
        /\ rank \in [Entities -> Nat] /\ y # null
    BY LinkedFacts DEF Tidy
  <1>2. Linked(k, valid, rank)
    BY <1>1, DetachKeeps
  <1>3. ParentOf(g, e) = y => e \in GetChildren(g, y)
    BY <1>1, ListedByParent
  <1>4. ParentOf(g, e) # e
    <2> SUFFICES ASSUME ParentOf(g, e) = e PROVE FALSE
      OBVIOUS
    <2>1. e # null /\ LinkedAt(g, valid, rank, e) /\ rank[e] \in Nat
      BY <1>1, LinkedFacts
    <2>2. rank[e] < rank[e]
      BY <2>1 DEF LinkedAt
    <2> QED
      BY <2>1, <2>2
  <1>5. /\ FirstOf(k, e) = FirstOf(g, e)
        /\ \A x \in Ref \ {e} :
             /\ FirstOf(k, x) = IF PrevOf(g, e) \notin valid /\ ParentOf(g, e) \in valid
                                   /\ Has(g, ParentOf(g, e)) /\ x = ParentOf(g, e)
                                THEN NextOf(g, e) ELSE FirstOf(g, x)
             /\ NextOf(k, x) = IF PrevOf(g, e) \in valid /\ x = PrevOf(g, e)
                               THEN NextOf(g, e) ELSE NextOf(g, x)
    BY <1>1, DetachedLinks
  <1> HIDE DEF k
  <1>6. FirstOf(k, y) = IF /\ PrevOf(g, e) \notin valid /\ ParentOf(g, e) \in valid
                           /\ Has(g, ParentOf(g, e)) /\ y = ParentOf(g, e)
                        THEN NextOf(g, e) ELSE FirstOf(g, y)
    BY <1>1, <1>4, <1>5
  <1> QED
    BY <1>1, <1>2, <1>3, <1>5, <1>6, ListWithout DEF k

LEMMA SpellsAppended ==
    ASSUME NEW g, NEW k, NEW s, NEW f, Spells(g, s, f), NEW e \in Entities,
           NextOf(k, e) = null,
           \A i \in 1 .. Len(s) : NextOf(k, s[i]) = IF i = Len(s) THEN e ELSE NextOf(g, s[i])
    PROVE  Spells(k, Append(s, e), IF Len(s) = 0 THEN e ELSE f)
  <1> DEFINE t == Append(s, e)
  <1>1. s \in Seq(Entities) /\ Item(s, 1) = f
        /\ \A i \in 1 .. Len(s) : NextOf(g, s[i]) = Item(s, i + 1)
    BY DEF Spells
  <1>2. Len(s) \in Nat
    BY <1>1, LenProperties
  <1>3. /\ t \in Seq(Entities) /\ Len(t) = Len(s) + 1
        /\ \A i \in 1 .. Len(s) : t[i] = s[i]
        /\ t[Len(s) + 1] = e
    BY <1>1, <1>2, AppendProperties
  <1> HIDE DEF t
  <1>4. Item(t, 1) = IF Len(s) = 0 THEN e ELSE f
    BY <1>1, <1>2, <1>3 DEF Item
  <1>5. ASSUME NEW i \in 1 .. Len(t) PROVE NextOf(k, t[i]) = Item(t, i + 1)
    <2>1. CASE i = Len(s) + 1
      BY <1>2, <1>3, <2>1 DEF Item
    <2>2. CASE i = Len(s)
      BY <1>2, <1>3, <2>2 DEF Item
    <2>3. CASE i < Len(s)
      <3>1. i \in 1 .. Len(s) /\ i # Len(s) /\ i + 1 \in 1 .. Len(s) /\ i + 1 \in 1 .. Len(t)
        BY <1>2, <1>3, <2>3
      <3> QED
        BY <1>1, <1>3, <3>1 DEF Item
    <2> QED
      BY <1>2, <1>3, <2>1, <2>2, <2>3
  <1> QED
    BY <1>3, <1>4, <1>5 DEF Spells, t

LEMMA ListAttached ==
    ASSUME NEW g, NEW valid, NEW rank, Linked(g, valid, rank),
           NEW k, NEW v, NEW r, Linked(k, v, r),
           NEW e \in Entities, NEW p \in Entities, e # p, ParentOf(g, e) = null,
           Lengthened(g, k, e, p), NEW y \in Entities
    PROVE  ChildList(k, y) = IF y = p THEN Append(ChildList(g, p), e) ELSE ChildList(g, y)
  <1>1. /\ e \in Ref /\ e # null /\ p \in Ref /\ p # null /\ y \in Ref /\ null \notin Entities
        /\ NextOf(g, e) = null
        /\ \A x \in Entities : x \in Ref /\ x # null
    <2>1. null \notin Entities
      BY DEF null, Entities
    <2> QED
      BY <2>1, LinkedFacts DEF LinkedAt
  <1>2. ASSUME NEW x \in Entities
        PROVE  LET s == ChildList(g, x)
               IN  /\ s \in Seq(Entities) /\ Len(s) \in Nat
                   /\ Spells(g, s, FirstOf(g, x))
                   /\ GetChildren(g, x) = {s[i] : i \in 1 .. Len(s)}
                   /\ \A i \in 1 .. Len(s) :
                        s[i] \in Entities /\ s[i] # e /\ ParentOf(g, s[i]) = x
    BY <1>1, ChildrenSpelled
  <1>3. CASE FirstOf(g, p) = null
    <2>1. \A x \in Ref : /\ FirstOf(k, x) = IF x = p THEN e ELSE FirstOf(g, x)
                         /\ NextOf(k, x) = NextOf(g, x)
      BY <1>3 DEF Lengthened
    <2>2. CASE y = p
      <3> DEFINE s == ChildList(g, p)
      <3>1. s \in Seq(Entities) /\ Len(s) \in Nat /\ Spells(g, s, null)
            /\ \A i \in 1 .. Len(s) : s[i] \in Entities
        BY <1>2, <1>3
      <3> HIDE DEF s
      <3>2. Len(s) = 0
        <4>1. Item(s, 1) = null
          BY <3>1 DEF Spells
        <4>2. 1 \notin 1 .. Len(s)
          BY <1>1, <3>1, <4>1 DEF Item
        <4> QED
          BY <3>1, <4>2
      <3>3. NextOf(k, e) = null
        BY <1>1, <2>1
      <3>4. Spells(k, Append(s, e), IF Len(s) = 0 THEN e ELSE null)
        <4>1. \A i \in 1 .. Len(s) :
                NextOf(k, s[i]) = IF i = Len(s) THEN e ELSE NextOf(g, s[i])
          BY <3>2
        <4> QED
          BY ONLY <3>1, <3>3, <4>1, e \in Entities, SpellsAppended
      <3>5. Spells(k, Append(s, e), FirstOf(k, y))
        BY <1>1, <2>1, <2>2, <3>2, <3>4
      <3> QED
        BY <2>2, <3>5, ListIs DEF s
    <2>3. CASE y # p
      <3> DEFINE s == ChildList(g, y)
      <3>1. Spells(k, s, FirstOf(k, y))
        BY <1>1, <1>2, <2>1, <2>3 DEF Spells
      <3> QED
        BY <2>3, <3>1, ListIs
    <2> QED
      BY <2>2, <2>3
  <1>4. CASE FirstOf(g, p) # null
    <2>1. PICK l \in Entities :
            /\ NextOf(g, l) = null
            /\ \A Q \in SUBSET Entities : InList(g, Q, FirstOf(g, p)) => l \in Q
            /\ \A x \in Ref : /\ FirstOf(k, x) = FirstOf(g, x)
                              /\ NextOf(k, x) = IF x = l THEN e ELSE NextOf(g, x)
      BY <1>4 DEF Lengthened
    <2> DEFINE s == ChildList(g, p)
    <2>2. /\ s \in Seq(Entities) /\ Len(s) \in Nat
          /\ Spells(g, s, FirstOf(g, p))
          /\ GetChildren(g, p) = {s[i] : i \in 1 .. Len(s)}
          /\ \A i \in 1 .. Len(s) : s[i] \in Entities /\ s[i] # e /\ ParentOf(g, s[i]) = p
      BY <1>2
    <2> HIDE DEF s
    <2>3. l \in GetChildren(g, p)
      <3>1. GetChildren(g, p) \in SUBSET Entities
        BY <2>2
      <3>2. FirstOf(g, p) \in GetChildren(g, p)
        BY <1>4, <2>2 DEF Spells, Item
      <3>3. ASSUME NEW z \in GetChildren(g, p)
            PROVE  NextOf(g, z) \in GetChildren(g, p) \cup {null}
        <4>1. PICK i \in 1 .. Len(s) : z = s[i]
          BY <2>2
        <4>2. NextOf(g, z) = Item(s, i + 1)
          BY <2>2, <4>1 DEF Spells
        <4> QED
          BY <2>2, <4>2 DEF Item
      <3> QED
        BY <2>1, <3>1, <3>2, <3>3 DEF InList
    <2>4. PICK m \in 1 .. Len(s) : l = s[m]
      BY <2>2, <2>3
    <2>5. l # e /\ ParentOf(g, l) = p
      BY <2>2, <2>4
    <2>6. CASE y = p
      <3>1. ASSUME NEW i \in 1 .. Len(s) PROVE s[i] = l <=> i = Len(s)
        <4>1. NextOf(g, s[i]) = Item(s, i + 1)
          BY <2>2 DEF Spells
        <4>2. NextOf(g, s[i]) = null => i = Len(s)
          <5> SUFFICES ASSUME NextOf(g, s[i]) = null, i # Len(s) PROVE FALSE
            OBVIOUS
          <5>1. i + 1 \in 1 .. Len(s)
            BY <2>2
          <5> QED
            BY <1>1, <2>2, <4>1, <5>1 DEF Item
        <4>3. l = s[Len(s)]
          <5>1. NextOf(g, l) = Item(s, m + 1) /\ NextOf(g, l) = null
            BY <2>1, <2>2, <2>4 DEF Spells
          <5>2. m = Len(s)
            <6> SUFFICES ASSUME m # Len(s) PROVE FALSE
              OBVIOUS
            <6>1. m + 1 \in 1 .. Len(s)
              BY <2>2
            <6> QED
              BY <1>1, <2>2, <5>1, <6>1 DEF Item
          <5> QED
            BY <2>4, <5>2
        <4> QED
          BY <2>1, <4>2, <4>3
      <3>3. NextOf(k, e) = null
        BY <1>1, <2>1, <2>5
      <3>4. \A i \in 1 .. Len(s) : NextOf(k, s[i]) = IF i = Len(s) THEN e ELSE NextOf(g, s[i])
        BY <1>1, <2>1, <2>2, <3>1
      <3>5. Spells(k, Append(s, e), IF Len(s) = 0 THEN e ELSE FirstOf(g, p))
        BY <2>2, <3>3, <3>4, SpellsAppended
      <3>6. Len(s) # 0
        BY <2>2, <2>4
      <3>7. Spells(k, Append(s, e), FirstOf(k, y))
        BY <1>1, <2>1, <2>6, <3>5, <3>6
      <3> QED
        BY <2>6, <3>7, ListIs DEF s
    <2>7. CASE y # p
      <3> DEFINE t == ChildList(g, y)
      <3>1. /\ Spells(g, t, FirstOf(g, y))
            /\ \A i \in 1 .. Len(t) : t[i] \in Ref /\ ParentOf(g, t[i]) = y
        BY <1>1, <1>2
      <3> HIDE DEF t
      <3>2. \A i \in 1 .. Len(t) : NextOf(k, t[i]) = NextOf(g, t[i])
        BY <2>1, <2>5, <2>7, <3>1
      <3>3. Spells(k, t, FirstOf(k, y))
        BY <1>1, <2>1, <3>1, <3>2 DEF Spells
      <3> QED
        BY <2>7, <3>3, ListIs DEF t
    <2> QED
      BY <2>6, <2>7
  <1> QED
    BY <1>3, <1>4

LEMMA ListReparented ==
    ASSUME NEW g, NEW valid, NEW rank, Linked(g, valid, rank), Tidy(g, valid),
           NEW e \in valid, NEW p \in valid, e # p, Has(g, e),
           NEW D, Below(g, D, e), p \notin D, NEW y \in Entities
    PROVE  ChildList(Reparent(g, valid, e, p), y)
             = IF y = p THEN Append(RemoveFirst(ChildList(g, p), e), e)
               ELSE RemoveFirst(ChildList(g, y), e)
  <1> DEFINE d == Detached(g, valid, e)
             k == Reparent(g, valid, e, p)
  <1>1. /\ e \in Entities /\ p \in Entities /\ e \in Ref /\ valid \subseteq Entities
        /\ \A x \in Entities : x \in Ref
    BY LinkedFacts
  <1>2. Linked(d, valid, rank)
    BY <1>1, DetachKeeps DEF Tidy
  <1>3. /\ \A x \in Ref : Has(d, x) <=> Has(g, x)
        /\ ParentOf(d, e) = null
        /\ \A x \in Ref \ {e} : ParentOf(d, x) = ParentOf(g, x)
    BY <1>1, DetachedLinks
  <1>4. \A x \in Entities : ChildList(d, x) = RemoveFirst(ChildList(g, x), e)
    BY ListDetached
  <1>5. k = Attached(d, e, p)
    BY <1>1, MoveIsAttach
  <1> HIDE DEF d, k
  <1>6. Below(d, D, e)
    BY <1>1, <1>3 DEF Below
  <1>7. (\E r : Linked(k, valid, r)) /\ Lengthened(d, k, e, p)
    BY <1>2, <1>3, <1>5, <1>6, AttachKeeps
  <1>8. ChildList(k, y) = IF y = p THEN Append(ChildList(d, p), e) ELSE ChildList(d, y)
    BY <1>1, <1>2, <1>3, <1>7, ListAttached
  <1> QED
    BY <1>1, <1>4, <1>8 DEF k

Moved(g, valid, e, p) == Attach(g, valid, e, p, TRUE)

LEMMA ListMoved ==
    ASSUME NEW g, NEW valid, NEW rank, Linked(g, valid, rank), Tidy(g, valid),
           NEW e \in valid, NEW p \in valid, e # p, p \notin Descendants(g, e),
           NEW y \in Entities
    PROVE  ChildList(Moved(g, valid, e, p), y)
             = IF y = p THEN Append(RemoveFirst(ChildList(g, p), e), e)
               ELSE RemoveFirst(ChildList(g, y), e)
  <1> DEFINE D == Descendants(g, e)
             k == Moved(g, valid, e, p)
  <1>1. /\ e \in Entities /\ p \in Entities /\ e \in Ref /\ g \in Graphs
        /\ ~Has(g, e) => ParentOf(g, e) = null /\ FirstOf(g, e) = null
    BY LinkedFacts
  <1>2. Below(g, D, e) /\ p \notin D
    BY <1>1, DescendantsBelow
  <1> HIDE DEF D
  <1>3. CASE Has(g, e)
    BY <1>2, <1>3, ListReparented DEF Attach, Moved
  <1>4. CASE ~Has(g, e)
    <2>1. k = Attached(g, e, p)
      BY <1>1, <1>4 DEF Attach, Moved, Emplace, Attached, With
    <2> HIDE DEF k
    <2>2. (\E r : Linked(k, valid, r)) /\ Lengthened(g, k, e, p)
      BY <1>1, <1>2, <1>4, <2>1, AttachKeeps
    <2>3. ChildList(k, y) = IF y = p THEN Append(ChildList(g, p), e) ELSE ChildList(g, y)
      BY <1>1, <1>4, <2>2, ListAttached
    <2>4. ASSUME NEW x \in Entities PROVE RemoveFirst(ChildList(g, x), e) = ChildList(g, x)
      <3> DEFINE s == ChildList(g, x)
      <3>1. s \in Seq(Entities) /\ \A i \in 1 .. Len(s) : Has(g, s[i])
        BY ChildrenSpelled
      <3> HIDE DEF s
      <3>2. RemoveFirst(s, e) = s
        BY <1>4, <3>1, OmitNothing
      <3> QED
        BY <3>2 DEF s
    <2> QED
      BY <1>1, <2>3, <2>4 DEF k
  <1> QED
    BY <1>3, <1>4

\* The forest of OrderedForest that the links stand for.
Kids(g) == [e \in Entities |-> ChildList(g, e)]

LEMMA ForestSubtree ==
    ASSUME NEW g, NEW valid, NEW rank, Linked(g, valid, rank), NEW e \in Entities
    PROVE  Forest!Subtree(Kids(g), e) = Subtree(g, e)
  <1> DEFINE U == Underneath(g, e)
             k == Kids(g)
             L == UNION {{x} \X ToSet(k[x]) : x \in Entities}
             Families == {S \in SUBSET Entities : e \in S /\ \A l \in L : l[1] \in S => l[2] \in S}
  <1>1. /\ \A x \in Entities : x \in Ref /\ x # null /\ FirstOf(g, x) \in Ref
        /\ \A x \in Ref : x = null \/ x \in Entities
    BY LinkedFacts
  <1>2. /\ Subtree(g, e) = U \cup {e}
        /\ U \subseteq Entities
        /\ FirstOf(g, e) \in U \cup {null}
        /\ \A z \in U : FirstOf(g, z) \in U \cup {null} /\ NextOf(g, z) \in U \cup {null}
        /\ \A S \in SUBSET Entities :
             /\ FirstOf(g, e) \in S \cup {null}
             /\ \A z \in S : FirstOf(g, z) \in S \cup {null} /\ NextOf(g, z) \in S \cup {null}
             => U \subseteq S
    BY SubtreeFacts
  <1>3. ASSUME NEW x \in Entities
        PROVE  /\ FirstOf(g, x) # null => FirstOf(g, x) \in GetChildren(g, x)
               /\ \A z \in GetChildren(g, x) : NextOf(g, z) \in GetChildren(g, x) \cup {null}
               /\ GetChildren(g, x) \subseteq Entities
               /\ \A S \in SUBSET Entities :
                    FirstOf(g, x) \in S \cup {null} /\ (\A z \in S : NextOf(g, z) \in S \cup {null})
                      => GetChildren(g, x) \subseteq S
               /\ ToSet(k[x]) = GetChildren(g, x)
    <2>1. k[x] = Siblings(g, FirstOf(g, x)) /\ GetChildren(g, x) = ToSet(Siblings(g, FirstOf(g, x)))
      BY DEF Kids, GetChildren, ChildList
    <2>2. FirstOf(g, x) \in Ref
      BY <1>1
    <2> QED
      BY <2>1, <2>2, SiblingsFacts
  <1> HIDE DEF U, k
  <1>4. \A S : (\A l \in L : l[1] \in S => l[2] \in S)
                 <=> (\A x \in Entities : x \in S => GetChildren(g, x) \subseteq S)
    <2> TAKE S
    <2>1. ASSUME \A l \in L : l[1] \in S => l[2] \in S,
                 NEW x \in Entities, x \in S, NEW z \in GetChildren(g, x)
          PROVE  z \in S
      <3>1. <<x, z>> \in {x} \X ToSet(k[x])
        BY <1>3, <2>1
      <3>2. <<x, z>> \in L
        BY <3>1
      <3> HIDE DEF L
      <3> QED
        BY <2>1, <3>2
    <2>2. ASSUME \A x \in Entities : x \in S => GetChildren(g, x) \subseteq S,
                 NEW l \in L, l[1] \in S
          PROVE  l[2] \in S
      <3>1. PICK x \in Entities : l \in {x} \X ToSet(k[x])
        OBVIOUS
      <3>2. l[1] = x /\ l[2] \in GetChildren(g, x)
        BY <1>3, <3>1
      <3> QED
        BY <2>2, <3>2
    <2> HIDE DEF L
    <2> QED
      BY <2>1, <2>2
  <1>5. Forest!Subtree(k, e) = {y \in Entities : \A S \in Families : y \in S}
    BY DEF Forest!Subtree, Forest!ToSet, ToSet, Forest!Entities, Entities
  <1> HIDE DEF L
  <1>6. Subtree(g, e) \in Families
    <2>1. ASSUME NEW x \in Entities, x \in Subtree(g, e) PROVE GetChildren(g, x) \subseteq U
      <3>1. FirstOf(g, x) \in U \cup {null}
        BY <1>2, <2>1
      <3> QED
        BY <1>2, <1>3, <3>1
    <2> QED
      BY <1>2, <1>4, <2>1
  <1>7. ASSUME NEW S \in Families PROVE Subtree(g, e) \subseteq S
    <2> DEFINE T == UNION {GetChildren(g, x) : x \in S}
    <2>1. S \subseteq Entities /\ e \in S /\ \A x \in S : GetChildren(g, x) \subseteq S
      BY <1>4
    <2>2. T \in SUBSET Entities /\ T \subseteq S
      BY <2>1
    <2>3. FirstOf(g, e) \in T \cup {null}
      BY <1>3, <2>1
    <2>4. ASSUME NEW z \in T
          PROVE  FirstOf(g, z) \in T \cup {null} /\ NextOf(g, z) \in T \cup {null}
      <3>1. PICK x \in S : z \in GetChildren(g, x)
        OBVIOUS
      <3>2. z \in S /\ z \in Entities /\ x \in Entities
        BY <2>1, <3>1
      <3> QED
        BY <1>3, <3>1, <3>2
    <2> HIDE DEF T
    <2> QED
      BY <1>2, <2>1, <2>2, <2>3, <2>4
  <1>8. Subtree(g, e) \subseteq Entities
    BY <1>2
  <1> HIDE DEF Families
  <1>9. Forest!Subtree(k, e) = Subtree(g, e)
    BY <1>5, <1>6, <1>7, <1>8
  <1> QED
    BY <1>9 DEF k

LEMMA ForestOperators ==
    /\ Forest!Entities = Entities
    /\ \A s : Forest!ToSet(s) = ToSet(s)
    /\ \A s, e : Forest!RemoveFirst(s, e) = RemoveFirst(s, e)
    /\ \A S, T : Forest!Bijection(S, T) = Bijection(S, T)
    /\ \A f : Forest!Range(f) = Range(f)
  <1>1. \A s, e : Forest!RemoveFirst(s, e) = RemoveFirst(s, e)
    BY DEF Forest!RemoveFirst, RemoveFirst, Forest!SelectInSeq, SelectInSeq,
           Forest!RemoveAt, RemoveAt, Forest!Min, Min
  <1>2. \A S, T : Forest!Bijection(S, T) = Bijection(S, T)
    BY DEF Forest!Bijection, Bijection, Forest!Injection, Injection,
           Forest!Surjection, Surjection, Forest!IsInjective, IsInjective
  <1> QED
    BY <1>1, <1>2 DEF Forest!Entities, Entities, Forest!ToSet, ToSet, Forest!Range, Range

LEMMA ParentsStay ==
    ASSUME NEW g, NEW valid, NEW rank, Linked(g, valid, rank), NEW e \in Entities,
           NEW x \in Entities, Has(DestroyOne([alive |-> valid, h |-> g], e).h, x)
    PROVE  /\ Has(g, x)
           /\ ParentOf(DestroyOne([alive |-> valid, h |-> g], e).h, x) = ParentOf(g, x)
  <1>1. x \in Ref /\ g \in Graphs
    BY LinkedFacts
  <1>2. CASE Has(g, e)
    BY <1>1, <1>2, GoneLinks
  <1>3. CASE ~Has(g, e)
    BY <1>1, <1>3, NotThere
  <1> QED
    BY <1>2, <1>3

LEMMA PostOrderSplit ==
    ASSUME NEW g, NEW valid, NEW rank, Linked(g, valid, rank), NEW e \in Entities
    PROVE  LET list == PostOrder(g, e)
           IN  /\ list \in Seq(Entities) /\ Len(list) \in Nat /\ Len(list) >= 1
               /\ list[Len(list)] = e
               /\ \A i \in 1 .. Len(list) - 1 : list[i] \in Underneath(g, e)
               /\ Subtree(g, e) = {list[i] : i \in 1 .. Len(list)}
  <1> DEFINE a == InOrder(FirstOf(g, e), Firsts(g), Nexts(g))
             list == PostOrder(g, e)
  <1>1. a \in Seq(Entities)
    <2>1. Firsts(g) \in [Ref -> Ref] /\ Nexts(g) \in [Ref -> Ref] /\ FirstOf(g, e) \in Ref
      BY LinkFunctions, LinkedFacts
    <2> QED
      BY ONLY <2>1, InOrderInside
  <1>2. list = Append(a, e) /\ Underneath(g, e) = ToSet(a) /\ Subtree(g, e) = ToSet(list)
    <2>1. a \o <<e>> = Append(a, e)
      BY <1>1, AppendIsConcat
    <2> QED
      BY <2>1 DEF PostOrder, Underneath, Subtree
  <1> HIDE DEF a, list
  <1>3. /\ list \in Seq(Entities) /\ Len(list) = Len(a) + 1 /\ Len(a) \in Nat
        /\ \A i \in 1 .. Len(a) : list[i] = a[i]
        /\ list[Len(a) + 1] = e
    BY <1>1, <1>2, AppendProperties, LenProperties
  <1>4. DOMAIN a = 1 .. Len(a) /\ DOMAIN list = 1 .. Len(list)
    BY <1>1, <1>3
  <1>5. \A i \in 1 .. Len(list) - 1 : list[i] \in Underneath(g, e)
    BY <1>2, <1>3, <1>4 DEF ToSet
  <1> QED
    BY <1>2, <1>3, <1>4, <1>5 DEF ToSet, list

LEMMA DeletedLists ==
    ASSUME NEW g, NEW valid, NEW rank, Linked(g, valid, rank), Tidy(g, valid),
           NEW e \in Entities
    PROVE  LET left == DestroyAll([alive |-> valid, h |-> g], PostOrder(g, e))
           IN  /\ left.alive = valid \ Subtree(g, e)
               /\ \A y \in Entities \ Subtree(g, e) :
                    ChildList(left.h, y) = RemoveFirst(ChildList(g, y), e)
  <1> DEFINE list == PostOrder(g, e)
             N == Len(list)
             L == Subtree(g, e)
             U == Underneath(g, e)
             s == [alive |-> valid, h |-> g]
             F == [n \in 1 .. N |-> [v \in Scenes |-> DestroyOne(v, list[n])]]
             left == DestroyAll(s, list)
  <1>1. /\ list \in Seq(Entities) /\ N \in Nat /\ N >= 1
        /\ list[N] = e
        /\ \A i \in 1 .. N - 1 : list[i] \in U
        /\ L = {list[i] : i \in 1 .. N}
    BY PostOrderSplit
  <1>2. \A n \in 1 .. N : list[n] \in Entities
    BY <1>1, ElementOfSeq
  <1>3. /\ g \in Graphs /\ valid \subseteq Entities /\ L = U \cup {e}
        /\ \A x \in Entities : x \in Ref /\ x # null
    BY LinkedFacts, SubtreeFacts
  <1>4. s \in Scenes
    BY <1>3 DEF Scenes
  <1> HIDE DEF list
  <1>5. PICK f : Recurs(f, N, Scenes, s, F) /\ left = f[N]
    BY <1>1, <1>4, DestroyAllSteps
  <1>6. /\ \A n \in 0 .. N : f[n] \in Scenes
        /\ f[0] = s
        /\ \A n \in 1 .. N : f[n] = F[n][f[n - 1]]
    BY <1>5 DEF Recurs
  <1>7. ASSUME NEW n \in 1 .. N
        PROVE  /\ n - 1 \in 0 .. N /\ n \in 0 .. N /\ list[n] \in Entities
               /\ f[n] = DestroyOne([alive |-> f[n - 1].alive, h |-> f[n - 1].h], list[n])
    <2>1. n - 1 \in 0 .. N /\ n \in 0 .. N
      BY <1>1
    <2>2. f[n - 1] \in Scenes
      BY <1>6, <2>1
    <2>3. f[n] = DestroyOne(f[n - 1], list[n])
      BY <1>6, <2>1, <2>2
    <2>4. f[n - 1] = [alive |-> f[n - 1].alive, h |-> f[n - 1].h]
      BY <2>2 DEF Scenes
    <2> QED
      BY <1>2, <2>1, <2>3, <2>4
  <1> HIDE DEF F, left, N, L, U
  <1>8. ASSUME NEW y \in Entities \ L
        PROVE  LET t == ChildList(g, y)
               IN  /\ t \in Seq(Entities)
                   /\ \A i \in 1 .. Len(t) : t[i] \notin U
    <2> DEFINE t == ChildList(g, y)
    <2>1. /\ t \in Seq(Entities) /\ Len(t) \in Nat
          /\ \A i \in 1 .. Len(t) : ParentOf(g, t[i]) = y
      BY ChildrenSpelled
    <2> HIDE DEF t
    <2>2. \A x \in U : ParentOf(g, x) \in L
      BY <1>3, UnderneathFacts DEF UnderneathAt, U
    <2> QED
      BY <2>1, <2>2 DEF t
  <1> DEFINE Same(k) == /\ \A y \in Entities \ L : ChildList(k, y) = ChildList(g, y)
                        /\ \A x \in Entities :
                             Has(k, x) => Has(g, x) /\ ParentOf(k, x) = ParentOf(g, x)
             P(n) == /\ Linked(f[n].h, f[n].alive, rank)
                     /\ f[n].alive = valid \ {list[i] : i \in 1 .. n}
                     /\ n < N => Same(f[n].h)
  <1>9. P(0)
    <2>1. {list[i] : i \in 1 .. 0} = {}
      OBVIOUS
    <2> QED
      BY <1>6, <2>1
  <1>10. ASSUME NEW n \in 1 .. N, P(n - 1) PROVE P(n)
    <2> DEFINE m == f[n - 1].h
               v == f[n - 1].alive
               x == list[n]
               k == DestroyOne([alive |-> v, h |-> m], x)
    <2>0. n - 1 < N
      BY <1>1
    <2>1. /\ x \in Entities /\ Linked(m, v, rank)
          /\ v = valid \ {list[i] : i \in 1 .. n - 1} /\ Same(m)
          /\ f[n] = k
      <3> HIDE DEF Same
      <3> QED
        BY <1>7, <1>10, <2>0
    <2> HIDE DEF m, v, x, P, Same
    <2>2. k.alive = v \ {x} /\ Linked(k.h, v \ {x}, rank)
      <3>1. x \in Entities /\ Linked(m, v, rank)
        BY <2>1
      <3> QED
        BY ONLY <3>1, DestroyKeepsLinked
    <2>3. k.alive = valid \ {list[i] : i \in 1 .. n}
      <3>1. \A i \in 1 .. n : i \in 1 .. n - 1 \/ i = n
        BY <1>1
      <3>2. n \in 1 .. n /\ \A i \in 1 .. n - 1 : i \in 1 .. n
        BY <1>1
      <3> QED
        BY <2>1, <2>2, <3>1, <3>2 DEF x
    <2>4. ASSUME n < N PROVE Same(k.h)
      <3>1. x \in U
        BY <1>1, <2>4 DEF x
      <3>2. ASSUME NEW y \in Entities \ L PROVE ChildList(k.h, y) = ChildList(g, y)
        <4>1. x # y /\ x \in L
          BY <1>3, <3>1
        <4>2. Has(m, x) => ParentOf(m, x) # y
          <5>1. ParentOf(g, x) \in L
            BY <1>3, <3>1, UnderneathFacts DEF UnderneathAt, U
          <5> QED
            BY <2>1, <5>1 DEF Same
        <4>3. ChildList(k.h, y) = RemoveFirst(ChildList(m, y), x)
          BY <2>1, <4>1, <4>2, ListDestroyed
        <4>4. ChildList(m, y) = ChildList(g, y)
          BY <2>1 DEF Same
        <4>5. RemoveFirst(ChildList(g, y), x) = ChildList(g, y)
          BY <1>8, <3>1, OmitNothing
        <4> QED
          BY <4>3, <4>4, <4>5
      <3>3. ASSUME NEW z \in Entities, Has(k.h, z)
            PROVE  Has(g, z) /\ ParentOf(k.h, z) = ParentOf(g, z)
        <4>1. Has(m, z) /\ ParentOf(k.h, z) = ParentOf(m, z)
          BY <2>1, <3>3, ParentsStay
        <4> QED
          BY <2>1, <4>1 DEF Same
      <3> QED
        BY <3>2, <3>3 DEF Same
    <2> QED
      <3> HIDE DEF k
      <3> QED
        BY <2>1, <2>2, <2>3, <2>4 DEF P
  <1> DEFINE G == {n \in 0 .. N : P(n)}
  <1>11. 0 \in G
    <2> HIDE DEF P
    <2> QED
      BY <1>1, <1>9
  <1>12. \A n \in 1 .. N : n - 1 \in G => n \in G
    <2> HIDE DEF P
    <2> QED
      BY <1>7, <1>10
  <1> HIDE DEF G
  <1>13. \A n \in 0 .. N : n \in G
    BY ONLY <1>1, <1>11, <1>12, Upto
  <1>14. P(N) /\ P(N - 1)
    <2>1. N \in 0 .. N /\ N - 1 \in 0 .. N
      BY <1>1
    <2> QED
      BY <1>13, <2>1 DEF G
  <1>15. left.alive = valid \ L
    BY <1>1, <1>5, <1>14
  <1>16. ASSUME NEW y \in Entities \ L
         PROVE  ChildList(left.h, y) = RemoveFirst(ChildList(g, y), e)
    <2> DEFINE m == f[N - 1].h
               v == f[N - 1].alive
    <2>1. Linked(m, v, rank) /\ Same(m) /\ left = DestroyOne([alive |-> v, h |-> m], e)
      <3>1. N \in 1 .. N /\ N - 1 < N
        BY <1>1
      <3> QED
        BY <1>1, <1>5, <1>7, <1>14, <3>1
    <2> HIDE DEF m, v
    <2>2. y # e /\ e \in L
      BY <1>3
    <2>3. ChildList(m, y) = ChildList(g, y)
      BY <2>1
    <2>4. Has(m, e) /\ ParentOf(m, e) = y => e \in GetChildren(m, y)
      <3> SUFFICES ASSUME Has(m, e), ParentOf(m, e) = y PROVE e \in GetChildren(m, y)
        OBVIOUS
      <3>1. Has(g, e) /\ ParentOf(g, e) = y /\ y # null
        BY <1>3, <2>1
      <3>2. e \in GetChildren(g, y)
        BY <3>1, ListedByParent
      <3> QED
        BY <2>3, <3>2 DEF GetChildren
    <2> HIDE DEF Same
    <2>5. ChildList(left.h, y) = RemoveFirst(ChildList(m, y), e)
      BY <2>1, <2>2, <2>4, ListDestroyed
    <2> QED
      BY <2>3, <2>5
  <1> QED
    BY <1>15, <1>16 DEF left, L, list

LEMMA Barren ==
    ASSUME NEW g, NEW valid, NEW rank, Linked(g, valid, rank),
           NEW x \in Entities, FirstOf(g, x) = null
    PROVE  ChildList(g, x) = <<>>
  <1>1. Spells(g, <<>>, null)
    <2>1. <<>> \in Seq(Entities) /\ Len(<<>>) = 0
      OBVIOUS
    <2> QED
      BY <2>1 DEF Spells, Item
  <1> QED
    BY <1>1, ListIs

LEMMA ChildrenBelow ==
    ASSUME NEW g, NEW valid, NEW rank, Linked(g, valid, rank),
           NEW e \in Entities, NEW x \in Subtree(g, e)
    PROVE  GetChildren(g, x) \subseteq Underneath(g, e)
  <1> DEFINE U == Underneath(g, e)
  <1>1. /\ Subtree(g, e) = U \cup {e} /\ U \subseteq Entities
        /\ FirstOf(g, e) \in U \cup {null}
        /\ \A z \in U : FirstOf(g, z) \in U \cup {null} /\ NextOf(g, z) \in U \cup {null}
    BY SubtreeFacts
  <1> HIDE DEF U
  <1>2. FirstOf(g, x) \in U \cup {null} /\ FirstOf(g, x) \in Ref
    <2>1. x \in Ref
      BY <1>1, LinkedFacts
    <2> QED
      BY <1>1, <2>1, LinkedFacts
  <1>3. ToSet(Siblings(g, FirstOf(g, x))) \subseteq U
    BY <1>1, <1>2, SiblingsFacts
  <1> QED
    BY <1>3 DEF GetChildren, ChildList, U

LEMMA CopiedLists ==
    ASSUME NEW g, NEW valid, NEW c, Sound(g, valid, c), NEW e \in valid,
           NEW d \in 0 .. MaxEntities, c <= d, NEW copy, Copying(copy, Subtree(g, e), c, d)
    PROVE  LET k == Copies(g, e, copy)
           IN  /\ \A y \in Entities \ Range(copy) : ChildList(k, y) = ChildList(g, y)
               /\ \A x \in Subtree(g, e) :
                    ChildList(k, copy[x]) =
                      [i \in DOMAIN ChildList(g, x) |-> copy[ChildList(g, x)[i]]]
  <1> DEFINE k == Copies(g, e, copy)
             L == Subtree(g, e)
             U == Underneath(g, e)
             C == Range(copy)
             v == valid \cup C
  <1>1. PICK rank : Linked(g, valid, rank)
    BY DEF Sound
  <1>2. Sound(k, v, d) /\ valid \cap C = {}
    BY CopiedKeeps
  <1>3. PICK r : Linked(k, v, r)
    BY <1>2 DEF Sound
  <1>4. /\ e \in Entities /\ null \notin Entities
        /\ \A x \in Entities : x \in Ref
        /\ \A x \in Ref : Has(g, x) => x \in valid
    BY <1>1, LinkedFacts DEF null, Entities
  <1>5. L = U \cup {e} /\ U \subseteq Entities
    BY <1>1, <1>4, SubtreeFacts
  <1>6. \A x \in U : x # e
    BY <1>1, <1>4, UnderneathFacts DEF UnderneathAt
  <1>7. /\ \A y \in Ref \ C : FirstOf(k, y) = FirstOf(g, y) /\ NextOf(k, y) = NextOf(g, y)
        /\ \A x \in L :
             /\ FirstOf(k, copy[x]) = CopyRef(copy, FirstOf(g, x))
             /\ x # e => NextOf(k, copy[x]) = CopyRef(copy, NextOf(g, x))
    BY <1>4, CopiedLinks
  <1>8. \A x \in L : copy[x] \in Entities
    <2>1. c + 1 .. d \subseteq Entities
      BY SoundFacts, HierarchyAssumption DEF Entities
    <2> QED
      BY <2>1 DEF Copying
  <1> HIDE DEF k, C, L, U
  <1>9. ASSUME NEW y \in Entities \ C PROVE ChildList(k, y) = ChildList(g, y)
    <2> DEFINE s == ChildList(g, y)
    <2>1. /\ s \in Seq(Entities) /\ Spells(g, s, FirstOf(g, y))
          /\ \A i \in 1 .. Len(s) : s[i] \in Entities /\ Has(g, s[i])
      BY <1>1, ChildrenSpelled
    <2> HIDE DEF s
    <2>2. \A i \in 1 .. Len(s) : s[i] \in Ref \ C
      BY <1>2, <1>4, <2>1
    <2>3. Spells(k, s, FirstOf(k, y))
      BY <1>4, <1>7, <2>1, <2>2 DEF Spells
    <2> QED
      BY <1>3, <2>3, ListIs DEF s
  <1>10. ASSUME NEW x \in L
         PROVE  ChildList(k, copy[x]) =
                  [i \in DOMAIN ChildList(g, x) |-> copy[ChildList(g, x)[i]]]
    <2> DEFINE s == ChildList(g, x)
               n == Len(s)
               t == [i \in 1 .. n |-> copy[s[i]]]
    <2>1. /\ s \in Seq(Entities) /\ n \in Nat /\ DOMAIN s = 1 .. n
          /\ Spells(g, s, FirstOf(g, x))
          /\ GetChildren(g, x) = {s[i] : i \in 1 .. n}
      BY <1>1, <1>4, <1>5, ChildrenSpelled
    <2>2. \A i \in 1 .. n : s[i] \in L /\ s[i] # e /\ s[i] # null /\ copy[s[i]] \in Entities
      <3>1. GetChildren(g, x) \subseteq U
        BY <1>1, <1>4, ChildrenBelow DEF L, U
      <3> HIDE DEF s
      <3>2. \A i \in 1 .. n : s[i] \in U
        BY <2>1, <3>1
      <3> QED
        BY <1>4, <1>5, <1>6, <1>8, <3>2
    <2> HIDE DEF s
    <2>3. t \in Seq(Entities) /\ Len(t) = n /\ \A i \in 1 .. n : t[i] = copy[s[i]]
      <3> HIDE DEF n
      <3>1. t \in [1 .. n -> Entities]
        BY <2>2
      <3> QED
        BY <2>1, <3>1
    <2> HIDE DEF t
    <2>4. \A i \in Nat : Item(t, i) = CopyRef(copy, Item(s, i))
      BY <2>2, <2>3 DEF Item, CopyRef
    <2>5. Item(t, 1) = FirstOf(k, copy[x])
      BY <1>7, <2>1, <2>4 DEF Spells
    <2>6. ASSUME NEW i \in 1 .. n PROVE NextOf(k, t[i]) = Item(t, i + 1)
      <3>1. NextOf(g, s[i]) = Item(s, i + 1) /\ i + 1 \in Nat
        BY <2>1 DEF Spells
      <3>2. NextOf(k, t[i]) = CopyRef(copy, NextOf(g, s[i]))
        BY <1>7, <2>2, <2>3
      <3> QED
        BY <2>4, <3>1, <3>2
    <2>7. Spells(k, t, FirstOf(k, copy[x]))
      BY <2>3, <2>5, <2>6 DEF Spells
    <2>8. ChildList(k, copy[x]) = t
      BY <1>3, <1>8, <2>7, ListIs
    <2> QED
      BY <2>1, <2>8 DEF t, s
  <1> QED
    BY <1>9, <1>10 DEF k, L, C

LEMMA KidsNow ==
    /\ \A x \in Entities : Kids(h)[x] = ChildList(h, x)
    /\ \A x \in Entities : Kids(h')[x] = ChildList(h', x)
    /\ DOMAIN Kids(h) = Entities /\ DOMAIN Kids(h') = Entities
  BY DEF Kids

LEMMA CreateEntityMaps == HierarchyInv /\ CreateEntity => Forest!ForestNext
  <1> SUFFICES ASSUME HierarchyInv, CreateEntity PROVE Forest!ForestNext
    OBVIOUS
  <1> DEFINE e == created + 1
  <1>1. created < MaxEntities /\ alive' = alive \cup {e} /\ h' = h
    BY DEF CreateEntity, New
  <1>2. Sound(h, alive, created)
    BY DEF HierarchyInv
  <1>3. e \in Entities /\ e \notin alive
    BY <1>1, <1>2, CreateKeeps
  <1> HIDE DEF e
  <1>4. Forest!Create(e)
    BY <1>1, <1>3 DEF Forest!Create
  <1> QED
    BY <1>3, <1>4, ForestOperators DEF Forest!ForestNext

LEMMA AddChildMaps ==
    ASSUME HierarchyInv, lost = {}, NEW p \in Drawn(h, alive), AddChild(p)
    PROVE  Forest!ForestNext
  <1> DEFINE e == created + 1
             v == alive \cup {e}
  <1>1. /\ created < MaxEntities /\ alive' = v /\ h' = Moved(h, v, e, p)
    BY DEF AddChild, New, Moved
  <1>2. Sound(h, alive, created) /\ Tidy(h, alive)
    BY DEF HierarchyInv
  <1>3. p \in alive /\ p \in Entities /\ AllHave(h, p)
    BY DrawnNow
  <1>4. /\ Sound(h, v, e) /\ e \in Entities /\ e \notin alive /\ ~Has(h, e)
        /\ Tidy(h, v)
    BY <1>1, <1>2, CreateKeeps
  <1>5. e # p /\ p \notin Descendants(h, e)
    <2>1. e # null
      BY <1>4 DEF Entities, null
    <2>2. e \notin Ancestors(h, p)
      BY <1>3, <1>4, <2>1 DEF AllHave
    <2> QED
      BY <1>3, <1>4, <2>2 DEF Descendants
  <1>6. PICK rank : Linked(h, v, rank)
    BY <1>4 DEF Sound
  <1>7. e \in v /\ p \in v
    BY <1>3
  <1> HIDE DEF e, v
  <1>8. \A y \in Entities :
          ChildList(h', y) = IF y = p THEN Append(RemoveFirst(ChildList(h, p), e), e)
                             ELSE RemoveFirst(ChildList(h, y), e)
    BY <1>1, <1>4, <1>5, <1>6, <1>7, ListMoved
  <1>9. ASSUME NEW y \in Entities PROVE RemoveFirst(ChildList(h, y), e) = ChildList(h, y)
    <2> DEFINE s == ChildList(h, y)
    <2>1. s \in Seq(Entities) /\ \A i \in 1 .. Len(s) : Has(h, s[i])
      BY <1>6, ChildrenSpelled
    <2> HIDE DEF s
    <2>2. \A i \in 1 .. Len(s) : s[i] # e
      BY <1>4, <2>1
    <2> QED
      BY <2>1, <2>2, OmitNothing DEF s
  <1>10. Kids(h') = [Kids(h) EXCEPT ![p] = Append(@, e)]
    BY <1>3, <1>8, <1>9 DEF Kids
  <1>11. Forest!CreateBelow(e, p)
    BY <1>1, <1>3, <1>4, <1>10, ForestOperators DEF Forest!CreateBelow, Kids, v
  <1> QED
    BY <1>3, <1>4, <1>11, ForestOperators DEF Forest!ForestNext

\* What is below an entity has it among its parents.
LEMMA SubtreeBelow ==
    ASSUME NEW g, NEW valid, NEW rank, Linked(g, valid, rank), NEW e \in Entities
    PROVE  Subtree(g, e) \subseteq Descendants(g, e)
  <1> DEFINE D == Descendants(g, e)
             U == Underneath(g, e)
             S == U \cap D
  <1>1. g \in Graphs /\ \A x \in Entities : x \in Ref /\ (Has(g, x) => LinkedAt(g, valid, rank, x))
    BY LinkedFacts
  <1>2. /\ Subtree(g, e) = U \cup {e} /\ U \subseteq Entities
        /\ FirstOf(g, e) \in U \cup {null}
        /\ \A z \in U : FirstOf(g, z) \in U \cup {null} /\ NextOf(g, z) \in U \cup {null}
        /\ \A T \in SUBSET Entities :
             /\ FirstOf(g, e) \in T \cup {null}
             /\ \A z \in T : FirstOf(g, z) \in T \cup {null} /\ NextOf(g, z) \in T \cup {null}
             => U \subseteq T
    BY SubtreeFacts
  <1>3. \A x \in U : x # e /\ Has(g, x)
    BY UnderneathFacts DEF UnderneathAt
  <1>4. /\ D \subseteq Entities /\ e \in D
        /\ \A x \in Entities : Has(g, x) /\ ParentOf(g, x) \in D => x \in D
        /\ \A x \in D \ {e} : Has(g, x) => ParentOf(g, x) \in D
    BY <1>1, DescendantsBelow DEF Below
  <1> HIDE DEF D, U
  <1>5. ASSUME NEW x \in D, FirstOf(g, x) # null, FirstOf(g, x) \in U
        PROVE  FirstOf(g, x) \in D
    <2>1. Has(g, x) /\ LinkedAt(g, valid, rank, x)
      BY <1>1, <1>4, <1>5, LinkedFacts
    <2> QED
      BY <1>2, <1>3, <1>4, <1>5, <2>1 DEF LinkedAt
  <1>6. ASSUME NEW z \in S, NextOf(g, z) # null PROVE NextOf(g, z) \in D
    <2>1. Has(g, z) /\ LinkedAt(g, valid, rank, z) /\ ParentOf(g, z) \in D /\ NextOf(g, z) \in U
      BY <1>1, <1>2, <1>3, <1>4, <1>6
    <2> QED
      BY <1>2, <1>3, <1>4, <1>6, <2>1 DEF LinkedAt
  <1>7. S \in SUBSET Entities /\ FirstOf(g, e) \in S \cup {null}
        /\ \A z \in S : FirstOf(g, z) \in S \cup {null} /\ NextOf(g, z) \in S \cup {null}
    BY <1>2, <1>4, <1>5, <1>6
  <1> HIDE DEF S
  <1>8. U \subseteq S
    BY <1>2, <1>7
  <1> QED
    BY <1>2, <1>4, <1>8 DEF S, D

LEMMA DropMaps ==
    ASSUME HierarchyInv, lost = {},
           NEW e \in Drawn(h, alive), NEW p \in Drawn(h, alive), Drop(e, p)
    PROVE  Forest!ForestNext
  <1>1. /\ e # p
        /\ Has(h, e) => e \notin Ancestors(h, p)
        /\ h' = Moved(h, alive, e, p) /\ alive' = alive
    BY DEF Drop, Acceptable, IsParentOfEntity, Moved
  <1>2. Sound(h, alive, created) /\ Tidy(h, alive)
    BY DEF HierarchyInv
  <1>3. /\ e \in alive /\ e # null /\ e \in Entities
        /\ p \in alive /\ p \in Entities /\ AllHave(h, p)
    BY DrawnNow
  <1>4. p \notin Descendants(h, e)
    BY <1>1, <1>3 DEF AllHave, Descendants
  <1>5. PICK rank : Linked(h, alive, rank)
    BY <1>2 DEF Sound
  <1>6. \A y \in Entities :
          ChildList(h', y) = IF y = p THEN Append(RemoveFirst(ChildList(h, p), e), e)
                             ELSE RemoveFirst(ChildList(h, y), e)
    BY <1>1, <1>2, <1>3, <1>4, <1>5, ListMoved
  <1>7. p \notin Forest!Subtree(Kids(h), e)
    BY <1>3, <1>4, <1>5, SubtreeBelow, ForestSubtree
  <1>8. e \in ToSet(Kids(h')[p])
    <2> DEFINE s == RemoveFirst(ChildList(h, p), e)
    <2>1. s \in Seq(Entities)
      <3> DEFINE t == ChildList(h, p)
      <3>1. t \in Seq(Entities) /\ \A i, j \in 1 .. Len(t) : t[i] = t[j] => i = j
        BY <1>3, <1>5, ChildrenSpelled
      <3> HIDE DEF t
      <3>2. RemoveFirst(t, e) \in Seq(Entities)
        BY <3>1, OmitSeq
      <3> QED
        BY <3>2 DEF t
    <2> HIDE DEF s
    <2>2. e \in ToSet(Append(s, e))
      BY <1>3, <2>1 DEF ToSet
    <2> QED
      BY <1>3, <1>6, <2>2 DEF Kids, s
  <1>9. Kids(h') = [[x \in Entities |-> RemoveFirst(Kids(h)[x], e)] EXCEPT ![p] = Append(@, e)]
    BY <1>3, <1>6 DEF Kids
  <1>10. Forest!MoveBelow(e, p)
    BY <1>1, <1>3, <1>7, <1>8, <1>9, ForestOperators DEF Forest!MoveBelow, Forest!Without, Kids
  <1> QED
    BY <1>3, <1>10, ForestOperators DEF Forest!ForestNext

LEMMA DropOutsideMaps ==
    ASSUME HierarchyInv, lost = {}, NEW e \in Drawn(h, alive), DropOutside(e)
    PROVE  Forest!ForestNext
  <1>1. Has(h, e) /\ h' = Detached(h, alive, e) /\ alive' = alive
    BY DEF DropOutside, Detached
  <1>2. Sound(h, alive, created) /\ Tidy(h, alive)
    BY DEF HierarchyInv
  <1>3. e \in alive /\ e \in Entities
    BY DrawnNow
  <1>4. PICK rank : Linked(h, alive, rank)
    BY <1>2 DEF Sound
  <1>5. \A y \in Entities : ChildList(h', y) = RemoveFirst(ChildList(h, y), e)
    BY <1>1, <1>2, <1>3, <1>4, ListDetached
  <1>6. Kids(h') = [x \in Entities |-> RemoveFirst(Kids(h)[x], e)]
    BY <1>5 DEF Kids
  <1>7. Forest!MakeRoot(e)
    BY <1>1, <1>3, <1>6, ForestOperators DEF Forest!MakeRoot, Forest!Without, Kids
  <1> QED
    BY <1>3, <1>7, ForestOperators DEF Forest!ForestNext

LEMMA DropOnPanelAreaMaps ==
    ASSUME HierarchyInv, lost' = {}, NEW e \in Drawn(h, alive), DropOnPanelArea(e)
    PROVE  Forest!ForestNext
  <1> DEFINE d == Detached(h, alive, e)
             k == WithoutComponent(d, e)
  <1>1. Has(h, e) /\ h' = k /\ alive' = alive /\ lost = {} /\ h[e].first = null
    BY DEF DropOnPanelArea, Detached, WithoutComponent
  <1>2. Sound(h, alive, created) /\ Tidy(h, alive)
    BY <1>1 DEF HierarchyInv
  <1>3. e \in alive /\ e \in Entities /\ TidyAt(h, alive, e)
    BY <1>1, DrawnNow
  <1>4. PICK rank : Linked(h, alive, rank)
    BY <1>2 DEF Sound
  <1>5. \A y \in Entities : ChildList(d, y) = RemoveFirst(ChildList(h, y), e)
    BY <1>1, <1>2, <1>3, <1>4, ListDetached
  <1>6. /\ FirstOf(h, e) = null /\ FirstOf(d, e) = null
        /\ ParentOf(d, e) = null /\ NextOf(d, e) = null
    <2>1. FirstOf(h, e) = null
      BY <1>1 DEF FirstOf
    <2> QED
      BY <1>1, <1>3, <1>4, <2>1, DetachedLinks
  <1>7. PICK r : Linked(d, alive, r)
    <2>1. Sound(d, alive, created)
      BY <1>1, <1>2, <1>3, OutsideKeeps
    <2> QED
      BY <2>1 DEF Sound
  <1>8. PICK rr : Linked(k, alive, rr)
    <2>1. Sound(k, alive, created)
      BY <1>1, <1>2, <1>3, PanelKeeps
    <2> QED
      BY <2>1 DEF Sound
  <1> HIDE DEF d
  <1>9. \A x \in Ref : FirstOf(k, x) = FirstOf(d, x) /\ NextOf(k, x) = NextOf(d, x)
    <2>1. d \in Graphs
      BY <1>7, LinkedFacts
    <2> QED
      BY <1>3, <1>6, <2>1, WithoutLinks
  <1> HIDE DEF k
  <1>10. ASSUME NEW y \in Entities PROVE ChildList(k, y) = ChildList(d, y)
    <2> DEFINE s == ChildList(d, y)
    <2>1. /\ Spells(d, s, FirstOf(d, y)) /\ y \in Ref
          /\ \A i \in 1 .. Len(s) : s[i] \in Ref
      BY <1>7, ChildrenSpelled DEF Ref
    <2> HIDE DEF s
    <2>2. Spells(k, s, FirstOf(k, y))
      BY <1>9, <2>1 DEF Spells
    <2> QED
      BY <1>8, <2>2, ListIs DEF s
  <1>11. Kids(h') = [x \in Entities |-> RemoveFirst(Kids(h)[x], e)]
    BY <1>1, <1>5, <1>10 DEF Kids
  <1>12. Forest!MakeRoot(e)
    BY <1>1, <1>3, <1>11, ForestOperators DEF Forest!MakeRoot, Forest!Without, Kids
  <1> QED
    BY <1>3, <1>12, ForestOperators DEF Forest!ForestNext

LEMMA DestroyMaps ==
    ASSUME HierarchyInv, lost = {}, NEW e \in alive, DestroyEntity(e)
    PROVE  Forest!ForestNext
  <1> DEFINE k == DestroyAll([alive |-> alive, h |-> h], PostOrder(h, e))
             L == Subtree(h, e)
  <1>1. alive' = k.alive /\ h' = k.h
    BY DEF DestroyEntity
  <1>2. Sound(h, alive, created) /\ Tidy(h, alive)
    BY DEF HierarchyInv
  <1>3. e \in Entities
    BY <1>2, SoundFacts
  <1>4. PICK rank : Linked(h, alive, rank)
    BY <1>2 DEF Sound
  <1>5. k.alive = alive \ L /\ \A y \in Entities \ L : ChildList(k.h, y) = RemoveFirst(ChildList(h, y), e)
    BY <1>2, <1>3, <1>4, DeletedLists
  <1>6. PICK r : Linked(k.h, k.alive, r)
    <2>1. Sound(k.h, k.alive, created)
      BY <1>2, <1>3, DeleteKeeps
    <2> QED
      BY <2>1 DEF Sound
  <1>7. e \in L /\ alive \subseteq Entities /\ Forest!Subtree(Kids(h), e) = L
    BY <1>3, <1>4, SubtreeFacts, ForestSubtree, LinkedFacts
  <1> HIDE DEF k, L
  <1>8. ASSUME NEW x \in Entities
        PROVE  ChildList(h', x) = IF x \in alive' THEN RemoveFirst(ChildList(h, x), e) ELSE <<>>
    <2>1. CASE x \in alive'
      BY <1>1, <1>5, <2>1
    <2>2. CASE x \notin alive'
      <3>1. FirstOf(k.h, x) = null
        BY <1>1, <1>6, <2>2, LinkedFacts
      <3> QED
        BY <1>1, <1>6, <2>2, <3>1, Barren
    <2> QED
      BY <2>1, <2>2
  <1>9. Kids(h') = [x \in Entities |-> IF x \in alive' THEN RemoveFirst(Kids(h)[x], e) ELSE <<>>]
    BY <1>8 DEF Kids
  <1>10. e \notin alive' /\ alive' = alive \ Forest!Subtree(Kids(h), e)
    BY <1>1, <1>5, <1>7
  <1>11. Forest!Delete(e)
    BY <1>9, <1>10, ForestOperators DEF Forest!Delete, Kids
  <1> QED
    BY <1>3, <1>11, ForestOperators DEF Forest!ForestNext

LEMMA ExitSceneMaps == HierarchyInv /\ ExitScene => Forest!ForestNext
  <1> SUFFICES ASSUME HierarchyInv, ExitScene PROVE Forest!ForestNext
    OBVIOUS
  <1>1. alive' = {} /\ h' = [e \in Entities |-> NoHierarchy]
    BY DEF ExitScene
  <1>2. PICK r : Linked(h', alive', r)
    <2>1. Sound(h', alive', created')
      BY ExitSceneInv DEF HierarchyInv
    <2> QED
      BY <2>1 DEF Sound
  <1>3. ASSUME NEW x \in Entities PROVE ChildList(h', x) = <<>>
    <2>1. FirstOf(h', x) = null
      BY <1>1, <1>2, LinkedFacts
    <2> QED
      BY <1>2, <2>1, Barren
  <1>4. Kids(h') = [x \in Entities |-> <<>>]
    BY <1>3 DEF Kids
  <1>5. Forest!Clear
    BY <1>1, <1>4, ForestOperators DEF Forest!Clear, Kids
  <1> QED
    BY <1>5 DEF Forest!ForestNext

LEMMA LoadSceneMaps ==
    ASSUME HierarchyInv, NEW n \in Entities, LoadScene(n)
    PROVE  Forest!ForestNext
  <1>1. alive = {} /\ alive' = 1 .. n
    BY DEF LoadScene
  <1>2. PICK r : Linked(h', alive', r)
    <2>1. Sound(h', alive', created')
      BY LoadSceneInv DEF HierarchyInv
    <2> QED
      BY <2>1 DEF Sound
  <1>3. alive' \subseteq Entities
    BY <1>2, LinkedFacts
  <1>4. ASSUME NEW x \in Entities PROVE ToSet(Kids(h')[x]) \subseteq alive'
    <2> DEFINE s == ChildList(h', x)
    <2>1. DOMAIN s = 1 .. Len(s) /\ \A i \in 1 .. Len(s) : s[i] \in Entities /\ Has(h', s[i])
      BY <1>2, ChildrenSpelled
    <2> HIDE DEF s
    <2>2. ToSet(s) \subseteq alive'
      BY <1>2, <2>1, LinkedFacts DEF ToSet
    <2> QED
      BY <2>2 DEF Kids, s
  <1>5. Forest!Load
    BY <1>1, <1>3, <1>4, ForestOperators DEF Forest!Load, Kids
  <1> QED
    BY <1>5 DEF Forest!ForestNext

\* A copy that is pasted on p comes last among the children of p, and changes
\* no other list.
LEMMA ListPasted ==
    ASSUME NEW g, NEW valid, NEW rank, Linked(g, valid, rank), Tidy(g, valid),
           NEW e \in valid, NEW p \in valid, e # p, Has(g, e), ParentOf(g, e) = null,
           NEW D, Below(g, D, e), p \notin D, NEW y \in Entities
    PROVE  ChildList(Reparent(g, valid, e, p), y)
             = IF y = p THEN Append(ChildList(g, p), e) ELSE ChildList(g, y)
  <1>1. p \in Entities /\ null \notin Entities
    BY LinkedFacts DEF null, Entities
  <1>2. ASSUME NEW x \in Entities PROVE RemoveFirst(ChildList(g, x), e) = ChildList(g, x)
    <2> DEFINE s == ChildList(g, x)
    <2>1. s \in Seq(Entities) /\ \A i \in 1 .. Len(s) : ParentOf(g, s[i]) = x
      BY ChildrenSpelled
    <2> HIDE DEF s
    <2>2. \A i \in 1 .. Len(s) : s[i] # e
      BY <1>1, <2>1
    <2> QED
      BY <2>1, <2>2, OmitNothing DEF s
  <1>3. ChildList(Reparent(g, valid, e, p), y)
          = IF y = p THEN Append(RemoveFirst(ChildList(g, p), e), e)
            ELSE RemoveFirst(ChildList(g, y), e)
    BY ListReparented
  <1> QED
    BY <1>1, <1>2, <1>3

LEMMA DuplicateMaps ==
    ASSUME HierarchyInv, lost' = {}, NEW e \in alive, NEW node \in alive \cup {null},
           NEW t \in alive \cup {null}, DuplicateEntity(e, node, t)
    PROVE  Forest!ForestNext
  <1> DEFINE copy == CopyMap(e)
             d == created + Len(PostOrder(h, e))
             g == Copies(h, e, copy)
             C == Range(copy)
             v == alive \cup C
             ce == copy[e]
             L == Subtree(h, e)
             Copied(x) == [i \in DOMAIN ChildList(h, x) |-> copy[ChildList(h, x)[i]]]
  <1>1. /\ created' = d /\ d <= MaxEntities /\ alive' = v
        /\ h' = IF node = null THEN g ELSE Attach(g, v, ce, node, FALSE)
        /\ lost = {} /\ (node = null \/ Has(h, e))
    BY DEF DuplicateEntity
  <1>2. Sound(h, alive, created) /\ Tidy(h, alive) /\ created \in Nat
    BY <1>1 DEF HierarchyInv, HierarchyTypeOK
  <1>3. e \in Entities /\ alive \subseteq Entities /\ null \notin alive
    BY <1>2, SoundFacts DEF Entities, null
  <1>4. Copying(copy, L, created, d)
    BY <1>3, CopyMapFacts
  <1>5. PICK rank : Linked(h, alive, rank)
    BY <1>2 DEF Sound
  <1>6. d \in 0 .. MaxEntities /\ created <= d
    <2>1. Len(PostOrder(h, e)) \in Nat
      <3>1. PostOrder(h, e) \in Seq(Entities)
        BY <1>3, <1>5, SubtreeFacts
      <3> QED
        BY <3>1
    <2> QED
      BY <1>1, <1>2, <2>1, HierarchyAssumption
  <1> HIDE DEF copy, d
  <1>7. Sound(g, v, d) /\ CopyOK(h, g, v, e, copy) /\ alive \cap C = {} /\ ce \in v
    BY <1>2, <1>4, <1>6, CopiedKeeps
  <1>8. /\ \A y \in Entities \ C : ChildList(g, y) = ChildList(h, y)
        /\ \A x \in L : ChildList(g, copy[x]) = Copied(x)
    BY <1>2, <1>4, <1>6, CopiedLists
  <1>9. /\ DOMAIN copy = L /\ \A x, y \in L : copy[x] = copy[y] => x = y
        /\ e \in L /\ L = Forest!Subtree(Kids(h), e)
        /\ \A x \in L : x \in Entities
    BY <1>3, <1>4, <1>5, SubtreeFacts, ForestSubtree DEF Copying
  <1>10. ce \in C
    BY <1>9 DEF Range
  <1>11. copy \in Bijection(L, C)
    <2>1. copy \in [L -> C]
      BY <1>9 DEF copy, CopyMap, Range, L, Subtree
    <2> QED
      BY <1>9, <2>1 DEF Bijection, Injection, Surjection, IsInjective, Range
  <1>12. alive' \ alive = C /\ alive \subseteq alive' /\ alive # alive'
    BY <1>1, <1>7, <1>10
  <1>13. PICK r : Linked(g, v, r)
    BY <1>7 DEF Sound
  <1>14. /\ Tidy(g, v) /\ Below(g, C, ce) /\ ParentOf(g, ce) = null
         /\ Has(g, ce) <=> Has(h, e)
    <2>1. v \ C = alive
      BY <1>7
    <2> QED
      BY <1>2, <1>7, <2>1 DEF CopyOK
  <1>15. C \subseteq Entities /\ v \subseteq Entities
    BY <1>14, <1>3 DEF Below
  <1> HIDE DEF g, C, v, ce, L, Copied
  <1>16. \A y \in Entities :
           ChildList(h', y) = IF node # null /\ y = node THEN Append(ChildList(g, node), ce)
                              ELSE ChildList(g, y)
    <2>1. CASE node = null
      BY <1>1, <2>1
    <2>2. CASE node # null
      <3>1. node \in alive /\ node \in v /\ node \notin C /\ ce # node
        BY <1>7, <1>10, <2>2 DEF v
      <3>2. h' = Reparent(g, v, ce, node)
        BY <1>1, <1>14, <2>2 DEF Attach
      <3>3. Has(g, ce) /\ ce \in v
        BY <1>1, <1>7, <1>14, <2>2
      <3>4. ASSUME NEW y \in Entities
            PROVE  ChildList(Reparent(g, v, ce, node), y)
                     = IF y = node THEN Append(ChildList(g, node), ce) ELSE ChildList(g, y)
        BY <1>13, <1>14, <3>1, <3>3, ListPasted
      <3> QED
        BY <2>2, <3>2, <3>4
    <2> QED
      BY <2>1, <2>2
  <1>17. \A x \in alive : x \in Entities /\ x \notin C
    BY <1>3, <1>7
  <1>18. \A x \in L : copy[x] \in C /\ copy[x] \in Entities
    BY <1>9, <1>15 DEF C, Range
  <1>19. ASSUME NEW x \in Entities \ alive' PROVE Kids(h')[x] = <<>>
    <2>1. FirstOf(g, x) = null
      BY <1>1, <1>13, LinkedFacts
    <2>2. ChildList(g, x) = <<>>
      BY <1>13, <2>1, Barren
    <2>3. x # node \/ node = null
      BY <1>12
    <2> QED
      BY <1>16, <2>2, <2>3 DEF Kids
  <1>20. \A x \in alive \ {node} : Kids(h')[x] = Kids(h)[x]
    BY <1>8, <1>16, <1>17 DEF Kids
  <1>21. ASSUME NEW x \in DOMAIN copy
         PROVE  Kids(h')[copy[x]] = [i \in DOMAIN Kids(h)[x] |-> copy[Kids(h)[x][i]]]
    <2>1. x \in L /\ x \in Entities
      BY <1>9
    <2>2. copy[x] \in C /\ copy[x] \in Entities /\ (node = null \/ copy[x] # node)
      BY <1>17, <1>18, <2>1
    <2>3. ChildList(h', copy[x]) = Copied(x)
      BY <1>8, <1>16, <2>1, <2>2
    <2> QED
      BY <2>1, <2>2, <2>3 DEF Kids, Copied
  <1>22. node # null => Kids(h')[node] = Append(Kids(h)[node], ce)
    BY <1>8, <1>16, <1>17 DEF Kids
  <1>23. Forest!Copy(e, node)
    <2>1. copy \in Bijection(Forest!Subtree(Kids(h), e), alive' \ alive)
      BY <1>9, <1>11, <1>12
    <2>2. node # 0 => Kids(h')[node] = Append(Kids(h)[node], copy[e])
      BY <1>22 DEF null, ce
    <2> QED
      BY <1>12, <1>19, <1>20, <1>21, <2>1, <2>2, ForestOperators DEF Forest!Copy, Kids
  <1>24. node \in alive \/ node = 0
    BY DEF null
  <1> QED
    BY <1>3, <1>23, <1>24, ForestOperators DEF Forest!ForestNext

LEMMA ForestKeptByStep ==
    HierarchyInv /\ [HierarchyNext]_hierarchyVars
      => (lost' = {} => [Forest!ForestNext]_(Forest!forestVars))
  <1> SUFFICES ASSUME HierarchyInv, [HierarchyNext]_hierarchyVars, lost' = {}
               PROVE  [Forest!ForestNext]_(Forest!forestVars)
    OBVIOUS
  <1>1. doomed \in alive \cup {null} /\ null \notin alive
    <2>1. Sound(h, alive, created) /\ doomed \in alive \cup {null}
      BY DEF HierarchyInv, HierarchyTypeOK
    <2> QED
      BY <2>1, SoundFacts DEF Entities, null
  <1>2. \A e \in Drawn(h, alive) : e \in alive
    BY DrawnNow
  <1>3. CASE CreateEntity
    BY <1>3, CreateEntityMaps
  <1>4. ASSUME NEW e \in Drawn(h, alive), AddChild(e) PROVE Forest!ForestNext
    BY <1>4, AddChildMaps DEF AddChild
  <1>5. ASSUME NEW e \in Drawn(h, alive), DropOutside(e) PROVE Forest!ForestNext
    BY <1>5, DropOutsideMaps DEF DropOutside
  <1>6. ASSUME NEW e \in Drawn(h, alive), DropOnPanelArea(e) PROVE Forest!ForestNext
    BY <1>6, DropOnPanelAreaMaps
  <1>7. ASSUME NEW e \in Drawn(h, alive), Delete(e) PROVE Forest!ForestNext
    BY <1>2, <1>7, DestroyMaps DEF Delete
  <1>8. ASSUME NEW e \in Drawn(h, alive), Duplicate(e) PROVE Forest!ForestNext
    BY <1>2, <1>8, DuplicateMaps DEF Duplicate
  <1>9. ASSUME NEW e \in Drawn(h, alive), NEW node \in Drawn(h, alive), Drop(e, node)
        PROVE  Forest!ForestNext
    BY <1>9, DropMaps DEF Drop
  <1>10. ASSUME NEW e \in alive, NEW cut \in BOOLEAN, PasteRoot(e, cut) PROVE Forest!ForestNext
    <2>1. DuplicateEntity(e, null, IF cut THEN e ELSE null)
      BY <1>10 DEF PasteRoot
    <2> QED
      BY <2>1, DuplicateMaps
  <1>11. ASSUME NEW e \in alive, NEW cut \in BOOLEAN, NEW node \in Drawn(h, alive),
                Paste(e, node, cut)
         PROVE  Forest!ForestNext
    <2>1. DuplicateEntity(e, node, IF cut THEN node ELSE null) /\ node \in alive
      BY <1>2, <1>11 DEF Paste
    <2> QED
      BY <2>1, DuplicateMaps
  <1>12. CASE DestroyDoomed
    <2>1. doomed \in alive /\ DestroyEntity(doomed) /\ lost = {}
      BY <1>1, <1>12 DEF DestroyDoomed
    <2> QED
      BY <2>1, DestroyMaps
  <1>13. CASE ExitScene
    BY <1>13, ExitSceneMaps
  <1>14. ASSUME NEW n \in Entities, LoadScene(n) PROVE Forest!ForestNext
    BY <1>14, LoadSceneMaps
  <1>15. CASE UNCHANGED hierarchyVars
    BY <1>15 DEF hierarchyVars, Forest!forestVars
  <1> QED
    BY <1>3, <1>4, <1>5, <1>6, <1>7, <1>8, <1>9, <1>10, <1>11, <1>12, <1>13, <1>14, <1>15
       DEF HierarchyNext

LEMMA ForestEmptyAtFirst == HierarchyInit => Forest!Empty
  <1> SUFFICES ASSUME HierarchyInit PROVE Forest!Empty
    OBVIOUS
  <1>1. alive = {} /\ h = [e \in Entities |-> NoHierarchy]
    BY DEF HierarchyInit
  <1>2. PICK rank : Linked(h, alive, rank)
    BY HierarchyInitInv DEF HierarchyInv, Sound
  <1>3. ASSUME NEW x \in Entities PROVE ChildList(h, x) = <<>>
    <2>1. FirstOf(h, x) = null
      BY <1>1, <1>2, LinkedFacts
    <2> QED
      BY <1>2, <2>1, Barren
  <1> QED
    BY <1>1, <1>3, ForestOperators DEF Forest!Empty

\* The doubly linked lists of the Hierarchy components implement an ordered
\* forest: until one of the two operations that lose links is used, every action
\* of the panel and of the scene creates, moves, copies or deletes exactly the
\* subtree it names, at the place it names, and no other list of children changes.
THEOREM ForestAlwaysKept == HierarchySpec => ForestPromise
  <1>1. HierarchyInit => HierarchyInv /\ Forest!Empty
    BY HierarchyInitInv, ForestEmptyAtFirst
  <1>2. HierarchyInv /\ [HierarchyNext]_hierarchyVars
          => [lost' = {} => [Forest!ForestNext]_(Forest!forestVars)]_hierarchyVars
    BY ForestKeptByStep
  <1> QED
    BY <1>1, <1>2, HierarchyNextInv, PTL DEF HierarchySpec, ForestPromise
=============================================================================
