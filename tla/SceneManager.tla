---------------------------- MODULE SceneManager ----------------------------
(***************************************************************************)
(* The scenes of a project over many sessions: Application reads the       *)
(* project file at the start, SceneManager keeps the list of scenes and    *)
(* switches between them at the beginning of a frame, and Application      *)
(* writes the project file when it quits (core/Application.{h,cpp},        *)
(* scene/SceneManager.cpp).                                                *)
(*                                                                         *)
(* Client code calls the scene manager from its Init, which runs after     *)
(* Application::Init, and from its updates.  The window delivers a request *)
(* to close whenever events are polled.  The process may die at any time,  *)
(* and does when it enters a scene, or goes to the next one, and there is  *)
(* none: then no action but Crash is possible.                             *)
(* A scene is known by its position: the list of a session only grows.     *)
(***************************************************************************)
EXTENDS Integers, SequencesExt

CONSTANTS
    Names,      \* names of scenes
    EmptyName,  \* "Empty Scene"
    Strip,      \* what is left of a name when its extension is removed
    Stored,     \* for names with a scene file, the name found in that file
    MaxScenes   \* bound: scenes in the list when the client adds one

ASSUME SceneManagerAssumption ==
    /\ EmptyName \in Names
    /\ Strip \in [Names -> Names]
    /\ DOMAIN Stored \subseteq Names /\ Range(Stored) \subseteq Names
    /\ MaxScenes \in Nat

VARIABLES
    file,       \* the project file
    version,    \* m_ProjectSettings.ProjectVersion, 0 when no file gave it
    phase,      \* where the main thread is
    scenes,     \* m_vpAllScenes: the names of the scenes
    filePaths,  \* m_SceneFilePaths
    toLoad,     \* m_SceneFilePathsToLoad
    sceneIdx,   \* m_SceneIdx
    current,    \* is there an m_CurrentScene?  It is the one at sceneIdx.
    queued,     \* m_QueuedSceneIndex
    switching,  \* m_SwitchingScenes
    closing,    \* m_CurrentState is Closing
    last,       \* history: what the last project file that is whole was made of
    asked,      \* history: has the client called the manager in this session?
    resolved    \* history: has a switch been asked for, to a scene that could
                \* be found, since the last switch?

manager == <<scenes, filePaths, toLoad, sceneIdx, current, queued, switching>>
history == <<last, asked, resolved>>
vars == <<file, version, phase, manager, closing, history>>

\* "splash": Application::Init up to LoadCurrentList.  "setup": the client's
\* Init.  "frame": between two frames.  "client": inside a frame.
Phases == {"off", "splash", "setup", "frame", "client", "quit"}

\* What is written has this version.
Version == 8

\* A file that is there can be no JSON at all ("corrupt"), lack the scene index
\* that its version asks for ("partial"), or be whole.
Files ==
    [kind : {"none", "corrupt"}]
      \cup [kind : {"partial"}, version : 4 .. Version, scenes : Seq(Names)]
      \cup [kind : {"whole"}, version : 1 .. Version, scenes : Seq(Names), index : Nat]

None == [kind |-> "none"]
Corrupt == [kind |-> "corrupt"]
Whole(list, i) == [kind |-> "whole", version |-> Version, scenes |-> list, index |-> i]

\* The manager of a process that does not run.
Absent ==
    /\ scenes' = <<>> /\ filePaths' = <<>> /\ toLoad' = <<>>
    /\ sceneIdx' = 0 /\ current' = FALSE
    /\ queued' = -1 /\ switching' = FALSE
    /\ closing' = FALSE
    /\ version' = 0

\* The project comes from this program, or from an older one, or has been made
\* by another.
Init ==
    /\ file \in {None, Corrupt}
         \cup [kind : {"partial"}, version : {Version}, scenes : BoundedSeq(Names, 1)]
         \cup [kind : {"whole"}, version : {2, 3}, scenes : BoundedSeq(Names, 1), index : {0}]
         \cup [kind : {"whole"}, version : {Version}, scenes : BoundedSeq(Names, 2), index : 0 .. 2]
    /\ version = 0
    /\ phase = "off"
    /\ scenes = <<>> /\ filePaths = <<>> /\ toLoad = <<>>
    /\ sceneIdx = 0 /\ current = FALSE
    /\ queued = -1 /\ switching = FALSE
    /\ closing = FALSE
    /\ last = IF file.kind = "whole" THEN file ELSE None
    /\ asked = FALSE
    /\ resolved = FALSE
-----------------------------------------------------------------------------

(***************************************************************************)
(* The start                                                               *)
(***************************************************************************)
\* Application::load reads the list of scenes from version 3 on, ...
ScenesRead(f) == IF f.version > 2 THEN f.scenes ELSE <<>>

\* ... makes up a scene, and switches to it, when the list that it reads is
\* empty, ...
ScenesOfLoad(f) == IF f.version > 2 /\ f.scenes = <<>> THEN <<EmptyName>> ELSE <<>>

\* ... and reads the index, and switches to that scene, from version 4 on.
ReadsIndex(f) == f.version > 3

\* What Application::Deserialise finds.  Without a file, and after an exception,
\* which comes with the scenes already in the list to load when only the index
\* is missing, the project goes on with an empty scene.
Deserialise ==
    \/ /\ file.kind \in {"none", "corrupt"}
       /\ version' = 0
       /\ scenes' = <<EmptyName>>
       /\ toLoad' = <<>>
       /\ queued' = 0
       /\ switching' = TRUE
    \/ /\ file.kind = "partial"
       /\ version' = file.version
       /\ scenes' = Append(ScenesOfLoad(file), EmptyName)
       /\ toLoad' = ScenesRead(file)
       /\ queued' = 0
       /\ switching' = TRUE
    \/ /\ file.kind = "whole"
       /\ version' = file.version
       /\ scenes' = ScenesOfLoad(file)
       /\ toLoad' = ScenesRead(file)
       /\ \/ ReadsIndex(file) /\ queued' = file.index /\ switching' = TRUE
          \/ ~ReadsIndex(file) /\ scenes' # <<>> /\ queued' = 0 /\ switching' = TRUE
          \/ ~ReadsIndex(file) /\ scenes' = <<>> /\ UNCHANGED <<queued, switching>>

\* Application::Init up to the splash screen
Start ==
    /\ phase = "off"
    /\ phase' = "splash"
    /\ Deserialise
    /\ asked' = FALSE
    /\ resolved' = switching'
    /\ UNCHANGED <<file, filePaths, sceneIdx, current, closing, last>>

StripAll(list) == [i \in DOMAIN list |-> Strip[list[i]]]

LeftToLoad == <<>>

\* The rest of Application::Init: a job runs LoadCurrentList, and the state
\* becomes Running whatever the window has said during the splash screen.
LoadCurrentList ==
    /\ phase = "splash"
    /\ phase' = "setup"
    /\ scenes' = scenes \o StripAll(toLoad)
    /\ filePaths' = filePaths \o toLoad
    /\ toLoad' = LeftToLoad
    /\ closing' = FALSE
    /\ UNCHANGED <<file, version, sceneIdx, current, queued, switching, history>>
-----------------------------------------------------------------------------
(***************************************************************************)
(* What the client may call                                                *)
(***************************************************************************)
InClient == phase \in {"setup", "client"} /\ asked' = TRUE

\* SwitchScene(idx)
SwitchToIndex(i) ==
    /\ queued' = i
    /\ switching' = TRUE
    /\ resolved' = TRUE
    /\ UNCHANGED <<file, version, phase, scenes, filePaths, toLoad, sceneIdx, current, closing, last>>

SwitchScene == InClient /\ scenes # <<>> /\ SwitchToIndex((sceneIdx + 1) % Len(scenes))

SwitchSceneIndex(i) == InClient /\ SwitchToIndex(i)

Named(n) == {i \in DOMAIN scenes : scenes[i] = n}
First(S) == CHOOSE i \in S : \A j \in S : i <= j

\* SwitchScene(name) sets m_SwitchingScenes even if there is no such scene.
SwitchSceneName(n) ==
    /\ InClient
    /\ \/ Named(n) # {} /\ SwitchToIndex(First(Named(n)) - 1)
       \/ /\ Named(n) = {}
          /\ switching' = TRUE
          /\ UNCHANGED <<file, version, phase, scenes, filePaths, toLoad, sceneIdx, current,
                         queued, closing, last, resolved>>

SetSwitchScene(b) ==
    /\ InClient
    /\ switching' = b
    /\ UNCHANGED <<file, version, phase, scenes, filePaths, toLoad, sceneIdx, current,
                   queued, closing, last, resolved>>

EnqueueScene(n) ==
    /\ InClient
    /\ Len(scenes) < MaxScenes
    /\ scenes' = Append(scenes, n)
    /\ UNCHANGED <<file, version, phase, filePaths, toLoad, sceneIdx, current, queued,
                   switching, closing, last, resolved>>

EnqueueSceneFromFile(n) ==
    /\ InClient
    /\ Len(scenes) < MaxScenes
    /\ scenes' = Append(scenes, Strip[n])
    /\ filePaths' = Append(filePaths, n)
    /\ UNCHANGED <<file, version, phase, toLoad, sceneIdx, current, queued,
                   switching, closing, last, resolved>>
-----------------------------------------------------------------------------
(***************************************************************************)
(* Frames                                                                  *)
(***************************************************************************)
\* Mutant: an invalid index is replaced when it is used and kept in the queue.
RequeueKept(i) == i

ValidIndex(i) == 0 <= i /\ i < Len(scenes)

\* ApplySceneSwitch writes the index it goes to back to m_QueuedSceneIndex.
Requeue(i) == IF ValidIndex(i) THEN i ELSE 0

\* A scene with a file takes its name from the file.
Loaded(list, i) ==
    IF list[i + 1] \in DOMAIN Stored THEN [list EXCEPT ![i + 1] = Stored[@]] ELSE list

\* A frame that switches does nothing else.
ApplySceneSwitch ==
    /\ phase = "frame"
    /\ switching
    /\ scenes # <<>>
    /\ LET i == IF ValidIndex(queued) THEN queued ELSE 0
       IN  /\ sceneIdx' = i
           /\ scenes' = Loaded(scenes, i)
    /\ queued' = Requeue(queued)
    /\ current' = TRUE
    /\ switching' = FALSE
    /\ resolved' = FALSE
    /\ UNCHANGED <<file, version, phase, filePaths, toLoad, closing, last, asked>>

\* OnFrame up to the updates
BeginFrame ==
    /\ phase = "frame"
    /\ ~switching
    /\ phase' = "client"
    /\ UNCHANGED <<file, version, manager, closing, history>>

\* The client's Init or the frame ends.
EndFrame ==
    /\ phase \in {"setup", "client"}
    /\ phase' = IF closing THEN "quit" ELSE "frame"
    /\ UNCHANGED <<file, version, manager, closing, history>>

OnWindowClose ==
    /\ phase \in {"splash", "client"}
    /\ closing' = TRUE
    /\ UNCHANGED <<file, version, phase, manager, history>>
-----------------------------------------------------------------------------
(***************************************************************************)
(* The end                                                                 *)
(***************************************************************************)
\* Mutant: the paths of the scenes that came from files are there twice.
GetSceneFilePathsAppends == filePaths \o scenes

GetSceneFilePaths == scenes

GetCurrentSceneIndex == sceneIdx

\* OnQuit: Serialise, and the manager is destroyed.
OnQuit ==
    /\ phase = "quit"
    /\ phase' = "off"
    /\ file' = Whole(GetSceneFilePaths, GetCurrentSceneIndex)
    /\ last' = Whole(scenes, sceneIdx)
    /\ Absent
    /\ UNCHANGED <<asked, resolved>>

\* The process dies; while it writes the file, that is cut short.
Crash ==
    /\ phase # "off"
    /\ phase' = "off"
    /\ \/ UNCHANGED <<file, last>>
       \/ phase = "quit" /\ file' = Corrupt /\ last' = None
    /\ Absent
    /\ UNCHANGED <<asked, resolved>>
-----------------------------------------------------------------------------
Client ==
    \/ SwitchScene
    \/ \E i \in -1 .. MaxScenes : SwitchSceneIndex(i)
    \/ \E n \in Names : SwitchSceneName(n) \/ EnqueueScene(n) \/ EnqueueSceneFromFile(n)
    \/ \E b \in BOOLEAN : SetSwitchScene(b)

Next ==
    \/ Start \/ LoadCurrentList \/ OnQuit \/ Crash
    \/ ApplySceneSwitch \/ BeginFrame \/ Client \/ OnWindowClose \/ EndFrame

Spec == Init /\ [][Next]_vars
-----------------------------------------------------------------------------
(***************************************************************************)
(* Properties                                                              *)
(***************************************************************************)
TypeOK ==
    /\ file \in Files
    /\ version \in 0 .. Version
    /\ phase \in Phases
    /\ {scenes, filePaths, toLoad} \subseteq Seq(Names)
    /\ sceneIdx \in Nat
    /\ current \in BOOLEAN
    /\ queued \in Int
    /\ {switching, closing, asked, resolved} \subseteq BOOLEAN
    /\ last \in Files
    /\ phase = "splash" \/ toLoad = <<>>

\* Whatever project file the session started from, missing, corrupt or partial
\* ones included, there is a scene whenever one is needed: SwitchScene takes the
\* index modulo the size of the list, and ApplySceneSwitch uses an index that is
\* 0 at worst.  Excepted is a file of version 1 or 2, whose list is not read:
\* such a session has no scene until the client adds one.
NeverEmpty ==
    phase \in {"setup", "frame", "client", "quit"} =>
        /\ version \notin 1 .. 2 => scenes # <<>>
        /\ current => sceneIdx < Len(scenes)

\* The first frame that is more than a switch has a current scene, unless the
\* client has asked for something else.  Excepted are files of version 3 or
\* less: no index is read from them and nobody switches to a scene.
SceneComes == phase = "client" /\ ~asked /\ version \notin 1 .. 3 => current

\* Quitting and starting again, and crashing and starting again, brings back
\* the scenes of the last project file in their order, with their names unless
\* they lose an extension (a file of version 1 or 2 loses its scenes), ...
ScenesKept ==
    last.kind = "whole" /\ last.version > 2 /\ last.scenes # <<>> /\ phase \in {"setup", "frame"}
      /\ ~asked /\ ~current =>
        /\ Len(scenes) = Len(last.scenes)
        /\ \A i \in DOMAIN scenes :
              Strip[last.scenes[i]] = last.scenes[i] => scenes[i] = last.scenes[i]

\* ... and the scene that was current, whatever session it comes from (a file
\* of version 3 or less has no index).
CurrentKept ==
    last.kind = "whole" /\ last.version > 3 /\ last.index < Len(last.scenes) /\ current /\ ~asked =>
        sceneIdx = last.index

\* The project survives its sessions, and no session works without a scene, but
\* for those that start from a file of an old version.
ProjectKept == TypeOK /\ NeverEmpty /\ SceneComes /\ ScenesKept /\ CurrentKept

\* A name that is not in the list, and a request to switch without a scene,
\* lead back to the current scene.
UnknownKeepsScene ==
    [][ApplySceneSwitch /\ current /\ ~resolved => sceneIdx' = sceneIdx]_vars
=============================================================================
