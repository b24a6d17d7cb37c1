-------------------------- MODULE ApplicationProofs --------------------------
(***************************************************************************)
(* Proofs about Application and the libraries it owns.  Of Application:    *)
(* the types of its variables, what sticks and what does not, and sizes,   *)
(* for any set of keys, sizes and views.  Of AssetLibrary: that counts and *)
(* owners are exact, for any number of holders and files.                  *)
(***************************************************************************)
EXTENDS Application, AssetLibrary, FiniteSetTheorems, TLAPS

USE DEF deviceVars, sizeVars, viewVars

\* A cursor that was captured over a view which has not moved since belongs
\* to an active view, and ImGui, which does not follow it, still sees it there.
CapturedIsActive ==
    mode = "captured" /\ special \cap {"left", "moved"} = {} => active /\ ioOver

\* Init establishes the types: the window has a size, and everything else
\* starts at a constant.
LEMMA InitTyped == Init => TypeOK
  <1> SUFFICES ASSUME Init PROVE TypeOK
    OBVIOUS
  <1>1. InputTypeOK
    BY DEF Init, InputInit, InputTypeOK
  <1>2. graph \in {Even(s) : s \in Sizes \cup {0}}
    <2>1. Even(0) = 0
      BY DEF Even
    <2>. QED
      BY <2>1 DEF Init
  <1>. QED
    BY <1>1, <1>2 DEF Init, TypeOK, Special

\* Every event of a device leaves the types of what Input and ImGui believe.
LEMMA DeviceTyped ==
    ASSUME TypeOK, DeviceEvent
    PROVE  InputTypeOK'
  <1> USE InputAssumption DEF TypeOK, InputTypeOK
  <1>1. CASE \E c \in Keys \cup Buttons : Press(gui, c) \/ Release(gui, c)
    <2>1. PICK c \in Keys \cup Buttons : Press(gui, c) \/ Release(gui, c)
      BY <1>1
    <2>2. CASE Press(gui, c)
      BY <2>2 DEF Press, ImGuiPressed, OnPressed
    <2>3. CASE Release(gui, c)
      BY <2>3 DEF Release, ImGuiReleased, OnReleased
    <2>. QED
      BY <2>1, <2>2, <2>3
  <1>2. CASE \E over \in BOOLEAN : Move(gui, over)
    BY <1>2 DEF Move
  <1>. QED
    BY <1>1, <1>2 DEF DeviceEvent
\* Every step of the main thread leaves the types: the scene view only takes
\* sizes that the user gives it, and the render graph those of the window
\* rounded down, or the view's.
LEMMA MainTyped ==
    ASSUME TypeOK, MainStep
    PROVE  TypeOK'
  <1> USE InputAssumption, ApplicationAssumption DEF TypeOK, InputTypeOK, Special
  <1>1. CASE EndSplash
    <2>1. graph' \in {Even(s) : s \in Sizes \cup {0}}
      BY <1>1 DEF EndSplash
    <2>. QED
      BY <1>1, <2>1 DEF EndSplash, ImGuiMade, RendererMade
  <1>2. CASE ApplySceneSwitch
    BY <1>2 DEF ApplySceneSwitch
  <1>3. CASE BeginFrame
    BY <1>3 DEF BeginFrame, ResetPressed
  <1>4. CASE Update
    <2>1. InputTypeOK'
      <3>1. mode' \in {"visible", "captured"}
        BY <1>4 DEF Update, HandleMouse
      <3>2. ioOver' \in BOOLEAN /\ want' \in BOOLEAN
        BY <1>4 DEF Update, PanelClosed, PanelSkipped, PanelShown
      <3>. QED
        BY <1>4, <3>1, <3>2 DEF Update
    <2>2. /\ view' \in ViewSizes \cup {Default}
          /\ graph' \in ViewSizes \cup {Even(s) : s \in Sizes \cup {0}}
          /\ target' \in {"screen", "view"}
          /\ layout' \in {"closed", "skipped", "docked", "floating"}
          /\ {texture', disabled', active', switching'} \subseteq BOOLEAN
      <3>1. CASE UNCHANGED <<viewVars, graph, switching, ioOver>>
        BY <3>1
      <3>2. CASE switching' \in BOOLEAN /\ (PanelClosed \/ PanelSkipped)
        BY <3>2 DEF PanelClosed, PanelSkipped
      <3>3. CASE switching' \in BOOLEAN /\ \E v \in ViewSizes : PanelShown(v)
        <4>1. PICK v \in ViewSizes : PanelShown(v)
          BY <3>3
        <4>2. \/ view' = v /\ target' = "view" /\ graph' = v
              \/ UNCHANGED <<view, target, graph>>
          BY <4>1 DEF PanelShown, Resize
        <4>3. layout' \in {"docked", "floating"} /\ texture' = TRUE /\ disabled' = FALSE
              /\ active' \in BOOLEAN
          BY <4>1 DEF PanelShown, Resize
        <4>. QED
          BY <3>3, <4>2, <4>3
      <3>. QED
        BY <1>4, <3>1, <3>2, <3>3 DEF Update
    <2>3. special' \subseteq Special
      <3>1. special' = (special \ IF mode' = "visible" THEN {"left", "moved"} ELSE {})
              \cup (IF mode' = "captured" /\ mode = "visible" /\ ~ioOver THEN {"left"} ELSE {})
              \cup (IF mode' = "captured" /\ ioOver' # ioOver THEN {"moved"} ELSE {})
        BY <1>4 DEF Update
      <3>. QED
        BY <3>1
    <2>4. stage' \in {"quit", "render"}
          /\ UNCHANGED <<win, minimized, swap, display, frames, onImages, app, gui, scene>>
      BY <1>4 DEF Update
    <2>. QED
      BY <2>1, <2>2, <2>3, <2>4
  <1>5. CASE Begin
    BY <1>5, ZenonT(30) DEF Begin
  <1>6. CASE Draw \/ SkipRender
    BY <1>6, ZenonT(30) DEF Draw, SkipRender
  <1>7. CASE OnQuit
    BY <1>7 DEF OnQuit, RendererReleased
  <1>. QED
    BY <1>1, <1>2, <1>3, <1>4, <1>5, <1>6, <1>7 DEF MainStep

\* So does every event, and every step.
LEMMA StepTyped == TypeOK /\ [Next]_vars => TypeOK'
  <1> SUFFICES ASSUME TypeOK, [Next]_vars PROVE TypeOK'
    OBVIOUS
  <1>1. CASE MainStep
    BY <1>1, MainTyped
  <1>2. CASE DeviceEvent
    <2>1. InputTypeOK'
      BY <1>2, DeviceTyped
    <2>. QED
      BY <1>2, <2>1 DEF DeviceEvent, TypeOK
  <1>3. CASE \E s \in Sizes \cup {0} : ResizeEvent(s)
    <2>1. PICK s \in Sizes \cup {0} : ResizeEvent(s)
      BY <1>3
    <2>2. /\ minimized' \in BOOLEAN /\ swap' \in Sizes
          /\ graph' \in ViewSizes \cup {Even(t) : t \in Sizes \cup {0}}
      BY <2>1 DEF ResizeEvent, OnWindowResize, TypeOK
    <2>3. /\ {display', frames'} \subseteq Sizes \cup {0, 1}
          /\ onImages' \in BOOLEAN /\ special' \subseteq Special
      BY <2>1 DEF ResizeEvent, ImGuiResized, RendererResized, AtLeastOne, TypeOK
    <2>. QED
      BY <2>1, <2>2, <2>3 DEF ResizeEvent, TypeOK, InputTypeOK
  <1>4. CASE CloseEvent
    BY <1>4 DEF CloseEvent, TypeOK, InputTypeOK
  <1>5. CASE UNCHANGED vars
    BY <1>5 DEF vars, TypeOK, InputTypeOK
  <1>. QED
    BY <1>1, <1>2, <1>3, <1>4, <1>5 DEF Next

\* The variables keep their types, whatever the user does: no size is reached
\* that the window or the scene view never had.
THEOREM TypeCorrect == Spec => []TypeOK
  <1>. QED
    BY InitTyped, StepTyped, PTL DEF Spec
-----------------------------------------------------------------------------
(***************************************************************************)
(* NothingSticks.                                                          *)
(***************************************************************************)

\* While events come ImGui is there to hear of a release, or has heard of no
\* press.
ImGuiListens ==
    /\ stage = "splash" => ioDown = {} /\ ~gui
    /\ stage \notin {"splash", "ended"} => gui

IInv == TypeOK /\ ImGuiListens /\ HeldIsDown /\ CapturedIsActive /\ CursorComesBack

LEMMA StepListens == ImGuiListens /\ [Next]_vars => ImGuiListens'
  <1> SUFFICES ASSUME ImGuiListens, [Next]_vars PROVE ImGuiListens'
    OBVIOUS
  <1> USE DEF ImGuiListens
  <1>1. CASE DeviceEvent
    <2>1. UNCHANGED <<stage, gui>> /\ stage \in {"splash", "poll"}
      BY <1>1 DEF DeviceEvent, Polling
    <2>2. ~gui => ioDown' \subseteq ioDown
      BY <1>1 DEF DeviceEvent, Press, ImGuiPressed, Release, ImGuiReleased, Move
    <2>. QED
      BY <2>1, <2>2
  <1>2. CASE MainStep
    BY <1>2 DEF MainStep, EndSplash, ImGuiMade, ApplySceneSwitch, BeginFrame, ResetPressed,
                Update, Begin, Draw, SkipRender, OnQuit
  <1>3. CASE (\E s \in Sizes \cup {0} : ResizeEvent(s)) \/ CloseEvent \/ UNCHANGED vars
    BY <1>3 DEF ResizeEvent, CloseEvent, vars
  <1>. QED
    BY <1>1, <1>2, <1>3 DEF Next

\* What Input and ImGui take for held is down, after every step: a release
\* reaches both of them, whatever became of the press.
LEMMA StepHeld == ImGuiListens /\ HeldIsDown /\ [Next]_vars => HeldIsDown'
  <1> SUFFICES ASSUME ImGuiListens, HeldIsDown, [Next]_vars PROVE HeldIsDown'
    OBVIOUS
  <1> USE DEF HeldIsDown
  <1>1. CASE DeviceEvent
    <2>1. CASE \E c \in Keys \cup Buttons : Press(gui, c) \/ Release(gui, c)
      <3>1. PICK c \in Keys \cup Buttons : Press(gui, c) \/ Release(gui, c)
        BY <2>1
      <3>2. CASE Press(gui, c)
        <4>1. /\ down' = down \cup {c}
              /\ \/ UNCHANGED <<held, pressed>>
                 \/ held' = held \cup {c} /\ pressed' \subseteq pressed \cup {c}
          BY <3>2 DEF Press, OnPressed
        <4>2. \/ UNCHANGED <<ioDown, ioMods>>
              \/ ioDown' = ioDown \cup {c} /\ ioMods' = ioDown' \cap Modifiers
              \/ ioDown' = ioDown \cup {c} /\ ioMods' = ioMods /\ c \notin Keys
          BY <3>2 DEF Press, ImGuiPressed
        <4>3. Modifiers \subseteq Keys
          BY InputAssumption
        <4>4. pressed' \subseteq held' /\ held' \subseteq down' /\ ioDown' \subseteq down'
          BY <4>1, <4>2
        <4>5. ioDown' \cap Modifiers \subseteq ioMods'
          BY <4>2, <4>3
        <4>. QED
          BY <4>4, <4>5
      <3>3. CASE Release(gui, c)
        <4>1. gui \/ ioDown = {}
          BY <1>1 DEF DeviceEvent, Polling, ImGuiListens
        <4>. QED
          BY <3>3, <4>1 DEF Release, ImGuiReleased, OnReleased, ImGuiHandlesRelease
      <3>. QED
        BY <3>1, <3>2, <3>3
    <2>2. CASE \E over \in BOOLEAN : Move(gui, over)
      BY <2>2 DEF Move
    <2>. QED
      BY <1>1, <2>1, <2>2 DEF DeviceEvent
  <1>2. CASE BeginFrame
    BY <1>2 DEF BeginFrame, ResetPressed
  <1>3. CASE UNCHANGED <<down, held, pressed, ioDown, ioMods>>
    BY <1>3
  <1>4. CASE MainStep
    <2>1. BeginFrame \/ UNCHANGED <<down, held, pressed, ioDown, ioMods>>
      BY <1>4 DEF MainStep, EndSplash, ApplySceneSwitch, Update, Begin, Draw, SkipRender, OnQuit
    <2>. QED
      BY <2>1, <1>2, <1>3
  <1>5. CASE (\E s \in Sizes \cup {0} : ResizeEvent(s)) \/ CloseEvent \/ UNCHANGED vars
    BY <1>5, <1>3 DEF ResizeEvent, CloseEvent, vars
  <1>. QED
    BY <1>1, <1>4, <1>5 DEF Next

\* A captured cursor of an active view stays one, and once the camera has
\* read the mouse it is captured only if the right button is held: an
\* Update, the only step to "render", lets the camera of an active view run.
LEMMA StepCaptured ==
    IInv /\ [Next]_vars => CapturedIsActive' /\ CursorComesBack'
  <1> SUFFICES ASSUME IInv, [Next]_vars PROVE CapturedIsActive' /\ CursorComesBack'
    OBVIOUS
  <1> USE DEF IInv, CapturedIsActive, CursorComesBack
  <1>1. CASE Update
    <2>1. special' = (special \ IF mode' = "visible" THEN {"left", "moved"} ELSE {})
            \cup (IF mode' = "captured" /\ mode = "visible" /\ ~ioOver THEN {"left"} ELSE {})
            \cup (IF mode' = "captured" /\ ioOver' # ioOver THEN {"moved"} ELSE {})
      BY <1>1 DEF Update
    <2>2. mode \in {"visible", "captured"} /\ held' = held
      BY <1>1 DEF Update, TypeOK, InputTypeOK
    <2>3. IF active THEN HandleMouse ELSE mode' = mode
      BY <1>1 DEF Update
    <2>4. active' = active \/ active' = ioOver'
      BY <1>1 DEF Update, PanelClosed, PanelSkipped, PanelShown
    <2> SUFFICES ASSUME mode' = "captured", special' \cap {"left", "moved"} = {}
                 PROVE  active' /\ ioOver' /\ Right \in held'
      OBVIOUS
    <2>5. special \cap {"left", "moved"} = {} /\ ioOver' = ioOver
          /\ ~(mode = "visible" /\ ~ioOver)
      BY <2>1
    <2>6. active
      BY <2>2, <2>3, <2>5
    <2>7. Right \in held
      BY <2>3, <2>6 DEF HandleMouse
    <2>8. ioOver
      BY <2>2, <2>5
    <2>. QED
      BY <2>2, <2>4, <2>5, <2>6, <2>7, <2>8
  <1>2. CASE DeviceEvent
    <2>1. stage' # "render" /\ UNCHANGED <<mode, active, special>>
      BY <1>2 DEF DeviceEvent, Polling, Press, Release, Move
    <2>2. mode = "captured" => ioOver' = ioOver
      BY <1>2 DEF DeviceEvent, Press, Release, Move, ImGuiFollows
    <2>. QED
      BY <2>1, <2>2
  <1>3. CASE EndSplash \/ ApplySceneSwitch \/ BeginFrame \/ Begin \/ Draw \/ SkipRender \/ OnQuit
    <2>1. stage' # "render" /\ UNCHANGED <<mode, active, ioOver>>
      BY <1>3 DEF EndSplash, ApplySceneSwitch, BeginFrame, ResetPressed, Begin, Draw,
                  SkipRender, OnQuit
    <2>2. special \subseteq special'
      BY <1>3 DEF EndSplash, ApplySceneSwitch, BeginFrame, Begin, Draw, SkipRender, OnQuit
    <2>. QED
      BY <2>1, <2>2
  <1>4. CASE (\E s \in Sizes \cup {0} : ResizeEvent(s)) \/ CloseEvent
    <2>1. stage \in {"splash", "poll"} /\ UNCHANGED <<stage, mode, active, ioOver>>
      BY <1>4 DEF ResizeEvent, CloseEvent, Polling
    <2>2. special' = special \/ special' = special \ {"outofdate"}
      BY <1>4 DEF ResizeEvent, CloseEvent, ImGuiResized, RendererResized
    <2>. QED
      BY <2>1, <2>2
  <1>5. CASE UNCHANGED vars
    BY <1>5 DEF vars
  <1>. QED
    BY <1>1, <1>2, <1>3, <1>4, <1>5 DEF Next, MainStep

\* Only a press lets Input hold a key it did not hold, and it sets the flags
\* to what ImGui takes for down.
LEMMA StepCatchesUp ==
    ASSUME IInv', [Next]_vars, gui, (held' \ held) \cap Keys # {}
    PROVE  ioMods' \subseteq down'
  <1>1. PICK k \in Keys : k \in held' /\ k \notin held
    OBVIOUS
  <1>2. ioDown' \subseteq down'
    BY DEF IInv, HeldIsDown
  <1>3. DeviceEvent
    <2>1. MainStep => UNCHANGED held
      BY DEF MainStep, EndSplash, ApplySceneSwitch, BeginFrame, ResetPressed, Update,
             Begin, Draw, SkipRender, OnQuit
    <2>2. (\E s \in Sizes \cup {0} : ResizeEvent(s)) \/ CloseEvent \/ UNCHANGED vars
            => UNCHANGED held
      BY DEF ResizeEvent, CloseEvent, vars
    <2>. QED
      BY <1>1, <2>1, <2>2 DEF Next
  <1>4. CASE \E c \in Keys \cup Buttons : Press(gui, c) \/ Release(gui, c)
    <2>1. PICK c \in Keys \cup Buttons : Press(gui, c) \/ Release(gui, c)
      BY <1>4
    <2>2. CASE Press(gui, c)
      <3>1. held' = held \/ held' = held \cup {c}
        BY <2>2 DEF Press, OnPressed
      <3>2. c \in Keys
        BY <1>1, <3>1
      <3>3. ioMods' = ioDown' \cap Modifiers
        BY <2>2, <3>2 DEF Press, ImGuiPressed
      <3>. QED
        BY <1>2, <3>3
    <2>3. CASE Release(gui, c)
      <3>1. held' \subseteq held
        BY <2>3 DEF Release, OnReleased
      <3>. QED
        BY <1>1, <3>1
    <2>. QED
      BY <2>1, <2>2, <2>3
  <1>5. CASE \E over \in BOOLEAN : Move(gui, over)
    BY <1>1, <1>5 DEF Move
  <1>. QED
    BY <1>3, <1>4, <1>5 DEF DeviceEvent

\* No key or button sticks in Input or in ImGui, whatever has the focus and in
\* whatever order events and frames come.  The flag of a modifier outlives its
\* key in ImGui, but not the next press of a key; and a cursor comes back that
\* was captured over a view which has not moved since.
THEOREM NothingSticksAlways == Spec => NothingSticks
  <1>1. Init => IInv
    <2>1. Init => ImGuiListens /\ HeldIsDown /\ CapturedIsActive /\ CursorComesBack
      BY DEF Init, InputInit, ImGuiListens, HeldIsDown, CapturedIsActive, CursorComesBack
    <2>. QED
      BY <2>1, InitTyped DEF IInv
  <1>2. IInv /\ [Next]_vars => IInv'
    BY StepTyped, StepListens, StepHeld, StepCaptured DEF IInv
  <1>3. IInv => HeldIsDown /\ CursorComesBack
    BY DEF IInv
  <1>4. IInv' /\ [Next]_vars
          => [gui /\ (held' \ held) \cap Keys # {} => ioMods' \subseteq down']_vars
    BY StepCatchesUp
  <1>. QED
    BY <1>1, <1>2, <1>3, <1>4, PTL DEF Spec, NothingSticks, FlagsCatchUp
-----------------------------------------------------------------------------
(***************************************************************************)
(* FrameFits.                                                              *)
(***************************************************************************)
Running == stage \notin {"splash", "ended"}

\* The swapchain and ImGui's framebuffers have the size of a window that is
\* not an icon, and ImGui's are on its images unless Begin has replaced them.
WindowSized ==
    /\ minimized = (win = 0)
    /\ win # 0 => swap = win
    /\ Running => /\ gui
                  /\ win # 0 => display = win /\ frames = win
                  /\ win = 0 => display < 2
                  /\ onImages \/ "outofdate" \in special

\* The images of the graph are the window's size rounded down, or the view's.
GraphSized ==
    /\ Running /\ win # 0 => graph = view \/ graph = Even(win)
    /\ stage # "ended" /\ ~scene => layout = "closed"

\* Between its layout and the end of the frame a docked view is covered.
ViewCovered ==
    /\ stage = "draw" => ~minimized
    /\ stage \in {"render", "draw"} /\ layout = "docked" /\ target = "view"
         => texture /\ view <= graph

SizeInv == TypeOK /\ WindowSized /\ GraphSized /\ ViewCovered

LEMMA SizesAreNumbers ==
    Sizes \subseteq Nat \ {0} /\ ViewSizes \subseteq Nat \ {0} /\ Default \in Nat /\ Chrome \in Nat
  BY ApplicationAssumption

\* A view that fits into the window with what surrounds it fits into the
\* window's size rounded down.
LEMMA DockedFits ==
    ASSUME NEW v \in ViewSizes, NEW w \in Nat, v + Chrome <= w
    PROVE  v <= Even(w) /\ 2 <= v
  <1>1. v \in Nat \ {0} /\ v = Even(v) /\ Chrome \in Nat
    BY ApplicationAssumption
  <1>. QED
    BY <1>1 DEF Even

\* An event leaves all sizes in step: the new size of the window goes to each.
LEMMA EventSizes ==
    ASSUME SizeInv, DeviceEvent \/ CloseEvent \/ \E s \in Sizes \cup {0} : ResizeEvent(s)
    PROVE  WindowSized' /\ GraphSized' /\ ViewCovered'
  <1> USE DEF SizeInv, WindowSized, GraphSized, ViewCovered, Running
  <1>1. CASE DeviceEvent \/ CloseEvent
    BY <1>1 DEF DeviceEvent, CloseEvent, Polling
  <1>2. CASE \E s \in Sizes \cup {0} : ResizeEvent(s)
    <2>1. PICK s \in Sizes \cup {0} : ResizeEvent(s)
      BY <1>2
    <2>2. win' = s /\ minimized' = (s = 0) /\ swap' = (IF s = 0 THEN swap ELSE s)
          /\ graph' = (IF s # 0 /\ gui THEN Even(s) ELSE graph)
      BY <2>1 DEF ResizeEvent, OnWindowResize
    <2>3. stage \in {"splash", "poll"}
          /\ UNCHANGED <<stage, gui, scene, view, texture, target, layout>>
      BY <2>1 DEF ResizeEvent, Polling
    <2>4. Running => display' = (IF s = 0 THEN 1 ELSE s) /\ frames' = display' /\ onImages' = TRUE
      BY <2>1 DEF ResizeEvent, ImGuiResized, RendererResized, AtLeastOne
    <2>. QED
      BY <2>2, <2>3, <2>4
  <1>. QED
    BY <1>1, <1>2

\* The layout of a frame gives the graph the size of a view that has changed;
\* one that has not, and is docked, fits into what the graph has.
LEMMA UpdateSizes ==
    ASSUME SizeInv, Update
    PROVE  WindowSized' /\ GraphSized' /\ ViewCovered'
  <1>1. /\ stage = "poll" /\ stage' \in {"quit", "render"}
        /\ UNCHANGED <<win, minimized, swap, display, frames, onImages, gui, scene>>
    BY DEF Update
  <1>2. "outofdate" \in special => "outofdate" \in special'
    <2>1. special' = (special \ IF mode' = "visible" THEN {"left", "moved"} ELSE {})
            \cup (IF mode' = "captured" /\ mode = "visible" /\ ~ioOver THEN {"left"} ELSE {})
            \cup (IF mode' = "captured" /\ ioOver' # ioOver THEN {"moved"} ELSE {})
      BY DEF Update
    <2>. QED
      BY <2>1
  <1>3. WindowSized'
    BY <1>1, <1>2 DEF SizeInv, WindowSized, Running
  <1>4. CASE layout' # "docked" /\ UNCHANGED <<view, graph>> /\ (~scene => layout' = layout)
    BY <1>1, <1>3, <1>4 DEF SizeInv, GraphSized, ViewCovered, Running
  <1>5. CASE scene /\ \E v \in ViewSizes : PanelShown(v)
    <2>1. PICK v \in ViewSizes : PanelShown(v)
      BY <1>5
    <2>2. layout' = (IF v + Chrome <= display THEN "docked" ELSE "floating") /\ Resize(v)
      BY <2>1 DEF PanelShown
    <2>3. texture' = TRUE /\ view' = v
          /\ (graph' = v \/ (v = view /\ graph' = graph))
      BY <2>2 DEF Resize, Resized
    <2>4. v \in Nat /\ view \in Nat /\ display \in Nat /\ Chrome \in Nat
      <3>1. view \in ViewSizes \cup {Default} /\ display \in Sizes \cup {0, 1}
        BY DEF SizeInv, TypeOK
      <3>. QED
        BY <2>1, <3>1, SizesAreNumbers
    <2>5. GraphSized'
      BY <1>1, <1>5, <2>3 DEF SizeInv, GraphSized, Running
    <2>6. ASSUME layout' = "docked" PROVE view' <= graph'
      <3>1. v + Chrome <= display
        BY <2>2, <2>6
      <3>2. v <= Even(display) /\ 2 <= v
        BY <2>4, <3>1, DockedFits
      <3>3. win # 0 /\ display = win
        BY <1>1, <2>4, <3>1, <3>2 DEF SizeInv, WindowSized, Running
      <3>4. graph = view \/ graph = Even(win)
        BY <1>1, <3>3 DEF SizeInv, GraphSized, Running
      <3>. QED
        BY <2>3, <2>4, <3>2, <3>3, <3>4
    <2>. QED
      BY <1>1, <1>3, <2>3, <2>5, <2>6 DEF ViewCovered
  <1>6. \/ layout' # "docked" /\ UNCHANGED <<view, graph>> /\ (~scene => layout' = layout)
        \/ scene /\ \E v \in ViewSizes : PanelShown(v)
    <2>1. ~scene => layout = "closed"
      BY <1>1 DEF SizeInv, GraphSized
    <2>. QED
      BY <2>1 DEF Update, PanelClosed, PanelSkipped
  <1>. QED
    BY <1>3, <1>4, <1>5, <1>6

\* Whenever a frame is drawn, what is drawn on has the size of the window, for
\* any sizes of window and view, however often they change.  ImGui's
\* framebuffers are on the swapchain's images in every frame that comes after
\* a resize, up to the one whose Begin finds the swapchain out of date: that
\* frame, and each one until the next resize, is excused.
THEOREM FrameFitsAlways == Spec => []FrameFits
  <1>1. Init => SizeInv
    <2>. QED
      BY SizesAreNumbers, InitTyped DEF Init, SizeInv, WindowSized, GraphSized, ViewCovered, Running
  <1>2. SizeInv /\ [Next]_vars => SizeInv'
    <2> SUFFICES ASSUME SizeInv, [Next]_vars PROVE SizeInv'
      OBVIOUS
    <2>1. TypeOK'
      BY StepTyped DEF SizeInv
    <2>2. CASE DeviceEvent \/ CloseEvent \/ \E s \in Sizes \cup {0} : ResizeEvent(s)
      BY <2>1, <2>2, EventSizes DEF SizeInv
    <2>3. CASE Update
      BY <2>1, <2>3, UpdateSizes DEF SizeInv
    <2>4. CASE EndSplash
      <3>1. win \in Nat
        BY SizesAreNumbers DEF SizeInv, TypeOK
      <3>. QED
        BY <2>1, <2>4, <3>1 DEF EndSplash, ImGuiMade, RendererMade, SizeInv, WindowSized,
                              GraphSized, ViewCovered, Running
    <2>5. CASE Begin
      BY <2>1, <2>5 DEF Begin, SizeInv, WindowSized, GraphSized, ViewCovered, Running
    <2>6. CASE ApplySceneSwitch \/ BeginFrame \/ Draw \/ SkipRender \/ OnQuit
      BY <2>1, <2>6 DEF ApplySceneSwitch, BeginFrame, Draw, SkipRender, OnQuit,
                        RendererReleased, SizeInv, WindowSized, GraphSized, ViewCovered, Running
    <2>7. CASE UNCHANGED vars
      BY <2>1, <2>7 DEF vars, SizeInv, WindowSized, GraphSized, ViewCovered, Running
    <2>. QED
      BY <2>2, <2>3, <2>4, <2>5, <2>6, <2>7 DEF Next, MainStep
  <1>3. SizeInv => FrameFits
    BY DEF SizeInv, WindowSized, GraphSized, ViewCovered, Running, FrameFits
  <1>. QED
    BY <1>1, <1>2, <1>3, PTL DEF Spec
-----------------------------------------------------------------------------
(***************************************************************************)
(* The libraries.  What is sound is a memory: every counter counts the     *)
(* References that hold it, a pointer and its counter come and go          *)
(* together, and an object lives exactly as long as it is held or owned.   *)
(* Each operation of Reference and Owned keeps a memory sound, whatever    *)
(* else it holds; so each step of the program is a few of those, and what  *)
(* is left to prove of it is who shares what.                              *)
(***************************************************************************)
Objects == ObjectKinds \X (1 .. MaxObjects)
Refs == [ptr : Objects \cup {Null}, counter : Objects \cup {Null}]
Owners == {Manager, Temporary}
Memories ==
    [objects : SUBSET Objects, counts : [Objects -> Int], refs : [AllReferences -> Refs],
     owned : [Owners -> Objects \cup {Null}], sound : BOOLEAN]

HeldBy(refs, c) == {h \in AllReferences : refs[h].counter = c}

SoundMemory(m) ==
    /\ m \in Memories /\ m.sound
    /\ \A c \in Objects : m.counts[c] = Cardinality(HeldBy(m.refs, c))
    /\ \A h, g \in AllReferences :
         (m.refs[h].ptr = m.refs[g].ptr) <=> (m.refs[h].counter = m.refs[g].counter)
    /\ \A h \in AllReferences : (m.refs[h].ptr = Null) <=> (m.refs[h].counter = Null)
    /\ \A o \in Objects :
         o \in m.objects <=> (\E h \in AllReferences : m.refs[h].ptr = o) \/ (\E w \in Owners : m.owned[w] = o)
    /\ \A h \in AllReferences, w \in Owners : m.refs[h].ptr = m.owned[w] => m.owned[w] = Null
    /\ m.owned[Manager] = m.owned[Temporary] => m.owned[Manager] = Null

\* Null is no object, and Nil a Reference.
LEMMA NullApart == Null \notin Objects /\ Nil \in Refs /\ Nil.ptr = Null /\ Nil.counter = Null
  BY LibraryAssumption DEF Null, Nil, Objects, Refs

\* There are finitely many References, for there are as many holders and files.
LEMMA ReferencesFinite == IsFiniteSet(AllReferences)
  <1> DEFINE N == Files \cup {ForwardPBR}
             K == {"result", "new", "made"}
             fe == [n \in N |-> Entry(n)]
             fm == [e \in Holders |-> ModelRef(e)]
             fs == [e \in Holders |-> ShaderRef(e)]
  <1>1. IsFiniteSet(N) /\ IsFiniteSet(Holders)
    BY LibraryAssumption, FS_AddElement
  <1>2. IsFiniteSet({Entry(n) : n \in N})
    <2>1. fe \in Surjection(N, {Entry(n) : n \in N})
      BY DEF Surjection
    <2>. QED
      BY <1>1, <2>1, FS_Surjection
  <1>3. IsFiniteSet({ModelRef(e) : e \in Holders})
    <2>1. fm \in Surjection(Holders, {ModelRef(e) : e \in Holders})
      BY DEF Surjection
    <2>. QED
      BY <1>1, <2>1, FS_Surjection
  <1>4. IsFiniteSet({ShaderRef(e) : e \in Holders})
    <2>1. fs \in Surjection(Holders, {ShaderRef(e) : e \in Holders})
      BY DEF Surjection
    <2>. QED
      BY <1>1, <2>1, FS_Surjection
  <1>5. IsFiniteSet(ComponentRefs)
    <2>1. IsFiniteSet({ModelRef(e) : e \in Holders} \cup {ShaderRef(e) : e \in Holders})
      BY <1>3, <1>4, FS_Union
    <2>. QED
      BY <2>1, FS_AddElement DEF ComponentRefs
  <1>6. {Local(k) : k \in K} = (({} \cup {Local("result")}) \cup {Local("new")}) \cup {Local("made")}
    OBVIOUS
  <1>7. IsFiniteSet({Local(k) : k \in K})
    <2>1. IsFiniteSet({} \cup {Local("result")})
      BY FS_EmptySet, FS_AddElement
    <2>2. IsFiniteSet(({} \cup {Local("result")}) \cup {Local("new")})
      BY <2>1, FS_AddElement
    <2>. QED
      BY <1>6, <2>2, FS_AddElement
  <1>8. IsFiniteSet({Entry(n) : n \in N} \cup ComponentRefs)
    BY <1>2, <1>5, FS_Union
  <1>9. IsFiniteSet(({Entry(n) : n \in N} \cup ComponentRefs) \cup {MeshIndices})
    BY <1>8, FS_AddElement
  <1>10. IsFiniteSet((({Entry(n) : n \in N} \cup ComponentRefs) \cup {MeshIndices}) \cup {Local(k) : k \in K})
    BY <1>9, <1>7, FS_Union
  <1>. QED
    BY <1>10 DEF AllReferences

\* So what holds a counter can be counted, and is none if the count is 0.
LEMMA HeldFinite ==
    ASSUME NEW refs, NEW c
    PROVE  /\ IsFiniteSet(HeldBy(refs, c)) /\ Cardinality(HeldBy(refs, c)) \in Nat
           /\ Cardinality(HeldBy(refs, c)) = 0 <=> HeldBy(refs, c) = {}
  <1>1. IsFiniteSet(HeldBy(refs, c))
    BY ReferencesFinite, FS_Subset DEF HeldBy
  <1>. QED
    BY <1>1, FS_CardinalityType, FS_EmptySet

\* Who points to what determines all of a sound memory.
LEMMA Determined ==
    ASSUME NEW m, NEW n, SoundMemory(m), SoundMemory(n), m.refs = n.refs, m.owned = n.owned
    PROVE  m = n
  <1>1. m.counts = n.counts
    BY DEF SoundMemory, Memories
  <1>2. m.objects = n.objects
    <2>1. m.objects \subseteq Objects /\ n.objects \subseteq Objects
      BY DEF SoundMemory, Memories
    <2>2. \A o \in Objects : o \in m.objects <=> o \in n.objects
      BY DEF SoundMemory
    <2>. QED
      BY <2>1, <2>2
  <1>. QED
    BY <1>1, <1>2 DEF SoundMemory, Memories

-----------------------------------------------------------------------------
\* What operator delete changes.
LEMMA DeleteFields ==
    ASSUME NEW m \in Memories, NEW o
    PROVE  Delete(m, o) = [objects |-> m.objects \ {o}, counts |-> m.counts, refs |-> m.refs, owned |-> m.owned,
                           sound |-> m.sound /\ o \in m.objects \cup {Null}]
  <1> DEFINE x == m.objects \ {o}
             n == [m EXCEPT !.objects = x]
             s == (m.sound /\ o \in m.objects \cup {Null})
  <1> HIDE DEF s, x
  <1>1. n = [objects |-> x, counts |-> m.counts, refs |-> m.refs, owned |-> m.owned, sound |-> m.sound]
    BY DEF Memories
  <1>4. Delete(m, o) = [m EXCEPT !.objects = x, !.sound = s]
    BY DEF Delete, s, x
  <1>2. Delete(m, o) = [n EXCEPT !.sound = s]
    BY <1>4, Zenon
  <1> HIDE DEF n
  <1>3. [n EXCEPT !.sound = s] = [objects |-> x, counts |-> m.counts, refs |-> m.refs, owned |-> m.owned, sound |-> s]
    BY <1>1
  <1>. QED
    BY <1>2, <1>3 DEF s, x

\* What sharing changes, of a Reference that is not null.
LEMMA ShareFields ==
    ASSUME NEW m \in Memories, NEW h, NEW r, r.ptr # Null, r.counter # Null
    PROVE  Share(m, h, r) = [objects |-> m.objects, counts |-> [m.counts EXCEPT ![r.counter] = @ + 1],
                             refs |-> [m.refs EXCEPT ![h] = r], owned |-> m.owned, sound |-> m.sound]
  <1> DEFINE n == [m EXCEPT !.refs[h] = r]
             c == r.counter
  <1>1. n = [objects |-> m.objects, counts |-> m.counts, refs |-> [m.refs EXCEPT ![h] = r], owned |-> m.owned, sound |-> m.sound]
    BY DEF Memories
  <1>2. Share(m, h, r) = [m EXCEPT !.refs[h] = r, !.counts[r.counter] = m.counts[r.counter] + 1]
    BY DEF Share
  <1>3. [m EXCEPT !.refs[h] = r, !.counts[r.counter] = m.counts[r.counter] + 1] = [n EXCEPT !.counts[r.counter] = m.counts[r.counter] + 1]
    BY Zenon
  <1> HIDE DEF n
  <1>4. [n EXCEPT !.counts[r.counter] = m.counts[r.counter] + 1] =
          [objects |-> m.objects, counts |-> [m.counts EXCEPT ![r.counter] = @ + 1], refs |-> [m.refs EXCEPT ![h] = r],
           owned |-> m.owned, sound |-> m.sound]
    BY <1>1
  <1>. QED
    BY <1>2, <1>3, <1>4

\* What a Reference to a new object changes.
LEMMA HoldingFields ==
    ASSUME NEW m \in Memories, NEW h, NEW o
    PROVE  LET c == FreeCounter(m, o[1])
           IN  Holding(m, h, o) = [objects |-> m.objects, counts |-> [m.counts EXCEPT ![c] = 1],
                                   refs |-> [m.refs EXCEPT ![h] = [ptr |-> o, counter |-> c]], owned |-> m.owned, sound |-> m.sound]
  <1> DEFINE c == FreeCounter(m, o[1])
             r == [ptr |-> o, counter |-> c]
             n == [m EXCEPT !.refs[h] = r]
  <1>2. Holding(m, h, o) = [n EXCEPT !.counts[c] = 1]
    BY Zenon DEF Holding
  <1> HIDE DEF c, r
  <1>1. n = [objects |-> m.objects, counts |-> m.counts, refs |-> [m.refs EXCEPT ![h] = r], owned |-> m.owned, sound |-> m.sound]
    BY DEF Memories
  <1> HIDE DEF n
  <1>3. [n EXCEPT !.counts[c] = 1] =
          [objects |-> m.objects, counts |-> [m.counts EXCEPT ![c] = 1], refs |-> [m.refs EXCEPT ![h] = r],
           owned |-> m.owned, sound |-> m.sound]
    BY <1>1
  <1>. QED
    BY <1>2, <1>3 DEF c, r

\* References that go leave the others sound, and an object goes when the last
\* of those that hold it does.
LEMMA DestroyAllSound ==
    ASSUME NEW m, SoundMemory(m), NEW holders \in SUBSET AllReferences
    PROVE  LET n == DestroyAll(m, holders)
           IN  /\ SoundMemory(n) /\ n.owned = m.owned
               /\ n.refs = [h \in AllReferences |-> IF h \in holders THEN Nil ELSE m.refs[h]]
  <1> DEFINE n == DestroyAll(m, holders)
             leaving == {h \in holders : m.refs[h].counter # Null}
             left == [c \in Objects |-> m.counts[c] - Cardinality({h \in leaving : m.refs[h].counter = c})]
             freed == {m.refs[h].ptr : h \in {g \in leaving : left[m.refs[g].counter] = 0}}
             refs == [h \in AllReferences |-> IF h \in holders THEN Nil ELSE m.refs[h]]
  <1> USE NullApart
  <1>0. /\ DOMAIN m.counts = Objects /\ DOMAIN m.refs = AllReferences
        /\ m = [objects |-> m.objects, counts |-> m.counts, refs |-> m.refs, owned |-> m.owned, sound |-> m.sound]
        /\ m.refs \in [AllReferences -> Refs]
    BY DEF SoundMemory, Memories
  <1>1. /\ n.objects = m.objects \ freed /\ n.counts = left /\ n.refs = refs /\ n.owned = m.owned
        /\ n.sound = (m.sound /\ freed \subseteq m.objects)
        /\ n = [objects |-> n.objects, counts |-> n.counts, refs |-> n.refs, owned |-> n.owned, sound |-> n.sound]
    BY <1>0 DEF DestroyAll
  <1>2. ASSUME NEW c \in Objects
        PROVE  left[c] = Cardinality(HeldBy(refs, c))
    <2>1. {h \in leaving : m.refs[h].counter = c} = HeldBy(m.refs, c) \cap holders
      BY DEF HeldBy
    <2>2. HeldBy(refs, c) = HeldBy(m.refs, c) \ holders
      BY DEF HeldBy
    <2>3. Cardinality(HeldBy(refs, c)) = Cardinality(HeldBy(m.refs, c)) - Cardinality(HeldBy(m.refs, c) \cap holders)
      BY <2>2, HeldFinite, FS_Difference
    <2>. QED
      BY <2>1, <2>3 DEF SoundMemory
  <1>3. left \in [Objects -> Int]
    <2> SUFFICES ASSUME NEW c \in Objects PROVE left[c] \in Int
      OBVIOUS
    <2>1. left[c] = Cardinality(HeldBy(refs, c))
      BY <1>2
    <2> HIDE DEF left, refs
    <2>2. Cardinality(HeldBy(refs, c)) \in Nat
      BY HeldFinite
    <2>. QED
      BY <2>1, <2>2
  <1>4. ASSUME NEW o \in Objects
        PROVE  o \in freed <=> (\E h \in holders : m.refs[h].ptr = o) /\ (\A g \in AllReferences \ holders : m.refs[g].ptr # o)
    <2>1. ASSUME NEW h \in holders, m.refs[h].ptr = o
          PROVE  (h \in leaving) /\ (left[m.refs[h].counter] = 0 <=> \A g \in AllReferences \ holders : m.refs[g].ptr # o)
      <3>1. m.refs[h].counter \in Objects /\ h \in leaving
        BY <1>0, <2>1 DEF SoundMemory, Refs
      <3>2. left[m.refs[h].counter] = 0 <=> HeldBy(refs, m.refs[h].counter) = {}
        BY <1>2, <3>1, HeldFinite
      <3>3. HeldBy(refs, m.refs[h].counter) = {g \in AllReferences \ holders : m.refs[g].ptr = o}
        BY <2>1, <3>1 DEF SoundMemory, HeldBy
      <3>. QED
        BY <3>1, <3>2, <3>3
    <2>. QED
      BY <2>1
  <1>5. freed \subseteq m.objects
    <2> SUFFICES ASSUME NEW h \in leaving PROVE m.refs[h].ptr \in m.objects
      OBVIOUS
    <2>. QED
      BY <1>0 DEF SoundMemory, Refs
  <1>6. n \in Memories /\ n.sound
    <2>1. refs \in [AllReferences -> Refs]
      BY <1>0
    <2>2. m.objects \ freed \in SUBSET Objects /\ m.owned \in [Owners -> Objects \cup {Null}] /\ m.sound
      BY DEF SoundMemory, Memories
    <2>. QED
      BY <1>1, <1>3, <1>5, <2>1, <2>2 DEF Memories
  <1>7. ASSUME NEW o \in Objects
        PROVE  o \in n.objects <=> (\E h \in AllReferences : refs[h].ptr = o) \/ (\E w \in Owners : m.owned[w] = o)
    <2>1. (\E h \in AllReferences : refs[h].ptr = o) <=> \E h \in AllReferences \ holders : m.refs[h].ptr = o
      OBVIOUS
    <2>2. o \in m.objects <=> (\E h \in AllReferences : m.refs[h].ptr = o) \/ (\E w \in Owners : m.owned[w] = o)
      BY DEF SoundMemory
    <2>3. \A h \in AllReferences, w \in Owners : m.refs[h].ptr = o => m.owned[w] # o
      BY DEF SoundMemory
    <2>4. o \in n.objects <=> o \in m.objects /\ o \notin freed
      BY <1>1
    <2> HIDE DEF refs, freed, leaving, left, n
    <2>. QED
      BY <1>4, <2>1, <2>2, <2>3, <2>4
  <1>8. \A h, g \in AllReferences : (refs[h].ptr = refs[g].ptr) <=> (refs[h].counter = refs[g].counter)
    BY DEF SoundMemory
  <1>9. /\ \A h \in AllReferences : (refs[h].ptr = Null) <=> (refs[h].counter = Null)
        /\ \A h \in AllReferences, w \in Owners : refs[h].ptr = m.owned[w] => m.owned[w] = Null
    BY DEF SoundMemory
  <1>10. m.owned[Manager] = m.owned[Temporary] => m.owned[Manager] = Null
    BY DEF SoundMemory
  <1> HIDE DEF refs, freed, leaving, left, n
  <1>11. SoundMemory(n)
    BY <1>1, <1>2, <1>6, <1>7, <1>8, <1>9, <1>10 DEF SoundMemory
  <1>. QED
    BY <1>1, <1>11 DEF refs, n

\* ~Reference is the destruction of one.
LEMMA DestroyedIsAll ==
    ASSUME NEW m, SoundMemory(m), NEW h \in AllReferences
    PROVE  Destroyed(m, h) = DestroyAll(m, {h})
  <1> USE NullApart
  <1> DEFINE r == m.refs[h]
             refs == [g \in AllReferences |-> IF g = h THEN Nil ELSE m.refs[g]]
             left == [c \in Objects |-> IF c = r.counter THEN m.counts[c] - 1 ELSE m.counts[c]]
             leaving == {g \in {h} : m.refs[g].counter # Null}
  <1>0. /\ m \in Memories /\ m.refs \in [AllReferences -> Refs] /\ m.counts \in [Objects -> Int] /\ r \in Refs
        /\ DOMAIN m.counts = Objects /\ DOMAIN m.refs = AllReferences /\ m.sound \in BOOLEAN
        /\ m = [objects |-> m.objects, counts |-> m.counts, refs |-> m.refs, owned |-> m.owned, sound |-> m.sound]
    BY DEF SoundMemory, Memories
  <1> DEFINE left0 == [c \in DOMAIN m.counts |-> m.counts[c] - Cardinality({g \in leaving : m.refs[g].counter = c})]
             freed0 == {m.refs[g].ptr : g \in {f \in leaving : left0[m.refs[f].counter] = 0}}
             freed == IF r.counter # Null /\ m.counts[r.counter] = 1 THEN {r.ptr} ELSE {}
  <1>1. DestroyAll(m, {h}) =
          [objects |-> m.objects \ freed0, counts |-> left0, owned |-> m.owned,
           refs |-> [g \in DOMAIN m.refs |-> IF g \in {h} THEN Nil ELSE m.refs[g]], sound |-> m.sound /\ freed0 \subseteq m.objects]
    BY DEF DestroyAll
  <1>2. left0 = left
    <2>1. Cardinality({h}) = 1 /\ Cardinality({}) = 0
      BY FS_Singleton, FS_EmptySet
    <2>2. ASSUME NEW c \in Objects
          PROVE  Cardinality({g \in leaving : m.refs[g].counter = c}) = IF c = r.counter THEN 1 ELSE 0
      <3>1. {g \in leaving : m.refs[g].counter = c} = IF c = r.counter THEN {h} ELSE {}
        OBVIOUS
      <3>. QED
        BY <2>1, <3>1
    <2>3. ASSUME NEW c \in Objects
          PROVE  m.counts[c] - Cardinality({g \in leaving : m.refs[g].counter = c}) =
                   IF c = r.counter THEN m.counts[c] - 1 ELSE m.counts[c]
      BY <1>0, <2>2
    <2>. QED
      BY <1>0, <2>3
  <1>3. freed0 = freed
    <2>1. ASSUME r.counter # Null PROVE left0[r.counter] = 0 <=> m.counts[r.counter] = 1
      <3>1. r.counter \in Objects
        BY <1>0, <2>1 DEF Refs
      <3>. QED
        BY <1>0, <1>2, <3>1
    <2> HIDE DEF left0
    <2>. QED
      BY <2>1
  <1>4. [g \in DOMAIN m.refs |-> IF g \in {h} THEN Nil ELSE m.refs[g]] = refs
    BY <1>0
  <1> HIDE DEF freed0, left0, refs, left
  <1>5. DestroyAll(m, {h}) =
          [objects |-> m.objects \ freed, counts |-> left, owned |-> m.owned, refs |-> refs, sound |-> m.sound /\ freed \subseteq m.objects]
    BY <1>1, <1>2, <1>3, <1>4
  <1> USE DEF refs, left
  <1>6. CASE r.counter = Null
    <2>1. r = Nil
      BY <1>0, <1>6 DEF SoundMemory, Refs, Nil
    <2>2. Destroyed(m, h) = [m EXCEPT !.refs[h] = Nil]
      BY <1>6 DEF Destroyed, Unref
    <2>3. [m EXCEPT !.refs[h] = Nil] =
            [objects |-> m.objects, counts |-> m.counts, refs |-> [m.refs EXCEPT ![h] = Nil], owned |-> m.owned, sound |-> m.sound]
      BY <1>0
    <2>4. [m.refs EXCEPT ![h] = Nil] = refs /\ m.counts = left /\ freed = {}
      BY <1>0, <1>6
    <2>. QED
      BY <1>5, <2>2, <2>3, <2>4, <1>0
  <1>7. CASE r.counter # Null
    <2>0. r.counter \in Objects /\ r.ptr \in m.objects /\ r.ptr # Null
      BY <1>0, <1>7 DEF SoundMemory, Refs
    <2> DEFINE lower == [m EXCEPT !.counts[r.counter] = @ - 1]
    <2>1. lower = [objects |-> m.objects, counts |-> left, refs |-> m.refs, owned |-> m.owned, sound |-> m.sound]
      BY <1>0, <2>0
    <2>2. CASE m.counts[r.counter] # 1
      <3>1. Destroyed(m, h) = [lower EXCEPT !.refs[h] = Nil]
        BY <1>7, <2>2 DEF Destroyed, Unref
      <3> HIDE DEF lower
      <3>2. [lower EXCEPT !.refs[h] = Nil] =
              [objects |-> m.objects, counts |-> left, refs |-> [m.refs EXCEPT ![h] = Nil], owned |-> m.owned, sound |-> m.sound]
        BY <2>1
      <3>3. [m.refs EXCEPT ![h] = Nil] = refs /\ freed = {}
        BY <1>0, <2>2
      <3>. QED
        BY <1>5, <3>1, <3>2, <3>3, <1>0
    <2>3. CASE m.counts[r.counter] = 1
      <3> DEFINE none == [lower EXCEPT !.refs[h] = Nil]
                 gone == Delete(none, r.ptr)
      <3>1. Destroyed(m, h) = [gone EXCEPT !.refs[h] = Nil]
        BY <1>7, <2>3 DEF Destroyed, Unref
      <3> HIDE DEF lower
      <3>2. none = [objects |-> m.objects, counts |-> left, refs |-> refs, owned |-> m.owned, sound |-> m.sound]
        <4>1. [m.refs EXCEPT ![h] = Nil] = refs
          BY <1>0
        <4>. QED
          BY <2>1, <4>1
      <3> HIDE DEF none
      <3>3. left \in [Objects -> Int] /\ refs \in [AllReferences -> Refs]
        BY <1>0
      <3>4. none \in Memories
        BY <1>0, <3>2, <3>3 DEF Memories
      <3>5. gone = [objects |-> m.objects \ {r.ptr}, counts |-> left, refs |-> refs, owned |-> m.owned,
                    sound |-> m.sound /\ r.ptr \in m.objects \cup {Null}]
        <4>1. gone = [objects |-> none.objects \ {r.ptr}, counts |-> none.counts, refs |-> none.refs, owned |-> none.owned,
                      sound |-> none.sound /\ r.ptr \in none.objects \cup {Null}]
          BY <3>4, DeleteFields
        <4>2. /\ none.objects = m.objects /\ none.counts = left /\ none.refs = refs /\ none.owned = m.owned
              /\ none.sound = m.sound
          BY <3>2
        <4>. QED
          BY <4>1, <4>2, Zenon
      <3> HIDE DEF gone
      <3>6. [gone EXCEPT !.refs[h] = Nil] =
              [objects |-> m.objects \ {r.ptr}, counts |-> left, refs |-> [refs EXCEPT ![h] = Nil], owned |-> m.owned,
               sound |-> m.sound /\ r.ptr \in m.objects \cup {Null}]
        BY <3>5
      <3>7. [refs EXCEPT ![h] = Nil] = refs /\ freed = {r.ptr}
        BY <1>7, <2>3
      <3>. QED
        BY <1>5, <3>1, <3>6, <3>7, <2>0
    <2>. QED
      BY <2>2, <2>3
  <1>. QED
    BY <1>6, <1>7

\* What it leaves.
LEMMA DestroyedSound ==
    ASSUME NEW m, SoundMemory(m), NEW h \in AllReferences
    PROVE  LET n == Destroyed(m, h)
           IN  SoundMemory(n) /\ n.owned = m.owned /\ n.refs = [m.refs EXCEPT ![h] = Nil]
  <1>1. Destroyed(m, h) = DestroyAll(m, {h})
    BY DestroyedIsAll
  <1>2. /\ SoundMemory(DestroyAll(m, {h})) /\ DestroyAll(m, {h}).owned = m.owned
        /\ DestroyAll(m, {h}).refs = [g \in AllReferences |-> IF g \in {h} THEN Nil ELSE m.refs[g]]
    BY DestroyAllSound
  <1>3. [g \in AllReferences |-> IF g \in {h} THEN Nil ELSE m.refs[g]] = [m.refs EXCEPT ![h] = Nil]
    BY DEF SoundMemory, Memories
  <1>. QED
    BY <1>1, <1>2, <1>3

\* DestroyAll is the destruction of References one by one, in whatever order: of
\* none it changes nothing, and of one more it is ~Reference after that of the
\* others.
THEOREM DestroyedOneByOne ==
    ASSUME NEW m, SoundMemory(m), NEW holders \in SUBSET AllReferences, NEW h \in AllReferences
    PROVE  /\ DestroyAll(m, {}) = m
           /\ DestroyAll(m, holders \cup {h}) = Destroyed(DestroyAll(m, holders), h)
  <1> DEFINE none == DestroyAll(m, {})
             more == DestroyAll(m, holders \cup {h})
             some == DestroyAll(m, holders)
  <1>0. DOMAIN m.refs = AllReferences /\ m.refs = [g \in AllReferences |-> m.refs[g]]
    BY DEF SoundMemory, Memories
  <1>1. SoundMemory(none) /\ none.owned = m.owned /\ none.refs = [g \in AllReferences |-> IF g \in {} THEN Nil ELSE m.refs[g]]
    <2>. {} \in SUBSET AllReferences
      OBVIOUS
    <2>. QED
      BY DestroyAllSound
  <1>2. /\ SoundMemory(some) /\ some.owned = m.owned
        /\ some.refs = [g \in AllReferences |-> IF g \in holders THEN Nil ELSE m.refs[g]]
    BY DestroyAllSound
  <1>3. /\ SoundMemory(more) /\ more.owned = m.owned
        /\ more.refs = [g \in AllReferences |-> IF g \in holders \cup {h} THEN Nil ELSE m.refs[g]]
    <2>. holders \cup {h} \in SUBSET AllReferences
      OBVIOUS
    <2>. QED
      BY DestroyAllSound
  <1> HIDE DEF none, more, some
  <1>4. /\ SoundMemory(Destroyed(some, h)) /\ Destroyed(some, h).owned = some.owned
        /\ Destroyed(some, h).refs = [some.refs EXCEPT ![h] = Nil]
    BY <1>2, DestroyedSound
  <1>5. none = m
    <2>1. none.refs = m.refs
      BY <1>0, <1>1
    <2>. QED
      BY <1>1, <2>1, Determined
  <1>6. more = Destroyed(some, h)
    <2>1. more.refs = Destroyed(some, h).refs
      BY <1>2, <1>3, <1>4
    <2>. QED
      BY <1>2, <1>3, <1>4, <2>1, Determined
  <1>. QED
    BY <1>5, <1>6 DEF none, more, some

\* A null Reference becomes one more of those that share an object.
LEMMA ShareSound ==
    ASSUME NEW m, SoundMemory(m), NEW h \in AllReferences, m.refs[h] = Nil,
           NEW r, r # Nil, \E from \in AllReferences : r = m.refs[from]
    PROVE  /\ SoundMemory(Share(m, h, r)) /\ Share(m, h, r).owned = m.owned
           /\ Share(m, h, r).refs = [m.refs EXCEPT ![h] = r]
  <1> USE NullApart
  <1>. PICK from \in AllReferences : r = m.refs[from]
    OBVIOUS
  <1> DEFINE n == Share(m, h, r)
             refs == [m.refs EXCEPT ![h] = r]
             counts == [m.counts EXCEPT ![r.counter] = @ + 1]
  <1>0. /\ m \in Memories /\ m.refs \in [AllReferences -> Refs] /\ m.counts \in [Objects -> Int] /\ r \in Refs /\ m.sound
    BY DEF SoundMemory, Memories
  <1>1. r.ptr \in Objects /\ r.counter \in Objects /\ r.ptr # Null /\ r.counter # Null
    <2>1. r.ptr = Null <=> r.counter = Null
      BY DEF SoundMemory
    <2>. QED
      BY <1>0, <2>1 DEF Refs, Nil
  <1>2. n = [objects |-> m.objects, counts |-> counts, refs |-> refs, owned |-> m.owned, sound |-> m.sound]
    <2>1. m \in Memories /\ r.ptr # Null /\ r.counter # Null
      BY <1>0, <1>1
    <2>. QED
      BY ONLY <2>1, ShareFields
  <1> HIDE DEF n
  <1>3. ASSUME NEW c \in Objects PROVE counts[c] = Cardinality(HeldBy(refs, c))
    <2>1. CASE c = r.counter
      <3>1. HeldBy(refs, c) = HeldBy(m.refs, c) \cup {h} /\ h \notin HeldBy(m.refs, c)
        BY <1>0, <2>1 DEF HeldBy
      <3>2. Cardinality(HeldBy(refs, c)) = Cardinality(HeldBy(m.refs, c)) + 1
        BY <3>1, HeldFinite, FS_AddElement
      <3>. QED
        BY <1>0, <2>1, <3>2 DEF SoundMemory
    <2>2. CASE c # r.counter
      <3>1. HeldBy(refs, c) = HeldBy(m.refs, c)
        BY <1>0, <2>2 DEF HeldBy
      <3>. QED
        BY <1>0, <2>2, <3>1 DEF SoundMemory
    <2>. QED
      BY <2>1, <2>2
  <1>4. refs \in [AllReferences -> Refs] /\ counts \in [Objects -> Int]
    <2>1. refs \in [AllReferences -> Refs]
      BY <1>0
    <2>2. counts \in [Objects -> Int]
      BY <1>0, <1>1
    <2>. QED
      BY <2>1, <2>2
  <1>5. n \in Memories
    BY <1>0, <1>2, <1>4 DEF Memories
  <1>6. \A g \in AllReferences : refs[g] = IF g = h THEN m.refs[from] ELSE m.refs[g]
    BY <1>0
  <1> HIDE DEF refs, counts
  <1>7. /\ \A g, f \in AllReferences : (refs[g].ptr = refs[f].ptr) <=> (refs[g].counter = refs[f].counter)
        /\ \A g \in AllReferences : (refs[g].ptr = Null) <=> (refs[g].counter = Null)
        /\ \A g \in AllReferences, w \in Owners : refs[g].ptr = m.owned[w] => m.owned[w] = Null
    BY <1>6 DEF SoundMemory
  <1>8. ASSUME NEW o \in Objects
        PROVE  (\E g \in AllReferences : refs[g].ptr = o) <=> (\E g \in AllReferences : m.refs[g].ptr = o)
    BY <1>6
  <1>9. \A o \in Objects :
          o \in m.objects <=> (\E g \in AllReferences : refs[g].ptr = o) \/ (\E w \in Owners : m.owned[w] = o)
    BY <1>8 DEF SoundMemory
  <1>10. m.owned[Manager] = m.owned[Temporary] => m.owned[Manager] = Null
    BY DEF SoundMemory
  <1>11. /\ n.objects = m.objects /\ n.counts = counts /\ n.refs = refs /\ n.owned = m.owned /\ n.sound = m.sound
    BY <1>2
  <1>12. SoundMemory(n)
    BY <1>0, <1>3, <1>5, <1>7, <1>9, <1>10, <1>11 DEF SoundMemory
  <1>. QED
    BY <1>11, <1>12 DEF n, refs

\* HasRoom, in any memory.
RoomIn(m, kind) == \E o, c \in Objects : o[1] = kind /\ o \notin m.objects /\ c[1] = kind /\ m.counts[c] = 0

\* What the Reference to a new object of a kind may be.
Fresh(m, kind) == {r \in Refs : r # Nil /\ r.ptr[1] = kind /\ r.counter[1] = kind /\ \A g \in AllReferences : m.refs[g] # r}

\* CreateSharedPtr makes an object and a counter that nobody had.
LEMMA CreateSound ==
    ASSUME NEW m, SoundMemory(m), NEW h \in AllReferences, m.refs[h] = Nil, NEW kind, RoomIn(m, kind)
    PROVE  LET n == CreateSharedPtr(m, h, kind)
           IN  /\ SoundMemory(n) /\ n.owned = m.owned
               /\ \E r \in Fresh(m, kind) : n.refs = [m.refs EXCEPT ![h] = r]
  <1> USE NullApart
  <1> DEFINE n == CreateSharedPtr(m, h, kind)
             o == FreeObject(m, kind)
             c == FreeCounter(m, o[1])
             r == [ptr |-> o, counter |-> c]
             a == Allocate(m, o)
             refs == [m.refs EXCEPT ![h] = r]
             counts == [m.counts EXCEPT ![c] = 1]
             objects == m.objects \cup {o}
  <1>0. /\ m \in Memories /\ m.refs \in [AllReferences -> Refs] /\ m.counts \in [Objects -> Int] /\ m.sound
        /\ DOMAIN m.counts = Objects /\ m.objects \subseteq Objects
    BY DEF SoundMemory, Memories
  <1>1. o \in Objects /\ o[1] = kind /\ o \notin m.objects
    BY <1>0 DEF FreeObject, Free, RoomIn
  <1> HIDE DEF o
  <1>2. a = [objects |-> objects, counts |-> m.counts, refs |-> m.refs, owned |-> m.owned, sound |-> m.sound]
    <2>1. a = [m EXCEPT !.objects = objects]
      BY DEF Allocate
    <2> HIDE DEF objects, a
    <2>. QED
      BY <1>0, <2>1 DEF Memories
  <1>3. a \in Memories
    <2>1. objects \in SUBSET Objects
      BY <1>0, <1>1
    <2>. QED
      BY <1>0, <1>2, <2>1 DEF Memories
  <1> HIDE DEF a
  <1>4. FreeCounter(a, o[1]) = c
    BY <1>2 DEF FreeCounter
  <1>5. c \in Objects /\ c[1] = kind /\ m.counts[c] = 0
    BY <1>0, <1>1 DEF FreeCounter, Free, RoomIn
  <1>6. n = Holding(a, h, o)
    BY DEF CreateSharedPtr, a, o
  <1>7. Holding(a, h, o) =
          LET d == FreeCounter(a, o[1])
          IN  [objects |-> a.objects, counts |-> [a.counts EXCEPT ![d] = 1],
               refs |-> [a.refs EXCEPT ![h] = [ptr |-> o, counter |-> d]], owned |-> a.owned, sound |-> a.sound]
    BY <1>3, HoldingFields
  <1> HIDE DEF c
  <1>8. n = [objects |-> objects, counts |-> counts, refs |-> refs, owned |-> m.owned, sound |-> m.sound]
    BY <1>2, <1>4, <1>6, <1>7
  <1> HIDE DEF n
  <1>9. r \in Refs /\ r # Nil /\ r.ptr[1] = kind /\ r.counter[1] = kind
    BY <1>1, <1>5 DEF Refs, Nil
  <1>10. \A g \in AllReferences : m.refs[g].ptr # o /\ m.refs[g].counter # c
    <2>1. \A g \in AllReferences : m.refs[g].ptr # o
      BY <1>1 DEF SoundMemory
    <2>2. HeldBy(m.refs, c) = {}
      BY <1>5, HeldFinite DEF SoundMemory
    <2>. QED
      BY <2>1, <2>2 DEF HeldBy
  <1>11. \A g \in AllReferences : refs[g] = IF g = h THEN r ELSE m.refs[g]
    BY <1>0
  <1>12. \A d \in Objects : counts[d] = IF d = c THEN 1 ELSE m.counts[d]
    BY <1>0
  <1>13. refs \in [AllReferences -> Refs]
    BY <1>0, <1>9
  <1>14. counts \in [Objects -> Int]
    <2>1. counts = [d \in Objects |-> IF d = c THEN 1 ELSE m.counts[d]]
      BY <1>0
    <2>2. \A d \in Objects : (IF d = c THEN 1 ELSE m.counts[d]) \in Int
      BY <1>0
    <2> HIDE DEF counts
    <2>. QED
      BY <2>1, <2>2
  <1>15. objects \in SUBSET Objects
    BY <1>0, <1>1
  <1>16. n \in Memories
    BY <1>0, <1>8, <1>13, <1>14, <1>15 DEF Memories
  <1> HIDE DEF refs, counts
  <1>17. ASSUME NEW d \in Objects PROVE counts[d] = Cardinality(HeldBy(refs, d))
    <2>1. CASE d = c
      <3>1. HeldBy(refs, d) = {h}
        BY <1>10, <1>11, <2>1 DEF HeldBy
      <3>. QED
        BY <1>12, <2>1, <3>1, FS_Singleton
    <2>2. CASE d # c
      <3>1. HeldBy(refs, d) = HeldBy(m.refs, d)
        BY <1>11, <2>2 DEF HeldBy
      <3>. QED
        BY <1>12, <2>2, <3>1 DEF SoundMemory
    <2>. QED
      BY <2>1, <2>2
  <1>18. \A g, f \in AllReferences : (refs[g].ptr = refs[f].ptr) <=> (refs[g].counter = refs[f].counter)
    BY <1>10, <1>11 DEF SoundMemory
  <1>19. \A g \in AllReferences : (refs[g].ptr = Null) <=> (refs[g].counter = Null)
    BY <1>1, <1>5, <1>11 DEF SoundMemory
  <1>20. \A w \in Owners : m.owned[w] # o
    BY <1>1 DEF SoundMemory
  <1>21. \A g \in AllReferences, w \in Owners : refs[g].ptr = m.owned[w] => m.owned[w] = Null
    BY <1>11, <1>20 DEF SoundMemory
  <1>22. \A p \in Objects :
          p \in objects <=> (\E g \in AllReferences : refs[g].ptr = p) \/ (\E w \in Owners : m.owned[w] = p)
    <2> SUFFICES ASSUME NEW p \in Objects
                 PROVE  p \in objects <=> (\E g \in AllReferences : refs[g].ptr = p) \/ (\E w \in Owners : m.owned[w] = p)
      OBVIOUS
    <2>1. (\E g \in AllReferences : refs[g].ptr = p) <=> p = o \/ \E g \in AllReferences : m.refs[g].ptr = p
      BY <1>11
    <2>. QED
      BY <2>1 DEF SoundMemory
  <1>23. m.owned[Manager] = m.owned[Temporary] => m.owned[Manager] = Null
    BY DEF SoundMemory
  <1>24. /\ n.objects = objects /\ n.counts = counts /\ n.refs = refs /\ n.owned = m.owned /\ n.sound = m.sound
    BY <1>8
  <1> HIDE DEF objects
  <1>25. SoundMemory(n)
    BY <1>0, <1>16, <1>17, <1>18, <1>19, <1>21, <1>22, <1>23, <1>24 DEF SoundMemory
  <1>26. \A g \in AllReferences : m.refs[g] # r
    BY <1>10
  <1>27. n.refs = [m.refs EXCEPT ![h] = r]
    BY <1>24 DEF refs
  <1> HIDE DEF r
  <1>28. r \in Fresh(m, kind)
    BY <1>9, <1>26 DEF Fresh
  <1>. QED
    BY <1>24, <1>25, <1>27, <1>28 DEF n

\* After unref the old pointers are overwritten: it is as if they were gone.
LEMMA UnrefShare ==
    ASSUME NEW m, SoundMemory(m), NEW h \in AllReferences, NEW r \in Refs, r # Nil, r.ptr # Null, r.counter # Null
    PROVE  Share(Unref(m, h), h, r) = Share(Destroyed(m, h), h, r)
  <1> DEFINE u == Unref(m, h)
             d == Destroyed(m, h)
             q == m.refs[h]
  <1>0. /\ m \in Memories /\ m.refs \in [AllReferences -> Refs] /\ m.counts \in [Objects -> Int] /\ q \in Refs
    BY DEF SoundMemory, Memories
  <1>1. u \in Memories
    <2>1. CASE q.counter = Null
      BY <1>0, <2>1 DEF Unref
    <2>2. CASE q.counter # Null
      <3> DEFINE lower == [m EXCEPT !.counts[q.counter] = @ - 1]
                 none == [lower EXCEPT !.refs[h] = Nil]
                 counts == [m.counts EXCEPT ![q.counter] = @ - 1]
                 refs == [m.refs EXCEPT ![h] = Nil]
      <3>0. q.counter \in Objects
        BY <1>0, <2>2 DEF Refs
      <3>1. lower = [objects |-> m.objects, counts |-> counts, refs |-> m.refs, owned |-> m.owned, sound |-> m.sound]
        BY <1>0 DEF Memories
      <3>2. counts \in [Objects -> Int]
        BY <1>0, <3>0
      <3>3. u = IF m.counts[q.counter] # 1 THEN lower ELSE Delete(none, q.ptr)
        BY <2>2 DEF Unref
      <3> HIDE DEF lower, counts
      <3>4. none = [objects |-> m.objects, counts |-> counts, refs |-> refs, owned |-> m.owned, sound |-> m.sound]
        BY <3>1
      <3>5. refs \in [AllReferences -> Refs]
        BY <1>0, NullApart
      <3> HIDE DEF none, refs
      <3>6. lower \in Memories /\ none \in Memories
        BY <1>0, <3>1, <3>2, <3>4, <3>5 DEF Memories
      <3>7. Delete(none, q.ptr) \in Memories
        <4>1. Delete(none, q.ptr) = [objects |-> none.objects \ {q.ptr}, counts |-> none.counts, refs |-> none.refs,
                owned |-> none.owned, sound |-> none.sound /\ q.ptr \in none.objects \cup {Null}]
          BY <3>6, DeleteFields
        <4>. QED
          BY <3>6, <4>1 DEF Memories
      <3>. QED
        BY <3>3, <3>6, <3>7
    <2>. QED
      BY <2>1, <2>2
  <1>2. d = [u EXCEPT !.refs[h] = Nil]
    BY DEF Destroyed
  <1>3. d \in Memories
    BY DestroyedSound DEF SoundMemory
  <1> HIDE DEF u, d
  <1>4. d = [objects |-> u.objects, counts |-> u.counts, refs |-> [u.refs EXCEPT ![h] = Nil], owned |-> u.owned, sound |-> u.sound]
    BY <1>1, <1>2 DEF Memories
  <1>5. /\ Share(u, h, r) = [objects |-> u.objects, counts |-> [u.counts EXCEPT ![r.counter] = @ + 1],
                             refs |-> [u.refs EXCEPT ![h] = r], owned |-> u.owned, sound |-> u.sound]
        /\ Share(d, h, r) = [objects |-> d.objects, counts |-> [d.counts EXCEPT ![r.counter] = @ + 1],
                             refs |-> [d.refs EXCEPT ![h] = r], owned |-> d.owned, sound |-> d.sound]
    BY <1>1, <1>3, ShareFields
  <1>6. d.objects = u.objects /\ d.counts = u.counts /\ d.refs = [u.refs EXCEPT ![h] = Nil] /\ d.owned = u.owned /\ d.sound = u.sound
    BY <1>4
  <1>7. [d.refs EXCEPT ![h] = r] = [u.refs EXCEPT ![h] = r]
    BY <1>1, <1>6 DEF Memories
  <1>. QED
    BY <1>5, <1>6, <1>7 DEF u, d

\* ref gives up what was pointed to and shares what the other points to, also
\* when both are one or point to the same.
LEMMA AssignSound ==
    ASSUME NEW m, SoundMemory(m), NEW h \in AllReferences, NEW from \in AllReferences
    PROVE  LET n == Assign(m, h, from)
           IN  SoundMemory(n) /\ n.owned = m.owned /\ n.refs = [m.refs EXCEPT ![h] = m.refs[from]]
  <1> USE NullApart
  <1> DEFINE r == m.refs[from]
             d == Destroyed(m, h)
  <1>0. m.refs \in [AllReferences -> Refs]
    BY DEF SoundMemory, Memories
  <1>1. CASE r.ptr = m.refs[h].ptr
    <2>1. Assign(m, h, from) = m
      BY <1>1 DEF Assign
    <2>2. r = m.refs[h]
      BY <1>0, <1>1 DEF SoundMemory, Refs
    <2>. QED
      BY <1>0, <2>1, <2>2
  <1>2. CASE r.ptr # m.refs[h].ptr
    <2>0. h # from /\ r \in Refs
      BY <1>0, <1>2
    <2>1. Assign(m, h, from) = Share(Unref(m, h), h, r)
      BY <1>2 DEF Assign
    <2>2. SoundMemory(d) /\ d.owned = m.owned /\ d.refs = [m.refs EXCEPT ![h] = Nil]
      BY DestroyedSound
    <2> HIDE DEF d
    <2>3. d.refs[h] = Nil /\ d.refs[from] = r /\ [d.refs EXCEPT ![h] = r] = [m.refs EXCEPT ![h] = r]
      BY <1>0, <2>0, <2>2
    <2>4. CASE r = Nil
      <3>1. Assign(m, h, from) = d
        BY <2>1, <2>4 DEF Share, d, Destroyed
      <3>. QED
        BY <2>2, <2>4, <3>1
    <2>5. CASE r # Nil
      <3>1. r.ptr # Null /\ r.counter # Null
        BY <1>0, <2>5 DEF SoundMemory, Refs, Nil
      <3>2. Assign(m, h, from) = Share(d, h, r)
        BY <2>0, <2>1, <2>5, <3>1, UnrefShare DEF d
      <3>3. SoundMemory(Share(d, h, r)) /\ Share(d, h, r).owned = d.owned /\ Share(d, h, r).refs = [d.refs EXCEPT ![h] = r]
        <4>1. \E g \in AllReferences : r = d.refs[g]
          BY <2>3
        <4>2. SoundMemory(d) /\ d.refs[h] = Nil
          BY <2>2, <2>3
        <4> HIDE DEF r
        <4>. QED
          BY ONLY <4>1, <4>2, <2>5, h \in AllReferences, ShareSound
      <3>. QED
        BY <2>2, <2>3, <3>2, <3>3
    <2>. QED
      BY <2>4, <2>5
  <1>. QED
    BY <1>1, <1>2

\* The constructors that copy.
LEMMA CopiedSound ==
    ASSUME NEW m, SoundMemory(m), NEW h \in AllReferences, NEW from \in AllReferences, m.refs[h] = Nil
    PROVE  /\ SoundMemory(Copied(m, h, from)) /\ Copied(m, h, from).owned = m.owned
           /\ Copied(m, h, from).refs = [m.refs EXCEPT ![h] = m.refs[from]]
  <1>1. [m EXCEPT !.refs[h] = Nil] = m
    BY DEF SoundMemory, Memories
  <1>. QED
    BY <1>1, AssignSound DEF Copied

\* The assignment from another type, of what is not null.
LEMMA CastAssignSound ==
    ASSUME NEW m, SoundMemory(m), NEW h \in AllReferences, NEW from \in AllReferences, h # from, m.refs[from] # Nil
    PROVE  LET n == CastAssign(m, h, from)
           IN  SoundMemory(n) /\ n.owned = m.owned /\ n.refs = [m.refs EXCEPT ![h] = m.refs[from]]
  <1> USE NullApart
  <1> DEFINE r == m.refs[from]
             d == Destroyed(m, h)
  <1>0. m.refs \in [AllReferences -> Refs] /\ r \in Refs
    BY DEF SoundMemory, Memories
  <1>1. r.ptr # Null /\ r.counter # Null
    BY <1>0 DEF SoundMemory, Refs, Nil
  <1>2. CastAssign(m, h, from) = Share(Unref(m, h), h, r)
    BY <1>1 DEF CastAssign
  <1>3. SoundMemory(d) /\ d.owned = m.owned /\ d.refs = [m.refs EXCEPT ![h] = Nil]
    BY DestroyedSound
  <1>4. CastAssign(m, h, from) = Share(d, h, r)
    BY <1>0, <1>1, <1>2, UnrefShare
  <1> HIDE DEF d
  <1>5. d.refs[h] = Nil /\ d.refs[from] = r /\ [d.refs EXCEPT ![h] = r] = [m.refs EXCEPT ![h] = r]
    BY <1>0, <1>3
  <1>6. SoundMemory(Share(d, h, r)) /\ Share(d, h, r).owned = d.owned /\ Share(d, h, r).refs = [d.refs EXCEPT ![h] = r]
    <2>1. r # Nil
      OBVIOUS
    <2>2. \E g \in AllReferences : r = d.refs[g]
      BY <1>5
    <2>3. SoundMemory(d) /\ d.refs[h] = Nil
      BY <1>3, <1>5
    <2> HIDE DEF r
    <2>. QED
      BY ONLY <2>1, <2>2, <2>3, h \in AllReferences, ShareSound
  <1>. QED
    BY <1>3, <1>4, <1>5, <1>6

\* reset to none.
LEMMA ResetSound ==
    ASSUME NEW m, SoundMemory(m), NEW h \in AllReferences
    PROVE  LET n == Reset(m, h, Null)
           IN  SoundMemory(n) /\ n.owned = m.owned /\ n.refs = [m.refs EXCEPT ![h] = Nil]
  BY DestroyedSound DEF Reset, Destroyed

-----------------------------------------------------------------------------
\* CreateUniquePtr owns an object that nobody had.
LEMMA CreateOwnedSound ==
    ASSUME NEW m, SoundMemory(m), NEW w \in Owners, m.owned[w] = Null, NEW kind,
           \E o \in Objects : o[1] = kind /\ o \notin m.objects
    PROVE  LET n == CreateUniquePtr(m, w, kind)
           IN  SoundMemory(n) /\ n.refs = m.refs /\ \E o \in Objects : n.owned = [m.owned EXCEPT ![w] = o]
  <1> USE NullApart
  <1> DEFINE n == CreateUniquePtr(m, w, kind)
             o == FreeObject(m, kind)
             objects == m.objects \cup {o}
             a == Allocate(m, o)
             owned == [m.owned EXCEPT ![w] = o]
  <1>0. /\ m \in Memories /\ m.owned \in [Owners -> Objects \cup {Null}] /\ m.sound
        /\ DOMAIN m.counts = Objects /\ m.objects \subseteq Objects
    BY DEF SoundMemory, Memories
  <1>1. o \in Objects /\ o \notin m.objects
    BY <1>0 DEF FreeObject, Free
  <1> HIDE DEF o
  <1>2. a = [objects |-> objects, counts |-> m.counts, refs |-> m.refs, owned |-> m.owned, sound |-> m.sound]
    <2>1. a = [m EXCEPT !.objects = objects]
      BY DEF Allocate
    <2> HIDE DEF objects, a
    <2>. QED
      BY <1>0, <2>1 DEF Memories
  <1>3. n = [a EXCEPT !.owned[w] = o]
    BY DEF CreateUniquePtr, o
  <1> HIDE DEF a, n
  <1>4. n = [objects |-> objects, counts |-> m.counts, refs |-> m.refs, owned |-> owned, sound |-> m.sound]
    BY <1>2, <1>3
  <1>5. owned \in [Owners -> Objects \cup {Null}] /\ \A v \in Owners : owned[v] = IF v = w THEN o ELSE m.owned[v]
    BY <1>0, <1>1
  <1>6. objects \in SUBSET Objects
    BY <1>0, <1>1
  <1>7. n \in Memories
    BY <1>0, <1>4, <1>5, <1>6 DEF Memories
  <1>8. \A h \in AllReferences : m.refs[h].ptr # o
    BY <1>1 DEF SoundMemory
  <1>9. \A v \in Owners : m.owned[v] # o
    BY <1>1 DEF SoundMemory
  <1> HIDE DEF owned
  <1>10. \A h \in AllReferences, v \in Owners : m.refs[h].ptr = owned[v] => owned[v] = Null
    BY <1>5, <1>8 DEF SoundMemory
  <1>11. owned[Manager] = owned[Temporary] => owned[Manager] = Null
    <2>1. Manager \in Owners /\ Temporary \in Owners /\ Manager # Temporary
      BY DEF Owners, Manager, Temporary
    <2>. QED
      BY <1>1, <1>5, <1>9, <2>1 DEF SoundMemory
  <1>12. \A p \in Objects :
          p \in objects <=> (\E g \in AllReferences : m.refs[g].ptr = p) \/ (\E v \in Owners : owned[v] = p)
    <2> SUFFICES ASSUME NEW p \in Objects
                 PROVE  p \in objects <=> (\E g \in AllReferences : m.refs[g].ptr = p) \/ (\E v \in Owners : owned[v] = p)
      OBVIOUS
    <2>1. (\E v \in Owners : owned[v] = p) <=> p = o \/ \E v \in Owners : m.owned[v] = p
      BY <1>5
    <2>. QED
      BY <2>1 DEF SoundMemory
  <1> HIDE DEF objects
  <1>13. /\ n.objects = objects /\ n.counts = m.counts /\ n.refs = m.refs /\ n.owned = owned /\ n.sound = m.sound
    BY <1>4
  <1>14. SoundMemory(n)
    BY <1>0, <1>7, <1>10, <1>11, <1>12, <1>13 DEF SoundMemory
  <1>. QED
    BY <1>1, <1>13, <1>14 DEF n, owned

\* What is owned is swapped.
LEMMA MoveSound ==
    ASSUME NEW m, SoundMemory(m)
    PROVE  LET n == MoveOwned(m, Manager, Temporary)
           IN  /\ SoundMemory(n) /\ n.refs = m.refs
               /\ n.owned[Manager] = m.owned[Temporary] /\ n.owned[Temporary] = m.owned[Manager]
  <1> USE NullApart
  <1> DEFINE a == m.owned[Manager]
             b == m.owned[Temporary]
             n == MoveOwned(m, Manager, Temporary)
             x == [m EXCEPT !.owned[Manager] = b]
             owned == [[m.owned EXCEPT ![Manager] = b] EXCEPT ![Temporary] = a]
  <1>0. /\ m \in Memories /\ m.owned \in [Owners -> Objects \cup {Null}] /\ m.sound
        /\ Owners = {Manager, Temporary} /\ Manager # Temporary
    BY DEF SoundMemory, Memories, Owners, Manager, Temporary
  <1>1. n = [x EXCEPT !.owned[Temporary] = a]
    BY Zenon DEF MoveOwned
  <1>2. x = [objects |-> m.objects, counts |-> m.counts, refs |-> m.refs, owned |-> [m.owned EXCEPT ![Manager] = b], sound |-> m.sound]
    <2>1. m = [objects |-> m.objects, counts |-> m.counts, refs |-> m.refs, owned |-> m.owned, sound |-> m.sound]
      BY <1>0 DEF Memories
    <2> HIDE DEF b
    <2>. QED
      BY <2>1
  <1> HIDE DEF x, n
  <1>3. n = [objects |-> m.objects, counts |-> m.counts, refs |-> m.refs, owned |-> owned, sound |-> m.sound]
    BY <1>1, <1>2
  <1>4. owned \in [Owners -> Objects \cup {Null}] /\ owned[Manager] = b /\ owned[Temporary] = a
    BY <1>0
  <1> HIDE DEF owned
  <1>5. n \in Memories
    BY <1>0, <1>3, <1>4 DEF Memories
  <1>6. \A o : (\E v \in Owners : owned[v] = o) <=> (\E v \in Owners : m.owned[v] = o)
    BY <1>0, <1>4
  <1>7. \A o \in Objects :
          o \in m.objects <=> (\E g \in AllReferences : m.refs[g].ptr = o) \/ (\E v \in Owners : owned[v] = o)
    BY <1>6 DEF SoundMemory
  <1>8. \A h \in AllReferences, v \in Owners : m.refs[h].ptr = owned[v] => owned[v] = Null
    BY <1>0, <1>4 DEF SoundMemory
  <1>9. owned[Manager] = owned[Temporary] => owned[Manager] = Null
    BY <1>4 DEF SoundMemory
  <1>10. n.objects = m.objects /\ n.counts = m.counts /\ n.refs = m.refs /\ n.owned = owned /\ n.sound = m.sound
    BY <1>3
  <1>11. SoundMemory(n)
    BY <1>0, <1>5, <1>7, <1>8, <1>9, <1>10 DEF SoundMemory
  <1>. QED
    BY <1>4, <1>10, <1>11 DEF n

\* What was owned is deleted, once.
LEMMA ResetOwnedSound ==
    ASSUME NEW m, SoundMemory(m), NEW w \in Owners
    PROVE  LET n == ResetOwned(m, w)
           IN  SoundMemory(n) /\ n.refs = m.refs /\ n.owned = [m.owned EXCEPT ![w] = Null]
  <1> USE NullApart
  <1> DEFINE o == m.owned[w]
             n == ResetOwned(m, w)
             x == [m EXCEPT !.owned[w] = Null]
             owned == [m.owned EXCEPT ![w] = Null]
             objects == m.objects \ {o}
  <1>0. /\ m \in Memories /\ m.owned \in [Owners -> Objects \cup {Null}] /\ m.sound = TRUE
        /\ Owners = {Manager, Temporary} /\ Manager # Temporary /\ m.objects \subseteq Objects
    BY DEF SoundMemory, Memories, Owners, Manager, Temporary
  <1>1. x = [objects |-> m.objects, counts |-> m.counts, refs |-> m.refs, owned |-> owned, sound |-> m.sound]
    BY <1>0 DEF Memories
  <1>2. owned \in [Owners -> Objects \cup {Null}] /\ \A v \in Owners : owned[v] = IF v = w THEN Null ELSE m.owned[v]
    BY <1>0
  <1>3. n = Delete(x, o)
    BY DEF ResetOwned
  <1> HIDE DEF x, n, owned
  <1>4. x \in Memories
    BY <1>0, <1>1, <1>2 DEF Memories
  <1>5. n = [objects |-> x.objects \ {o}, counts |-> x.counts, refs |-> x.refs, owned |-> x.owned,
             sound |-> x.sound /\ o \in x.objects \cup {Null}]
    BY <1>3, <1>4, DeleteFields
  <1>6. o \in m.objects \cup {Null}
    BY <1>0 DEF SoundMemory
  <1>7. /\ n.objects = objects /\ n.counts = m.counts /\ n.refs = m.refs /\ n.owned = owned /\ n.sound = TRUE
        /\ n = [objects |-> n.objects, counts |-> n.counts, refs |-> n.refs, owned |-> n.owned, sound |-> n.sound]
    BY <1>0, <1>1, <1>5, <1>6
  <1>8. n \in Memories
    BY <1>0, <1>2, <1>7 DEF Memories
  <1>9. \A h \in AllReferences, v \in Owners : m.refs[h].ptr = owned[v] => owned[v] = Null
    BY <1>2 DEF SoundMemory
  <1>10. owned[Manager] = owned[Temporary] => owned[Manager] = Null
    BY <1>0, <1>2 DEF SoundMemory
  <1>11. \A p \in Objects :
          p \in objects <=> (\E g \in AllReferences : m.refs[g].ptr = p) \/ (\E v \in Owners : owned[v] = p)
    <2> SUFFICES ASSUME NEW p \in Objects
                 PROVE  p \in objects <=> (\E g \in AllReferences : m.refs[g].ptr = p) \/ (\E v \in Owners : owned[v] = p)
      OBVIOUS
    <2>1. (\E v \in Owners : owned[v] = p) <=> p # o /\ \E v \in Owners : m.owned[v] = p
      BY <1>0, <1>2 DEF SoundMemory
    <2>2. p = o => ~\E g \in AllReferences : m.refs[g].ptr = p
      BY DEF SoundMemory
    <2>. QED
      BY <2>1, <2>2 DEF SoundMemory
  <1> HIDE DEF objects
  <1>12. SoundMemory(n)
    BY <1>7, <1>8, <1>9, <1>10, <1>11 DEF SoundMemory
  <1>. QED
    BY <1>7, <1>12 DEF n, owned

-----------------------------------------------------------------------------
Result == Local("result")
New == Local("new")
Made == Local("made")
Names == Files \cup {ForwardPBR}

\* The holders of References are all different.
LEMMA Apart ==
    /\ {Result, New, Made, MeshIndices, CameraController} \subseteq AllReferences
    /\ Result # New /\ Result # Made /\ New # Made /\ MeshIndices # CameraController
    /\ MeshIndices \notin {Result, New, Made} /\ CameraController \notin {Result, New, Made}
    /\ \A n \in Names : Entry(n) \in AllReferences /\ Entry(n) \notin {Result, New, Made, MeshIndices, CameraController}
    /\ \A e \in Holders : ModelRef(e) \in AllReferences /\ ModelRef(e) \notin {Result, New, Made, MeshIndices, CameraController}
    /\ \A e \in Holders : ShaderRef(e) \in AllReferences /\ ShaderRef(e) \notin {Result, New, Made, MeshIndices, CameraController}
    /\ \A n \in Names, e \in Holders : Entry(n) # ModelRef(e) /\ Entry(n) # ShaderRef(e)
    /\ \A e, f \in Holders : ModelRef(e) # ShaderRef(f)
    /\ \A n, p \in Names : Entry(n) = Entry(p) => n = p
    /\ \A e, f \in Holders : (ModelRef(e) = ModelRef(f) => e = f) /\ (ShaderRef(e) = ShaderRef(f) => e = f)
  BY DEF Result, New, Made, Local, MeshIndices, CameraController, Entry, ModelRef, ShaderRef, Names, AllReferences, ComponentRefs

\* The result of a call goes to its holder.
LEMMA GivenSound ==
    ASSUME NEW m, SoundMemory(m), NEW h \in AllReferences, h # Result
    PROVE  LET n == GivenTo(m, h)
           IN  /\ SoundMemory(n) /\ n.owned = m.owned
               /\ n.refs = [g \in AllReferences |-> IF g = h THEN m.refs[Result] ELSE IF g = Result THEN Nil ELSE m.refs[g]]
  <1> DEFINE a == Assign(m, h, Result)
             n == Destroyed(a, Result)
  <1>0. Result \in AllReferences /\ m.refs \in [AllReferences -> Refs]
    BY Apart DEF SoundMemory, Memories
  <1>1. SoundMemory(a) /\ a.owned = m.owned /\ a.refs = [m.refs EXCEPT ![h] = m.refs[Result]]
    BY <1>0, AssignSound
  <1> HIDE DEF a
  <1>2. SoundMemory(n) /\ n.owned = a.owned /\ n.refs = [a.refs EXCEPT ![Result] = Nil]
    BY <1>0, <1>1, DestroyedSound
  <1> HIDE DEF n
  <1>3. n.refs = [g \in AllReferences |-> IF g = h THEN m.refs[Result] ELSE IF g = Result THEN Nil ELSE m.refs[g]]
    BY <1>0, <1>1, <1>2
  <1>4. GivenTo(m, h) = n
    BY DEF GivenTo, n, a, Result
  <1>. QED
    BY <1>1, <1>2, <1>3, <1>4

\* The result of Load is new, and nothing stays in its local.
LEMMA LoadSound ==
    ASSUME NEW m, SoundMemory(m), NEW name, RoomIn(m, name), m.refs[Result] = Nil, m.refs[Made] = Nil
    PROVE  LET n == LoadResource(m, name)
           IN  /\ SoundMemory(n) /\ n.owned = m.owned
               /\ \E r \in Refs : r # Nil /\ r.ptr[1] = name /\ n.refs = [m.refs EXCEPT ![Result] = r]
  <1> DEFINE a == CreateSharedPtr(m, Made, name)
             b == Assign(a, Result, Made)
             n == Destroyed(b, Made)
  <1>0. {Result, Made} \subseteq AllReferences /\ Result # Made /\ m.refs \in [AllReferences -> Refs]
    BY Apart DEF SoundMemory, Memories
  <1>1. PICK r \in Refs : r # Nil /\ r.ptr[1] = name /\ SoundMemory(a) /\ a.owned = m.owned /\ a.refs = [m.refs EXCEPT ![Made] = r]
    <2>1. Made \in AllReferences /\ m.refs[Made] = Nil
      BY <1>0
    <2>2. /\ SoundMemory(a) /\ a.owned = m.owned
          /\ \E r \in Fresh(m, name) : a.refs = [m.refs EXCEPT ![Made] = r]
      BY ONLY SoundMemory(m), RoomIn(m, name), <2>1, CreateSound
    <2>. QED
      BY <2>2 DEF Fresh
  <1> HIDE DEF a
  <1>2. SoundMemory(b) /\ b.owned = a.owned /\ b.refs = [a.refs EXCEPT ![Result] = a.refs[Made]]
    BY ONLY <1>0, <1>1, AssignSound
  <1> HIDE DEF b
  <1>3. SoundMemory(n) /\ n.owned = b.owned /\ n.refs = [b.refs EXCEPT ![Made] = Nil]
    BY <1>0, <1>2, DestroyedSound
  <1> HIDE DEF n
  <1>4. n.refs = [m.refs EXCEPT ![Result] = r]
    BY <1>0, <1>1, <1>2, <1>3
  <1>5. LoadResource(m, name) = n
    BY DEF LoadResource, n, b, a, Result, Made
  <1>. QED
    BY <1>1, <1>2, <1>3, <1>4, <1>5

\* A new entry shares the result.
LEMMA EmplacedSound ==
    ASSUME NEW m, SoundMemory(m), NEW name \in Names, m.refs[New] = Nil, m.refs[Entry(name)] = Nil
    PROVE  LET n == Emplaced(m, name)
           IN  SoundMemory(n) /\ n.owned = m.owned /\ n.refs = [m.refs EXCEPT ![Entry(name)] = m.refs[Result]]
  <1> DEFINE h == Entry(name)
             a == Assign(m, New, Result)
             b == Copied(a, h, New)
             n == Destroyed(b, New)
  <1>0. {Result, New, h} \subseteq AllReferences /\ Result # New /\ h # New /\ h # Result /\ m.refs \in [AllReferences -> Refs]
    BY Apart DEF SoundMemory, Memories
  <1>1. SoundMemory(a) /\ a.owned = m.owned /\ a.refs = [m.refs EXCEPT ![New] = m.refs[Result]]
    BY <1>0, AssignSound
  <1> HIDE DEF a
  <1>2. SoundMemory(b) /\ b.owned = a.owned /\ b.refs = [a.refs EXCEPT ![h] = a.refs[New]]
    <2>1. a.refs[h] = Nil /\ h \in AllReferences /\ New \in AllReferences
      BY <1>0, <1>1
    <2>2. SoundMemory(a)
      BY <1>1
    <2> HIDE DEF h
    <2>. QED
      BY ONLY <2>1, <2>2, CopiedSound
  <1> HIDE DEF b
  <1>3. SoundMemory(n) /\ n.owned = b.owned /\ n.refs = [b.refs EXCEPT ![New] = Nil]
    BY <1>0, <1>2, DestroyedSound
  <1> HIDE DEF n
  <1>4. Emplaced(m, name) = n
    BY DEF Emplaced, n, b, a, Result, New
  <1> HIDE DEF h
  <1>5. n.refs = [m.refs EXCEPT ![h] = m.refs[Result]]
    BY <1>0, <1>1, <1>2, <1>3
  <1>. QED
    BY <1>1, <1>2, <1>3, <1>4, <1>5 DEF h

\* A caller has the resource of a name in its result, as the entry has.
Got(m, map, name, n) ==
    \E r \in Refs :
        /\ r # Nil /\ r.ptr[1] = name
        /\ n.refs = [g \in AllReferences |-> IF g \in {Result, Entry(name)} THEN r ELSE m.refs[g]]
        /\ name \in DOMAIN map => r = m.refs[Entry(name)]

\* The resource of a name, found or made.
LEMMA ResourceSound ==
    ASSUME NEW m, SoundMemory(m), NEW map, NEW name \in Names, m.refs[Result] = Nil, m.refs[New] = Nil, m.refs[Made] = Nil,
           name \in DOMAIN map => m.refs[Entry(name)] # Nil /\ m.refs[Entry(name)].ptr[1] = name,
           name \notin DOMAIN map => m.refs[Entry(name)] = Nil /\ RoomIn(m, name)
    PROVE  LET n == GetResource(m, map, name)
           IN  SoundMemory(n) /\ n.owned = m.owned /\ Got(m, map, name, n)
  <1> DEFINE h == Entry(name)
  <1>0. {Result, New, Made, h} \subseteq AllReferences /\ h \notin {Result, New, Made} /\ Result # New /\ Result # Made
        /\ m.refs \in [AllReferences -> Refs]
    BY Apart DEF SoundMemory, Memories
  <1>1. CASE name \in DOMAIN map
    <2> DEFINE n == Copied(m, Result, h)
    <2>1. GetResource(m, map, name) = n
      BY <1>1 DEF GetResource, Result
    <2>2. SoundMemory(n) /\ n.owned = m.owned /\ n.refs = [m.refs EXCEPT ![Result] = m.refs[h]]
      BY <1>0, CopiedSound
    <2> HIDE DEF n, h
    <2>3. n.refs = [g \in AllReferences |-> IF g \in {Result, h} THEN m.refs[h] ELSE m.refs[g]]
      BY <1>0, <2>2
    <2>4. m.refs[h] \in Refs /\ m.refs[h] # Nil /\ m.refs[h].ptr[1] = name
      BY <1>0, <1>1 DEF h
    <2>. QED
      BY <2>1, <2>2, <2>3, <2>4 DEF h, Got
  <1>2. CASE name \notin DOMAIN map
    <2> DEFINE a == LoadResource(m, name)
               n == Emplaced(a, name)
    <2>1. GetResource(m, map, name) = n
      BY <1>2 DEF GetResource
    <2>2. PICK r \in Refs : r # Nil /\ r.ptr[1] = name /\ SoundMemory(a) /\ a.owned = m.owned /\ a.refs = [m.refs EXCEPT ![Result] = r]
        <3>1. RoomIn(m, name)
        BY <1>2
      <3>2. SoundMemory(a) /\ a.owned = m.owned /\ \E r \in Refs : r # Nil /\ r.ptr[1] = name /\ a.refs = [m.refs EXCEPT ![Result] = r]
        BY ONLY SoundMemory(m), <3>1, m.refs[Result] = Nil, m.refs[Made] = Nil, LoadSound
      <3>. QED
        BY <3>2
    <2> HIDE DEF a
    <2>3. a.refs[New] = Nil /\ a.refs[h] = Nil /\ a.refs[Result] = r
      BY <1>0, <1>2, <2>2
    <2>4. SoundMemory(n) /\ n.owned = a.owned /\ n.refs = [a.refs EXCEPT ![h] = a.refs[Result]]
      <3>1. SoundMemory(a) /\ a.refs[New] = Nil /\ a.refs[Entry(name)] = Nil
        BY <2>2, <2>3
      <3>. QED
        BY ONLY <3>1, name \in Names, EmplacedSound
    <2> HIDE DEF n, h
    <2>5. n.refs = [g \in AllReferences |-> IF g \in {Result, h} THEN r ELSE m.refs[g]]
      BY <1>0, <2>2, <2>3, <2>4
    <2>. QED
      BY <1>2, <2>1, <2>2, <2>4, <2>5 DEF h, Got
  <1>. QED
    BY <1>1, <1>2

-----------------------------------------------------------------------------
\* The inductive invariant: the memory is sound, locals hold nothing between
\* steps, an entry of the library holds what its name says, a holder's model of
\* a file is its entry's, and after the end there is nothing.
Linked(m, map) ==
    /\ \A n \in Files : n \in DOMAIN map <=> m.refs[Entry(n)] # Nil
    /\ \A n \in Names : m.refs[Entry(n)] # Nil => m.refs[Entry(n)].ptr[1] = n
    /\ m.refs[Entry(ForwardPBR)] # Nil
    /\ \A e \in Holders :
         m.refs[ModelRef(e)].ptr[1] \in Files => m.refs[Entry(m.refs[ModelRef(e)].ptr[1])] = m.refs[ModelRef(e)]
    /\ m.owned[Temporary] = Null

Nothing(m) == (\A h \in AllReferences : m.refs[h] = Nil) /\ (\A w \in Owners : m.owned[w] = Null)

LocalsNil(m) == m.refs[Result] = Nil /\ m.refs[New] = Nil /\ m.refs[Made] = Nil

LibraryInv ==
    /\ SoundMemory(memory) /\ running \in BOOLEAN /\ DOMAIN library \subseteq Files /\ LocalsNil(memory)
    /\ running => Linked(memory, library)
    /\ ~running => Nothing(memory)

\* The invariant is as strong as the property.
LEMMA InvImpliesExact == LibraryInv => OwnershipExact
  <1> SUFFICES ASSUME LibraryInv PROVE CountsExact /\ OneCopy
    BY DEF OwnershipExact
  <1> USE NullApart
  <1>0. /\ SoundMemory(memory) /\ DOMAIN memory.counts = Objects /\ DOMAIN memory.owned = Owners /\ memory.objects \subseteq Objects
        /\ memory.refs \in [AllReferences -> Refs]
    BY DEF LibraryInv, SoundMemory, Memories
  <1>1. /\ memory.sound
        /\ \A c \in Objects : memory.counts[c] = Cardinality({h \in AllReferences : memory.refs[h].counter = c})
        /\ \A h, g \in AllReferences :
             (memory.refs[h].ptr = memory.refs[g].ptr) = (memory.refs[h].counter = memory.refs[g].counter)
    BY <1>0 DEF SoundMemory, HeldBy
  <1>2. ASSUME NEW o \in Objects
        PROVE  LET holders == {h \in AllReferences : memory.refs[h].ptr = o}
                   owners == {h \in DOMAIN memory.owned : memory.owned[h] = o}
               IN  IF o \in memory.objects
                   THEN (holders # {}) = (owners = {}) /\ Cardinality(owners) <= 1
                   ELSE holders \cup owners = {}
    <2> DEFINE holders == {h \in AllReferences : memory.refs[h].ptr = o}
               owners == {h \in DOMAIN memory.owned : memory.owned[h] = o}
    <2>1. o \in memory.objects <=> holders # {} \/ owners # {}
      BY <1>0 DEF SoundMemory
    <2>2. holders = {} \/ owners = {}
      BY <1>0 DEF SoundMemory
    <2>3. Cardinality(owners) <= 1
      <3>1. owners = {} \/ owners = {Manager} \/ owners = {Temporary}
        BY <1>0 DEF SoundMemory, Owners
      <3>2. Cardinality({}) = 0 /\ Cardinality({Manager}) = 1 /\ Cardinality({Temporary}) = 1
        BY FS_EmptySet, FS_Singleton
      <3> HIDE DEF owners
      <3>3. Cardinality(owners) \in {0, 1}
        BY <3>1, <3>2
      <3>. QED
        BY <3>3
    <2>. QED
      BY <2>1, <2>2, <2>3
  <1>3. ~running => memory.objects = {}
    BY <1>0 DEF LibraryInv, Nothing, SoundMemory
  <1>4. CountsExact
    BY <1>0, <1>1, <1>2, <1>3 DEF CountsExact
  <1>5. ASSUME NEW e \in Holders, running, memory.refs[ModelRef(e)].ptr[1] \in Files
        PROVE  /\ memory.refs[ModelRef(e)].ptr[1] \in DOMAIN library
               /\ memory.refs[Entry(memory.refs[ModelRef(e)].ptr[1])] = memory.refs[ModelRef(e)]
    <2>1. memory.refs[Entry(memory.refs[ModelRef(e)].ptr[1])] = memory.refs[ModelRef(e)]
      BY <1>5 DEF LibraryInv, Linked
    <2>2. memory.refs[ModelRef(e)] # Nil
      <3>1. Nil.ptr[1] \notin Files
        BY LibraryAssumption DEF Nil, Null
      <3>. QED
        BY <1>5, <3>1
    <2>. QED
      BY <1>5, <2>1, <2>2 DEF LibraryInv, Linked
  <1>6. OneCopy
    BY <1>5 DEF OneCopy
  <1>. QED
    BY <1>4, <1>6

\* Where there is nothing of a kind there is room for it.
LEMMA FreshRoom ==
    ASSUME NEW m, SoundMemory(m), NEW kind \in ObjectKinds,
           \A h \in AllReferences : m.refs[h].ptr[1] # kind /\ m.refs[h].counter[1] # kind,
           \A w \in Owners : m.owned[w][1] # kind
    PROVE  RoomIn(m, kind)
  <1> DEFINE o == <<kind, 1>>
  <1>1. o \in Objects /\ o[1] = kind
    BY LibraryAssumption DEF Objects
  <1> HIDE DEF o
  <1>2. o \notin m.objects
    BY <1>1 DEF SoundMemory
  <1>3. HeldBy(m.refs, o) = {}
    BY <1>1 DEF HeldBy
  <1>4. m.counts[o] = 0
    BY <1>1, <1>3, FS_EmptySet DEF SoundMemory
  <1>. QED
    BY <1>1, <1>2, <1>4 DEF RoomIn

\* Something new, given to a holder.
LEMMA CreateGivenSound ==
    ASSUME NEW m, SoundMemory(m), m.refs[Result] = Nil, NEW h \in AllReferences, h # Result, NEW kind, RoomIn(m, kind)
    PROVE  LET n == GivenTo(CreateSharedPtr(m, Result, kind), h)
           IN  /\ SoundMemory(n) /\ n.owned = m.owned
               /\ \E r \in Fresh(m, kind) : n.refs = [m.refs EXCEPT ![h] = r]
  <1> DEFINE a == CreateSharedPtr(m, Result, kind)
             n == GivenTo(a, h)
  <1>0. Result \in AllReferences /\ m.refs \in [AllReferences -> Refs]
    BY Apart DEF SoundMemory, Memories
  <1>1. /\ SoundMemory(a) /\ a.owned = m.owned
        /\ \E r \in Fresh(m, kind) : a.refs = [m.refs EXCEPT ![Result] = r]
    BY ONLY SoundMemory(m), m.refs[Result] = Nil, RoomIn(m, kind), <1>0, CreateSound
  <1>2. PICK r \in Fresh(m, kind) : a.refs = [m.refs EXCEPT ![Result] = r]
    BY <1>1
  <1> HIDE DEF a
  <1>3. /\ SoundMemory(n) /\ n.owned = a.owned
        /\ n.refs = [g \in AllReferences |-> IF g = h THEN a.refs[Result] ELSE IF g = Result THEN Nil ELSE a.refs[g]]
    <2>1. SoundMemory(a)
      BY <1>1
    <2>. QED
      BY ONLY <2>1, h \in AllReferences, h # Result, GivenSound
  <1> HIDE DEF n
  <1>4. n.refs = [m.refs EXCEPT ![h] = r]
    BY <1>0, <1>2, <1>3
  <1>. QED
    BY <1>1, <1>3, <1>4 DEF n, a

\* A local that is reset to what was just made is as good as CreateSharedPtr.
LEMMA MeshIndicesSound ==
    ASSUME NEW m, SoundMemory(m), m.refs[Result] = Nil, RoomIn(m, "indices")
    PROVE  CreateMeshIndices(m) = GivenTo(CreateSharedPtr(m, Result, "indices"), MeshIndices)
  <1> USE NullApart
  <1> DEFINE o == FreeObject(m, "indices")
             a == Allocate(m, o)
             objects == m.objects \cup {o}
  <1>0. /\ m \in Memories /\ Result \in AllReferences /\ DOMAIN m.counts = Objects /\ m.refs \in [AllReferences -> Refs]
    BY Apart DEF SoundMemory, Memories
  <1>1. o \in Objects /\ o[1] = "indices" /\ o # Null
    BY <1>0 DEF FreeObject, Free, RoomIn
  <1> HIDE DEF o
  <1>2. a = [objects |-> objects, counts |-> m.counts, refs |-> m.refs, owned |-> m.owned, sound |-> m.sound]
    <2>1. a = [m EXCEPT !.objects = objects]
      BY DEF Allocate
    <2> HIDE DEF objects, a
    <2>. QED
      BY <1>0, <2>1 DEF Memories
  <1> HIDE DEF a
  <1>3. a.refs[Result].counter = Null
    BY <1>2
  <1>4. Unref(a, Result) = a
    BY <1>3 DEF Unref
  <1>5. [a EXCEPT !.refs[Result] = Nil] = a
    <2>1. [m.refs EXCEPT ![Result] = Nil] = m.refs
      BY <1>0
    <2> HIDE DEF objects
    <2>. QED
      BY <1>2, <2>1
  <1>6. Reset(a, Result, o) = Holding(a, Result, o)
    BY <1>1, <1>4, <1>5 DEF Reset
  <1>7. CreateSharedPtr(m, Result, "indices") = Holding(a, Result, o)
    BY DEF CreateSharedPtr, a, o
  <1>8. CreateMeshIndices(m) = GivenTo(Reset(a, Result, o), MeshIndices)
    BY DEF CreateMeshIndices, a, o, Result
  <1>. QED
    BY <1>6, <1>7, <1>8

\* The program starts with an empty heap and null pointers.
LEMMA EmptySound ==
    LET m == EmptyMemory(AllReferences, {Manager, Temporary}, ObjectKinds, MaxObjects) IN SoundMemory(m) /\ Nothing(m)
  <1> USE NullApart
  <1> DEFINE m == EmptyMemory(AllReferences, {Manager, Temporary}, ObjectKinds, MaxObjects)
             counts == [c \in Objects |-> 0]
             refs == [h \in AllReferences |-> Nil]
             owned == [w \in Owners |-> Null]
  <1>1. m = [objects |-> {}, counts |-> counts, refs |-> refs, owned |-> owned, sound |-> TRUE]
    BY DEF EmptyMemory, Objects, Owners
  <1>2. counts \in [Objects -> Int] /\ refs \in [AllReferences -> Refs] /\ owned \in [Owners -> Objects \cup {Null}]
    OBVIOUS
  <1>3. ASSUME NEW c \in Objects PROVE counts[c] = Cardinality(HeldBy(refs, c))
    <2>1. HeldBy(refs, c) = {}
      BY DEF HeldBy
    <2>. QED
      BY <2>1, FS_EmptySet
  <1>4. \A h \in AllReferences : refs[h] = Nil
    OBVIOUS
  <1>5. \A w \in Owners : owned[w] = Null
    OBVIOUS
  <1>6. Manager \in Owners
    BY DEF Owners
  <1> HIDE DEF m, counts, refs, owned
  <1>7. m \in Memories
    BY <1>1, <1>2 DEF Memories
  <1>8. m.objects = {} /\ m.counts = counts /\ m.refs = refs /\ m.owned = owned /\ m.sound
    BY <1>1
  <1>9. SoundMemory(m)
    BY <1>3, <1>4, <1>5, <1>6, <1>7, <1>8 DEF SoundMemory
  <1>. QED
    BY <1>4, <1>5, <1>8, <1>9 DEF m, Nothing

\* OnInit makes the engine's meshes, the shader and the manager, in turn.
LEMMA InitEstablishes == LibraryInit => LibraryInv
  <1> SUFFICES ASSUME LibraryInit PROVE LibraryInv
    OBVIOUS
  <1> USE NullApart
  <1> DEFINE F == ForwardPBR
             m0 == EmptyMemory(AllReferences, {Manager, Temporary}, ObjectKinds, MaxObjects)
             m1 == CreateMeshIndices(m0)
             m2 == CreateSharedPtr(m1, Result, F)
             m3 == Emplaced(m2, F)
             m4 == Destroyed(m3, Result)
             m5 == CreateUniquePtr(m4, Manager, "manager")
             none == [n \in {} |-> 0]
  <1>0. /\ {Result, New, Made, MeshIndices} \subseteq AllReferences /\ MeshIndices \notin {Result, New, Made}
        /\ Result # New /\ Result # Made /\ F \in Names
        /\ {"indices", "manager", F} \subseteq ObjectKinds /\ F # "indices" /\ "manager" # "indices" /\ F # "manager"
        /\ Null[1] = "null" /\ Nil.ptr = Null /\ Nil.counter = Null
    BY Apart DEF Names, ObjectKinds, ForwardPBR, Null, Nil
  <1>00. /\ Entry(F) \in AllReferences /\ Entry(F) \notin {Result, New, Made, MeshIndices}
         /\ \A n \in Files : Entry(n) \in AllReferences /\ Entry(n) \notin {MeshIndices, Entry(F)}
         /\ \A e \in Holders : ModelRef(e) \in AllReferences /\ ModelRef(e) \notin {MeshIndices, Entry(F)}
    BY Apart, LibraryAssumption DEF Names, ForwardPBR
  <1>000. "manager" # "null" /\ "indices" # "null" /\ F # "null" /\ "null" \notin Files
    BY LibraryAssumption DEF ForwardPBR
  <1>1. SoundMemory(m0) /\ Nothing(m0)
    BY EmptySound
  <1> HIDE DEF m0
  <1>2. PICK r1 \in Fresh(m0, "indices") : SoundMemory(m1) /\ m1.owned = m0.owned /\ m1.refs = [m0.refs EXCEPT ![MeshIndices] = r1]
    <2>1. RoomIn(m0, "indices")
      <3>1. "indices" \in ObjectKinds
        BY <1>0
      <3>2. \A h \in AllReferences : m0.refs[h].ptr[1] # "indices" /\ m0.refs[h].counter[1] # "indices"
        BY <1>0, <1>000, <1>1 DEF Nothing
      <3>3. \A w \in Owners : m0.owned[w][1] # "indices"
        BY <1>0, <1>000, <1>1 DEF Nothing
      <3>. QED
        BY ONLY <1>1, <3>1, <3>2, <3>3, FreshRoom
    <2>2. m0.refs[Result] = Nil
      BY <1>0, <1>1 DEF Nothing
    <2>3. m1 = GivenTo(CreateSharedPtr(m0, Result, "indices"), MeshIndices)
      BY ONLY <1>1, <2>1, <2>2, MeshIndicesSound
    <2> HIDE DEF m1
    <2>4. /\ SoundMemory(m1) /\ m1.owned = m0.owned
          /\ \E r \in Fresh(m0, "indices") : m1.refs = [m0.refs EXCEPT ![MeshIndices] = r]
      <3>1. MeshIndices \in AllReferences /\ MeshIndices # Result
        BY <1>0
      <3>. QED
        BY ONLY <1>1, <2>1, <2>2, <2>3, <3>1, CreateGivenSound
    <2>. QED
      BY <2>4
  <1> HIDE DEF m1
  <1>3. /\ \A h \in AllReferences : m1.refs[h] = IF h = MeshIndices THEN r1 ELSE Nil
        /\ \A w \in Owners : m1.owned[w] = Null
        /\ r1 # Nil /\ r1.ptr[1] = "indices" /\ r1.counter[1] = "indices"
    BY <1>0, <1>1, <1>2 DEF Nothing, Fresh, SoundMemory, Memories
  <1>4. PICK r2 \in Fresh(m1, F) : SoundMemory(m2) /\ m2.owned = m1.owned /\ m2.refs = [m1.refs EXCEPT ![Result] = r2]
    <2>1. RoomIn(m1, F)
      <3>1. F \in ObjectKinds
        BY <1>0
      <3>2. \A h \in AllReferences : m1.refs[h].ptr[1] # F /\ m1.refs[h].counter[1] # F
        BY <1>0, <1>000, <1>3
      <3>3. \A w \in Owners : m1.owned[w][1] # F
        BY <1>0, <1>000, <1>3
      <3>. QED
        BY ONLY <1>2, <3>1, <3>2, <3>3, FreshRoom
    <2>2. m1.refs[Result] = Nil /\ Result \in AllReferences
      BY <1>0, <1>3
    <2>3. SoundMemory(m1)
      BY <1>2
    <2> HIDE DEF F
    <2>4. SoundMemory(m2) /\ m2.owned = m1.owned /\ \E r \in Fresh(m1, F) : m2.refs = [m1.refs EXCEPT ![Result] = r]
      BY ONLY <2>1, <2>2, <2>3, CreateSound
    <2>. QED
      BY <2>4
  <1> HIDE DEF m2
  <1>5. /\ \A h \in AllReferences : m2.refs[h] = IF h = MeshIndices THEN r1 ELSE IF h = Result THEN r2 ELSE Nil
        /\ \A w \in Owners : m2.owned[w] = Null
        /\ r2 # Nil /\ r2.ptr[1] = F /\ r2.counter[1] = F
    BY <1>0, <1>2, <1>3, <1>4 DEF Fresh, SoundMemory, Memories
  <1>6. SoundMemory(m3) /\ m3.owned = m2.owned /\ m3.refs = [m2.refs EXCEPT ![Entry(F)] = m2.refs[Result]]
    <2>1. m2.refs[New] = Nil /\ m2.refs[Entry(F)] = Nil /\ F \in Names
      BY <1>0, <1>00, <1>5
    <2>. QED
      BY ONLY <1>4, <2>1, EmplacedSound
  <1> HIDE DEF m3
  <1>7. SoundMemory(m4) /\ m4.owned = m3.owned /\ m4.refs = [m3.refs EXCEPT ![Result] = Nil]
    BY <1>0, <1>6, DestroyedSound
  <1> HIDE DEF m4
  <1>8. /\ \A h \in AllReferences : m4.refs[h] = IF h = MeshIndices THEN r1 ELSE IF h = Entry(F) THEN r2 ELSE Nil
        /\ \A w \in Owners : m4.owned[w] = Null
    BY <1>0, <1>00, <1>4, <1>5, <1>6, <1>7 DEF SoundMemory, Memories
  <1>9. SoundMemory(m5) /\ m5.refs = m4.refs /\ \E o \in Objects : m5.owned = [m4.owned EXCEPT ![Manager] = o]
    <2>1. RoomIn(m4, "manager")
      <3>1. "manager" \in ObjectKinds
        BY <1>0
      <3>2. \A h \in AllReferences : m4.refs[h].ptr[1] # "manager" /\ m4.refs[h].counter[1] # "manager"
        BY <1>0, <1>000, <1>3, <1>5, <1>8
      <3>3. \A w \in Owners : m4.owned[w][1] # "manager"
        BY <1>0, <1>000, <1>8
      <3>. QED
        BY ONLY <1>7, <3>1, <3>2, <3>3, FreshRoom
    <2>2. \E o \in Objects : o[1] = "manager" /\ o \notin m4.objects
      BY <2>1 DEF RoomIn
    <2>3. Manager \in Owners /\ m4.owned[Manager] = Null
      BY <1>8 DEF Owners
    <2>. QED
      BY ONLY <1>7, <2>2, <2>3, CreateOwnedSound
  <1> HIDE DEF m5
  <1>10. memory = m5 /\ library = none /\ running = TRUE
    <2>1. AddResource(m1, none, F) = m4
      <3>1. AddResource(m1, none, F) =
              Destroyed(IF F \in DOMAIN none THEN Assign(m2, Entry(F), Result) ELSE Emplaced(m2, F), Result)
        BY DEF AddResource, m2, Result
      <3>2. F \notin DOMAIN none
        OBVIOUS
      <3>. QED
        BY <3>1, <3>2 DEF m4, m3
    <2>. QED
      BY <2>1 DEF LibraryInit, m5, m1, m0
  <1>11. memory.owned[Temporary] = Null
    <2>1. Temporary \in Owners /\ Temporary # Manager /\ m4.owned \in [Owners -> Objects \cup {Null}]
      BY <1>7 DEF Owners, Temporary, Manager, SoundMemory, Memories
    <2>. QED
      BY <1>8, <1>9, <1>10, <2>1
  <1>12. \A h \in AllReferences : memory.refs[h] = IF h = MeshIndices THEN r1 ELSE IF h = Entry(F) THEN r2 ELSE Nil
    BY <1>8, <1>9, <1>10
  <1>13. Linked(memory, library)
    <2>1. \A n \in Files : n \in DOMAIN library <=> memory.refs[Entry(n)] # Nil
      BY <1>00, <1>10, <1>12
    <2>2. \A n \in Names : memory.refs[Entry(n)] # Nil => memory.refs[Entry(n)].ptr[1] = n
      BY <1>00, <1>12, <1>5 DEF Names
    <2>3. memory.refs[Entry(ForwardPBR)] # Nil
      BY <1>00, <1>12, <1>5
    <2>4. \A e \in Holders : memory.refs[ModelRef(e)].ptr[1] \notin Files
      BY <1>0, <1>00, <1>000, <1>12
    <2>. QED
      BY <1>11, <2>1, <2>2, <2>3, <2>4 DEF Linked
  <1>14. LocalsNil(memory)
    BY <1>0, <1>00, <1>12 DEF LocalsNil
  <1>. QED
    BY <1>9, <1>10, <1>13, <1>14 DEF LibraryInv

\* The models that holders have after a step were there, or are of no file.
LEMMA LinkedKept ==
    ASSUME NEW m, NEW n, NEW map, Linked(m, map), n.owned[Temporary] = Null,
           \A p \in Names : n.refs[Entry(p)] = m.refs[Entry(p)],
           \A e \in Holders : \/ n.refs[ModelRef(e)].ptr[1] \notin Files
                              \/ \E f \in Holders : n.refs[ModelRef(e)] = m.refs[ModelRef(f)]
    PROVE  Linked(n, map)
  <1>1. Files \subseteq Names /\ ForwardPBR \in Names
    BY DEF Names
  <1>2. ASSUME NEW e \in Holders, n.refs[ModelRef(e)].ptr[1] \in Files
        PROVE  n.refs[Entry(n.refs[ModelRef(e)].ptr[1])] = n.refs[ModelRef(e)]
    <2>1. PICK f \in Holders : n.refs[ModelRef(e)] = m.refs[ModelRef(f)]
      BY <1>2
    <2>2. m.refs[Entry(m.refs[ModelRef(f)].ptr[1])] = m.refs[ModelRef(f)]
      BY <1>2, <2>1 DEF Linked
    <2>. QED
      BY <1>1, <1>2, <2>1, <2>2
  <1>. QED
    BY <1>1, <1>2 DEF Linked

\* A holder with no model has none of a file.
LEMMA NilIsNoFile == Nil.ptr[1] \notin Files /\ Nil.counter[1] \notin Files
  BY LibraryAssumption DEF Nil, Null

\* What every step starts from.
LEMMA WhileRunning ==
    ASSUME LibraryInv, running
    PROVE  /\ SoundMemory(memory) /\ DOMAIN library \subseteq Files /\ LocalsNil(memory) /\ Linked(memory, library)
           /\ memory.refs \in [AllReferences -> Refs] /\ memory.owned \in [Owners -> Objects \cup {Null}]
           /\ memory.owned[Temporary] = Null
  BY DEF LibraryInv, SoundMemory, Memories, Linked

\* What HasRoom says of the state.
LEMMA RoomHere == ASSUME NEW kind, LibraryInv, HasRoom(kind) PROVE RoomIn(memory, kind)
  BY DEF HasRoom, RoomIn, LibraryInv, SoundMemory, Memories

\* An entry that goes is held by nobody else.
LEMMA UpdateKeeps == ASSUME NEW first, LibraryInv, UpdateLibrary(first) PROVE LibraryInv'
  <1> DEFINE gone == ToDelete(memory, library, clock, first)
             holders == {Entry(n) : n \in gone}
             n == DestroyAll(memory, holders)
  <1>0. /\ SoundMemory(memory) /\ DOMAIN library \subseteq Files /\ LocalsNil(memory) /\ Linked(memory, library)
        /\ memory.refs \in [AllReferences -> Refs] /\ memory.owned[Temporary] = Null /\ running
    BY WhileRunning DEF UpdateLibrary
  <1>1. gone \subseteq DOMAIN library /\ \A p \in gone : memory.counts[memory.refs[Entry(p)].counter] = 1
    BY DEF ToDelete
  <1>2. /\ memory' = n /\ library' = Restrict(library, DOMAIN library \ gone) /\ running' = running
    BY DEF UpdateLibrary
  <1> HIDE DEF gone
  <1>3. gone \subseteq Names /\ holders \in SUBSET AllReferences
    BY <1>0, <1>1, Apart DEF Names
  <1>4. /\ SoundMemory(n) /\ n.owned = memory.owned
        /\ n.refs = [h \in AllReferences |-> IF h \in holders THEN Nil ELSE memory.refs[h]]
    BY <1>0, <1>3, DestroyAllSound
  <1> HIDE DEF n
  <1>5. DOMAIN library' = DOMAIN library \ gone
    BY <1>2 DEF Restrict
  <1>6. ASSUME NEW e \in Holders, memory.refs[ModelRef(e)].ptr[1] \in gone
        PROVE  FALSE
    <2> DEFINE p == memory.refs[ModelRef(e)].ptr[1]
               r == memory.refs[ModelRef(e)]
    <2>0. p \in Files /\ p \in Names /\ p \in gone
      BY <1>0, <1>1, <1>6 DEF Names
    <2>1. memory.refs[Entry(p)] = r
      BY <1>0, <2>0 DEF Linked
    <2>2. Entry(p) \in AllReferences /\ ModelRef(e) \in AllReferences /\ Entry(p) # ModelRef(e)
      BY <2>0, Apart
    <2>3. r.counter \in Objects
      <3>1. r.ptr # Null
        BY <2>0, NilIsNoFile, NullApart
      <3>. QED
        BY <1>0, <2>2, <3>1 DEF SoundMemory, Refs
    <2>4. Cardinality(HeldBy(memory.refs, r.counter)) = 1
      BY <1>0, <1>1, <2>0, <2>1, <2>3 DEF SoundMemory
    <2>5. {Entry(p), ModelRef(e)} \subseteq HeldBy(memory.refs, r.counter)
      BY <2>1, <2>2 DEF HeldBy
    <2>6. Cardinality({Entry(p), ModelRef(e)}) = 2
      <3>1. IsFiniteSet({Entry(p)}) /\ Cardinality({Entry(p)}) = 1
        BY FS_Singleton
      <3>2. ModelRef(e) \notin {Entry(p)}
        BY <2>2
      <3>3. Cardinality({Entry(p)} \cup {ModelRef(e)}) = Cardinality({Entry(p)}) + 1
        BY <3>1, <3>2, FS_AddElement
      <3>4. {Entry(p), ModelRef(e)} = {Entry(p)} \cup {ModelRef(e)}
        OBVIOUS
      <3>. QED
        BY <3>1, <3>3, <3>4
    <2>7. Cardinality({Entry(p), ModelRef(e)}) <= Cardinality(HeldBy(memory.refs, r.counter))
      BY <2>5, HeldFinite, FS_Subset
    <2>. QED
      BY <2>4, <2>6, <2>7
  <1>7. \A h \in AllReferences : n.refs[h] = IF h \in holders THEN Nil ELSE memory.refs[h]
    BY <1>4
  <1>8. \A p \in Names : Entry(p) \in AllReferences /\ (Entry(p) \in holders <=> p \in gone)
    BY <1>3, Apart
  <1>9. \A e \in Holders : ModelRef(e) \in AllReferences /\ ModelRef(e) \notin holders
    BY <1>3, Apart
  <1>10. {Result, New, Made} \cap holders = {} /\ {Result, New, Made} \subseteq AllReferences
    BY <1>3, Apart
  <1>11. ForwardPBR \in Names /\ ForwardPBR \notin gone /\ Files \subseteq Names
    BY <1>0, <1>1, LibraryAssumption DEF Names, ForwardPBR
  <1> HIDE DEF holders
  <1>12. Linked(n, library')
    <2>1. \A p \in Files : p \in DOMAIN library' <=> n.refs[Entry(p)] # Nil
      BY <1>0, <1>5, <1>7, <1>8, <1>11 DEF Linked
    <2>2. \A p \in Names : n.refs[Entry(p)] # Nil => n.refs[Entry(p)].ptr[1] = p
      BY <1>0, <1>7, <1>8 DEF Linked
    <2>3. n.refs[Entry(ForwardPBR)] # Nil
      BY <1>0, <1>7, <1>8, <1>11 DEF Linked
    <2>4. ASSUME NEW e \in Holders, n.refs[ModelRef(e)].ptr[1] \in Files
          PROVE  n.refs[Entry(n.refs[ModelRef(e)].ptr[1])] = n.refs[ModelRef(e)]
      <3>1. n.refs[ModelRef(e)] = memory.refs[ModelRef(e)]
        BY <1>7, <1>9
      <3>2. memory.refs[ModelRef(e)].ptr[1] \notin gone
        BY <1>6
      <3>. QED
        BY <1>0, <1>7, <1>8, <1>11, <2>4, <3>1, <3>2 DEF Linked
    <2>. QED
      BY <1>0, <1>4, <2>1, <2>2, <2>3, <2>4 DEF Linked
  <1>13. LocalsNil(n)
    BY <1>0, <1>7, <1>10 DEF LocalsNil
  <1>. QED
    BY <1>0, <1>2, <1>4, <1>5, <1>12, <1>13 DEF LibraryInv

\* Steps that leave the library alone and no Reference in a local.
LEMMA StepKeeps ==
    ASSUME LibraryInv, running, UNCHANGED <<library, clock, running>>, SoundMemory(memory'), LocalsNil(memory'),
           memory'.owned[Temporary] = Null,
           \A p \in Names : memory'.refs[Entry(p)] = memory.refs[Entry(p)],
           \A e \in Holders : \/ memory'.refs[ModelRef(e)].ptr[1] \notin Files
                              \/ \E f \in Holders : memory'.refs[ModelRef(e)] = memory.refs[ModelRef(f)]
    PROVE  LibraryInv'
  <1>1. Linked(memory, library)
    BY WhileRunning
  <1> DEFINE n == memory'
  <1> HIDE DEF n
  <1>2. Linked(n, library)
    <2>1. /\ n.owned[Temporary] = Null /\ \A p \in Names : n.refs[Entry(p)] = memory.refs[Entry(p)]
          /\ \A e \in Holders : \/ n.refs[ModelRef(e)].ptr[1] \notin Files
                                \/ \E f \in Holders : n.refs[ModelRef(e)] = memory.refs[ModelRef(f)]
      BY DEF n
    <2>. QED
      BY ONLY <1>1, <2>1, LinkedKept
  <1>. QED
    BY <1>2 DEF LibraryInv, n

\* A primitive is nobody else's, and of no file.
LEMMA PrimitiveKeeps == ASSUME NEW e \in Holders, LibraryInv, LoadPrimitive(e) PROVE LibraryInv'
  <1> DEFINE n == GivenTo(CreateSharedPtr(memory, Result, "Primitive"), ModelRef(e))
  <1>0. /\ SoundMemory(memory) /\ LocalsNil(memory) /\ memory.refs \in [AllReferences -> Refs]
        /\ memory.owned[Temporary] = Null /\ running /\ memory' = n /\ UNCHANGED <<library, clock, running>>
    BY WhileRunning DEF LoadPrimitive, Result
  <1>1. /\ ModelRef(e) \in AllReferences /\ ModelRef(e) # Result /\ ModelRef(e) \notin {New, Made}
        /\ {Result, New, Made} \subseteq AllReferences
        /\ \A p \in Names : Entry(p) \in AllReferences /\ Entry(p) # ModelRef(e)
        /\ \A f \in Holders : ModelRef(f) \in AllReferences
    BY Apart
  <1>2. SoundMemory(n) /\ n.owned = memory.owned /\ \E r \in Fresh(memory, "Primitive") : n.refs = [memory.refs EXCEPT ![ModelRef(e)] = r]
    <2>1. RoomIn(memory, "Primitive") /\ memory.refs[Result] = Nil
      BY <1>0, RoomHere DEF LoadPrimitive, LocalsNil
    <2>2. ModelRef(e) \in AllReferences /\ ModelRef(e) # Result
      BY <1>1
    <2>3. SoundMemory(memory)
      BY <1>0
    <2>. QED
      BY ONLY <2>1, <2>2, <2>3, CreateGivenSound
  <1>3. PICK r \in Fresh(memory, "Primitive") : n.refs = [memory.refs EXCEPT ![ModelRef(e)] = r]
    BY <1>2
  <1> HIDE DEF n
  <1>4. r.ptr[1] \notin Files
    BY LibraryAssumption DEF Fresh
  <1>5. \A h \in AllReferences : n.refs[h] = IF h = ModelRef(e) THEN r ELSE memory.refs[h]
    BY <1>0, <1>3
  <1>6. LocalsNil(n)
    BY <1>0, <1>1, <1>5 DEF LocalsNil
  <1>7. \A p \in Names : n.refs[Entry(p)] = memory.refs[Entry(p)]
    BY <1>1, <1>5
  <1>8. \A f \in Holders : n.refs[ModelRef(f)].ptr[1] \notin Files \/ \E g \in Holders : n.refs[ModelRef(f)] = memory.refs[ModelRef(g)]
    BY <1>1, <1>4, <1>5
  <1>. QED
    BY <1>0, <1>2, <1>6, <1>7, <1>8, StepKeeps

\* An entity goes with its model and material, which others may still hold.
LEMMA DestroyKeeps == ASSUME NEW e \in Holders, LibraryInv, DestroyHolder(e) PROVE LibraryInv'
  <1> DEFINE holders == {ModelRef(e), ShaderRef(e)}
             n == DestroyAll(memory, holders)
  <1>0. /\ SoundMemory(memory) /\ LocalsNil(memory)
        /\ memory.owned[Temporary] = Null /\ running /\ memory' = n /\ UNCHANGED <<library, clock, running>>
    BY WhileRunning DEF DestroyHolder
  <1>1. /\ holders \in SUBSET AllReferences /\ {Result, New, Made} \subseteq AllReferences \ holders
        /\ \A p \in Names : Entry(p) \in AllReferences \ holders
        /\ \A f \in Holders : ModelRef(f) \in AllReferences
    BY Apart
  <1>2. /\ SoundMemory(n) /\ n.owned = memory.owned
        /\ n.refs = [h \in AllReferences |-> IF h \in holders THEN Nil ELSE memory.refs[h]]
    BY <1>0, <1>1, DestroyAllSound
  <1> HIDE DEF n, holders
  <1>3. \A h \in AllReferences : n.refs[h] = IF h \in holders THEN Nil ELSE memory.refs[h]
    BY <1>2
  <1>4. LocalsNil(n)
    BY <1>0, <1>1, <1>3 DEF LocalsNil
  <1>5. \A p \in Names : n.refs[Entry(p)] = memory.refs[Entry(p)]
    BY <1>1, <1>3
  <1>6. \A f \in Holders : n.refs[ModelRef(f)].ptr[1] \notin Files \/ \E g \in Holders : n.refs[ModelRef(f)] = memory.refs[ModelRef(g)]
    BY <1>1, <1>3, NilIsNoFile
  <1>. QED
    BY <1>0, <1>2, <1>4, <1>5, <1>6, StepKeeps

\* A copied entity shares what the other has.
LEMMA CopyKeeps == ASSUME NEW e \in Holders, NEW f \in Holders, LibraryInv, CopyComponents(e, f) PROVE LibraryInv'
  <1> DEFINE a == Copied(memory, ModelRef(f), ModelRef(e))
             n == Copied(a, ShaderRef(f), ShaderRef(e))
  <1>0. /\ SoundMemory(memory) /\ LocalsNil(memory) /\ memory.refs \in [AllReferences -> Refs]
        /\ memory.owned[Temporary] = Null /\ running /\ memory' = n /\ UNCHANGED <<library, clock, running>>
        /\ memory.refs[ModelRef(f)] = Nil /\ memory.refs[ShaderRef(f)] = Nil
    BY WhileRunning DEF CopyComponents
  <1>1. /\ ModelRef(e) \in AllReferences /\ ModelRef(f) \in AllReferences
        /\ ShaderRef(e) \in AllReferences /\ ShaderRef(f) \in AllReferences /\ ModelRef(f) # ShaderRef(f)
        /\ {Result, New, Made} \subseteq AllReferences \ {ModelRef(f), ShaderRef(f)}
        /\ \A p \in Names : Entry(p) \in AllReferences \ {ModelRef(f), ShaderRef(f)}
        /\ \A g \in Holders : ModelRef(g) \in AllReferences /\ ModelRef(g) # ShaderRef(f)
    BY Apart
  <1>2. SoundMemory(a) /\ a.owned = memory.owned /\ a.refs = [memory.refs EXCEPT ![ModelRef(f)] = memory.refs[ModelRef(e)]]
    BY <1>0, <1>1, CopiedSound
  <1> HIDE DEF a
  <1>3. SoundMemory(n) /\ n.owned = a.owned /\ n.refs = [a.refs EXCEPT ![ShaderRef(f)] = a.refs[ShaderRef(e)]]
    <2>1. a.refs[ShaderRef(f)] = Nil /\ ShaderRef(f) \in AllReferences /\ ShaderRef(e) \in AllReferences
      BY <1>0, <1>1, <1>2
    <2>2. SoundMemory(a)
      BY <1>2
    <2>. QED
      BY ONLY <2>1, <2>2, CopiedSound
  <1> HIDE DEF n
  <1>4. \A h \in AllReferences \ {ShaderRef(f)} :
          n.refs[h] = IF h = ModelRef(f) THEN memory.refs[ModelRef(e)] ELSE memory.refs[h]
    BY <1>0, <1>2, <1>3
  <1>5. LocalsNil(n)
    BY <1>0, <1>1, <1>4 DEF LocalsNil
  <1>6. \A p \in Names : n.refs[Entry(p)] = memory.refs[Entry(p)]
    BY <1>1, <1>4
  <1>7. \A g \in Holders : n.refs[ModelRef(g)].ptr[1] \notin Files \/ \E d \in Holders : n.refs[ModelRef(g)] = memory.refs[ModelRef(d)]
    BY <1>1, <1>4
  <1>. QED
    BY <1>0, <1>2, <1>3, <1>5, <1>6, <1>7, StepKeeps

\* The shader is there from the start, so it is always found.
LEMMA ShaderKeeps == ASSUME NEW e \in Holders, LibraryInv, SetShader(e) PROVE LibraryInv'
  <1> DEFINE h == ShaderRef(e)
             a == GetResource(memory, ShaderEntries, ForwardPBR)
             n == GivenTo(a, h)
  <1>0. /\ SoundMemory(memory) /\ LocalsNil(memory) /\ memory.refs \in [AllReferences -> Refs] /\ Linked(memory, library)
        /\ memory.owned[Temporary] = Null /\ running /\ memory' = n /\ UNCHANGED <<library, clock, running>>
    BY WhileRunning DEF SetShader
  <1>1. /\ h \in AllReferences /\ h \notin {Result, New, Made} /\ {Result, New, Made} \subseteq AllReferences /\ Result # New /\ Result # Made
        /\ \A p \in Names : Entry(p) \in AllReferences \ {Result, h}
        /\ \A g \in Holders : ModelRef(g) \in AllReferences \ {Result, h}
        /\ \A g \in Holders, p \in Names : Entry(p) # ModelRef(g)
    BY Apart
  <1>2. ForwardPBR \in Names /\ ForwardPBR \in DOMAIN ShaderEntries
    BY DEF Names, ShaderEntries
  <1>3. PICK r \in Refs :
          /\ SoundMemory(a) /\ a.owned = memory.owned /\ r = memory.refs[Entry(ForwardPBR)]
          /\ a.refs = [g \in AllReferences |-> IF g \in {Result, Entry(ForwardPBR)} THEN r ELSE memory.refs[g]]
    <2>1. memory.refs[Entry(ForwardPBR)] # Nil /\ memory.refs[Entry(ForwardPBR)].ptr[1] = ForwardPBR
      BY <1>0, <1>2 DEF Linked
    <2>2. memory.refs[Result] = Nil /\ memory.refs[New] = Nil /\ memory.refs[Made] = Nil
      BY <1>0 DEF LocalsNil
    <2>3. SoundMemory(memory)
      BY <1>0
    <2>4. SoundMemory(a) /\ a.owned = memory.owned /\ Got(memory, ShaderEntries, ForwardPBR, a)
      <3> DEFINE F == ForwardPBR
                 map == ShaderEntries
      <3>1. /\ F \in Names /\ F \in DOMAIN map
            /\ F \in DOMAIN map => memory.refs[Entry(F)] # Nil /\ memory.refs[Entry(F)].ptr[1] = F
            /\ F \notin DOMAIN map => memory.refs[Entry(F)] = Nil /\ RoomIn(memory, F)
            /\ a = GetResource(memory, map, F)
        BY <1>2, <2>1 DEF a
      <3> HIDE DEF F, map, a
      <3>2. SoundMemory(a) /\ a.owned = memory.owned /\ Got(memory, map, F, a)
        BY ONLY <3>1, <2>2, <2>3, ResourceSound
      <3>. QED
        BY <3>2 DEF F, map
    <2>. QED
      BY <1>2, <2>4 DEF Got
  <1> HIDE DEF a
  <1>4. /\ SoundMemory(n) /\ n.owned = a.owned
        /\ n.refs = [g \in AllReferences |-> IF g = h THEN a.refs[Result] ELSE IF g = Result THEN Nil ELSE a.refs[g]]
    <2>1. SoundMemory(a)
      BY <1>3
    <2>2. h \in AllReferences /\ h # Result
      BY <1>1
    <2>. QED
      BY ONLY <2>1, <2>2, GivenSound
  <1> HIDE DEF n
  <1>5. \A g \in AllReferences \ {h} : n.refs[g] = IF g = Result THEN Nil ELSE memory.refs[g]
    BY <1>2, <1>3, <1>4
  <1>6. LocalsNil(n)
    BY <1>0, <1>1, <1>5 DEF LocalsNil
  <1>7. \A p \in Names : n.refs[Entry(p)] = memory.refs[Entry(p)]
    BY <1>1, <1>5
  <1>8. \A g \in Holders : n.refs[ModelRef(g)].ptr[1] \notin Files \/ \E d \in Holders : n.refs[ModelRef(g)] = memory.refs[ModelRef(d)]
    BY <1>1, <1>5
  <1>. QED
    BY <1>0, <1>3, <1>4, <1>6, <1>7, <1>8, StepKeeps

\* The entry and the holder get the same Reference, whether it was there or not.
LEMMA LoadKeeps == ASSUME NEW e \in Holders, NEW name \in Files, LibraryInv, LoadFromLibrary(e, name) PROVE LibraryInv'
  <1> DEFINE h == ModelRef(e)
             a == GetResource(memory, library, name)
             n == GivenTo(a, h)
             map == Entered(library, name, clock)
  <1>0. /\ SoundMemory(memory) /\ LocalsNil(memory) /\ memory.refs \in [AllReferences -> Refs] /\ Linked(memory, library)
        /\ memory.owned[Temporary] = Null /\ running /\ memory' = n /\ library' = map /\ running' = running
        /\ DOMAIN library \subseteq Files
    BY WhileRunning DEF LoadFromLibrary
  <1>1. /\ h \in AllReferences /\ h \notin {Result, New, Made} /\ {Result, New, Made} \subseteq AllReferences /\ Result # New /\ Result # Made
        /\ \A p \in Names : Entry(p) \in AllReferences \ {Result, New, Made, h}
        /\ \A g \in Holders : ModelRef(g) \in AllReferences \ {Result, New, Made}
        /\ \A p, q \in Names : Entry(p) = Entry(q) => p = q
        /\ \A g \in Holders, p \in Names : Entry(p) # ModelRef(g)
    BY Apart
  <1>2. name \in Names /\ ForwardPBR \in Names /\ ForwardPBR # name /\ Files \subseteq Names
    BY LibraryAssumption DEF Names, ForwardPBR
  <1>3. PICK r \in Refs :
          /\ SoundMemory(a) /\ a.owned = memory.owned /\ r # Nil /\ r.ptr[1] = name
          /\ name \in DOMAIN library => r = memory.refs[Entry(name)]
          /\ a.refs = [g \in AllReferences |-> IF g \in {Result, Entry(name)} THEN r ELSE memory.refs[g]]
    <2>1. name \in DOMAIN library => memory.refs[Entry(name)] # Nil /\ memory.refs[Entry(name)].ptr[1] = name
      BY <1>0, <1>2 DEF Linked
    <2>2. name \notin DOMAIN library => memory.refs[Entry(name)] = Nil /\ RoomIn(memory, name)
      <3>1. RoomIn(memory, name)
        BY RoomHere DEF LoadFromLibrary
      <3>. QED
        BY <1>0, <3>1 DEF Linked
    <2>3. memory.refs[Result] = Nil /\ memory.refs[New] = Nil /\ memory.refs[Made] = Nil
      BY <1>0 DEF LocalsNil
    <2>4. SoundMemory(memory) /\ name \in Names
      BY <1>0, <1>2
    <2>5. SoundMemory(a) /\ a.owned = memory.owned /\ Got(memory, library, name, a)
      BY ONLY <2>1, <2>2, <2>3, <2>4, ResourceSound
    <2>. QED
      BY <2>5 DEF Got
  <1> HIDE DEF a
  <1>4. /\ SoundMemory(n) /\ n.owned = a.owned
        /\ n.refs = [g \in AllReferences |-> IF g = h THEN a.refs[Result] ELSE IF g = Result THEN Nil ELSE a.refs[g]]
    <2>1. SoundMemory(a)
      BY <1>3
    <2>2. h \in AllReferences /\ h # Result
      BY <1>1
    <2>. QED
      BY ONLY <2>1, <2>2, GivenSound
  <1> HIDE DEF n
  <1>5. /\ n.refs[h] = r /\ n.refs[Entry(name)] = r
        /\ \A g \in AllReferences \ {h, Entry(name)} : n.refs[g] = IF g = Result THEN Nil ELSE memory.refs[g]
    BY <1>1, <1>2, <1>3, <1>4
  <1>6. DOMAIN map = DOMAIN library \cup {name}
    BY DEF Entered
  <1> HIDE DEF map, h
  <1>7. \A p \in Names \ {name} : n.refs[Entry(p)] = memory.refs[Entry(p)]
    BY <1>1, <1>2, <1>5
  <1>8. Linked(n, map)
    <2>1. \A p \in Files : p \in DOMAIN map <=> n.refs[Entry(p)] # Nil
      BY <1>0, <1>2, <1>3, <1>5, <1>6, <1>7 DEF Linked
    <2>2. \A p \in Names : n.refs[Entry(p)] # Nil => n.refs[Entry(p)].ptr[1] = p
      BY <1>0, <1>3, <1>5, <1>7 DEF Linked
    <2>3. n.refs[Entry(ForwardPBR)] # Nil
      BY <1>0, <1>2, <1>7 DEF Linked
    <2>4. ASSUME NEW g \in Holders, n.refs[ModelRef(g)].ptr[1] \in Files
          PROVE  n.refs[Entry(n.refs[ModelRef(g)].ptr[1])] = n.refs[ModelRef(g)]
      <3>1. CASE ModelRef(g) = h
        BY <1>3, <1>5, <3>1
      <3>2. CASE ModelRef(g) # h
        <4>1. n.refs[ModelRef(g)] = memory.refs[ModelRef(g)]
          BY <1>1, <1>2, <1>5, <3>2
        <4> DEFINE p == memory.refs[ModelRef(g)].ptr[1]
        <4>2. p \in Files /\ memory.refs[Entry(p)] = memory.refs[ModelRef(g)]
          BY <1>0, <2>4, <4>1 DEF Linked
        <4>3. p = name => name \in DOMAIN library
          <5>1. memory.refs[ModelRef(g)] # Nil
            BY <4>2, NilIsNoFile
          <5>. QED
            BY <1>0, <4>2, <5>1 DEF Linked
        <4> HIDE DEF p
        <4>4. n.refs[Entry(p)] = memory.refs[Entry(p)]
          BY <1>2, <1>3, <1>5, <1>7, <4>2, <4>3
        <4>. QED
          BY <4>1, <4>2, <4>4 DEF p
      <3>. QED
        BY <3>1, <3>2
    <2>. QED
      BY <1>0, <1>3, <1>4, <2>1, <2>2, <2>3, <2>4 DEF Linked
  <1>9. LocalsNil(n)
    BY <1>0, <1>1, <1>2, <1>5 DEF LocalsNil, h
  <1>. QED
    BY <1>0, <1>4, <1>6, <1>8, <1>9 DEF LibraryInv

\* A controller takes the place of another, or goes.
LEMMA ControllerKeeps == ASSUME NEW custom \in BOOLEAN, LibraryInv, SetControllerType(custom) PROVE LibraryInv'
  <1> DEFINE h == CameraController
             a == CreateSharedPtr(memory, Result, "controller")
             b == CastAssign(a, h, Result)
             n == Destroyed(b, Result)
             none == Reset(memory, h, Null)
  <1>0. /\ SoundMemory(memory) /\ LocalsNil(memory) /\ memory.refs \in [AllReferences -> Refs]
        /\ memory.owned[Temporary] = Null /\ running /\ UNCHANGED <<library, clock, running>>
        /\ memory' = IF custom THEN none ELSE n
    BY WhileRunning DEF SetControllerType, Result
  <1>1. /\ h \in AllReferences /\ h \notin {Result, New, Made} /\ {Result, New, Made} \subseteq AllReferences /\ h # Result
        /\ Result \in AllReferences
        /\ \A p \in Names : Entry(p) \in AllReferences \ {Result, h}
        /\ \A g \in Holders : ModelRef(g) \in AllReferences \ {Result, h}
    BY Apart
  <1>2. CASE custom
    <2>1. SoundMemory(none) /\ none.owned = memory.owned /\ none.refs = [memory.refs EXCEPT ![h] = Nil]
      BY <1>0, <1>1, ResetSound
    <2> HIDE DEF none
    <2>2. \A g \in AllReferences \ {h} : none.refs[g] = memory.refs[g]
      BY <1>0, <2>1
    <2>3. LocalsNil(none)
      BY <1>0, <1>1, <2>2 DEF LocalsNil
    <2>4. \A p \in Names : none.refs[Entry(p)] = memory.refs[Entry(p)]
      BY <1>1, <2>2
    <2>5. \A g \in Holders : none.refs[ModelRef(g)] = memory.refs[ModelRef(g)]
      BY <1>1, <2>2
    <2>. QED
      BY <1>0, <1>2, <2>1, <2>3, <2>4, <2>5, StepKeeps
  <1>3. CASE ~custom
    <2>1. SoundMemory(a) /\ a.owned = memory.owned /\ \E r \in Fresh(memory, "controller") : a.refs = [memory.refs EXCEPT ![Result] = r]
      <3>1. RoomIn(memory, "controller") /\ memory.refs[Result] = Nil /\ Result \in AllReferences
        BY <1>0, <1>1, RoomHere DEF SetControllerType, LocalsNil
      <3>2. SoundMemory(memory)
        BY <1>0
      <3>. QED
        BY ONLY <3>1, <3>2, CreateSound
    <2>2. PICK r \in Fresh(memory, "controller") : a.refs = [memory.refs EXCEPT ![Result] = r]
      BY <2>1
    <2> HIDE DEF a
    <2>3. SoundMemory(b) /\ b.owned = a.owned /\ b.refs = [a.refs EXCEPT ![h] = a.refs[Result]]
      <3>1. a.refs[Result] # Nil
        BY <1>0, <1>1, <2>2 DEF Fresh
      <3>2. SoundMemory(a) /\ h \in AllReferences /\ h # Result /\ Result \in AllReferences
        BY <1>1, <2>1
      <3>. QED
        BY ONLY <3>1, <3>2, CastAssignSound
    <2> HIDE DEF b
    <2>4. SoundMemory(n) /\ n.owned = b.owned /\ n.refs = [b.refs EXCEPT ![Result] = Nil]
      <3>1. SoundMemory(b) /\ Result \in AllReferences
        BY <1>1, <2>3
      <3>. QED
        BY ONLY <3>1, DestroyedSound
    <2> HIDE DEF n
    <2>5. \A g \in AllReferences \ {h} : n.refs[g] = IF g = Result THEN Nil ELSE memory.refs[g]
      BY <1>0, <2>2, <2>3, <2>4
    <2>6. LocalsNil(n)
      BY <1>0, <1>1, <2>5 DEF LocalsNil
    <2>7. \A p \in Names : n.refs[Entry(p)] = memory.refs[Entry(p)]
      BY <1>1, <2>5
    <2>8. \A g \in Holders : n.refs[ModelRef(g)] = memory.refs[ModelRef(g)]
      BY <1>1, <2>5
    <2>. QED
      BY <1>0, <1>3, <2>1, <2>3, <2>4, <2>6, <2>7, <2>8, StepKeeps
  <1>. QED
    BY <1>2, <1>3

\* The new manager takes the place of the old, whose entities go.
LEMMA ReplaceKeeps == ASSUME LibraryInv, ReplaceManager PROVE LibraryInv'
  <1> DEFINE a == CreateUniquePtr(memory, Temporary, "manager")
             b == MoveOwned(a, Manager, Temporary)
             c == ResetOwned(b, Temporary)
             n == DestroyAll(c, ComponentRefs)
  <1>0. /\ SoundMemory(memory) /\ LocalsNil(memory)
        /\ memory.owned[Temporary] = Null /\ running /\ memory' = n /\ UNCHANGED <<library, clock, running>>
    BY WhileRunning DEF ReplaceManager
  <1>1. /\ ComponentRefs \in SUBSET AllReferences /\ Manager \in Owners /\ Temporary \in Owners
    BY DEF AllReferences, Owners
  <1>2. \A g \in Holders : ModelRef(g) \in ComponentRefs
    BY DEF ComponentRefs
  <1>3. {Result, New, Made} \subseteq AllReferences \ ComponentRefs
    BY Apart DEF ComponentRefs
  <1>4. \A p \in Names : Entry(p) \in AllReferences \ ComponentRefs
    BY Apart DEF ComponentRefs
  <1>5. SoundMemory(a) /\ a.refs = memory.refs
    <2>1. \E o \in Objects : o[1] = "manager" /\ o \notin memory.objects
      BY RoomHere DEF ReplaceManager, RoomIn
    <2>2. SoundMemory(memory) /\ Temporary \in Owners /\ memory.owned[Temporary] = Null
      BY <1>0, <1>1
    <2>. QED
      BY ONLY <2>1, <2>2, CreateOwnedSound
  <1> HIDE DEF a
  <1>6. SoundMemory(b) /\ b.refs = a.refs
    BY <1>5, MoveSound
  <1> HIDE DEF b
  <1>7. SoundMemory(c) /\ c.refs = b.refs /\ c.owned = [b.owned EXCEPT ![Temporary] = Null]
    BY <1>1, <1>6, ResetOwnedSound
  <1>8. c.owned[Temporary] = Null
    BY <1>1, <1>6, <1>7 DEF SoundMemory, Memories
  <1> HIDE DEF c
  <1>9. /\ SoundMemory(n) /\ n.owned = c.owned
        /\ n.refs = [h \in AllReferences |-> IF h \in ComponentRefs THEN Nil ELSE c.refs[h]]
    BY <1>1, <1>7, DestroyAllSound
  <1> HIDE DEF n
  <1>10. \A h \in AllReferences : n.refs[h] = IF h \in ComponentRefs THEN Nil ELSE memory.refs[h]
    BY <1>5, <1>6, <1>7, <1>9
  <1>11. LocalsNil(n)
    BY <1>0, <1>3, <1>10 DEF LocalsNil
  <1>12. \A p \in Names : n.refs[Entry(p)] = memory.refs[Entry(p)]
    BY <1>4, <1>10
  <1>13. \A g \in Holders : n.refs[ModelRef(g)].ptr[1] \notin Files
    BY <1>1, <1>2, <1>10, NilIsNoFile
  <1>. QED
    BY <1>0, <1>8, <1>9, <1>11, <1>12, <1>13, StepKeeps

\* The end leaves nothing.
LEMMA QuitKeeps == ASSUME LibraryInv, QuitLibraries PROVE LibraryInv'
  <1> DEFINE shaders == {Entry(n) : n \in DOMAIN ShaderEntries}
             models == {Entry(n) : n \in DOMAIN library}
             a == DestroyAll(memory, shaders)
             b == DestroyAll(a, models)
             c == ResetOwned(b, Manager)
             d == DestroyAll(c, ComponentRefs)
             n == Destroyed(d, MeshIndices)
  <1>0. /\ SoundMemory(memory) /\ LocalsNil(memory) /\ Linked(memory, library) /\ DOMAIN library \subseteq Files
        /\ memory.owned[Temporary] = Null /\ running /\ running' = FALSE /\ library' = [p \in {} |-> 0]
    BY WhileRunning DEF QuitLibraries
  <1>00. memory' = n
    BY DEF QuitLibraries
  <1>1. /\ shaders = {Entry(ForwardPBR)} /\ shaders \in SUBSET AllReferences /\ models \in SUBSET AllReferences
        /\ ComponentRefs \in SUBSET AllReferences /\ MeshIndices \in AllReferences
        /\ Owners = {Manager, Temporary} /\ Manager # Temporary
    BY <1>0, Apart DEF ShaderEntries, Names, AllReferences, Owners, Manager, Temporary
  <1>2. ASSUME NEW h \in AllReferences
        PROVE  h \in shaders \cup models \cup ComponentRefs \cup {MeshIndices} \/ memory.refs[h] = Nil
    <2>1. CASE h \in {Local(k) : k \in {"result", "new", "made"}}
      BY <1>0, <2>1 DEF LocalsNil, Result, New, Made
    <2>2. CASE h \in {Entry(p) : p \in Files \cup {ForwardPBR}}
      BY <1>0, <1>1, <2>2 DEF Linked
    <2>. QED
      BY <2>1, <2>2 DEF AllReferences
  <1>3. /\ SoundMemory(a) /\ a.owned = memory.owned
        /\ a.refs = [h \in AllReferences |-> IF h \in shaders THEN Nil ELSE memory.refs[h]]
    BY <1>0, <1>1, DestroyAllSound
  <1> HIDE DEF a, shaders, models
  <1>4. SoundMemory(b) /\ b.owned = a.owned /\ b.refs = [h \in AllReferences |-> IF h \in models THEN Nil ELSE a.refs[h]]
    BY <1>1, <1>3, DestroyAllSound
  <1> HIDE DEF b
  <1>5. SoundMemory(c) /\ c.refs = b.refs /\ c.owned = [b.owned EXCEPT ![Manager] = Null]
    BY <1>1, <1>4, ResetOwnedSound
  <1> HIDE DEF c
  <1>6. SoundMemory(d) /\ d.owned = c.owned /\ d.refs = [h \in AllReferences |-> IF h \in ComponentRefs THEN Nil ELSE c.refs[h]]
    BY <1>1, <1>5, DestroyAllSound
  <1> HIDE DEF d
  <1>7. SoundMemory(n) /\ n.owned = d.owned /\ n.refs = [d.refs EXCEPT ![MeshIndices] = Nil]
    BY <1>1, <1>6, DestroyedSound
  <1> HIDE DEF n
  <1>8. \A w \in Owners : n.owned[w] = Null
    <2>1. b.owned \in [Owners -> Objects \cup {Null}] /\ b.owned[Temporary] = Null
      BY <1>0, <1>3, <1>4 DEF SoundMemory, Memories
    <2>. QED
      BY <1>1, <1>5, <1>6, <1>7, <2>1
  <1>9. ASSUME NEW h \in AllReferences PROVE n.refs[h] = Nil
    <2>1. d.refs \in [AllReferences -> Refs]
      BY <1>6 DEF SoundMemory, Memories
    <2>2. n.refs[h] = IF h = MeshIndices THEN Nil ELSE d.refs[h]
      BY <1>1, <1>7, <2>1
    <2>3. d.refs[h] = IF h \in ComponentRefs \cup models \cup shaders THEN Nil ELSE memory.refs[h]
      BY <1>3, <1>4, <1>5, <1>6
    <2>. QED
      BY <1>2, <2>2, <2>3
  <1>10. Nothing(n) /\ LocalsNil(n)
    BY <1>8, <1>9, Apart DEF Nothing, LocalsNil
  <1>. QED
    BY <1>0, <1>00, <1>7, <1>10 DEF LibraryInv

\* Every step keeps the invariant.
LEMMA NextKeeps == LibraryInv /\ [LibraryNext]_libraryVars => LibraryInv'
  <1> SUFFICES ASSUME LibraryInv, [LibraryNext]_libraryVars PROVE LibraryInv'
    OBVIOUS
  <1>1. CASE UNCHANGED libraryVars
    BY <1>1 DEF libraryVars, LibraryInv, Linked, LocalsNil, Nothing
  <1>2. CASE \E first \in DOMAIN library : UpdateLibrary(first)
    BY <1>2, UpdateKeeps
  <1>3. CASE Elapse
    BY <1>3 DEF Elapse, LibraryInv
  <1>4. CASE ReplaceManager
    BY <1>4, ReplaceKeeps
  <1>5. CASE QuitLibraries
    BY <1>5, QuitKeeps
  <1>6. CASE \E e \in Holders : SetShader(e) \/ LoadPrimitive(e) \/ DestroyHolder(e)
    BY <1>6, ShaderKeeps, PrimitiveKeeps, DestroyKeeps
  <1>7. CASE \E e \in Holders, name \in Files : LoadFromLibrary(e, name)
    BY <1>7, LoadKeeps
  <1>8. CASE \E e, f \in Holders : CopyComponents(e, f)
    BY <1>8, CopyKeeps
  <1>9. CASE \E custom \in BOOLEAN : SetControllerType(custom)
    BY <1>9, ControllerKeeps
  <1>. QED
    BY <1>1, <1>2, <1>3, <1>4, <1>5, <1>6, <1>7, <1>8, <1>9 DEF LibraryNext

\* Counts are exact, objects live as long as they are held and are deleted once,
\* models of a file are one copy and nothing is left at the end, for any number
\* of holders, files and objects (Reference, Owned and everyone who uses them).
THEOREM OwnershipAlwaysExact == LibrarySpec => []OwnershipExact
  <1>1. LibraryInit => LibraryInv
    BY InitEstablishes
  <1>2. LibraryInv /\ [LibraryNext]_libraryVars => LibraryInv'
    BY NextKeeps
  <1>3. LibraryInv => OwnershipExact
    BY InvImpliesExact
  <1>. QED
    BY <1>1, <1>2, <1>3, PTL DEF LibrarySpec
=============================================================================
