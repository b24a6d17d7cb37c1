----------------------------- MODULE Application -----------------------------
(***************************************************************************)
(* The main loop of the editor (Application.cpp, editor.cpp): the splash   *)
(* screen, the frames, and the events of the window, which GLFW delivers   *)
(* while it is polled.  A resize goes to the swapchain, the render graph,  *)
(* ImGui's framebuffers and, with the next layout, to the scene view, each *)
(* of which keeps a size of its own.  A size is one number.                *)
(*                                                                         *)
(* Frames in flight are in FrameLoop, scenes and the project file in       *)
(* SceneManager, what is drawn in RenderGraph.                             *)
(***************************************************************************)
EXTENDS Input

CONSTANTS
    Sizes,      \* the sizes that the user gives to the window
    ViewSizes,  \* the sizes that he gives to the scene view, which rounds them down
    Chrome,     \* what surrounds the scene view where it is docked
    Default     \* m_Width of a new SceneViewPanel

Even(n) == 2 * (n \div 2)

ASSUME ApplicationAssumption ==
    /\ Sizes \subseteq Nat \ {0} /\ Chrome \in Nat \ {0} /\ Default \in Nat
    /\ ViewSizes \subseteq {n \in Nat \ {0} : n = Even(n)}

VARIABLES
    win,        \* the window's size, 0 while it is an icon
    app,        \* m_CurrentState
    stage,      \* what the main thread does next
    gui,        \* m_ImGuiManager and m_RenderGraph exist
    minimized,  \* m_Minimized
    swap,       \* the size of the swapchain
    display,    \* io.DisplaySize
    frames,     \* the size of ImGui's framebuffers
    onImages,   \* they are made for the present images of the swapchain
    graph,      \* the size of the images of the render graph
    view,       \* m_Width of the scene view, and the size of its texture
    texture,    \* m_GameViewTexture exists
    target,     \* m_RenderTexture of the graph and the grid: it, or the screen
    layout,     \* where ImGui has put the scene view
    disabled,   \* m_DisableMainRenderGraph
    active,     \* m_SceneViewActive
    scene,      \* there is a current scene
    switching,  \* m_SwitchingScenes
    special     \* what has happened that not every property survives

sizeVars == <<win, minimized, swap, display, frames, onImages, graph>>
viewVars == <<view, texture, target, layout, disabled, active>>
vars == <<deviceVars, sizeVars, viewVars, app, stage, gui, scene, switching, special>>

\* "left": the cursor was captured after it had left the view; "moved": the
\* view has moved under a captured cursor; "outofdate": Begin has found the
\* swapchain out of date and made a new one.
Special == {"left", "moved", "outofdate"}

\* The window is there, its callbacks are set, and it is polled once.
Init ==
    /\ InputInit
    /\ win \in Sizes /\ swap = win /\ minimized = FALSE
    /\ app = "loading" /\ stage = "splash" /\ gui = FALSE
    /\ display = 0 /\ frames = 0 /\ onImages = FALSE /\ graph = 0
    /\ view = Default /\ texture = FALSE /\ target = "screen"
    /\ layout = "closed" /\ disabled = FALSE /\ active = FALSE
    /\ scene = FALSE /\ switching = FALSE /\ special = {}
-----------------------------------------------------------------------------
(***************************************************************************)
(* Events.                                                                 *)
(***************************************************************************)
Polling == stage \in {"splash", "poll"}

DeviceEvent ==
    /\ Polling
    /\ \/ \E c \in Keys \cup Buttons : Press(gui, c) \/ Release(gui, c)
       \/ \E over \in BOOLEAN : Move(gui, over)
    /\ UNCHANGED <<sizeVars, viewVars, app, stage, gui, scene, switching, special>>

\* Mutant: nothing is done when the swapchain has the size already.
OnWindowResizeUnlessSame(s) ==
    /\ minimized' = IF s = swap THEN minimized ELSE s = 0
    /\ swap' = IF s = 0 THEN swap ELSE s
    /\ graph' = IF s \notin {0, swap} /\ gui THEN Even(s) ELSE graph

\* The application's handler comes first, then ImGui's.
OnWindowResize(s) ==
    /\ minimized' = (s = 0)
    /\ swap' = IF s = 0 THEN swap ELSE s
    /\ graph' = IF s # 0 /\ gui THEN Even(s) ELSE graph

\* VKIMGUIRenderer::OnResize: new framebuffers on the swapchain's images.
RendererResized(s) ==
    /\ frames' = s /\ onImages' = TRUE
    /\ special' = special \ {"outofdate"}

AtLeastOne(s) == IF s = 0 THEN 1 ELSE s

ImGuiResized(s) ==
    IF gui THEN display' = AtLeastOne(s) /\ RendererResized(AtLeastOne(s))
           ELSE UNCHANGED <<display, frames, onImages, special>>

ResizeEvent(s) ==
    /\ Polling
    /\ win' = s
    /\ OnWindowResize(s)
    /\ ImGuiResized(s)
    /\ UNCHANGED <<deviceVars, viewVars, app, stage, gui, scene, switching>>

\* OnWindowClose.  Init overwrites it when the splash screen is over.
CloseEvent ==
    /\ Polling
    /\ app' = "closing"
    /\ UNCHANGED <<deviceVars, sizeVars, viewVars, stage, gui, scene, switching, special>>
-----------------------------------------------------------------------------
(***************************************************************************)
(* The main thread.                                                        *)
(***************************************************************************)
RendererMade == frames' = win /\ onImages' = TRUE

\* ImGuiManager::OnInit.
ImGuiMade == gui' = TRUE /\ display' = win /\ RendererMade

\* The rest of Init: ImGui and the render graph take the window's size, and
\* LoadCurrentList asks for the first scene.
EndSplash ==
    /\ stage = "splash"
    /\ app' = "running" /\ stage' = "frame"
    /\ ImGuiMade /\ graph' = Even(win)
    /\ switching' = TRUE
    /\ UNCHANGED <<deviceVars, win, minimized, swap, viewVars, scene, special>>

\* A frame that only switches the scene.  OnNewScene hands the graph and the
\* grid the texture of the view, or the screen while it has none.
ApplySceneSwitch ==
    /\ stage = "frame" /\ switching
    /\ scene' = TRUE /\ switching' = FALSE
    /\ target' = IF texture THEN "view" ELSE "screen"
    /\ UNCHANGED <<deviceVars, sizeVars, app, stage, gui, view, texture, layout,
                   disabled, active, special>>

BeginFrame ==
    /\ stage = "frame" /\ ~switching
    /\ ResetPressed
    /\ stage' = "poll"
    /\ UNCHANGED <<sizeVars, viewVars, app, gui, scene, switching, special>>

\* Mutant: a texture that is large enough is kept.
Outgrown(v) == v > view

\* SceneViewPanel::Resize.
Resized(v) == view # v

Resize(v) ==
    /\ texture' = TRUE
    /\ IF Resized(v) THEN view' = v /\ target' = "view" /\ graph' = v
                     ELSE UNCHANGED <<view, target, graph>>

\* SceneViewPanel::OnImGui: the panel is closed, ImGui skips it, or it is
\* docked or floats.  Whether the cursor is over it may change with the layout.
PanelClosed ==
    /\ layout' = "closed"
    /\ UNCHANGED <<view, texture, target, graph, disabled, active, ioOver>>

PanelSkipped ==
    /\ layout' = "skipped" /\ disabled' = TRUE
    /\ UNCHANGED <<view, texture, target, graph, active, ioOver>>

PanelShown(v) ==
    /\ layout' = IF v + Chrome <= display THEN "docked" ELSE "floating"
    /\ disabled' = FALSE
    /\ ioOver' \in BOOLEAN
    /\ active' = ioOver'
    /\ Resize(v)

\* ImGui::NewFrame, Editor::OnUpdate and the panels, which may ask for another
\* scene.  A panel is skipped where the window has no room for it.
Update ==
    /\ stage = "poll"
    /\ stage' = IF app = "closing" THEN "quit" ELSE "render"
    /\ want' \in BOOLEAN
    /\ IF active THEN HandleMouse ELSE UNCHANGED mode
    /\ \/ ~scene /\ UNCHANGED <<viewVars, graph, switching, ioOver>>
       \/ /\ scene /\ switching' \in BOOLEAN
          /\ \/ PanelClosed
             \/ PanelSkipped
             \/ display > Chrome /\ \E v \in ViewSizes : PanelShown(v)
    /\ special' =
         (special \ IF mode' = "visible" THEN {"left", "moved"} ELSE {})
         \cup (IF mode' = "captured" /\ mode = "visible" /\ ~ioOver THEN {"left"} ELSE {})
         \cup (IF mode' = "captured" /\ ioOver' # ioOver THEN {"moved"} ELSE {})
    /\ UNCHANGED <<down, held, pressed, ioDown, ioMods, win, minimized, swap,
                   display, frames, onImages, app, gui, scene>>

\* Renderer::Begin, which may find that it needs a new swapchain.
Begin ==
    /\ stage = "render" /\ ~minimized
    /\ stage' = "draw"
    /\ \/ UNCHANGED <<onImages, special>>
       \/ onImages' = FALSE /\ special' = special \cup {"outofdate"}
    /\ UNCHANGED <<deviceVars, win, minimized, swap, display, frames, graph, viewVars,
                   app, gui, scene, switching>>

\* OnRender, ImGuiManager::OnRender and Present.
Draw ==
    /\ stage = "draw"
    /\ stage' = "frame"
    /\ UNCHANGED <<deviceVars, sizeVars, viewVars, app, gui, scene, switching, special>>

SkipRender ==
    /\ stage = "render" /\ minimized
    /\ stage' = "frame"
    /\ UNCHANGED <<deviceVars, sizeVars, viewVars, app, gui, scene, switching, special>>

\* ~VKIMGUIRenderer.
RendererReleased == frames' = 0 /\ onImages' = FALSE

OnQuit ==
    /\ stage = "quit"
    /\ stage' = "ended" /\ gui' = FALSE /\ scene' = FALSE
    /\ RendererReleased
    /\ UNCHANGED <<deviceVars, win, minimized, swap, display, graph, viewVars, app,
                   switching, special>>

MainStep == EndSplash \/ ApplySceneSwitch \/ BeginFrame \/ Update \/ Begin \/ Draw
              \/ SkipRender \/ OnQuit

Next ==
    \/ MainStep
    \/ DeviceEvent
    \/ \E s \in Sizes \cup {0} : ResizeEvent(s)
    \/ CloseEvent

\* glfwPollEvents returns, so the main thread goes on.
Spec == Init /\ [][Next]_vars /\ WF_vars(MainStep)
-----------------------------------------------------------------------------
TypeOK ==
    /\ InputTypeOK
    /\ win \in Sizes \cup {0} /\ swap \in Sizes
    /\ {display, frames} \subseteq Sizes \cup {0, 1}
    /\ graph \in ViewSizes \cup {Even(s) : s \in Sizes \cup {0}}
    /\ view \in ViewSizes \cup {Default}
    /\ app \in {"loading", "running", "closing"}
    /\ stage \in {"splash", "frame", "poll", "render", "draw", "quit", "ended"}
    /\ target \in {"screen", "view"}
    /\ layout \in {"closed", "skipped", "docked", "floating"}
    /\ {gui, minimized, onImages, texture, disabled, active, scene, switching} \subseteq BOOLEAN
    /\ special \subseteq Special

\* Once the camera has read the mouse, it holds the cursor only while the
\* right button is down.  It cannot see the button while the view is not
\* active, and ImGui's idea of where a captured cursor is stands still.
CursorComesBack ==
    stage = "render" /\ mode = "captured" /\ special \cap {"left", "moved"} = {}
        => Right \in held

\* The flag of a modifier that has been let go stays set in ImGui until a key
\* is pressed: whenever Input hears of a new key, the flags are those of
\* modifiers that are down.
FlagsCatchUp ==
    [][gui /\ (held' \ held) \cap Keys # {} => ioMods' \subseteq down']_vars

\* No key or button sticks in Input or ImGui, although presses are swallowed by
\* text fields and listeners come and go; the flag of a modifier does, until
\* the next key; a cursor does not, unless it was captured outside the view or
\* the view has moved under it.
NothingSticks == [](HeldIsDown /\ CursorComesBack) /\ FlagsCatchUp

\* When a frame is drawn, ImGui's framebuffers have the size of the swapchain,
\* and the depth image of the graph covers the texture of a docked view, on
\* which the grid is drawn with both.  The framebuffers are on images that
\* exist unless Begin has replaced these since the last resize: ImGui hears of
\* a resize only, and until the next one they are on destroyed images.
FrameFits ==
    stage = "draw" =>
        /\ frames = swap /\ swap = win
        /\ "outofdate" \notin special => onImages
        /\ layout = "docked" /\ target = "view" => texture /\ view <= graph

\* A window that keeps its size is drawn again and again, whatever happened
\* to it before, and a request to close it after the splash screen is obeyed.
WindowFollows ==
    /\ \A s \in Sizes : <>[](win = s /\ app = "running") => []<>(stage = "draw")
    /\ (app = "closing" /\ stage = "poll") ~> (stage = "ended")
=============================================================================
