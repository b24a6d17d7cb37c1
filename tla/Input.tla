-------------------------------- MODULE Input --------------------------------
(***************************************************************************)
(* The keyboard and the mouse, and what two listeners believe of them: the *)
(* singleton Input, which the cameras ask, and the io of ImGui, which      *)
(* ImGuiManager feeds.  GLFW's callbacks make one event each, the          *)
(* application offers it to ImGui first, and Input does not see what ImGui *)
(* has handled.                                                            *)
(*                                                                         *)
(* Positions are abstracted to whether the cursor is over the scene view.  *)
(* Scrolling, typed characters and controllers are left out.               *)
(***************************************************************************)
EXTENDS Naturals

CONSTANTS
    Keys,       \* keys of the keyboard
    Modifiers,  \* the keys that have a flag of their own in ImGui's io
    Buttons,    \* buttons of the mouse
    Right       \* the one that turns the camera

ASSUME InputAssumption ==
    Modifiers \subseteq Keys /\ Right \in Buttons /\ Keys \cap Buttons = {}

VARIABLES
    down,       \* the keys and buttons that somebody holds down
    held,       \* m_KeyHeld and m_MouseHeld
    pressed,    \* m_KeyPressed and m_MouseClicked
    mode,       \* m_MouseMode; while it is captured the cursor is hidden
    ioDown,     \* io.KeysDown and io.MouseDown
    ioMods,     \* io.KeyCtrl, KeyShift and KeyAlt
    ioOver,     \* io.MousePos is over the scene view
    want        \* io.WantTextInput: a text field has the focus

deviceVars == <<down, held, pressed, mode, ioDown, ioMods, ioOver, want>>

InputInit ==
    /\ down = {} /\ held = {} /\ pressed = {} /\ mode = "visible"
    /\ ioDown = {} /\ ioMods = {} /\ ioOver = FALSE /\ want = FALSE

\* A key that GLFW repeats is held again, but was not pressed.
OnPressed(c, repeat) ==
    /\ held' = held \cup {c}
    /\ pressed' = IF repeat THEN pressed \ {c} ELSE pressed \cup {c}

OnReleased(c) ==
    /\ held' = held \ {c}
    /\ pressed' = pressed \ {c}

\* A press is handled by ImGui, and Input never hears of it, while a text
\* field has the focus; only a press of a key looks at the modifiers.
ImGuiHandlesPress(gui, c) == gui /\ c \in Keys /\ want

\* Mutant: releases are handled like presses.
ReleaseLikePress(gui, c) == ImGuiHandlesPress(gui, c)

ImGuiHandlesRelease(gui, c) == FALSE

ImGuiPressed(gui, c) ==
    /\ ioDown' = IF gui THEN ioDown \cup {c} ELSE ioDown
    /\ ioMods' = IF gui /\ c \in Keys THEN ioDown' \cap Modifiers ELSE ioMods

\* Only a press sets the flags again: a released modifier keeps its own.
ImGuiReleased(gui, c) ==
    /\ ioDown' = IF gui THEN ioDown \ {c} ELSE ioDown
    /\ UNCHANGED ioMods

\* gui: the ImGuiManager exists.  A press is repeated while the key is down.
Press(gui, c) ==
    /\ c \in down => c \in Keys
    /\ down' = down \cup {c}
    /\ ImGuiPressed(gui, c)
    /\ IF ImGuiHandlesPress(gui, c) THEN UNCHANGED <<held, pressed>>
                                    ELSE OnPressed(c, c \in down)
    /\ UNCHANGED <<mode, ioOver, want>>

Release(gui, c) ==
    /\ c \in down
    /\ down' = down \ {c}
    /\ ImGuiReleased(gui, c)
    /\ IF ImGuiHandlesRelease(gui, c) THEN UNCHANGED <<held, pressed>>
                                      ELSE OnReleased(c)
    /\ UNCHANGED <<mode, ioOver, want>>

\* ImGui follows the cursor only while it is visible.
ImGuiFollows(gui) == gui /\ mode = "visible"

Move(gui, over) ==
    /\ ioOver' = IF ImGuiFollows(gui) THEN over ELSE ioOver
    /\ UNCHANGED <<down, held, pressed, mode, ioDown, ioMods, want>>

ResetPressed ==
    /\ pressed' = {}
    /\ UNCHANGED <<down, held, mode, ioDown, ioMods, ioOver, want>>

\* EditorCameraController::HandleMouse: a click captures the cursor, and the
\* first call that finds the button up gives it back.
HandleMouse ==
    mode' = IF Right \in held
              THEN IF Right \in pressed THEN "captured" ELSE mode
              ELSE "visible"
-----------------------------------------------------------------------------
InputTypeOK ==
    /\ {down, held, pressed, ioDown} \subseteq SUBSET (Keys \cup Buttons)
    /\ ioMods \subseteq Modifiers
    /\ mode \in {"visible", "captured"}
    /\ {ioOver, want} \subseteq BOOLEAN

\* Nobody believes that a key is held which has been let go: Input may miss a
\* press, but then it misses the release at most, and a key it takes for
\* pressed it also takes for held.  ImGui misses no modifier that it takes for
\* held; it may have the flag of one that has been let go (FlagsCatchUp).
HeldIsDown ==
    /\ pressed \subseteq held /\ held \subseteq down
    /\ ioDown \subseteq down /\ ioDown \cap Modifiers \subseteq ioMods
=============================================================================
