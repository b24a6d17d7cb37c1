--------------------------- MODULE AnimatedSprite ---------------------------
(***************************************************************************)
(* Sprites that step through the frames of the state they are in.  A       *)
(* sprite is a record: states (a mode, a number of frames and a duration   *)
(* for each name), the name of its state, the frame, the timer, whether it *)
(* goes forward, and the frame its coordinates were last made for.         *)
(* Frames count from 0; a frame below 0 stands for an index that wrapped.  *)
(***************************************************************************)
EXTENDS Integers

\* The constructor with frames.
NewSprite(frames, duration, name) ==
    [states |-> [n \in {name} |-> [mode |-> "Loop", frames |-> frames, duration |-> duration]],
     state |-> name, frame |-> 0, timer |-> 0, forward |-> TRUE, shown |-> 0]

\* Without frames the coordinates are those of the whole texture.
GetAnimatedUVs(sprite) ==
    [sprite EXCEPT !.shown =
        IF sprite.state \notin DOMAIN sprite.states \/ sprite.states[sprite.state].frames = 0
        THEN -1 ELSE sprite.frame]

\* The frame after the duration of one, and the direction.
Turn(sprite, current) ==
    LET last == sprite.forward /\ sprite.frame = current.frames - 1
    IN  CASE last /\ current.mode = "PingPong" -> [sprite EXCEPT !.frame = @ - 1, !.forward = FALSE]
          [] last /\ current.mode # "PingPong" -> [sprite EXCEPT !.frame = 0]
          [] sprite.forward /\ ~last -> [sprite EXCEPT !.frame = @ + 1]
          [] ~sprite.forward /\ sprite.frame = 0 -> [sprite EXCEPT !.frame = 1, !.forward = TRUE]
          [] OTHER -> [sprite EXCEPT !.frame = @ - 1]

OnUpdate(sprite, dt) ==
    LET timer == sprite.timer + dt
        current == sprite.states[sprite.state]
    IN  IF sprite.state \notin DOMAIN sprite.states THEN sprite
        ELSE IF timer < current.duration THEN [sprite EXCEPT !.timer = timer]
        ELSE GetAnimatedUVs(Turn([sprite EXCEPT !.timer = 0], current))

AddState(sprite, frames, duration, name) ==
    [sprite EXCEPT !.states =
        [n \in DOMAIN @ \cup {name} |->
            IF n = name THEN [mode |-> "Loop", frames |-> frames, duration |-> duration] ELSE @[n]]]

\* The direction stays as it was.
SetState(sprite, name) ==
    GetAnimatedUVs([sprite EXCEPT !.state = name, !.frame = 0, !.timer = 0])
=============================================================================
