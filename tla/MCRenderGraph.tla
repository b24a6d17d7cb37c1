---------------------------- MODULE MCRenderGraph ----------------------------
(***************************************************************************)
(* Scenes for RenderGraph: every effect alone, all of them and all but     *)
(* one, without and with meshes, casters and an environment; every short   *)
(* queue of sprites of three textures and of plain ones, up to some that   *)
(* need a batch too many; texts that just fit, and texts that do not: one  *)
(* too long, several too long together, too many fonts.                    *)
(***************************************************************************)
EXTENDS RenderGraph, TLC

Scene(on, env, meshes, casters) ==
    [on |-> on, env |-> env, meshes |-> meshes, casters |-> casters,
     sprites |-> <<>>, texts |-> <<>>]

Effects == {{}, Features} \cup {{f} : f \in Features} \cup {Features \ {f} : f \in Features}

Textures == {"a", "b", "c"}

(* Up to a renaming of the textures. *)
Queues ==
    {q \in UNION {[1 .. n -> Textures \cup {NoTexture}] : n \in 0 .. 5} :
       \A i \in DOMAIN q :
         /\ q[i] = "b" => \E j \in 1 .. i : q[j] = "a"
         /\ q[i] = "c" => \E j \in 1 .. i : q[j] = "b"}

Text(font, glyphs) == [font |-> font, glyphs |-> glyphs]

TextQueues ==
    {<<Text("a", 1), Text("b", 1)>>, <<Text("b", 0), Text("a", 1), Text("a", 1)>>,
     <<Text("a", 2), Text("b", 0)>>, <<Text("a", 0)>>,
     <<Text("a", 1), Text("b", 2)>>, <<Text("a", 2), Text("a", 1), Text("b", 1)>>,
     <<Text("a", 4)>>, <<Text("a", 1), Text("b", 0), Text("c", 1)>>}

MCScenes ==
    {Scene(on, TRUE, TRUE, TRUE) : on \in Effects}
    \cup {Scene({"3d", "sky", "shadow"}, e, m, c) : e, m, c \in BOOLEAN}
    \cup {[Scene({"2d"}, FALSE, FALSE, FALSE) EXCEPT !.sprites = q] : q \in Queues}
    \cup {[Scene(on, TRUE, TRUE, TRUE) EXCEPT !.sprites = <<"a">>, !.texts = t] :
            t \in TextQueues, on \in {{"2d"}, Features}}

MCShapes ==
    {Shape("thick", FALSE, 1), Shape("thick", TRUE, 12), Shape("line", TRUE, 1),
     Shape("line", FALSE, LightLines("spot")), Shape("point", TRUE, 1),
     Shape("triangle", FALSE, 1), Shape("triangle", TRUE, 2)}

(* Bounds: shapes are only asked for when nothing but the debug pass is on, and *)
(* queues of several sprites only come in the first frame.                      *)
DebugAlone == submitted # <<>> /\ stage # "idle" => scene.on = {"debug"}
SpritesFirst == stage = "clear" /\ Len(scene.sprites) > 1 => ~lut

(* Between two frames the last scene does not matter. *)
View == IF stage = "idle"
        THEN <<compute, levels, main, post, envMap, cubeMap, marked, lut, gpu.layout,
               lists, submitted, "idle">>
        ELSE <<vars>>
=============================================================================
