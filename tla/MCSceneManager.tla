--------------------------- MODULE MCSceneManager ---------------------------
(***************************************************************************)
(* Values of SceneManager's constants for TLC: an ordinary name, the name  *)
(* of the empty scene, and a name with something that looks like a file    *)
(* extension.  One scene has a file, which holds another's name.           *)
(***************************************************************************)
EXTENDS SceneManager

MCNames == {"Empty Scene", "Level", "Level.2"}
MCStrip == [n \in MCNames |-> IF n = "Level.2" THEN "Level" ELSE n]
MCStored == [n \in {"Level"} |-> "Level.2"]
=============================================================================
