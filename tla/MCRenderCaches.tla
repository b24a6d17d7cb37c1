--------------------------- MODULE MCRenderCaches ---------------------------
(* The grid of the scene view, whose pipeline is kept, a line pass with    *)
(* the same targets, and the final pass to the swapchain, which has one    *)
(* pipeline for each of its images.                                        *)
EXTENDS RenderCaches, TLC
CONSTANTS view, depth, grid, lines, final
ColourOf == (grid :> {view}) @@ (lines :> {view}) @@ (final :> {})
DepthOf == (grid :> {depth}) @@ (lines :> {depth}) @@ (final :> {})
ClearOf == (grid :> FALSE) @@ (lines :> FALSE) @@ (final :> TRUE)
Symmetry == Permutations(Handles) \cup Permutations(Pointers)
(* Bound: what follows the first "alias" is not explored. *)
NoAlias == "alias" \notin odd
=============================================================================
