---------------------------- MODULE DebugRenderer ----------------------------
(***************************************************************************)
(* The lines, points and triangles that other code asks to see for one     *)
(* frame (DebugRenderer), and RenderGraph::DebugPass, which draws them.    *)
(* There are two lists: what is depth tested, and what is drawn over the   *)
(* scene (NDT).  Positions and colours are left out: an item is known by   *)
(* the order in which it was submitted and by how many primitives it made. *)
(***************************************************************************)
EXTENDS Naturals, Sequences, SequencesExt

CONSTANT MaxItems       \* bound of the model: items between two resets

VARIABLES
    lists,      \* m_DrawListNDT and m_DrawList, by "is it depth tested"
    submitted,  \* history: the items since the last reset
    shown       \* history: the draw calls of the last DebugPass

debugVars == <<lists, submitted, shown>>

Kinds == {"line", "thick", "point", "triangle"}

Nothing == [kind \in Kinds |-> <<>>]
-----------------------------------------------------------------------------
\* What the public functions make of one shape: n primitives of a kind in the
\* list without (ndt) or with depth test.
Shape(kind, ndt, n) == [kind |-> kind, ndt |-> ndt, n |-> n]

CircleLines(verts) == verts
SphereLines == 3 * CircleLines(20)
ConeLines(verts, spokes) == CircleLines(verts) + spokes
ArcLines(verts) == verts
CapsuleLines == 2 * CircleLines(20) + 20 + 10 * (ArcLines(20) + ArcLines(20))
LightLines(type) ==
    CASE type = "directional" -> 3 + ConeLines(20, 4)
      [] type = "spot"        -> ConeLines(20, 4)
      [] type = "point"       -> SphereLines

\* Every shape a caller can ask for; polygons of Vertices corners.
Vertices == 2 .. 4

Plain ==
    {Shape(kind, ndt, 1) : kind \in Kinds, ndt \in BOOLEAN}
Matrices ==
    {Shape("line", ndt, 3) : ndt \in BOOLEAN}
Polygons ==
    {Shape("triangle", ndt, v - 2) : ndt \in BOOLEAN, v \in Vertices}
Boxes ==
    {Shape("thick", TRUE, n) : n \in {12, 24}}
Frustums ==
    {Shape("line", FALSE, 12)}
Lights ==
    {Shape("line", FALSE, LightLines(t)) : t \in {"directional", "spot", "point"}}
Capsules ==
    {Shape("line", FALSE, CapsuleLines)}

Shapes == Plain \cup Matrices \cup Polygons \cup Boxes \cup Frustums
            \cup Lights \cup Capsules
-----------------------------------------------------------------------------
\* The list a primitive is put into: GenDrawTriangle does not look at ndt.
DepthTested(shape) == shape.kind = "triangle" \/ ~shape.ndt

Item(id, n) == [id |-> id, n |-> n]

Draw(shape) ==
    /\ Len(submitted) < MaxItems
    /\ submitted' = Append(submitted, shape)
    /\ lists' = IF shape.n = 0 THEN lists
                ELSE [lists EXCEPT ![DepthTested(shape)][shape.kind] =
                        Append(@, Item(Len(submitted) + 1, shape.n))]
    /\ UNCHANGED shown

\* Reset forgets both lists.
Cleared == [d \in BOOLEAN |-> Nothing]

Reset ==
    /\ lists' = Cleared
    /\ submitted' = <<>>
    /\ UNCHANGED shown
-----------------------------------------------------------------------------
(***************************************************************************)
(* DebugPass: first the list without depth test, then the other, each kind *)
(* in one draw call.  Thin and thick lines share the line buffers, points  *)
(* have theirs, triangles always use the first buffer of the frame.  A     *)
(* buffer is read when the GPU gets to the call, so it shows what was      *)
(* written to it last.                                                     *)
(***************************************************************************)
Pool(kind) == IF kind = "thick" THEN "line" ELSE kind

\* Indices per primitive.
IndicesOf(kind) ==
    CASE kind \in {"line", "thick"} -> 2
      [] kind = "point"             -> 6
      [] kind = "triangle"          -> 3

SameIndex(next, pool) == next
NextIndex(next, pool) ==
    IF pool = "triangle" THEN next ELSE [next EXCEPT ![pool] = @ + 1]

Primitives(items) == FoldLeft(LAMBDA n, it : n + it.n, 0, items)

\* p.next is the index of the next buffer of each pool (m_LineBatchDrawCallIndex
\* and so on), p.memory what the buffers hold, p.calls the calls recorded.
DrawList(p, depth, kind) ==
    LET items == lists[depth][kind]
        pool  == Pool(kind)
        at    == <<pool, p.next[pool]>>
    IN  IF items = <<>> THEN p
        ELSE [next   |-> NextIndex(p.next, pool),
              memory |-> [b \in DOMAIN p.memory \cup {at} |->
                            IF b = at THEN items ELSE p.memory[b]],
              calls  |-> Append(p.calls,
                           [buffer |-> at, depth |-> depth, kind |-> kind,
                            indices |-> IndicesOf(kind) * Primitives(items)])]

DrawKinds(p, depth) ==
    DrawList(DrawList(DrawList(DrawList(p, depth, "line"), depth, "thick"),
                      depth, "point"), depth, "triangle")

Unrecorded == [next |-> [pool \in {"line", "point", "triangle"} |-> 0],
               memory |-> <<>>, calls |-> <<>>]

Recorded == DrawKinds(DrawKinds(Unrecorded, FALSE), TRUE)

\* What each call shows once the GPU runs it.
Seen(p) ==
    [k \in DOMAIN p.calls |->
        [depth |-> p.calls[k].depth, kind |-> p.calls[k].kind,
         indices |-> p.calls[k].indices, items |-> p.memory[p.calls[k].buffer]]]

DebugPass ==
    /\ shown' = Seen(Recorded)
    /\ UNCHANGED <<lists, submitted>>
-----------------------------------------------------------------------------
DebugInit ==
    /\ lists = Cleared
    /\ submitted = <<>>
    /\ shown = <<>>

\* An item of the last DebugPass.
ShownAs(id, kind, n) ==
    {k \in DOMAIN shown : shown[k].kind = kind /\ Contains(shown[k].items, Item(id, n))}
=============================================================================
