----------------------------- MODULE MeshFactory -----------------------------
(***************************************************************************)
(* The index buffers of the shapes the engine makes itself (MeshFactory,   *)
(* Terrain), of the quads of its batches, and the normals it derives.      *)
(* A vertex is known by where it lies: a point of a named ring and segment *)
(* for round shapes, integer coordinates for the others.  A mesh is        *)
(* [points |-> a sequence of places, indices |-> a sequence of 0, 1, ...]. *)
(***************************************************************************)
EXTENDS Integers, Sequences, SequencesExt, FiniteSets

Mesh(points, indices) == [points |-> points, indices |-> indices]
-----------------------------------------------------------------------------
(* Round shapes: rows of segments + 1 vertices, the last on top of the     *)
(* first.  A ring of no width is one point.                                *)

Place(ring, wide, segments, i) ==
    [ring |-> ring, at |-> IF wide THEN i % segments ELSE 0]

Row(ring, wide, segments) == [k \in 1 .. segments + 1 |-> Place(ring, wide, segments, k - 1)]

\* The rows first, first + 1, ... first + n - 1 joined to strips, one quad a turn.
Grid(first, n, segments, Join(_, _, _)) ==
    FlattenSeq([j \in 1 .. n - 1 |->
        FlattenSeq([i \in 1 .. segments |->
            LET row == first + j * (segments + 1)
            IN  Join(row - (segments + 1), row, i)])])

\* Two triangles of CreateCapsule and CreateCylinder.
Quad(prevrow, thisrow, i) ==
    <<thisrow + i - 1, prevrow + i, prevrow + i - 1,
      thisrow + i - 1, thisrow + i, prevrow + i>>

\* CreateSphere leaves out the triangles that would be lines at the poles.
CreateSphere(segments, stacks) ==
    LET lower(k1, k2) == <<k1, k2, k1 + 1>>
        upper(k1, k2) == <<k1 + 1, k2, k2 + 1>>
        join(prevrow, thisrow, i) ==
            LET k1 == prevrow + i - 1
                k2 == thisrow + i - 1
            IN  (IF prevrow # 0 THEN lower(k1, k2) ELSE <<>>)
                \o (IF thisrow # stacks * (segments + 1) THEN upper(k1, k2) ELSE <<>>)
    IN  Mesh(FlattenSeq([i \in 1 .. stacks + 1 |->
                Row(i - 1, i - 1 \notin {0, stacks}, segments)]),
             Grid(0, stacks + 1, segments, join))

\* CreateCapsule: two half spheres and a cylinder, each of rings + 2 rows; the
\* rows where they meet lie in the same place.
CreateCapsule(segments, rings) ==
    LET rows == rings + 2
        part(p) == FlattenSeq([j \in 1 .. rows |->
                     Row(p * (rows - 1) + j, <<p, j>> \notin {<<0, 1>>, <<2, rows>>}, segments)])
        size == rows * (segments + 1)
    IN  Mesh(part(0) \o part(1) \o part(2),
             Grid(0, rows, segments, Quad) \o Grid(size, rows, segments, Quad)
               \o Grid(2 * size, rows, segments, Quad))

\* A cap of CreateCylinder: a centre and a row of its own, turned the other way
\* at the bottom.
Cap(centre, segments, Turn(_, _, _)) ==
    FlattenSeq([i \in 1 .. segments |-> Turn(centre + i, centre + i + 1, centre)])

\* A mutant: both caps are turned the same way.
BottomSame(a, b, centre) == <<a, b, centre>>

Top(a, b, centre) == <<a, b, centre>>
Bottom(a, b, centre) == <<b, a, centre>>

\* top, bottom: whether that radius is positive.
CreateCylinder(segments, rings, top, bottom) ==
    LET rows  == rings + 2
        wide(j) == (j # 1 \/ top) /\ (j # rows \/ bottom)
        side  == FlattenSeq([j \in 1 .. rows |-> Row(j, wide(j), segments)])
        cap(ring) == <<Place(ring + 100, FALSE, segments, 0)>> \o Row(ring, TRUE, segments)
        above == IF top THEN cap(1) ELSE <<>>
        under == IF bottom THEN cap(rows) ELSE <<>>
    IN  Mesh(side \o above \o under,
             Grid(0, rows, segments, Quad)
               \o (IF top THEN Cap(Len(side), segments, Top) ELSE <<>>)
               \o (IF bottom THEN Cap(Len(side \o above), segments, Bottom) ELSE <<>>))
-----------------------------------------------------------------------------
(* Flat shapes. *)

\* A quad of its four corners, as CreateQuad, CreatePlane and the batches of
\* sprites, texts and points draw it.
QuadIndices(offset) ==
    <<offset, offset + 1, offset + 2, offset + 2, offset + 3, offset>>

\* The index buffer of a batch of n quads.
BatchIndices(n) == FlattenSeq([k \in 1 .. n |-> QuadIndices(4 * (k - 1))])

CreateQuad == Mesh(<< <<-1, -1, 0>>, <<1, -1, 0>>, <<1, 1, 0>>, <<-1, 1, 0>> >>, QuadIndices(0))

\* CreatePyramid makes a flat quad.
CreatePyramid ==
    Mesh(<< <<-1, 0, -1>>, <<1, 0, -1>>, <<1, 0, 1>>, <<-1, 0, 1>> >>, <<0, 1, 2, 0, 2, 3>>)

\* The six faces of CreateCube, each with its normal and corners in order.
CubeFaces ==
    << [normal |-> << 0,  0,  1>>, corners |-> << << 1, 1, 1>>, <<-1, 1, 1>>, <<-1, -1, 1>>, << 1, -1, 1>> >>],
       [normal |-> << 1,  0,  0>>, corners |-> << << 1, 1, 1>>, << 1, -1, 1>>, << 1, -1, -1>>, << 1, 1, -1>> >>],
       [normal |-> << 0,  1,  0>>, corners |-> << << 1, 1, 1>>, << 1, 1, -1>>, <<-1, 1, -1>>, <<-1, 1, 1>> >>],
       [normal |-> <<-1,  0,  0>>, corners |-> << <<-1, 1, 1>>, <<-1, 1, -1>>, <<-1, -1, -1>>, <<-1, -1, 1>> >>],
       [normal |-> << 0, -1,  0>>, corners |-> << <<-1, -1, -1>>, << 1, -1, -1>>, << 1, -1, 1>>, <<-1, -1, 1>> >>],
       [normal |-> << 0,  0, -1>>, corners |-> << << 1, -1, -1>>, <<-1, -1, -1>>, <<-1, 1, -1>>, << 1, 1, -1>> >>] >>

CreateCube ==
    Mesh(FlattenSeq([f \in 1 .. 6 |-> CubeFaces[f].corners]),
         FlattenSeq([f \in 1 .. 6 |->
            LET a == 4 * (f - 1) IN <<a, a + 1, a + 2, a, a + 2, a + 3>>]))

\* The cube's box is made of its first eight vertices only.
CubeBoxPoints == SubSeq(CreateCube.points, 1, 8)

\* Terrain: vertices are stored at offset (x * width) + z, and the last quad of
\* the grid is left out.
TerrainOffset(width, x, z) == x * width + z

Terrain(width, height) ==
    LET at(x, z) == TerrainOffset(width, x, z)
        quads == FlattenSeq([x \in 1 .. width - 1 |-> [z \in 1 .. height - 1 |->
                   LET a == at(x - 1, z - 1)
                       b == at(x, z - 1)
                       c == at(x, z)
                       d == at(x - 1, z)
                   IN  <<c, b, a, a, d, c>>]])
    IN  [offsets |-> {at(x, z) : x \in 0 .. width - 1, z \in 0 .. height - 1},
         vertices |-> width * height,
         indices |-> FlattenSeq(Front(quads))]
-----------------------------------------------------------------------------
Triangles(mesh) ==
    [t \in 1 .. Len(mesh.indices) \div 3 |->
        [k \in 0 .. 2 |-> mesh.points[mesh.indices[3 * t - 2 + k] + 1]]]

\* The directed edges of the triangles that have an area.
Edges(mesh) ==
    LET solid == SelectSeq(Triangles(mesh),
                   LAMBDA t : t[0] # t[1] /\ t[1] # t[2] /\ t[2] # t[0])
    IN  FlattenSeq([k \in DOMAIN solid |->
          <<<<solid[k][0], solid[k][1]>>, <<solid[k][1], solid[k][2]>>,
            <<solid[k][2], solid[k][0]>>>>])

IndicesInRange(mesh) == \A k \in DOMAIN mesh.indices : mesh.indices[k] \in 0 .. Len(mesh.points) - 1

\* Every edge is passed once in each direction: the surface has no hole and no
\* triangle that faces inwards while its neighbour faces outwards.
Closed(mesh) ==
    LET edges == Edges(mesh)
    IN  /\ IsInjective(edges)
        /\ \A e \in ToSet(edges) : <<e[2], e[1]>> \in ToSet(edges)
-----------------------------------------------------------------------------
(* GenerateNormals: the cross product of two sides, added up over the      *)
(* triangles of a vertex.  The call to normalize is without effect.        *)

Cross(u, v) ==
    <<u[2] * v[3] - u[3] * v[2], u[3] * v[1] - u[1] * v[3], u[1] * v[2] - u[2] * v[1]>>
Side(p, q) == <<q[1] - p[1], q[2] - p[2], q[3] - p[3]>>

FaceNormal(t) == Cross(Side(t[0], t[1]), Side(t[0], t[2]))

GenerateNormals(mesh) ==
    LET triangles == Triangles(mesh)
        add(acc, k) ==
            [v \in DOMAIN acc |->
                IF \E c \in 0 .. 2 : mesh.indices[3 * k - 2 + c] + 1 = v
                THEN [i \in 1 .. 3 |-> acc[v][i] + FaceNormal(triangles[k])[i]]
                ELSE acc[v]]
    IN  FoldLeftDomain(add, [v \in DOMAIN mesh.points |-> <<0, 0, 0>>], triangles)
=============================================================================
