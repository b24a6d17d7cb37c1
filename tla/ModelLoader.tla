---------------------------- MODULE ModelLoader ----------------------------
(***************************************************************************)
(* Model and its loaders: what becomes of the triangles, the nodes and the *)
(* materials of a file.  The parsers of the formats are libraries; here a  *)
(* file is what they return.  A transform is the sequence of the nodes     *)
(* whose local matrices are multiplied, outermost first, and a vertex is   *)
(* [transform, point]: a point in the space of the file and what it is     *)
(* multiplied with.  Files count from 0.                                   *)
(***************************************************************************)
EXTENDS Integers, Sequences, SequencesExt, FiniteSets, TLC

NoMaterial == -1

At(seq, k) == seq[k + 1]

Placed(transform, point) == [transform |-> transform, point |-> point]

\* What new Vertex[] and resize leave in the vertices that are not written.
Blank == Placed(<<>>, "origin")

\* A mesh as it is drawn: the index buffer into the vertex buffer, and the
\* points its box was grown around.
Mesh(indices, vertices, boxed, material) ==
    [indices |-> indices, vertices |-> vertices, boxed |-> boxed, material |-> material]
-----------------------------------------------------------------------------
(* glTF.  A primitive is [positions, indices, material].                   *)

\* meshopt_optimizeVertexFetch, in place: the vertices in the order of their
\* first use; those past the last one used stay as they are.
FetchOrder(indices) ==
    FoldLeft(LAMBDA order, i : IF Contains(order, i) THEN order ELSE Append(order, i), <<>>, indices)

OptimizeVertexFetch(indices, vertices) ==
    LET order == FetchOrder(indices)
    IN  [indices |-> [k \in DOMAIN indices |-> SelectInSeq(order, LAMBDA i : i = indices[k]) - 1],
         vertices |-> [k \in DOMAIN vertices |->
                         IF k <= Len(order) THEN At(vertices, order[k]) ELSE vertices[k]],
         used |-> Len(order)]

\* The constructor of Mesh that optimises.  meshopt_simplify leaves out
\* triangles of little size: all but those it keeps.
OptimisedMesh(indices, vertices, kept, material) ==
    LET left == FlattenSeq([t \in 1 .. Len(indices) \div 3 |->
                   IF t \in kept THEN SubSeq(indices, 3 * t - 2, 3 * t) ELSE <<>>])
        fetched == OptimizeVertexFetch(left, vertices)
    IN  Mesh(fetched.indices, SubSeq(fetched.vertices, 1, fetched.used), ToSet(fetched.vertices), material)

\* LoadMesh makes as many vertices as there are indices and writes every position:
\* with more of these it writes past the end, and anything may come of it.
Overruns(primitive) == Len(primitive.positions) > Len(primitive.indices)

Undefined == Mesh(<<>>, <<>>, {}, NoMaterial)

LoadPrimitive(primitive, transform, kept) ==
    IF Overruns(primitive) THEN Undefined
    ELSE OptimisedMesh(primitive.indices,
                       [k \in DOMAIN primitive.indices |->
                           IF k \in DOMAIN primitive.positions
                           THEN Placed(transform, primitive.positions[k]) ELSE Blank],
                       kept, primitive.material)

\* The node's own meshes before its children's.  A child is given the local
\* matrix of its parent, not its world matrix.
RECURSIVE LoadNode(_, _, _, _)
LoadNode(file, n, parent, kept) ==
    LET node == At(file.nodes, n)
    IN  (IF node.mesh < 0 THEN <<>>
         ELSE LET mesh == At(file.meshes, node.mesh)
              IN  [p \in DOMAIN mesh |-> LoadPrimitive(mesh[p], parent \o <<n>>, kept)])
        \o FlattenSeq([c \in DOMAIN node.children |-> LoadNode(file, node.children[c], <<n>>, kept)])

\* Every texture that has an image; a material finds its own by the number of
\* the image, not of the texture.
LoadedTextures(file) == SelectSeq(file.textures, LAMBDA source : source # -1)

TextureName(file, index) ==
    IF index < 0 THEN NoMaterial
    ELSE LET source == At(file.textures, index)
         IN  IF source >= 0 /\ source < Len(LoadedTextures(file))
             THEN At(LoadedTextures(file), source) ELSE NoMaterial

LoadGLTF(file, kept) ==
    LET scene == At(file.scenes, IF file.defaultScene > 0 THEN file.defaultScene ELSE 0)
    IN  FlattenSeq([k \in DOMAIN scene |-> LoadNode(file, scene[k], <<>>, kept)])
-----------------------------------------------------------------------------
(* FBX.  A mesh is [triangles, materials, count, node]: the corners of each *)
(* triangle, the material of each or << >>, how many materials it has, and  *)
(* the node it hangs from.                                                  *)

\* The axis of a file that points up becomes y.
FixOrientation(up, v) ==
    CASE up = "Y_UP" -> v
      [] up = "Z_UP" -> <<v[1], v[3], -v[2]>>
      [] up = "Z_MINUS_UP" -> <<v[1], -v[3], v[2]>>
      [] up = "X_MINUS_UP" -> <<v[2], -v[1], v[3]>>
      [] up = "X_UP" -> <<-v[2], v[1], v[3]>>

\* The parents' transforms first; parent[n] is -1 at the root.
GetTransform(parent, node) ==
    LET above[n \in DOMAIN parent] == IF parent[n] = -1 THEN <<n>> ELSE Append(above[parent[n]], n)
    IN  above[node]

\* LoadMesh of the triangles start .. end: the vertices are used in the order
\* they are stored in.
LoadTriangles(file, mesh, start, end) ==
    LET corners == FlattenSeq(SubSeq(mesh.triangles, start + 1, end + 1))
        vertices == [k \in DOMAIN corners |-> Placed(GetTransform(file.parent, mesh.node), corners[k])]
    IN  Mesh([k \in DOMAIN corners |-> k - 1], vertices, ToSet(vertices),
             CASE mesh.count = 0 -> NoMaterial
               [] mesh.count > 0 /\ mesh.materials # <<>> -> At(mesh.materials, start)
               [] OTHER -> 0)

\* The triangles of each run of one material that is over.
CutRanges(materials) ==
    FoldLeftDomain(LAMBDA r, k :
        IF k = 1 \/ materials[k] = materials[r.start + 1] THEN r
        ELSE [start |-> k - 1, done |-> Append(r.done, <<r.start, k - 2>>)],
        [start |-> 0, done |-> <<>>], materials)

\* A mutant: the last run is not closed.
RangesUnfinished(materials) == CutRanges(materials).done

\* The maximal runs of triangles of one material.
Ranges(materials) ==
    Append(CutRanges(materials).done, <<CutRanges(materials).start, Len(materials) - 1>>)

LoadFBXMesh(file, mesh) ==
    CASE mesh.triangles = <<>> -> <<>>
      [] mesh.triangles # <<>> /\ (mesh.count < 2 \/ mesh.materials = <<>>) ->
            <<LoadTriangles(file, mesh, 0, Len(mesh.triangles) - 1)>>
      [] OTHER ->
            LET ranges == Ranges(mesh.materials)
            IN  [r \in DOMAIN ranges |-> LoadTriangles(file, mesh, ranges[r][1], ranges[r][2])]

LoadFBX(file) == FlattenSeq([k \in DOMAIN file.meshes |-> LoadFBXMesh(file, file.meshes[k])])

\* LoadTexture: where a texture of that name is looked for, a name being
\* [folder, file]; the first that exists is read.
LookedFor(name) == <<name, [name EXCEPT !.folder = ""], [name EXCEPT !.folder = "textures"]>>

LoadTexture(name, disk) == SelectSeq(LookedFor(name), LAMBDA n : n \in disk)
-----------------------------------------------------------------------------
(* OBJ.  A shape is [corners, material]; the material is that of the first *)
(* face, for all of them.                                                  *)

\* A corner equal to one before it is drawn with the vertex of that one; its
\* own place in the buffer is never filled.
Unify(corners) ==
    FoldLeftDomain(LAMBDA m, i :
        IF corners[i] \in DOMAIN m.unique
        THEN [m EXCEPT !.indices[i] = m.unique[corners[i]]]
        ELSE [unique |-> (corners[i] :> i - 1) @@ m.unique,
              vertices |-> [m.vertices EXCEPT ![i] = Placed(<<>>, corners[i])],
              indices |-> [m.indices EXCEPT ![i] = i - 1]],
        [unique |-> <<>>, vertices |-> [k \in DOMAIN corners |-> Blank],
         indices |-> [k \in DOMAIN corners |-> 0]], corners)

\* LoadMaterialTextures: each texture of a shape is read once, whichever of
\* its maps it is for.
LoadMaterialTextures(loaded, name) ==
    IF Contains(loaded, name) THEN loaded ELSE Append(loaded, name)

\* The maps in the order they are read: the specular highlights come last and
\* take the place of the metallic map.
ReadMaps(names) ==
    FoldLeft(LAMBDA m, map :
        IF names[map[1]] = "" THEN m
        ELSE [files |-> LoadMaterialTextures(m.files, names[map[1]]),
              textures |-> (map[2] :> names[map[1]]) @@ m.textures],
        [files |-> <<>>, textures |-> <<>>],
        <<<<"diffuse", "albedo">>, <<"bump", "normal">>, <<"roughness", "roughness">>,
          <<"metallic", "metallic">>, <<"specular", "metallic">>>>)

LoadShape(shape) ==
    LET m == Unify(shape.corners)
    IN  Mesh(m.indices, m.vertices, {Placed(<<>>, c) : c \in ToSet(shape.corners)}, shape.material)

LoadOBJ(file) == [k \in DOMAIN file.shapes |-> LoadShape(file.shapes[k])]
=============================================================================
