---------------------------- MODULE MCAlgorithms ----------------------------
(***************************************************************************)
(* The computations of the program that keep no state, each on every input *)
(* of a small set: one step takes an input for one of them, and the        *)
(* invariants compare what the module computes with a definition of what   *)
(* it is for.  The only thing here that has a state of its own is the      *)
(* library of models with the smart pointers; it runs from a task as well. *)
(***************************************************************************)
EXTENDS MCContent, Geometry, JobGroups, VulkanFormats, AssetLibrary

MF == INSTANCE MeshFactory
ES == INSTANCE EngineShaders
ML == INSTANCE ModelLoader
DS == INSTANCE DeviceSetup
MI == INSTANCE MCInspector
VB == INSTANCE VulkanBuffers
TL == INSTANCE TextLayout
DQ == INSTANCE DrawQueue

None0 == [kind |-> "none"]
-----------------------------------------------------------------------------
(* Inputs. *)

\* Dispatch's two arguments.
TakeJobs ==
    \E jobCount, groupSize \in Uint \ {0} :
        task' = [kind |-> "jobs", jobCount |-> jobCount, groupSize |-> groupSize]

Identity == << <<1, 0, 0>>, <<0, 1, 0>>, <<0, 0, 1>> >>
Turned == << <<0, 0, 1>>, <<0, 1, 0>>, <<-1, 0, 0>> >>
Diagonal == << <<1, -1, 0>>, <<1, 1, 0>>, <<0, 0, 1>> >>
Sheared == << <<1, 0, 2>>, <<0, -1, 0>>, <<0, 1, 1>> >>

Transforms ==
    {[rows |-> r, move |-> m] :
        r \in {Identity, Turned, Diagonal, Sheared}, m \in {<<0, 0, 0>>, <<2, -1, 3>>}}

Boxes == {Box(<<x, y, z>>, <<x + w, y + 1, z + w>>) : x \in {-2, 0}, y \in {-1, 2}, z \in {0, 2}, w \in {0, 2}}

\* A camera that looks along z, in perspective (0.75 .. 4) or orthographic
\* (-3 .. 3), moved along x, and one that looks along the diagonal of x and z.
Perspective(dx) == << <<3, 0, 0, dx>>, <<0, 3, 0, 0>>, <<0, 0, 4, -4>>, <<0, 0, 3, 0>> >>
Orthographic(dx) == << <<1, 0, 0, dx>>, <<0, 1, 0, 0>>, <<0, 0, 1, 0>>, <<0, 0, 0, 3>> >>
Slanted == << <<1, 0, -1, 0>>, <<0, 2, 0, 0>>, <<1, 0, 1, -1>>, <<1, 0, 1, 0>> >>
Views == {Perspective(d) : d \in {-3, 0, 6}} \cup {Orthographic(d) : d \in {0, 4}} \cup {Slanted}

TakeMesh ==
    \E box \in Boxes, transform \in Transforms, view \in Views :
        task' = [kind |-> "mesh", view |-> view, transform |-> transform, box |-> box]

\* With the drawing of meshes on, or off and a frustum left from before.
TakeSprite ==
    \E x, y \in {-4, 0, 1}, w, h \in {1, 3}, transform \in Transforms, view \in Views,
       on3D \in BOOLEAN, left \in Views \cup {NoCamera} :
        task' = [kind |-> "sprite", view |-> view, on3D |-> on3D, left |-> left,
                 sprite |-> [position |-> <<x, y>>, scale |-> <<w, h>>, transform |-> transform]]

\* Radii are hundredths.
TakeLight ==
    \E x, y, z \in -3 .. 3, view \in Views :
        task' = [kind |-> "light", view |-> view, centre |-> <<200 * x, 100 * y, 200 * z>>]

\* Scenes to click in: two models, the first of two meshes, and a sprite, at the
\* place of its entity or away from it.
Scenes ==
    {[models |-> <<[transform |-> [rows |-> r, move |-> <<0, 0, 0>>],
                    meshes |-> <<[box |-> Box(<<1, 0, 0>>, <<2, 1, 1>>), active |-> a],
                                 [box |-> Box(<<-1, -1, 2>>, <<0, 0, 2>>), active |-> TRUE]>>],
                   [transform |-> [rows |-> Identity, move |-> m],
                    meshes |-> <<[box |-> Box(<<0, 0, 0>>, <<2, 1, 1>>), active |-> TRUE]>>]>>,
      sprites |-> <<[position |-> at, scale |-> <<2, 1>>,
                     transform |-> [rows |-> Identity, move |-> <<0, 0, 3>>]]>>] :
        r \in {Identity, Diagonal}, a \in BOOLEAN, m \in {<<0, 0, 1>>, <<3, 0, 0>>, <<-1, 0, -1>>},
        at \in {<<0, 0>>, <<-1, 1>>}}

TakeClick ==
    \E scene \in Scenes, x, y \in -1 .. 2, z \in {-3, 1}, dx, dy \in -1 .. 1, dz \in {-1, 0, 2},
       selected \in {None, <<"model", 1>>}, again \in BOOLEAN :
        /\ <<dx, dy, dz>> # <<0, 0, 0>>
        /\ task' = [kind |-> "click", scene |-> scene, selected |-> selected, again |-> again,
                    ray |-> [origin |-> <<x, y, z>>, dir |-> <<dx, dy, dz>>]]

TakeShape ==
    \E segments \in 3 .. 5, rings \in 0 .. 3, top, bottom \in BOOLEAN :
        task' = [kind |-> "shape", segments |-> segments, rings |-> rings,
                 top |-> top, bottom |-> bottom]

TakeTerrain == \E size \in 2 .. 6 : task' = [kind |-> "terrain", size |-> size]

\* Two boxes and a sphere.
TakeBounds ==
    \E box, other \in Boxes, x \in {-3, 0, 2}, y, z \in {0, 3}, radius \in {1, 3} :
        task' = [kind |-> "bounds", box |-> box, other |-> other,
                 sphere |-> [centre |-> <<x, y, z>>, radius |-> radius]]

TakeBarrier ==
    \E format \in {"R8G8B8A8_UNORM"} \cup ToSet(DepthCandidates),
       oldLayout \in Layouts, newLayout \in Layouts \ {"UNDEFINED", "PREINITIALIZED"} :
        task' = [kind |-> "barrier", format |-> format, old |-> oldLayout, new |-> newLayout]

\* A device attaches one of the two formats of each pair at least, and offers
\* FIFO: Vulkan requires it.
TakeDevice ==
    \E depths \in SUBSET ToSet(DepthCandidates),
       modes \in SUBSET {"MAILBOX", "IMMEDIATE", "FIFO_RELAXED"}, vsync \in BOOLEAN :
        /\ depths \cap {"D24_UNORM_S8_UINT", "D32_SFLOAT_S8_UINT"} # {}
        /\ "D16_UNORM" \in depths
        /\ task' = [kind |-> "device", depths |-> depths, modes |-> modes \cup {"FIFO"},
                    vsync |-> vsync]

\* A loader of Vulkan with any of the extensions that may be missing.
TakeLoader ==
    \E missing \in SUBSET {"EXT_debug_report", "KHR_win32_surface", "KHR_get_physical_device_properties2",
                         DS!Portability},
       layers \in SUBSET {DS!ValidationLayer, "LUNARG_api_dump"}, version \in 1 .. 3, sdk \in {2} :
        task' = [kind |-> "loader", sdk |-> sdk,
                 loader |-> [layers |-> layers, version |-> version,
                             extensions |-> (ToSet(DS!RequiredExtensions) \cup {"KHR_display"}) \ missing]]

\* A family that can draw can compute and copy; another can copy, if it can
\* compute, or do nothing the program knows of.
Families == {{"GRAPHICS", "COMPUTE", "TRANSFER"}, {"COMPUTE", "TRANSFER"}, {"TRANSFER"}, {}}

TakeCard ==
    \E families \in UNION {[1 .. n -> Families] : n \in 1 .. 4},
       features \in SUBSET ({"wideLines", "samplerAnisotropy"} \cup DS!IndexingFeatures), markers \in BOOLEAN :
        /\ \E i \in DOMAIN families : "GRAPHICS" \in families[i]
        /\ task' = [kind |-> "card",
                    card |-> [families |-> families, features |-> features \cup {"geometryShader"},
                              extensions |-> {"KHR_swapchain"} \cup (IF markers THEN {"EXT_debug_utils"} ELSE {})]]

TakeCards ==
    \E cards \in UNION {[1 .. n -> [type : {"DISCRETE_GPU", "INTEGRATED_GPU", "CPU"}, memory : {4, 8}]] : n \in 1 .. 3},
       desired \in -1 .. 2 :
        /\ desired < Len(cards)
        /\ task' = [kind |-> "cards", cards |-> cards, desired |-> desired]

\* A surface of a window; one that allows any number of images says 0.
TakeSurface ==
    \E formats \in {<<f>> : f \in {"UNDEFINED", "R8G8B8A8_UNORM"}} \cup
                   [1 .. 2 -> {"B8G8R8A8_UNORM", "R8G8B8A8_UNORM"}],
       maxImages \in {0, 2, 3, 8}, minImages \in {2, 3, 4},
       alphas \in (SUBSET ToSet(DS!CompositeAlphas)) \ {{}}, transforms \in {{"IDENTITY", "ROTATE_90"}, {"ROTATE_90"}},
       usages \in SUBSET {"TRANSFER_SRC", "TRANSFER_DST", "STORAGE"} :
        /\ maxImages = 0 \/ minImages <= maxImages
        /\ task' = [kind |-> "surface",
                 surface |-> [formats |-> [k \in DOMAIN formats |-> <<formats[k], k>>],
                              minImages |-> minImages, maxImages |-> maxImages, alphas |-> alphas,
                              transforms |-> transforms, current |-> "ROTATE_90",
                              usages |-> usages \cup {"COLOR_ATTACHMENT"}]]

\* What the engine does with its buffers.  A frame binds one and is then run by
\* the card, drawing as many elements as were written.
Data == {<<1>>, <<2, 1>>, <<2, 2>>}
Capacity == 2

FramesOf(kind) ==
    CASE kind = "indices" -> {<<[do |-> "bind"], [do |-> "run"]>>}
      [] kind = "vertices" ->
            {<<[do |-> "set", data |-> d], [do |-> "bind"], [do |-> "run"]>> : d \in Data}
            \cup {<<[do |-> "bind"], [do |-> "run"]>>}
      [] kind = "batch" ->
            {<<[do |-> "bind"], [do |-> "get"], [do |-> "write", data |-> d], [do |-> "release"],
               [do |-> "bind"], [do |-> "run"]>> : d \in Data}
            \cup {<<[do |-> "bind"], [do |-> "get"], [do |-> "run"]>>}
      [] kind = "uniform" ->
            {<<[do |-> "uniform", data |-> d], [do |-> "bind"], [do |-> "run"]>> : d \in {e \in Data : Len(e) = Capacity}}

\* An object of one of these kinds, used for some frames and deleted, perhaps in
\* a frame that the card still has to run.
TakeBuffer ==
    \E kind \in {"indices", "vertices", "batch", "uniform"}, data \in Data, late \in BOOLEAN :
        \E frames \in UNION {[1 .. n -> FramesOf(kind)] : n \in 0 .. 2} :
            task' = [kind |-> "buffer",
                     calls |-> <<[do |-> kind, data |-> data]>> \o FlattenSeq(frames) \o
                               (IF late THEN <<[do |-> "bind"], [do |-> "delete"], [do |-> "run"]>>
                                ELSE <<[do |-> "delete"]>>) \o <<[do |-> "flush"]>>]

\* Cameras that see from 1 to root^4, with a lambda in percent.
TakeSplits ==
    \E root \in 3 .. 10, lambda \in {0, 50, 92, 100} :
        task' = [kind |-> "splits", root |-> root, lambda |-> lambda]

\* What a camera sees, from its near plane to its far one, from two places and
\* in two directions; two splits; and a light along an axis, one in a plane of
\* two of them and one across all three.
Seen(wide, m) ==
    [j \in 1 .. 8 |->
        LET k == (j - 1) % 4
            size == IF j > 4 THEN wide ELSE 1
        IN  Apply(m, <<IF k \in {1, 2} THEN size ELSE -size, IF k < 2 THEN size ELSE -size, IF j > 4 THEN 11 ELSE 1>>)]

Lights == { << << <<0, 1, 0>>, <<0, 0, 1>>, <<1, 0, 0>> >>, 1>>,
            << << <<0, 0, 5>>, <<-4, 3, 0>>, <<3, 4, 0>> >>, 5>>,
            << << <<2, 1, -2>>, <<2, -2, 1>>, <<1, 2, 2>> >>, 3>> }

TakeCascade ==
    \E wide \in {1, 4, 7}, r \in {Identity, Turned}, move \in {<<0, 0, 0>>, <<2, -1, 3>>, <<-5, 4, 1>>},
       splits \in {<<0, 3>>, <<9, 29>>, <<29, 35>>}, light \in Lights :
        task' = [kind |-> "cascade", corners |-> Seen(wide, [rows |-> r, move |-> move]), splits |-> splits,
                 light |-> light[1], length |-> light[2]]

\* Texts of letters, a wide one among them, of spaces, line breaks and a
\* character that the font may have to replace or to leave out.
TakeText ==
    \E n \in 0 .. 8 : \E text \in (IF n < 6 THEN [1 .. n -> {"a", "w", TL!Space, TL!NewLine}] ELSE {}) \cup
                                  (IF n < 5 THEN [1 .. n -> {"a", "x", TL!Space, TL!NewLine}] ELSE {}) \cup
                                  [1 .. n -> {"a", TL!Space}],
       maxWidth \in {2, 3}, question \in BOOLEAN :
        task' = [kind |-> "text", text |-> text, maxWidth |-> maxWidth,
                 font |-> ("a" :> [right |-> 1, advance |-> 1]) @@ ("w" :> [right |-> 3, advance |-> 2]) @@
                          (TL!Space :> [right |-> 0, advance |-> 1]) @@
                          (IF question THEN TL!Unknown :> [right |-> 2, advance |-> 2] ELSE <<>>)]

\* Up to three fonts are made, by one start of the program or by several: one
\* built in and two of files, one of which may be missing or be no font.
TakeFonts ==
    \E n \in 1 .. 3 : \E which, written \in [1 .. n -> 1 .. 3], exists, readable \in BOOLEAN :
        LET fonts == <<TL!DefaultFont({32, 63, 255, 256, 1024}),
                       [name |-> "a", exists |-> TRUE, readable |-> TRUE, codepoints |-> {63, 42655, 42656}],
                       [name |-> "b", exists |-> exists, readable |-> readable, codepoints |-> {31, 97, 11744}]>>
        IN  task' = [kind |-> "fonts", made |-> [k \in 1 .. n |-> fonts[which[k]]],
                     written |-> [k \in 1 .. n |-> <<"whole", "cut", "denied">>[written[k]]]]

\* Meshes in the camera's view, up to three.
Meshes(flags) == [flags : flags, distance : {1, 2}]
TakeQueue ==
    \E meshes \in [1 .. 2 -> Meshes(SUBSET {"DEPTHTEST", "ALPHABLEND", "TWOSIDED"})] \cup
                  [1 .. 3 -> Meshes(SUBSET {"DEPTHTEST", "ALPHABLEND"})] \cup {<<>>},
       depthTest, sprites \in BOOLEAN :
        task' = [kind |-> "queue", meshes |-> [k \in DOMAIN meshes |-> meshes[k] @@ ("name" :> k)],
                 depthTest |-> depthTest, renderer2D |-> sprites]

TakeCross == \E width, height \in 1 .. 3 : task' = [kind |-> "cross", width |-> 3 * width, height |-> 4 * height]

TakeViewport ==
    \E width, height \in 1 .. 2, flip \in BOOLEAN :
        task' = [kind |-> "viewport", width |-> width, height |-> height, flip |-> flip]

\* LoadImageFromFile always makes four channels, of 8 bits or of 32 (HDR).
TakeImage ==
    \E bits \in {32, 128}, srgb \in BOOLEAN :
        task' = [kind |-> "image", bits |-> bits, srgb |-> srgb]

TakePass ==
    \E pass \in ES!Passes, wideLines \in BOOLEAN :
        task' = [kind |-> "pass", pass |-> pass, wideLines |-> wideLines]

\* A shader of the library written as a file: a part for each stage, in any
\* order, with empty lines around them.
TakeShaderFile ==
    \E name \in {"ForwardPBR", "Bloom", "BloomComp"} :
        \E order \in SetToAllKPermutations(DOMAIN ES!Library[name].stages) :
            /\ Len(order) = Len(ES!Library[name].stages)
            /\ task' = [kind |-> "file", name |-> name, order |-> order]

\* A glTF file of three nodes, beside each other or one under the other, each with
\* one of three meshes or none; the third has a position that no index names.
Quad4 == [positions |-> <<"a", "b", "c", "d">>, indices |-> <<0, 1, 2, 2, 3, 0>>, material |-> 0]
Pair == <<[positions |-> <<"e", "f", "g">>, indices |-> <<2, 0, 1>>, material |-> 1],
          [positions |-> <<"h", "i", "j", "k">>, indices |-> <<3, 1, 0, 3, 2, 1>>, material |-> 0]>>
Loose == <<[positions |-> <<"l", "m", "n", "o">>, indices |-> <<0, 1, 2>>, material |-> 1]>>

TakeGLTF ==
    \E below \in {<<<<1, 2>>, <<>>, <<>>>>, <<<<2>>, <<>>, <<>>>>, <<<<>>, <<2>>, <<>>>>, <<<<1>>, <<2>>, <<>>>>},
       scene \in -1 .. 1,
       meshes \in [1 .. 3 -> -1 .. 2], kept \in {{1}, {2}, {1, 2}} :
        task' = [kind |-> "gltf", kept |-> kept,
                 file |-> [nodes |-> [n \in 1 .. 3 |-> [mesh |-> meshes[n], children |-> below[n]]],
                           meshes |-> <<<<Quad4>>, Pair, Loose>>, scenes |-> <<<<0, 1>>, <<1>>>>,
                           defaultScene |-> scene]]

TakeGLTFTexture ==
    \E textures \in UNION {[1 .. n -> -1 .. 2] : n \in 1 .. 3}, index \in -1 .. 2 :
        /\ index < Len(textures)
        /\ task' = [kind |-> "texture", textures |-> textures, index |-> index]

\* An FBX file: node 3 hangs from 2, and 2 from 1; the first mesh has up to
\* four triangles, the second two.
TakeFBX ==
    \E materials \in UNION {[1 .. n -> 0 .. 2] : n \in 0 .. 4}, listed \in BOOLEAN, count \in 0 .. 3, node \in 1 .. 3 :
        /\ \A k \in DOMAIN materials : materials[k] < count \/ count = 0
        /\ task' = [kind |-> "fbx",
                    file |-> [parent |-> <<-1, 1, 2>>,
                              meshes |-> <<[node |-> node, count |-> count,
                                            materials |-> IF listed THEN materials ELSE <<>>,
                                            triangles |-> [t \in DOMAIN materials |-> <<<<t, 1>>, <<t, 2>>, <<t, 3>>>>]],
                                           [node |-> 2, count |-> 2, materials |-> <<1, 0>>,
                                            triangles |-> <<<<<<9, 1>>, <<9, 2>>, <<9, 3>>>>, <<<<9, 3>>, <<9, 4>>, <<9, 1>>>>>>]>>]]

TakeOrientation ==
    \E up \in {"Y_UP", "Z_UP", "Z_MINUS_UP", "X_MINUS_UP", "X_UP"} :
        task' = [kind |-> "up", up |-> up]

TakeOBJ ==
    \E corners \in [1 .. 3 -> {"a", "b", "c"}] \cup [1 .. 6 -> {"a", "b"}], other \in [1 .. 3 -> {"a", "b"}] :
        task' = [kind |-> "obj", file |-> [shapes |-> <<[corners |-> corners, material |-> 0],
                                                        [corners |-> other, material |-> 1]>>]]

TakeMaps ==
    \E names \in [{"diffuse", "bump", "roughness", "metallic", "specular"} -> {"", "s", "t"}] :
        task' = [kind |-> "maps", names |-> names]

TakeTextureFile ==
    \E disk \in SUBSET {[folder |-> f, file |-> n] : f \in {"", "textures", "sub"}, n \in {"s", "t"}} :
        task' = [kind |-> "lookup", disk |-> disk, name |-> [folder |-> "sub", file |-> "s"]]

TakeLibrary == task' = [kind |-> "library"]

Init == task = None0 /\ LibraryInit

Take ==
    \/ TakeJobs \/ TakeMesh \/ TakeSprite \/ TakeLight \/ TakeClick
    \/ TakeBounds \/ TakeShape \/ TakeTerrain \/ TakeBarrier \/ TakeDevice \/ TakeImage
    \/ TakeLoader \/ TakeCard \/ TakeCards \/ TakeSurface \/ TakeBuffer
    \/ TakeSplits \/ TakeCascade \/ TakeText \/ TakeFonts \/ TakeCross
    \/ TakeQueue \/ TakeViewport
    \/ TakePass \/ TakeShaderFile
    \/ TakePath \/ TakeScene \/ TakeOldScene \/ TakeProject \/ TakeAnimation
    \/ TakeGLTF \/ TakeGLTFTexture \/ TakeFBX \/ TakeOrientation \/ TakeOBJ \/ TakeMaps \/ TakeTextureFile
    \/ MI!TakeEdits \/ MI!TakeRows \/ MI!TakeWindows \/ MI!TakeMotion \/ TakeLibrary

Next ==
    \/ task = None0 /\ Take /\ UNCHANGED libraryVars
    \/ task.kind = "library" /\ LibraryNext /\ UNCHANGED task

Spec == Init /\ [][Next]_<<task, libraryVars>>
-----------------------------------------------------------------------------
\* Dispatch hands every job index to exactly one group, and every group is a
\* non-empty range of at most groupSize indices, as long as the sum that
\* rounds up does not overflow (DispatchGroupCount and the loop of Dispatch).
GroupsPartitionJobs ==
    task.kind = "jobs" /\ NoOverflow(task.jobCount, task.groupSize) =>
        /\ Partition(task.jobCount, task.groupSize)
        /\ GroupsFit(task.jobCount, task.groupSize)

Lattice(b) == {<<x, y, z>> : x \in b.min[1] .. b.max[1], y \in b.min[2] .. b.max[2], z \in b.min[3] .. b.max[3]}

Touched(points, transform, view) == \E p \in points : Visible(view, Apply(transform, p))

SpritePoints(sprite) ==
    {<<sprite.position[1] + i, sprite.position[2] + j, 0>> :
        i \in 0 .. sprite.scale[1], j \in 0 .. sprite.scale[2]}

\* Some of the points a light of radius 1 reaches.
Reach == {<<0, 0, 0>>, <<100, 0, 0>>, <<-100, 0, 0>>, <<60, 80, 0>>, <<0, 60, -80>>, <<0, 0, 100>>}

\* BeginScene never leaves out what the camera would show: a mesh of which a
\* point of its box is within the clip volume after the entity's transform, a
\* sprite of which a point is, a light that reaches into it, or the icon of one.
\* Sprites are excepted while the drawing of meshes is off and the camera is not
\* the one of the last frame with it on, whose frustum they are tested with.
CullingSafe ==
    /\ (task.kind = "mesh" /\ Touched(Lattice(task.box), task.transform, task.view)) =>
         1 \in Shown([transform |-> task.transform,
                      meshes |-> <<[box |-> task.box, active |-> TRUE]>>], task.view)
    /\ (/\ task.kind = "sprite"
        /\ task.on3D \/ task.left = task.view
        /\ Touched(SpritePoints(task.sprite), task.sprite.transform, task.view)) =>
         SpriteShown(task.sprite, FrustumView(task.on3D, task.view, task.left))
    /\ (task.kind = "light" /\ \E d \in Reach : Visible(task.view, Plus(task.centre, d))) =>
         LightShown([type |-> "point", position |-> task.centre, radius |-> 1], task.view)
    /\ (task.kind = "light" /\ Visible(task.view, task.centre)) =>
         FrustumHasPoint(task.view, task.centre)

\* BoundingBox tells exactly whether a box or a sphere lies within it, apart
\* from it or across its faces, and the union of two boxes is the smallest box
\* around both (IsInside, Merge and SetFromPoints).
ContainmentExact ==
    task.kind = "bounds" =>
        LET within  == Lattice(task.box)
            other   == Lattice(task.other)
            reach   == {p \in within : InSphere(task.sphere, p)}
            extreme == {Plus(task.sphere.centre, Vec(LAMBDA i : IF i = axis THEN s * task.sphere.radius ELSE 0)) :
                           axis \in Axes, s \in {1, -1}}
            verdict(apart, inside) == IF apart THEN "OUTSIDE" ELSE IF inside THEN "INSIDE" ELSE "INTERSECTS"
            union   == MergeBox(task.box, task.other)
        IN  /\ BoxInBox(task.box, task.other) = verdict(within \cap other = {}, other \subseteq within)
            /\ SphereInBox(task.box, task.sphere) = verdict(reach = {}, \A p \in extreme : InBox(task.box, p))
            /\ union = BoxOfPoints(<<task.box.min, task.other.min, task.other.max, task.box.max>>)
            /\ \A b \in {task.box, task.other} : InBox(union, b.min) /\ InBox(union, b.max)
            /\ \A i \in Axes : /\ union.min[i] \in {task.box.min[i], task.other.min[i]}
                              /\ union.max[i] \in {task.box.max[i], task.other.max[i]}

\* The first half step of the ray that lies in the box, by trying them.
Reached(b, ray) ==
    LET within(k) == \A i \in Axes : LET at == 2 * ray.origin[i] + k * ray.dir[i]
                                 IN  2 * b.min[i] <= at /\ at <= 2 * b.max[i]
    IN  {k \in 0 .. 16 : within(k)}

Candidates(scene) ==
    {<<<<"model", k>>, Transformed(scene.models[k].meshes[n].box, scene.models[k].transform)>> :
        <<k, n>> \in {kn \in (1 .. 2) \X (1 .. 2) :
            kn[2] \in DOMAIN scene.models[kn[1]].meshes /\ scene.models[kn[1]].meshes[kn[2]].active}}

\* A click selects a model whose box the ray meets first; with nothing
\* selected before, a sprite that it meets earlier (SelectObject, Intersects).
\* A second click on the selected model after a second drops the selection.
\* Excepted are clicks that look at sprites away from their entity's place, for
\* which SelectObject makes a wrong box (PickBox).
SpritesInPlace(sprites) == \A k \in DOMAIN sprites : sprites[k].position = <<0, 0>>

PickNearest ==
    task.kind = "click" /\ (task.selected # None \/ SpritesInPlace(task.scene.sprites)) =>
        LET models  == Candidates(task.scene)
            sprites == {<<<<"sprite", k>>, SpriteBox(task.scene.sprites[k])>> : k \in DOMAIN task.scene.sprites}
            asked   == IF task.selected = None THEN models \cup sprites ELSE models
            first   == {c \in asked : \E k \in Reached(c[2], task.ray) :
                          \A d \in asked : \A l \in Reached(d[2], task.ray) : k <= l}
            picked  == SelectObject(task.scene.models, task.scene.sprites, task.ray,
                                    task.selected, task.again)
        IN  \/ picked \in {c[1] : c \in first}
            \/ picked = None /\ first = {}
            \/ picked = None /\ task.selected \in {c[1] : c \in first} /\ ~task.again

\* With the lambda the render graph starts with, the maps cover one part of the
\* view after the other if the camera sees at least 256 times as far as its near
\* plane, and not if it sees 81 times as far: the last split is fixed.
SplitsOrdered ==
    task.kind = "splits" /\ task.lambda = 92 =>
        (task.root >= 4 <=>
        \A i \in 1 .. ShadowMapNum :
            (IF i = 1 THEN 0 ELSE CascadeSplit(task.root, task.lambda, i - 1)) < CascadeSplit(task.root, task.lambda, i))

\* Whatever of the view lies between two splits falls into the shadow map, but
\* for the half texel that the map may be moved; moved it is so that the grid of
\* texels stays where it is in the world.
CornerInMap(centre, light, length, radius, unit, p) ==
    /\ \A i \in 1 .. 2 : 2 * Abs(Texel(centre, light[i], unit, p)) <= (ShadowMapSize + 1) * unit
    /\ CascadeDepth(centre, light[3], unit, p) >= CascadeNear * 800 * length
    /\ CascadeDepth(centre, light[3], unit, p) <= CascadeFar(radius) * 800 * length

SliceInMap(slice, centre, light, length, radius) ==
    /\ \A i \in 1 .. 2 : Texel(centre, light[i], TexelUnit(radius, length), <<0, 0, 0>>) % TexelUnit(radius, length) = 0
    /\ \A j \in DOMAIN slice : CornerInMap(centre, light, length, radius, TexelUnit(radius, length), slice[j])

CascadeCovers(slice, centre) == SliceInMap(slice, centre, task.light, task.length, CascadeRadius(slice, centre))
CornersCovered(slice) == CascadeCovers(slice, SliceCentre(slice))

CascadesCover ==
    /\ SplitsOrdered
    /\ task.kind = "cascade" => CornersCovered(SliceCorners(task.corners, task.splits[1], task.splits[2]))

\* What is drawn and what a click finds are decided by boxes, and decided
\* right: nothing that can be seen is left out, the boxes are what they stand
\* for, and the nearest one is picked.
BoundsSound == CullingSafe /\ ContainmentExact /\ PickNearest /\ CascadesCover

\* The surfaces the engine makes are closed and face one way: every edge of a
\* triangle is the reverse of an edge of exactly one other, for every number
\* of segments and rings, and no index is past the vertices (MeshFactory).
MeshesClosed ==
    task.kind = "shape" =>
        LET shapes == {MF!CreateSphere(task.segments, task.rings + 2),
                       MF!CreateCapsule(task.segments, task.rings),
                       MF!CreateCylinder(task.segments, task.rings, task.top, task.bottom),
                       MF!CreateCube}
        IN  /\ \A s \in shapes : MF!IndicesInRange(s) /\ MF!Closed(s)
            /\ \A k \in 1 .. Len(MF!BatchIndices(task.segments)) :
                 MF!BatchIndices(task.segments)[k] \in 0 .. 4 * task.segments - 1

\* The vertices of a terrain fill its buffer, each once, and its triangles use
\* vertices of the buffer; the normals of a cube's corners face outwards.
VerticesFilled ==
    /\ task.kind = "terrain" =>
         LET t == MF!Terrain(task.size, task.size)
         IN  /\ t.offsets = 0 .. t.vertices - 1
             /\ ToSet(t.indices) \subseteq t.offsets
    /\ task.kind = "shape" =>
         \A v \in DOMAIN MF!CreateCube.points :
            LET n == MF!GenerateNormals(MF!CreateCube)[v]
                declared == MF!CubeFaces[((v - 1) \div 4) + 1].normal
            IN  \A i \in Axes : (n[i] > 0) = (declared[i] > 0) /\ (n[i] < 0) = (declared[i] < 0)

\* The box of a flat shape or of the cube is the smallest around its vertices;
\* the cube's is made of its first eight vertices only.
BoxesHold ==
    task.kind = "shape" =>
        /\ BoxOfPoints(MF!CubeBoxPoints) = BoxOfPoints(MF!CreateCube.points)
        /\ \A shape \in {MF!CreateCube, MF!CreateQuad, MF!CreatePyramid} :
              /\ MF!IndicesInRange(shape)
              /\ \A k \in DOMAIN shape.points : InBox(BoxOfPoints(shape.points), shape.points[k])

\* A text is broken at its spaces, in order, and not at all if it fits as it is
\* (unbroken); all of its other characters are drawn, once and in order; and what
\* is drawn beyond the width has no space before it on its line to break at.
TextFits(text, font, maxWidth, breaks, quads, unbroken) ==
    /\ \A k \in DOMAIN breaks : text[breaks[k]] = TL!Space /\ (k > 1 => breaks[k - 1] < breaks[k])
    /\ (\A k \in DOMAIN unbroken : unbroken[k].right <= maxWidth) => breaks = <<>>
    /\ [k \in DOMAIN quads |-> quads[k].of] =
         SelectSeq([i \in DOMAIN text |-> i],
                   LAMBDA i : ~Contains(breaks, i) /\ text[i] # TL!NewLine /\ TL!HasGlyph(font, text[i]))
    /\ \A k \in DOMAIN quads :
         quads[k].right > maxWidth /\ text[quads[k].of] # TL!Space =>
             \A l \in 1 .. k - 1 : quads[l].line = quads[k].line => text[quads[l].of] # TL!Space

DrawnText(text, font, maxWidth, breaks) ==
    TextFits(text, font, maxWidth, breaks, TL!Quads(text, font, breaks), TL!Quads(text, font, <<>>))

TextsFit ==
    task.kind = "text" =>
        DrawnText(task.text, task.font, task.maxWidth, TL!NextLines(task.text, task.font, task.maxWidth))

\* The cache after the fonts before the k-th.
RECURSIVE CacheBefore(_)
CacheBefore(k) ==
    IF k = 1 THEN <<>> ELSE TL!InitFont(CacheBefore(k - 1), task.made[k - 1], task.written[k - 1]).cache

\* A font has a picture of those of its glyphs that the program asks for, as if
\* there were no cache, unless the file that keeps it was cut short; and one
\* that cannot be read has none and leaves the cache alone.
FontsRead ==
    task.kind = "fonts" => \A k \in DOMAIN task.made :
        LET font == task.made[k]
            made == TL!InitFont(CacheBefore(k), font, task.written[k])
            cut  == \E j \in 1 .. k - 1 : task.made[j] = font /\ task.written[j] = "cut"
        IN  IF ~(font.exists /\ font.readable) THEN made = [cache |-> CacheBefore(k), atlas |-> TL!NoAtlas]
            ELSE cut \/ made.atlas = [header |-> TL!Packed(made.atlas.pixels),
                                      pixels |-> font.codepoints \ {31, 256, 42656}]

\* Where the cube's middle sees the pixel of a layer, for faces of n by n.
Direction(layer, n, x, y) ==
    LET s == 2 * x + 1 - n
        t == 2 * y + 1 - n
    IN  CASE layer = 1 -> <<n, -t, -s>>  [] layer = 2 -> <<-n, -t, s>>
          [] layer = 3 -> <<s, n, t>>    [] layer = 4 -> <<s, -n, -t>>
          [] layer = 5 -> <<s, -t, n>>   [] layer = 6 -> <<-s, -t, -n>>

Places(size) == (1 .. 6) \X (0 .. size.width - 1) \X (0 .. size.height - 1)
At(size, p) == LayerPixel(size, p[1], p[2], p[3])

\* Folded, what were neighbours in the picture are neighbours on the cube: two
\* pixels of a face, or of two faces that share the edge between them.
Folds(size) ==
    /\ Cardinality({At(size, p) : p \in Places(size)}) = 6 * size.width * size.height
    /\ size.width = size.height =>
         \A p, q \in Places(size) :
            LET a == At(size, p)
                b == At(size, q)
                d == Minus(Direction(p[1], size.width, p[2], p[3]), Direction(q[1], size.width, q[2], q[3]))
            IN  Abs(a[1] - b[1]) + Abs(a[2] - b[2]) = 1 => Dot(d, d) = IF p[1] = q[1] THEN 4 ELSE 2

\* Every pixel of the cross is on one face, and the faces meet as they did on it.
CrossFolds == task.kind = "cross" => Folds(FaceSize(task))

\* The meshes the engine makes are surfaces without holes that face one way,
\* within their buffers and their boxes, a cross folds to a cube, texts stay in
\* their width where that can be and fonts have the glyphs they are made with
\* (MeshFactory, Terrain, VKTextureCube, TextPass, Font).
ShapesSound == MeshesClosed /\ VerticesFilled /\ BoxesHold /\ CrossFolds /\ TextsFit /\ FontsRead

\* What Vulkan allows each access in.
Supporting(access) ==
    CASE access \in {"SHADER_READ", "SHADER_WRITE"} -> Shaders
      [] access = "INPUT_ATTACHMENT_READ" -> {"FRAGMENT_SHADER"}
      [] access \in {"COLOR_ATTACHMENT_READ", "COLOR_ATTACHMENT_WRITE"} -> {"COLOR_ATTACHMENT_OUTPUT"}
      [] access \in {"DEPTH_STENCIL_ATTACHMENT_READ", "DEPTH_STENCIL_ATTACHMENT_WRITE"} -> DepthTests
      [] access \in {"TRANSFER_READ", "TRANSFER_WRITE"} -> {"TRANSFER"}
      [] access = "HOST_WRITE" -> {"HOST"}
      [] OTHER -> Shaders \cup DepthTests \cup
                  {"TRANSFER", "HOST", "COLOR_ATTACHMENT_OUTPUT", "TOP_OF_PIPE", "BOTTOM_OF_PIPE"}

\* A barrier of TransitionImageLayout waits in some stage and holds up some
\* stage, and each kind of access it makes available or visible is one that a
\* stage of its side performs.
BarriersLegal ==
    task.kind = "barrier" =>
        LET b == TransitionImageLayout(task.format, task.old, task.new)
        IN  /\ b.srcStages # {} /\ b.dstStages # {}
            /\ \A a \in b.src : Supporting(a) \cap b.srcStages # {}
            /\ \A a \in b.dst : Supporting(a) \cap b.dstStages # {}

PixelBits == [R8G8B8A8_UNORM |-> 32, R8G8B8A8_SRGB |-> 32, R32G32B32A32_SFLOAT |-> 128]
HasStencil == {"D32_SFLOAT_S8_UINT", "D24_UNORM_S8_UINT", "D16_UNORM_S8_UINT"}

\* On every device Vulkan admits, the depth format found is one the engine can
\* name again and whose barriers cover both of its aspects, the present mode is
\* one the surface offers, and an image is uploaded in a format whose pixels
\* have as many bits as the loader made.
ChoicesFit ==
    /\ task.kind = "device" =>
         LET depth == FindDepthFormat(task.depths)
         IN  /\ depth \in task.depths
             /\ FormatToVK(VKToFormat(depth), FALSE) = depth
             /\ ("STENCIL" \in AspectMask(depth)) = (depth \in HasStencil)
             /\ ChoosePresentMode(task.modes, task.vsync) \in task.modes
    /\ task.kind = "image" =>
         LET format == BitsToFormat(task.bits)
         IN  /\ PixelBits[FormatToVK(format, task.srgb)] = task.bits
             /\ GetBitsFromFormat(format) = task.bits

NoObject ==
    [size |-> 0, asked |-> 0, handle |-> VB!Null, mapped |-> VB!Null, held |-> FALSE, made |-> 0,
     blocks |-> <<>>, queue |-> <<>>, bound |-> <<>>, faults |-> {}, last |-> <<>>]

\* The card reads what was last written through every handle of the frame.
Run(s) ==
    [s EXCEPT !.bound = <<>>,
              !.faults = @ \cup
                 {"read after free" : h \in {k \in ToSet(s.bound) : k \notin VB!Live(s)}} \cup
                 {"read something else" : h \in {k \in ToSet(s.bound) \cap VB!Live(s) :
                                                   ~IsPrefix(s.last, s.blocks[k].holds)}}]

Call(s, c) ==
    CASE c.do = "indices"  -> [VB!NewIndices(s, c.data) EXCEPT !.last = c.data]
      [] c.do = "vertices" -> [VB!SetVertices(VB!New(s), c.data) EXCEPT !.last = c.data]
      [] c.do = "batch"    -> VB!ResizeVertices(VB!New(s), Capacity)
      [] c.do = "uniform" /\ s.handle = VB!Null -> VB!NewUniform(s, Capacity)
      [] c.do = "uniform" /\ s.handle # VB!Null -> [VB!SetUniform(s, c.data) EXCEPT !.last = c.data]
      [] c.do = "set"      -> [VB!SetVertices(s, c.data) EXCEPT !.last = c.data]
      [] c.do = "get"      -> VB!GetPointer(s)
      [] c.do = "write"    -> [VB!memcpy(s, s.mapped, c.data) EXCEPT !.last = c.data]
      [] c.do = "release"  -> VB!ReleasePointer(s)
      [] c.do = "bind"     -> VB!Bind(s)
      [] c.do = "run"      -> Run(s)
      [] c.do = "delete"   -> VB!Deleted(s)
      [] c.do = "flush"    -> VB!FlushDeletors(s)

\* Nothing is written where it may not be, the card reads from buffers that
\* still exist what the program wrote last, and in the end every block of memory
\* has been given back, once and unmapped.  A batch of sprites has room for as
\* many as the render graph puts into one.
BuffersSound ==
    /\ task.kind = "buffer" =>
         LET s == FoldLeft(Call, NoObject, task.calls) IN s.faults = {} /\ VB!Live(s) = {} /\ s.queue = <<>>
    /\ VB!Capacity("sprites") = VB!MaxPrimitives

\* An instance is made of what the loader has, and a debug callback only with its
\* extension.  The flag for portability is set with its extension if the loader
\* has that, and without it if not, which Vulkan does not accept.
InstanceLegal ==
    task.kind = "loader" =>
        LET instance == DS!CreateInstance(task.loader, task.sdk)
        IN  /\ ToSet(instance.layers) \subseteq task.loader.layers
            /\ ToSet(instance.extensions) \subseteq task.loader.extensions
            /\ instance.version <= task.loader.version /\ instance.version <= task.sdk
            /\ DS!Portability \in task.loader.extensions => DS!Portability \in ToSet(instance.extensions)
            /\ DS!DebugCallbackSet(instance) => "EXT_debug_report" \in task.loader.extensions

\* The card asked for is taken, or else one no other beats; every family is
\* asked for a queue once, every queue that is used later is one of those and
\* can do what it is for, computing and copying away from drawing where the
\* card can.  No extension the card lacks is asked for and of the features it
\* lacks none but the two of descriptor indexing, which are not looked up: such a
\* card refuses the device.
DeviceLegal ==
    /\ task.kind = "cards" =>
         LET chosen == DS!Chosen(task.cards, task.desired)
         IN  /\ chosen # {} /\ chosen \subseteq DOMAIN task.cards
             /\ task.desired = -1 => \A k \in chosen, c \in ToSet(task.cards) :
                    c.type = "DISCRETE_GPU" => /\ task.cards[k].type = "DISCRETE_GPU"
                                              /\ task.cards[k].memory >= c.memory
    /\ task.kind = "card" =>
         LET families == task.card.families
             found    == DS!GetQueueFamilyIndices(families)
             device   == DS!CreateDevice(task.card)
             capable  == [graphics |-> "GRAPHICS", present |-> "GRAPHICS", compute |-> "COMPUTE"]
         IN  /\ IsInjective(device.queues) /\ ToSet(device.queues) \subseteq DOMAIN families
             /\ \A q \in DOMAIN capable : /\ device.taken[q] \in ToSet(device.queues)
                                         /\ capable[q] \in families[device.taken[q]]
             /\ found.transfer \in ToSet(device.queues) /\ "TRANSFER" \in families[found.transfer]
             /\ \A i \in DOMAIN families :
                  /\ families[i] = {"COMPUTE", "TRANSFER"} => "GRAPHICS" \notin families[found.compute]
                  /\ families[i] = {"TRANSFER"} => families[found.transfer] = {"TRANSFER"}
             /\ device.features \ DS!IndexingFeatures \subseteq task.card.features
             /\ device.extensions \subseteq task.card.extensions

\* The swapchain is asked for with what its surface has; as many images as it
\* allows, if it says how many at most (the code takes "any number" for none) and
\* does not want more than three.
SwapchainLegal ==
    task.kind = "surface" =>
        LET s == task.surface
            r == DS!SwapchainRequest(s)
        IN  /\ s.maxImages # 0 /\ s.minImages <= 3 => r.images \in s.minImages .. s.maxImages
            /\ r.format \in ToSet(s.formats) \/ s.formats = <<<<"UNDEFINED", r.format[2]>>>>
            /\ r.alpha \in s.alphas /\ r.transform \in s.transforms /\ r.usage \subseteq s.usages

\* What the program asks of Vulkan is something it accepts: an instance, a
\* device and a swapchain of what the machine has, with the three exceptions named
\* above, legal barriers, and formats and present modes the device offers
\* (VKContext, VKDevice, VKSwapChain, VKUtilities).
RequestsLegal ==
    InstanceLegal /\ DeviceLegal /\ SwapchainLegal /\ BarriersLegal /\ ChoicesFit /\ BuffersSound

\* A vertex of the program, laid out field after field.
FieldOffset(vertex, k) == FoldLeft(LAMBDA sum, size : sum + size, 0, SubSeq(vertex, 1, k - 1))

\* The pipeline reads the vertices as the program writes them.
VerticesRead(pass, pipeline) ==
    /\ pipeline.stride = FieldOffset(pass.vertex, Len(pass.vertex) + 1)
    /\ {a.offset : a \in ToSet(pipeline.attributes)} = {FieldOffset(pass.vertex, k) : k \in DOMAIN pass.vertex}
    /\ {a.location : a \in ToSet(pipeline.attributes)} = 0 .. Len(pass.vertex) - 1

\* Every set the pipeline has is bound, with a layout it accepts, although it
\* may have been made for another shader.
SetsAccepted(pass, pipeline) ==
    /\ Len(pipeline.layouts) = Len(pass.sets)
    /\ \A k \in DOMAIN pass.sets :
         /\ pipeline.layouts[k] = ES!SetLayouts(ES!Library[pass.sets[k].shader])[pass.sets[k].index + 1]
         /\ \A a, b \in pipeline.layouts[k] : a.binding = b.binding => a = b

\* What the pass sets exists in the shader and has the size it takes for
\* granted, no two uniforms of a buffer overlap, and no picture the shader
\* reads is left unset.
SetsFilled(set) ==
    LET descriptors == ES!GetDescriptorInfo(ES!Library[set.shader], set.index)
        written(u) == ES!SetUniform(descriptors, u[1], u[2])
    IN  /\ \A u \in set.uniforms : Cardinality(written(u)) \in 1 .. u[3]
        /\ \A u, v \in set.uniforms : u[1] = v[1] /\ u # v => written(u) \cap written(v) = {}
        /\ \A a \in set.arrays : ES!SetUniformSized(descriptors, a[1], a[2], a[3]) \subseteq written(a)
        /\ \A b \in set.buffers : \E d \in ToSet(descriptors) :
              d.type = "UNIFORM_BUFFER" /\ d.name = b[1] /\ d.size = b[2]
        /\ \A t \in set.textures : ES!SetTexture(descriptors, t) # {}
        /\ \A d \in ToSet(descriptors) :
              d.type # "UNIFORM_BUFFER" /\ d.count = 1 => d.binding \in UNION {ES!SetTexture(descriptors, t) : t \in set.textures}

PushFits(pass) ==
    pass.push = ES!NoPush \/
        LET blocks == ES!PushConstants(ES!Library[pass.shader])
        IN  /\ blocks # <<>>
            /\ \A w \in pass.push.raw : ES!Bytes(w[1], w[2]) \subseteq 0 .. blocks[1].size - 1
            /\ \A n \in pass.push.named :
                 ES!SetValue(blocks[1], n) # {} /\ ES!SetValue(blocks[1], n) \subseteq 0 .. blocks[1].size - 1

\* Each attachment is cleared with a value of its kind and drawn into in the
\* layout of its kind, each framebuffer has what the render pass expects at
\* each position, and the one that is bound exists.
TargetsMatch(pass, pipeline) ==
    LET isDepth(t) == t.type \in {"DEPTH", "DEPTHARRAY"}
        desc == ES!TransitionAttachments(pass.desc)
        attachments == ES!Attachments(desc, ES!SwapImages[1])
        values == ES!ClearValues(pipeline.pass)
    IN  /\ Len(pipeline.pass.depths) <= 1 /\ Len(pipeline.pass.attachments) > 0
        /\ pass.desc.clearTargets => \A k \in DOMAIN attachments : (values[k] = "depth") = isDepth(attachments[k])
        /\ \A c \in ToSet(pipeline.pass.colours) : c.layout = "COLOR_ATTACHMENT_OPTIMAL"
        /\ \A d \in ToSet(pipeline.pass.depths) : d.layout = "DEPTH_STENCIL_ATTACHMENT_OPTIMAL"
        /\ \A framebuffer \in ToSet(pipeline.framebuffers) :
             /\ Len(framebuffer.targets) = Len(attachments)
             /\ \A k \in DOMAIN attachments :
                  /\ framebuffer.targets[k].type = attachments[k].type
                  /\ framebuffer.targets[k].layout = attachments[k].layout
                  /\ framebuffer.views[k][1] = "mip" => framebuffer.views[k][2] < attachments[k].mips
        /\ ES!IsInjective(pipeline.framebuffers)
        /\ Len(pipeline.blend) = Len(pipeline.pass.colours)
        /\ \A image \in 0 .. Len(ES!SwapImages) - 1, layer \in 0 .. 3 :
             ES!BoundFramebuffer(pass.desc, image, layer) \in DOMAIN pipeline.framebuffers
        /\ pipeline.dynamic \subseteq ES!BoundStates(pass.desc)

\* The device is made without fillModeNonSolid, and without wideLines lines
\* are one pixel wide; what is drawn as lines are lines, and no pass throws
\* away both sides of what it draws.
RasterLegal(pass, pipeline) ==
    /\ pipeline.fill = "FILL" /\ pipeline.cull # "FRONT_AND_BACK"
    /\ ~task.wideLines => pipeline.lineWidth = 1
    /\ (pipeline.topology = "LINE_LIST") = (pass.shader = "Batch2DLine")

\* The passes of the render graph and the shaders they draw with agree, on
\* vertices, sets, uniforms, push constants and targets (VKShader reflects
\* the binaries, VKPipeline and VKRenderPass build from a description).
PassesAgree ==
    task.kind = "pass" =>
        LET pass == task.pass
            shader == ES!Library[pass.shader]
            pipeline == ES!PipelineOf(pass.desc, shader, ES!SwapImages, task.wideLines)
        IN  /\ ES!IsCompiled(shader) /\ pipeline.stages = Len(shader.stages)
            /\ SetsAccepted(pass, pipeline) /\ PushFits(pass)
            /\ \A k \in DOMAIN pass.sets : SetsFilled(pass.sets[k])
            /\ ~pipeline.compute => /\ VerticesRead(pass, pipeline) /\ TargetsMatch(pass, pipeline)
                                    /\ RasterLegal(pass, pipeline)

\* A shader is the same whether it is built in or read from a file whose
\* parts are written in another order (ReadShaderFile, Init).
FilesAgree ==
    task.kind = "file" =>
        LET shader == ES!Library[task.name]
            text == FlattenSeq([k \in DOMAIN task.order |->
                       LET stage == shader.stages[task.order[k]]
                       IN  <<[name |-> ""], [tag |-> stage.type], [name |-> stage.type],
                             [tag |-> "UNKNOWN"], [name |-> ""]>>])
            disk == [t \in ToSet(shader.types) |-> shader.stages[CHOOSE k \in DOMAIN shader.types : shader.types[k] = t]]
        IN  ES!FromFile(text, disk) = shader

\* A queue is sorted by an order, as std::sort asks for: one in which what is
\* not before the other is a group.
StrictWeakOrder(before(_, _), S) ==
    /\ \A a, b \in S : before(a, b) => ~before(b, a)
    /\ \A a, b, c \in S : before(a, c) => before(a, b) \/ before(b, c)

\* The call that begins the render pass a draw is in.
BegunFor(calls, k) == Max({j \in 0 .. k - 1 : j = 0 \/ calls[j].do # "draw"})

\* Render passes follow each other, none within another, and each draw is in one.
PassesFollow(c) ==
    /\ c.bound = DQ!NoPipeline
    /\ \A k \in DOMAIN c.calls :
         LET last == BegunFor(c.calls, k)
             open == last # 0 /\ c.calls[last].do = "begin"
         IN  open = (c.calls[k].do # "begin")
    /\ c.calls = <<>> \/ Last(c.calls).do = "end"

Draws(c) == SelectSeq([k \in DOMAIN c.calls |-> k], LAMBDA k : c.calls[k].do = "draw")
DrawnAs(c) == [i \in DOMAIN Draws(c) |->
                 [mesh |-> c.calls[Draws(c)[i]].mesh, pipeline |-> c.calls[BegunFor(c.calls, Draws(c)[i])].pipeline]]

\* Each mesh that is drawn at all has the cull mode and the blending its material
\* asks for, and what has depths to test is drawn against them.
AskedFor(command) ==
    /\ (command.pipeline.cullMode = "NONE") = ("TWOSIDED" \in command.mesh.flags)
    /\ command.pipeline.transparencyEnabled = ("ALPHABLEND" \in command.mesh.flags)
    /\ task.depthTest /\ "DEPTHTEST" \in command.mesh.flags => command.pipeline.depthTarget

QueueKept(queue, depths, colours) ==
    /\ PassesFollow(depths) /\ PassesFollow(colours)
    /\ ToSet([k \in DOMAIN queue |-> queue[k].mesh]) = ToSet(task.meshes) /\ Len(queue) = Len(task.meshes)
    /\ DrawnAs(colours) = queue
    /\ \A k \in DOMAIN queue : AskedFor(queue[k])
    /\ task.renderer2D => \A j, k \in DOMAIN queue :
         j < k => /\ "DEPTHTEST" \in queue[k].mesh.flags => "DEPTHTEST" \in queue[j].mesh.flags
                  /\ queue[j].mesh.flags = queue[k].mesh.flags => queue[j].mesh.distance <= queue[k].mesh.distance
    /\ {d.mesh : d \in ToSet(DrawnAs(depths))} =
         {m \in ToSet(task.meshes) : "DEPTHTEST" \in m.flags /\ "ALPHABLEND" \notin m.flags}
    /\ \A d \in ToSet(DrawnAs(depths)) : d.pipeline = DQ!DepthOnly

QueueSorted(queue) ==
    QueueKept(queue, DQ!DepthPrePass(DQ!NewCommandBuffer, queue), DQ!ForwardPass(DQ!NewCommandBuffer, queue))

\* Every mesh in view is drawn once, with the pipeline made for it and in a render
\* pass of that pipeline, near before far, after its depth has been where it can
\* hide something; and the picture is as large as its target, upside down or not.
QueueDrawn ==
    /\ task.kind = "queue" =>
         /\ StrictWeakOrder(DQ!DrawnBefore, ToSet(DQ!Commands(task.meshes, task.depthTest)))
         /\ QueueSorted(DQ!SortedQueue(DQ!Commands(task.meshes, task.depthTest), task.renderer2D))
    /\ task.kind = "viewport" =>
         LET v == DQ!Viewport(task.width, task.height, task.flip)
             r == DQ!Scissor(task.width, task.height)
         IN  /\ {v.x, v.x + v.width} = {r.x, r.x + r.width} /\ {v.y, v.y + v.height} = {r.y, r.y + r.height}
             /\ (v.height < 0) = task.flip

\* Pipelines are what the shaders and the passes expect them to be, and every
\* mesh is drawn with its own.
PipelinesLegal == PassesAgree /\ FilesAgree /\ QueueDrawn

\* The corners a mesh draws, in order, each with where it is put.
Drawn(mesh) == [k \in DOMAIN mesh.indices |-> mesh.vertices[mesh.indices[k] + 1]]

\* Every index is one of the vertices, and the box is around all that is drawn.
MeshSound(mesh) ==
    /\ \A i \in ToSet(mesh.indices) : i \in 0 .. Len(mesh.vertices) - 1
    /\ ToSet(Drawn(mesh)) \subseteq mesh.boxed

Triangle(corners, t) == SubSeq(corners, 3 * t - 2, 3 * t)

\* The nodes of a scene, each with those above it.
NodePaths(file, roots) ==
    LET below(paths) == UNION {{Append(p, c) : c \in ToSet(file.nodes[Last(p) + 1].children)} : p \in paths}
        first == {<<r>> : r \in roots}
    IN  first \cup below(first) \cup below(below(first))

\* Every mesh of every node of the scene is drawn once, with its material, where
\* its node and the one above put it, and no triangle but those the simplifier
\* left out is missing or has other corners.  That is where the file puts it unless
\* the node is deeper than its root's children: what is further above is left out.
\* Excepted are files with more positions than indices (Overruns).
GLTFFaithful ==
    task.kind = "gltf" =>
        LET file   == task.file
            placed == NodePaths(file, ToSet(file.scenes[IF task.file.defaultScene = 1 THEN 2 ELSE 1]))
            wanted == {<<path, p>> \in placed \X (1 .. 2) :
                         LET m == file.nodes[Last(path) + 1].mesh IN m # -1 /\ p \in DOMAIN file.meshes[m + 1]}
            primitive(w) == file.meshes[file.nodes[Last(w[1]) + 1].mesh + 1][w[2]]
            applied(path) == IF Len(path) > 2 THEN <<path[Len(path) - 1], Last(path)>> ELSE path
            drawn(w) == [k \in DOMAIN primitive(w).indices |->
                            ML!Placed(applied(w[1]), primitive(w).positions[primitive(w).indices[k] + 1])]
            expected(w) == FlattenSeq([t \in 1 .. Len(drawn(w)) \div 3 |->
                              IF t \in task.kept THEN Triangle(drawn(w), t) ELSE <<>>])
            loaded == ML!LoadGLTF(file, task.kept)
        IN  (\A w \in wanted : ~ML!Overruns(primitive(w))) =>
                /\ \A k \in DOMAIN loaded : MeshSound(loaded[k])
                /\ Len(loaded) = Cardinality(wanted)
                /\ {<<Drawn(m), m.material>> : m \in ToSet(loaded)} =
                      {<<expected(w), primitive(w).material>> : w \in wanted}

\* A material finds the image of its texture if the file lists its textures in
\* the order of its images, and never one that was not loaded.
TexturesFound ==
    task.kind = "texture" =>
        LET found == ML!TextureName([textures |-> task.textures], task.index)
        IN  /\ found \in ToSet(task.textures) \cup {ML!NoMaterial}
            /\ (task.index >= 0 /\ \A k \in DOMAIN task.textures : task.textures[k] = k - 1) =>
                  found = task.textures[task.index + 1]

\* Every triangle of every mesh is in one mesh of the model, that of its own
\* material, where all the nodes above put it.
FBXFaithful ==
    task.kind = "fbx" =>
        LET file == task.file
            loaded == ML!LoadFBX(file)
            own(m, t) == CASE m.count = 0 -> ML!NoMaterial
                           [] m.count > 0 /\ m.materials # <<>> -> m.materials[t]
                           [] OTHER -> 0
            path == <<<<1>>, <<1, 2>>, <<1, 2, 3>>>>
            expected == UNION {{<<[c \in 1 .. 3 |-> ML!Placed(path[m.node], m.triangles[t][c])], own(m, t)>> :
                                    t \in DOMAIN m.triangles} : m \in ToSet(file.meshes)}
            drawn == [k \in DOMAIN loaded |->
                        [t \in 1 .. Len(loaded[k].indices) \div 3 |->
                            <<Triangle(Drawn(loaded[k]), t), loaded[k].material>>]]
        IN  /\ \A k \in DOMAIN loaded : MeshSound(loaded[k])
            /\ IsInjective(FlattenSeq(drawn))
            /\ ToSet(FlattenSeq(drawn)) = expected

Up == [Y_UP |-> <<0, 1, 0>>, Z_UP |-> <<0, 0, 1>>, Z_MINUS_UP |-> <<0, 0, -1>>,
       X_UP |-> <<1, 0, 0>>, X_MINUS_UP |-> <<-1, 0, 0>>]

\* A file is stood up by a rotation: what it calls up becomes y, and nothing
\* is mirrored.
StoodUp ==
    task.kind = "up" =>
        LET x == ML!FixOrientation(task.up, <<1, 0, 0>>)
            y == ML!FixOrientation(task.up, <<0, 1, 0>>)
            z == ML!FixOrientation(task.up, <<0, 0, 1>>)
        IN  /\ ML!FixOrientation(task.up, Up[task.up]) = <<0, 1, 0>>
            /\ MF!Cross(x, y) = z /\ MF!Cross(y, z) = x /\ MF!Cross(z, x) = y

\* Corners that share a vertex are drawn as they are in the file; each texture
\* is read once and the map of the highlights wins; a texture is read if it is
\* in one of the three places, the one the file names first.
OBJFaithful ==
    /\ task.kind = "obj" =>
         LET loaded == ML!LoadOBJ(task.file)
         IN  \A k \in DOMAIN task.file.shapes :
                /\ MeshSound(loaded[k])
                /\ Drawn(loaded[k]) = [c \in DOMAIN task.file.shapes[k].corners |->
                                          ML!Placed(<<>>, task.file.shapes[k].corners[c])]
    /\ task.kind = "maps" =>
         LET m == ML!ReadMaps(task.names)
         IN  /\ IsInjective(m.files) /\ ToSet(m.files) = {task.names[n] : n \in DOMAIN task.names} \ {""}
             /\ task.names["specular"] # "" => m.textures["metallic"] = task.names["specular"]
             /\ {m.textures[t] : t \in DOMAIN m.textures} \subseteq ToSet(m.files)
    /\ task.kind = "lookup" =>
         LET found == ML!LoadTexture(task.name, task.disk)
         IN  /\ task.name \in task.disk => found[1] = task.name
             /\ \A k \in DOMAIN found : found[k].file = task.name.file /\ found[k] \in task.disk

\* A model is drawn as its file describes it (LoadGLTF, LoadFBX, LoadOBJ).
ModelsFaithful == GLTFFaithful /\ TexturesFound /\ FBXFaithful /\ StoodUp /\ OBJFaithful

\* What is kept on disk comes back as it was, and what is edited is drawn.
ContentKept == ContentRestored /\ MI!EditsKept /\ MI!PanelsSound
=============================================================================
