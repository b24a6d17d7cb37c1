------------------------------ MODULE Textures ------------------------------
(***************************************************************************)
(* The textures of the Vulkan renderer (VKTexture.cpp): two-dimensional    *)
(* ones, made empty, from pixels, from a file or around an image of the    *)
(* swapchain, cubes, depth images and arrays of them.  A texture owns an   *)
(* image, a view of it, a sampler, and views of single mip levels, faces   *)
(* or layers; what it no longer needs goes to the deletion queue.          *)
(*                                                                         *)
(* A texture keeps track of the one layout its image is in.  The device    *)
(* has a layout for every level of every layer, and it changes when a      *)
(* command is executed: at once for a command buffer of a single use, with *)
(* the frame for what is recorded into the frame's command buffer.         *)
(***************************************************************************)
EXTENDS Integers, SequencesExt, FiniteSets, FiniteSetsExt

CONSTANTS
    Slots,          \* where textures may be
    Sizes,          \* the longer side of a texture
    CubeFaces,      \* layers of a cube: 6 in the program
    Count,          \* layers of a depth array
    MaxRecorded,    \* bound: commands in a frame, before one more operation
    MaxQueued,      \* bound: handles in the deletion queue before more is made or deleted
    None,           \* VK_NULL_HANDLE
    ScreenSlots     \* bound: the slots for images of the swapchain

ASSUME TexturesAssumption ==
    /\ Sizes \subseteq Nat \ {0}
    /\ {CubeFaces, Count} \subseteq Nat \ {0} /\ {MaxRecorded, MaxQueued} \subseteq Nat

VARIABLES
    textures,       \* the texture in each slot
    handles,        \* what exists on the device: images, views and samplers
    layouts,        \* the layout of every level of every layer of an image
    recorded,       \* the frame's command buffer
    queue,          \* handles in the deletion queue
    faults          \* images a command found in another layout than it was told, or gone

vars == <<textures, handles, layouts, recorded, queue, faults>>

Undefined == "UNDEFINED"
Colour == "COLOR_ATTACHMENT"
DepthDrawn == "DEPTH_STENCIL_ATTACHMENT"
DepthRead == "DEPTH_STENCIL_READ_ONLY"
ShaderRead == "SHADER_READ_ONLY"
Dst == "TRANSFER_DST"
Src == "TRANSFER_SRC"
General == "GENERAL"
Present == "PRESENT_SRC"

\* floor(log2(size)) + 1
MipCount(size) == Cardinality({n \in 0 .. size : 2 ^ n <= size})
-----------------------------------------------------------------------------
(***************************************************************************)
(* The device: a record of its handles, layouts and faults.                *)
(***************************************************************************)
Device == [handles |-> handles, layouts |-> layouts, faults |-> faults]

SetDevice(g) == handles' = g.handles /\ layouts' = g.layouts /\ faults' = g.faults

\* A handle is known by its image, and a view also by what it shows of it; the
\* device gives the number of a destroyed image to a new one.
Image(n) == [type |-> "image", n |-> n]
Sampler(image) == [type |-> "sampler", n |-> image.n]
View(image, shows, faces, levels) ==
    [type |-> "view", n |-> image.n, shows |-> shows, faces |-> faces, levels |-> levels]

Handle ==
    [type : {"image", "sampler"}, n : Nat]
      \cup [type : {"view"}, n : Nat, shows : {"all", "layer", "level"}, faces : SUBSET Nat, levels : SUBSET Nat]

ASSUME NoHandleAssumption == None \notin Handle

\* Some number that no handle has.
FreshImage(g) ==
    LET used == {h.n : h \in g.handles}
    IN  Image(CHOOSE n \in 1 .. Cardinality(used) + 1 : n \notin used)

\* To make what exists already, or to destroy what does not, is a fault.
Make(g, made) ==
    [handles |-> g.handles \cup made, layouts |-> g.layouts, faults |-> g.faults \cup (made \cap g.handles)]

Elements(seq) == {seq[i] : i \in DOMAIN seq}

\* The handles of a sequence, one after the other.
Destroy(g, gone) ==
    LET twice == {i \in DOMAIN gone : \E j \in DOMAIN gone : j < i /\ gone[j] = gone[i]}
        missing == {i \in DOMAIN gone : gone[i] \notin g.handles}
    IN  [handles |-> g.handles \ Elements(gone),
         layouts |-> [image \in DOMAIN g.layouts \ Elements(gone) |-> g.layouts[image]],
         faults  |-> g.faults \cup {gone[i] : i \in twice \cup missing}]

Range0(n) == 0 .. n - 1

CreateImage(g, image, layers, levels) ==
    LET made == Make(g, {image})
    IN  [handles |-> made.handles, faults |-> made.faults,
         layouts |-> [other \in DOMAIN g.layouts \cup {image} |->
                        IF other = image THEN [f \in Range0(layers) |-> [l \in Range0(levels) |-> Undefined]]
                        ELSE g.layouts[other]]]

\* Every command that moves or uses an image: it finds the subresources in the
\* layout old, which UNDEFINED never contradicts, and leaves them in new.
Command(image, faces, levels, old, new) ==
    [image |-> image, faces |-> faces, levels |-> levels, old |-> old, new |-> new]

Use(image, faces, levels, layout) == Command(image, faces, levels, layout, layout)

\* The layout after the first n commands: that of the last one to touch it.
LayoutAfter(g, commands, n, image, f, l) ==
    LET by == {i \in 1 .. n : /\ commands[i].image = image
                              /\ f \in commands[i].faces /\ l \in commands[i].levels}
    IN  IF by = {} THEN g.layouts[image][f][l] ELSE commands[Max(by)].new

\* Does command n find what it was told?
Finds(g, commands, n) ==
    LET c == commands[n]
    IN  /\ c.image \in g.handles
        /\ \A f \in c.faces, l \in c.levels :
              /\ f \in DOMAIN g.layouts[c.image] /\ l \in DOMAIN g.layouts[c.image][f]
              /\ c.old \in {Undefined, LayoutAfter(g, commands, n - 1, c.image, f, l)}

ExecuteAll(g, commands) ==
    [handles |-> g.handles,
     layouts |-> [image \in DOMAIN g.layouts |->
                    [f \in DOMAIN g.layouts[image] |->
                        [l \in DOMAIN g.layouts[image][f] |->
                            LayoutAfter(g, commands, Len(commands), image, f, l)]]],
     faults  |-> g.faults \cup {commands[i].image : i \in {k \in DOMAIN commands : ~Finds(g, commands, k)}}]
-----------------------------------------------------------------------------
(***************************************************************************)
(* A texture.                                                              *)
(***************************************************************************)
NoViews == <<>>

NoTexture == [kind |-> "none"]

Blank(kind, size) ==
    [kind |-> kind, size |-> size, image |-> None, view |-> None, sampler |-> None,
     mipViews |-> NoViews, layerViews |-> NoViews, layout |-> Undefined,
     levels |-> 1, target |-> FALSE, createMips |-> FALSE, keepMipViews |-> FALSE, deleteImage |-> TRUE,
     descriptor |-> [view |-> None, sampler |-> None, layout |-> Undefined]]

Layers(t) ==
    CASE t.kind = "cube"  -> CubeFaces
      [] t.kind = "array" -> Count
      [] OTHER            -> 1

AllLayers(t) == Range0(Layers(t))
AllLevels(t) == Range0(t.levels)

UpdateDescriptor(t) ==
    [t EXCEPT !.descriptor = [view |-> t.view, sampler |-> t.sampler, layout |-> t.layout]]

\* What TransitionImage submits or records, and the texture after it.
Barriers(t, newLayout) ==
    IF newLayout = t.layout THEN <<>>
    ELSE <<Command(t.image, AllLayers(t), AllLevels(t), t.layout, newLayout)>>

InLayout(t, newLayout) == UpdateDescriptor([t EXCEPT !.layout = newLayout])

\* The work of a constructor on the texture and the device.
Work(t, g) == [t |-> t, g |-> g]

Executed(w, commands) == Work(w.t, ExecuteAll(w.g, commands))

Transition(w, newLayout) ==
    Work(InLayout(w.t, newLayout), ExecuteAll(w.g, Barriers(w.t, newLayout)))

WithImage(w) ==
    LET image == FreshImage(w.g)
    IN  Work([w.t EXCEPT !.image = image], CreateImage(w.g, image, Layers(w.t), w.t.levels))

WithView(w) ==
    LET view == View(w.t.image, "all", AllLayers(w.t), AllLevels(w.t))
    IN  Work([w.t EXCEPT !.view = view], Make(w.g, {view}))

WithSampler(w) ==
    Work([w.t EXCEPT !.sampler = Sampler(w.t.image)], Make(w.g, {Sampler(w.t.image)}))

\* Views of one layer each.
WithLayerViews(w) ==
    LET views == [i \in 1 .. Layers(w.t) |-> View(w.t.image, "layer", {i - 1}, {0})]
    IN  Work([w.t EXCEPT !.layerViews = views], Make(w.g, Elements(views)))

\* GetMipImageView: views of single levels, each made once.
MipViews(w, levels) ==
    LET old == w.t.mipViews
        new == levels \ DOMAIN old
        view(l) == View(w.t.image, "level", {0}, {l})
    IN  Work([w.t EXCEPT !.mipViews = [l \in DOMAIN old \cup new |-> IF l \in new THEN view(l) ELSE old[l]]],
             Make(w.g, {view(l) : l \in new}))

\* Sequences of the length n, one after the other.
InTurn(blocks, n) ==
    [k \in 1 .. Len(blocks) * n |-> blocks[(k - 1) \div n + 1][1 + ((k - 1) % n)]]

\* GenerateMipmaps: level by level, each read for the next one.
Halving(image, layer, level) ==
    << Command(image, {layer}, {level}, Dst, Src), Use(image, {layer}, {level}, Src),
       Use(image, {layer}, {level + 1}, Dst), Command(image, {layer}, {level}, Src, ShaderRead) >>

MipCommands(image, layer, levels) ==
    InTurn([l \in 1 .. levels - 1 |-> Halving(image, layer, l - 1)], 4)
      \o << Command(image, {layer}, {levels - 1}, Dst, ShaderRead) >>
-----------------------------------------------------------------------------
(* Constructors. *)

\* VKTexture2D::BuildTexture: an empty texture to draw to.
BuildTexture(t, g) ==
    LET levels == IF t.createMips THEN MipCount(t.size) ELSE t.levels
        made   == WithSampler(WithView(WithImage(Work([t EXCEPT !.levels = levels], g))))
        drawn  == Transition(Work([made.t EXCEPT !.layout = Undefined], made.g), Colour)
    IN  IF t.keepMipViews
        THEN MipViews(drawn, Range0(levels))
        ELSE drawn

\* VKTexture2D::Load with pixels: upload, mips, and a transition from the layout
\* the texture remembers, which still is UNDEFINED.
Load(t, g) ==
    LET levels == IF t.createMips THEN MipCount(t.size) ELSE 1
        made   == WithImage(Work([t EXCEPT !.levels = levels], g))
        image  == made.t.image
        upload == << Command(image, {0}, Range0(levels), Undefined, Dst), Use(image, {0}, {0}, Dst) >>
        mips   == IF t.createMips THEN MipCommands(image, 0, levels) ELSE <<>>
    IN  Transition(Executed(made, upload \o mips), ShaderRead)

\* The constructors from pixels and from a file the file system knows: if it
\* cannot be decoded, LoadImageFromFile returns an image of its own.
Loaded(t, g) ==
    LET w == WithSampler(WithView(Load(t, g)))
    IN  Work(UpdateDescriptor(w.t), w.g)

\* VKTexture2D around an image of the swapchain, and Init of the swapchain.
Wrapped(t, g) ==
    LET made == WithView(WithImage(Work(t, g)))
    IN  Transition(Work([made.t EXCEPT !.deleteImage = FALSE], made.g), Present)

\* VKTextureCube(size, data, hdr), with data or without: a cube to draw to.
CubeFromData(t, g, data) ==
    LET made  == WithView(WithSampler(WithImage(Work([t EXCEPT !.levels = MipCount(t.size)], g))))
        image == made.t.image
        all   == AllLayers(t)
        some  == AllLevels(made.t)
        copy  == << Command(image, all, some, Undefined, Dst), Use(image, all, some, Dst),
                    Command(image, all, some, Dst, ShaderRead) >>
        drawn == << Command(image, all, some, Undefined, Colour) >>
        views == WithLayerViews(IF data THEN Executed(made, copy) ELSE made)
    IN  Work(InLayout(views.t, Colour), ExecuteAll(views.g, drawn))

\* VKTextureCube from a picture for each mip level: Load.
CubeFromFiles(t, g, mips) ==
    LET made  == WithImage(Work([t EXCEPT !.levels = mips], g))
        image == made.t.image
        all   == AllLayers(t)
        copy  == << Command(image, all, Range0(mips), Undefined, Dst), Use(image, all, Range0(mips), Dst),
                    Command(image, all, Range0(mips), Dst, ShaderRead) >>
        views == WithLayerViews(WithView(WithSampler(Executed(made, copy))))
    IN  Work(InLayout(views.t, ShaderRead), views.g)

\* VKTextureCube::GenerateMipMaps.
GenerateMipMaps(w) ==
    LET t == w.t
        Whole(old, new) == Command(t.image, AllLayers(t), AllLevels(t), old, new)
        faces == InTurn([i \in 1 .. CubeFaces |-> MipCommands(t.image, i - 1, t.levels)], 4 * t.levels - 3)
    IN  Executed(w, <<Whole(t.layout, Dst)>> \o faces \o <<Whole(ShaderRead, t.layout)>>)

\* CreateCubeFromHDRI: an empty cube, drawn to face by face in a command buffer
\* that is submitted before the mips are made.
CubeFromHdri(t, g) ==
    LET cube == CubeFromData(t, g, FALSE)
        draws == [i \in 1 .. CubeFaces |-> Use(cube.t.image, {i - 1}, {0}, cube.t.layout)]
    IN  GenerateMipMaps(Executed(cube, draws))

\* VKTextureDepth::Init.
DepthInit(t, g) ==
    LET made == WithView(WithImage(Work(t, g)))
        cmd  == Command(made.t.image, {0}, {0}, Undefined, DepthDrawn)
        w    == WithSampler(Executed(made, <<cmd>>))
    IN  Work(InLayout(w.t, DepthDrawn), w.g)

\* VKTextureDepthArray::Init.
DepthArrayInit(t, g) ==
    LET made == WithLayerViews(WithView(WithImage(Work(t, g))))
        cmd  == Command(made.t.image, AllLayers(t), {0}, Undefined, DepthDrawn)
        w    == WithSampler(Executed(made, <<cmd>>))
    IN  Work(InLayout(w.t, DepthDrawn), w.g)
-----------------------------------------------------------------------------
Init ==
    /\ textures = [s \in Slots |-> NoTexture]
    /\ handles = {} /\ layouts = <<>>
    /\ recorded = <<>> /\ queue = <<>>
    /\ faults = {}

Keep(s, w) ==
    /\ textures' = [textures EXCEPT ![s] = w.t]
    /\ SetDevice(w.g)
    /\ UNCHANGED <<recorded, queue>>

Texture2DCreate(s) ==
    \E size \in Sizes, mips, keep \in BOOLEAN :
        Keep(s, BuildTexture([Blank("2d", size) EXCEPT !.target = TRUE, !.createMips = mips,
                                                   !.keepMipViews = keep],
                             Device))

Texture2DFromSource(s) ==
    \E size \in Sizes, mips \in BOOLEAN :
        Keep(s, Loaded([Blank("2d", size) EXCEPT !.createMips = mips], Device))

\* The file is not there: the texture stays without image, view and sampler.
Texture2DFromMissingFile(s) ==
    Keep(s, Work([Blank("2d", 0) EXCEPT !.deleteImage = FALSE], Device))

SwapChainImage(s) == Keep(s, Wrapped(Blank("2d", 1), Device))

CubeCreate(s) ==
    \E size \in Sizes, data \in BOOLEAN : Keep(s, CubeFromData(Blank("cube", size), Device, data))

CreateCubeFromHDRI(s) ==
    \E size \in Sizes : Keep(s, CubeFromHdri(Blank("cube", size), Device))

CreateFromVCross(s) ==
    \E size \in Sizes : \E mips \in 1 .. MipCount(size) :
        Keep(s, CubeFromFiles(Blank("cube", size), Device, mips))

DepthCreate(s) == Keep(s, DepthInit(Blank("depth", 1), Device))
DepthArrayCreate(s) == Keep(s, DepthArrayInit(Blank("array", 1), Device))

Room == Len(queue) <= MaxQueued

Create ==
    \E s \in Slots :
        /\ textures[s] = NoTexture /\ Room
        /\ \/ SwapChainImage(s)
           \/ /\ s \notin ScreenSlots
              /\ \/ Texture2DCreate(s) \/ Texture2DFromSource(s) \/ Texture2DFromMissingFile(s)
                 \/ CubeCreate(s) \/ CreateCubeFromHDRI(s) \/ CreateFromVCross(s)
                 \/ DepthCreate(s) \/ DepthArrayCreate(s)
-----------------------------------------------------------------------------
(* What is pushed on the deletion queue.                                   *)

Given(handle) == IF handle = None THEN <<>> ELSE <<handle>>

Values(f) == SetToSeq({f[x] : x \in DOMAIN f})

OwnImage(t) == IF t.deleteImage THEN Given(t.image) ELSE <<>>

(* Mutant: the views of single levels are forgotten.                       *)
DeleteResourcesForgetsViews(t) == Given(t.sampler) \o Given(t.view) \o OwnImage(t)

DeleteResources(t) == Given(t.sampler) \o Given(t.view) \o Values(t.mipViews) \o OwnImage(t)
CubeReleases(t)    == Given(t.sampler) \o Given(t.view) \o t.layerViews \o OwnImage(t)
DepthReleases(t)   == <<t.sampler, t.view, t.image>>
ArrayReleases(t)   == <<t.sampler, t.view>> \o t.layerViews \o <<t.image>>

Released(t) ==
    CASE t.kind = "2d"    -> DeleteResources(t)
      [] t.kind = "cube"  -> CubeReleases(t)
      [] t.kind = "depth" -> DepthReleases(t)
      [] t.kind = "array" -> ArrayReleases(t)

\* The destructors.
Delete(s) ==
    /\ textures[s] # NoTexture /\ textures[s].deleteImage /\ Room
    /\ queue' = queue \o Released(textures[s])
    /\ textures' = [textures EXCEPT ![s] = NoTexture]
    /\ UNCHANGED <<handles, layouts, recorded, faults>>

\* The swapchain is made anew, when no frame is recorded: its images go with it.
\* A texture without an image goes the same way.
DeleteForeign(s) ==
    LET t == textures[s]
    IN  /\ t # NoTexture /\ ~t.deleteImage /\ recorded = <<>> /\ Room
        /\ queue' = queue \o Released(t)
        /\ textures' = [textures EXCEPT ![s] = NoTexture]
        /\ SetDevice(IF t.image = None THEN Device ELSE Destroy(Device, <<t.image>>))
        /\ UNCHANGED recorded

(* Mutant: the views of single levels are kept.                            *)
EmptiedKeepsViews(t, size) == [t EXCEPT !.size = size]

\* DeleteResources clears the views of single levels.
Emptied(t, size) == [t EXCEPT !.size = size, !.mipViews = NoViews]

\* VKTexture2D::Resize, of a texture that was made to draw to.
Resize2D(s) ==
    LET t == textures[s]
    IN  /\ t # NoTexture /\ t.target /\ Room
        /\ \E size \in Sizes :
             LET w == BuildTexture(Emptied(t, size), Device)
             IN  textures' = [textures EXCEPT ![s] = w.t] /\ SetDevice(w.g)
        /\ queue' = queue \o Released(t)
        /\ UNCHANGED recorded

\* VKTextureDepth::Resize.
ResizeDepth(s) ==
    LET t == textures[s]
    IN  /\ t # NoTexture /\ t.kind = "depth" /\ Room
        /\ LET w == DepthInit(t, Device)
           IN  textures' = [textures EXCEPT ![s] = w.t] /\ SetDevice(w.g)
        /\ queue' = queue \o Released(t)
        /\ UNCHANGED recorded
-----------------------------------------------------------------------------
(***************************************************************************)
(* Use of the textures in a frame.                                         *)
(***************************************************************************)
Record(commands) ==
    /\ Len(recorded) < MaxRecorded
    /\ recorded' = recorded \o commands

WholeUse(t, layout) == Use(t.image, AllLayers(t), AllLevels(t), layout)

\* VKDescriptorSet: TransitionImageToCorrectLayout, and a draw that samples it.
ReadLayout(t) == IF t.kind \in {"depth", "array"} THEN DepthRead ELSE ShaderRead

Sampled(s) ==
    LET t == textures[s]
    IN  /\ t # NoTexture /\ (t.deleteImage \/ t.image = None)
        /\ Record(Barriers(t, ReadLayout(t)) \o <<WholeUse(t, ReadLayout(t))>>)
        /\ textures' = [textures EXCEPT ![s] = InLayout(@, ReadLayout(t))]
        /\ UNCHANGED <<handles, layouts, queue, faults>>

Sample(s) == Sampled(s)

\* VKIMGUIRenderer::FrameRender: a picture in a panel is moved before ImGui's
\* render pass begins; a cube is not.
FrameRender(s) == textures[s] # NoTexture /\ textures[s].kind # "cube" /\ Sampled(s)

(* Mutant: nothing is recorded before Update.                              *)
TransitionNothing(t) == <<>>

\* A dispatch that stores to one level of a target: the render graph calls
\* TransitionImages, which records a barrier, and then Update, whose own
\* transition is executed at once; it makes a view of a level above the first.
TransitionImages(t) == Barriers(t, General)

Updated(w, level) ==
    LET now == Transition(w, General)
    IN  IF level > 0 THEN MipViews(now, {level}) ELSE now

Store(s) ==
    LET t == textures[s]
    IN  /\ t # NoTexture /\ t.target
        /\ \E level \in AllLevels(t) :
             LET moved == IF TransitionImages(t) = <<>> THEN t ELSE InLayout(t, General)
                 w     == Updated(Work(moved, Device), level)
             IN  /\ Record(TransitionImages(t) \o <<Use(t.image, {0}, {level}, General)>>)
                 /\ textures' = [textures EXCEPT ![s] = w.t]
                 /\ SetDevice(w.g)
        /\ UNCHANGED queue

\* VKPipeline::Bind, TransitionAttachments and the render pass, which expects
\* the layout its attachment had when it was made and leaves it in that layout.
DrawnLayout(t) ==
    IF t.kind \in {"depth", "array"} THEN DepthDrawn ELSE IF t.target THEN Colour ELSE Present

Drawable(t) == t # NoTexture /\ (t.target \/ t.kind \in {"depth", "array"} \/ ~t.deleteImage)

Bind(s) ==
    LET t == textures[s]
    IN  /\ Drawable(t) /\ t.image # None
        /\ \E layer \in AllLayers(t), level \in AllLevels(t) :
             LET w == IF t.target /\ level > 0 THEN MipViews(Work(t, Device), {level})
                      ELSE Work(t, Device)
             IN  /\ Record(Barriers(t, DrawnLayout(t))
                             \o <<Use(t.image, {layer}, {level}, DrawnLayout(t))>>)
                 /\ textures' = [textures EXCEPT ![s] = InLayout(w.t, DrawnLayout(t))]
                 /\ SetDevice(w.g)
        /\ UNCHANGED queue

\* VKRenderer::ClearRenderTarget: a depth image stays in the layout it was
\* cleared in.
ClearRenderTarget(s) ==
    LET t == textures[s]
        cleared == Barriers(t, Dst) \o <<Use(t.image, {0}, {0}, Dst)>>
    IN  /\ Drawable(t) /\ t.image # None /\ t.kind # "array"
        /\ IF t.kind = "depth"
           THEN /\ Record(cleared)
                /\ textures' = [textures EXCEPT ![s] = InLayout(@, Dst)]
           ELSE /\ Record(cleared \o Barriers(InLayout(t, Dst), t.layout))
                /\ textures' = [textures EXCEPT ![s] = UpdateDescriptor(@)]
        /\ UNCHANGED <<handles, layouts, queue, faults>>

\* VKRenderer::DrawSplashScreen: a pass that clears the image of the swapchain,
\* and a blit of the texture to it.
DrawSplashScreen(s, screen) ==
    LET t == textures[s]
        image == textures[screen]
    IN  /\ s # screen /\ t # NoTexture /\ image # NoTexture
        /\ t.kind = "2d" /\ t.deleteImage /\ image.kind = "2d" /\ ~image.deleteImage
        /\ image.image # None
        /\ Record(<<Command(image.image, {0}, {0}, Undefined, image.layout)>>
                    \o Barriers(t, Src) \o Barriers(image, Dst)
                    \o <<Use(t.image, {0}, {0}, Src), Use(image.image, {0}, {0}, Dst)>>
                    \o Barriers(InLayout(image, Dst), image.layout))
        /\ textures' = [textures EXCEPT ![s] = InLayout(@, Src), ![screen] = UpdateDescriptor(@)]
        /\ UNCHANGED <<handles, layouts, queue, faults>>

\* The frame is executed.
Submit ==
    /\ recorded # <<>>
    /\ SetDevice(ExecuteAll(Device, recorded))
    /\ recorded' = <<>>
    /\ UNCHANGED <<textures, queue>>

\* The deletion queue is flushed when no frame uses what is on it.
Flush ==
    /\ queue # <<>> /\ recorded = <<>>
    /\ SetDevice(Destroy(Device, queue))
    /\ queue' = <<>>
    /\ UNCHANGED <<textures, recorded>>

Next ==
    \/ Create
    \/ \E s \in Slots : \/ Delete(s) \/ DeleteForeign(s) \/ Resize2D(s) \/ ResizeDepth(s)
                         \/ Sample(s) \/ FrameRender(s) \/ Store(s) \/ Bind(s) \/ ClearRenderTarget(s)
    \/ \E s, screen \in Slots : DrawSplashScreen(s, screen)
    \/ Submit \/ Flush

Spec == Init /\ [][Next]_vars
-----------------------------------------------------------------------------
(***************************************************************************)
(* Properties.                                                             *)
(***************************************************************************)
Live == {s \in Slots : textures[s] # NoTexture}

HandlesOf(t) ==
    {h \in {t.image, t.view, t.sampler} : h # None}
      \cup Elements(t.layerViews) \cup {t.mipViews[l] : l \in DOMAIN t.mipViews}

\* Every object of the device belongs to one texture or is once on the deletion
\* queue, whatever was resized, deleted or could not be loaded: nothing leaks and
\* nothing is destroyed twice (the constructors, DeleteResources, Resize and the
\* destructors).
OwnedOnce ==
    LET held == [s \in Live |-> HandlesOf(textures[s])]
        queued == Elements(queue)
    IN  /\ \A s \in Live : held[s] \subseteq handles \ queued
        /\ \A s, r \in Live : s # r => held[s] \cap held[r] = {}
        /\ queued \subseteq handles /\ Cardinality(queued) = Len(queue)
        /\ handles \ queued = UNION {held[s] : s \in Live}

\* The layout a texture keeps is the layout of every level and layer of its
\* image once the frame's commands are executed, and each command, executed at
\* once or with the frame, finds the image in the layout it was told
\* (TransitionImage, Load, GenerateMipmaps, Init, TransitionAttachments).  A
\* texture whose file is missing has no image to be in a layout.
LayoutsAgree ==
    LET after == ExecuteAll(Device, recorded)
    IN  /\ after.faults \subseteq {None}
        /\ \A s \in Live :
              LET t == textures[s]
              IN  t.image # None =>
                    after.layouts[t.image] = [f \in AllLayers(t) |-> [l \in AllLevels(t) |-> t.layout]]

\* What a texture shows is its present image: each of its views is of that image
\* and of levels it has, and its descriptor has its present view, sampler and
\* layout (UpdateDescriptor, GetMipImageView, Resize).
ViewsCurrent ==
    \A s \in Live :
        LET t == textures[s]
            views == {h \in HandlesOf(t) : h.type = "view"}
        IN  /\ \A v \in views : v.n = t.image.n /\ v.levels \subseteq AllLevels(t)
            /\ \A l \in DOMAIN t.mipViews : t.mipViews[l].levels = {l}
            /\ t.image # None =>
                  t.descriptor = [view |-> t.view, sampler |-> t.sampler, layout |-> t.layout]
=============================================================================
