---------------------------- MODULE RenderCaches ----------------------------
(***************************************************************************)
(* The caches of pipelines, framebuffers and render passes (Pipeline.cpp,  *)
(* Framebuffer.cpp, RenderPass.cpp of graphics/rhi) and what makes their   *)
(* entries out of date: textures that are resized, a swapchain that is     *)
(* made anew.  (The framebuffers the ImGui renderer keeps are not in a cache.)  *)
(*                                                                         *)
(* A VkImage handle is a name the driver may give out again once the image *)
(* is destroyed; images wait for that in the deletion queue of the buffer  *)
(* being drawn.  A hash is modelled by what it combines.  Sizes are left   *)
(* out of the keys: a resize makes a new image, so that keys which differ  *)
(* in a size differ in a handle too, unless that handle is reused ("alias" *)
(* below).  Time is counted in ticks; an age beyond LifeTime is LifeTime+1.*)
(***************************************************************************)
EXTENDS Integers, FiniteSets, Functions, FiniteSetsExt

CONSTANTS
    Handles,        \* bound: VkImage handles the driver gives out
    Textures,       \* the render targets that are not the swapchain's
    ViewTextures,   \* those of the scene view panel; the others are the RenderGraph's
    Descs,          \* the pipelines the renderers ask for
    Colour,         \* colour targets of each
    Depth,          \* depth targets of each
    Screen,         \* those that draw to the swapchain
    Clear,          \* clearTargets of each
    Kept,           \* those which a member keeps: GridRenderer::m_Pipeline ...
    Pointers,       \* bound: addresses of the VKTexture2D of swapchain image 1
    ChainLen,       \* images of the swapchain
    BufferCount,    \* buffers, each with a deletion queue
    LifeTime,       \* m_CacheLifeTime, in ticks
    KeyDeleteSize,  \* 256 in the code
    None

ASSUME RenderCachesAssumption ==
    /\ ViewTextures \subseteq Textures
    /\ Screen \subseteq Descs /\ Kept \subseteq Descs
    /\ Colour \in [Descs -> SUBSET Textures]
    /\ Depth \in [Descs -> SUBSET Textures]
    /\ Clear \in [Descs -> BOOLEAN]
    /\ \A d \in Screen : Colour[d] = {}
    /\ {ChainLen, BufferCount, LifeTime, KeyDeleteSize} \subseteq Nat \ {0}
    /\ None \notin Handles

VARIABLES
    image,          \* the VkImage of each texture
    chain,          \* the swapchain's images
    front,          \* the address of the texture of its first image
    current,        \* the acquired image
    doomed,         \* images in each deletion queue
    buffer,         \* m_CurrentBuffer
    pipelines,      \* m_PipelineCache: key -> the pipeline and its age
    framebuffers,   \* m_FramebufferCache
    passes,         \* m_RenderPassCache
    held,           \* the pipeline each member keeps
    stale,          \* history: cached framebuffers with a destroyed image
    phase,          \* "between" two frames, or within a "frame"
    odd             \* history: "alias", a handle came back while a cached
                    \* framebuffer still named it; "overfull", one sweep left
                    \* unused framebuffers

targets == <<image, chain, front, current, doomed, buffer>>
caches == <<pipelines, framebuffers, passes, held>>
vars == <<targets, caches, stale, phase, odd>>

Images == 1 .. ChainLen
Buffers == 0 .. BufferCount - 1
Live == Range(image) \cup Range(chain) \cup UNION Range(doomed)
----------------------------------------------------------------------------
(* Mutant: the hash combines the textures but not their image handles. *)
KeyByTexture(d) ==
    [desc |-> d, images |-> {}, screen |-> d \in Screen]

(* What Pipeline::Get hashes: the description, the images of its targets,  *)
(* and for the swapchain its current image.                                *)
Key(d) ==
    [desc |-> d,
     images |-> {image[t] : t \in Colour[d] \cup Depth[d]},
     screen |-> IF d \in Screen THEN chain[current] ELSE None]

(* What RenderPass::Get hashes: clear, and the addresses of the targets;   *)
(* for the swapchain that of its first image.                              *)
Pass(d) ==
    [clear |-> Clear[d],
     targets |-> Colour[d] \cup Depth[d] \cup (IF d \in Screen THEN {front} ELSE {})]

(* What Framebuffer::Get hashes: the render pass and the images of the     *)
(* targets, one of the swapchain's among them or none.                     *)
FramebufferKey(d, screen) ==
    [pass |-> Pass(d), images |-> {image[t] : t \in Colour[d] \cup Depth[d]} \cup screen]

(* VKPipeline::CreateFramebuffers: one for each image of the swapchain, or *)
(* one.                                                                    *)
Framebuffers(d) ==
    IF d \in Screen THEN {FramebufferKey(d, {chain[i]}) : i \in Images}
                    ELSE {FramebufferKey(d, {})}

PassesOf(ps) == {ps[k].pass : k \in DOMAIN ps}
FramebuffersOf(ps) == UNION {ps[k].framebuffers : k \in DOMAIN ps}

Init ==
    /\ image \in Injection(Textures, Handles)
    /\ chain \in Injection(Images, Handles)
    /\ Range(image) \cap Range(chain) = {}
    /\ front \in Pointers
    /\ current \in Images
    /\ doomed = [b \in Buffers |-> {}]
    /\ buffer = 0
    /\ pipelines = <<>>
    /\ framebuffers = {}
    /\ passes = {}
    /\ held = [d \in Kept |-> None]
    /\ stale = {}
    /\ phase = "between"
    /\ odd = {}
----------------------------------------------------------------------------
(* The handles the driver may give a new image. *)
Fresh == Handles \ Live

Naming(images) == {f \in framebuffers : f.images \cap images # {}}
Alias(new) == IF Naming(new) # {} THEN {"alias"} ELSE {}

(* Resize of a set of textures, by VKTexture2D and VKTextureDepth: each    *)
(* gets a new image and its old one goes to the current deletion queue.    *)
Resize(new) ==
    /\ image' = [t \in Textures |-> IF t \in DOMAIN new THEN new[t] ELSE image[t]]
    /\ doomed' = [doomed EXCEPT ![buffer] = @ \cup {image[t] : t \in DOMAIN new}]

(* VKSwapChain::Init with an old swapchain: new images are made, then the  *)
(* old ones destroyed.                                                     *)
Rebuild(new) ==
    /\ chain' = new
    /\ front' \in Pointers

(* SceneViewPanel::Resize, called from ImGui's OnUpdate: the texture of    *)
(* the view and those of the RenderGraph.                                  *)
PanelResize ==
    /\ phase = "between"
    /\ \E new \in Injection(Textures, Fresh) :
          /\ Resize(new)
          /\ odd' = odd \cup Alias(Range(new))
    /\ UNCHANGED <<chain, front, current, buffer, caches, stale, phase>>

(* Application::OnWindowResize: the swapchain, then the textures of the    *)
(* RenderGraph.                                                            *)
WindowResize ==
    /\ phase = "between"
    /\ \E new \in Injection(Images, Fresh) :
       \E graph \in Injection(Textures \ ViewTextures,
                              (Fresh \cup Range(chain)) \ Range(new)) :
          /\ Rebuild(new)
          /\ Resize(graph)
          /\ odd' = odd \cup Alias(Range(new) \cup Range(graph))
    /\ stale' = stale \cup Naming(Range(chain))
    /\ UNCHANGED <<current, buffer, caches, phase>>
----------------------------------------------------------------------------
(* A pipeline whose timeSinceLastAccessed was some time ago. *)
Aged(p, age) ==
    [framebuffers |-> p.framebuffers, pass |-> p.pass,
     age |-> IF age > LifeTime THEN LifeTime + 1 ELSE age]

(* Time passes and VKSwapChain::Begin moves to the next buffer: what waits *)
(* in its deletion queue is destroyed.                                     *)
Flushed == doomed[(buffer + 1) % BufferCount]

NextBuffer(elapsed) ==
    /\ phase = "between"
    /\ phase' = "frame"
    /\ buffer' = (buffer + 1) % BufferCount
    /\ doomed' = [doomed EXCEPT ![buffer'] = {}]
    /\ pipelines' = [k \in DOMAIN pipelines |-> Aged(pipelines[k], pipelines[k].age + elapsed)]

(* Begin, and AcquireNextImage gives an image. *)
Begin(elapsed) ==
    /\ NextBuffer(elapsed)
    /\ current' \in Images
    /\ stale' = stale \cup Naming(Flushed)
    /\ UNCHANGED <<image, chain, front, framebuffers, passes, held, odd>>

(* Begin, and AcquireNextImage finds the swapchain out of date: it makes a *)
(* new one and the frame goes on.                                          *)
BeginOutOfDate(elapsed) ==
    /\ NextBuffer(elapsed)
    /\ \E new \in Injection(Images, Fresh \cup Flushed) :
          /\ Rebuild(new)
          /\ odd' = odd \cup Alias(Range(new))
    /\ stale' = stale \cup Naming(Flushed \cup Range(chain))
    /\ UNCHANGED <<image, current, framebuffers, passes, held>>

(* A pipeline in the cache, after it was asked for. *)
Entry(d) ==
    IF Key(d) \in DOMAIN pipelines
    THEN Aged(pipelines[Key(d)], 0)
    ELSE [framebuffers |-> Framebuffers(d), pass |-> Pass(d), age |-> 0]

(* Pipeline::Get, and VKPipeline::CreateFramebuffers when there is none:   *)
(* its render pass and framebuffers are found in their caches or made.     *)
Get(d) ==
    /\ phase = "frame"
    /\ pipelines' = [k \in DOMAIN pipelines \cup {Key(d)} |->
                        IF k = Key(d) THEN Entry(d) ELSE pipelines[k]]
    /\ framebuffers' = framebuffers \cup Entry(d).framebuffers
    /\ passes' = passes \cup {Entry(d).pass}
    /\ held' = [e \in Kept |-> IF e = d THEN Key(d) ELSE held[e]]
    /\ UNCHANGED <<targets, stale, phase, odd>>
----------------------------------------------------------------------------
(* Mutant: every unused pipeline is deleted at once. *)
SweepAll(unused) == {unused}

(* A sweep of a cache deletes at most KeyDeleteSize of its unused entries, *)
(* those the hash map happens to give first.                               *)
Sweep(unused) == kSubset(Min({Cardinality(unused), KeyDeleteSize}), unused)

(* Mutant: a pipeline is old enough, whoever keeps it. *)
UnusedByAge == {k \in DOMAIN pipelines : pipelines[k].age > LifeTime}

(* Only the cache has a reference, and for longer than LifeTime nobody     *)
(* asked for it.                                                           *)
Unused == {k \in DOMAIN pipelines : pipelines[k].age > LifeTime /\ k \notin Range(held)}

(* Mutant: framebuffers are swept before pipelines. *)
EndFrameSwapped ==
    /\ phase = "frame"
    /\ \E dead \in Sweep(Unused) :
       \E lost \in Sweep(framebuffers \ FramebuffersOf(pipelines)) :
          /\ pipelines' = Restrict(pipelines, DOMAIN pipelines \ dead)
          /\ framebuffers' = framebuffers \ lost
          /\ passes' = passes \cap PassesOf(pipelines')
          /\ stale' = stale \ lost
          /\ odd' = odd
    /\ phase' = "between"
    /\ UNCHANGED <<targets, held>>

(* The end of Application::OnFrame: DeleteUnusedCache of pipelines, then   *)
(* of framebuffers and of render passes; a render pass nobody refers to is *)
(* deleted whatever their number.                                          *)
EndFrame ==
    /\ phase = "frame"
    /\ \E dead \in Sweep(Unused) :
       LET left == Restrict(pipelines, DOMAIN pipelines \ dead)
           idle == framebuffers \ FramebuffersOf(left)
       IN \E lost \in Sweep(idle) :
             /\ pipelines' = left
             /\ framebuffers' = framebuffers \ lost
             /\ passes' = passes \cap PassesOf(left)
             /\ stale' = stale \ lost
             /\ odd' = (odd \ {"overfull"}) \cup (IF lost # idle THEN {"overfull"} ELSE {})
    /\ phase' = "between"
    /\ UNCHANGED <<targets, held>>

Next ==
    \/ PanelResize \/ WindowResize \/ EndFrame
    \/ \E elapsed \in 1 .. LifeTime + 1 : Begin(elapsed) \/ BeginOutOfDate(elapsed)
    \/ \E d \in Descs : Get(d)

Spec == Init /\ [][Next]_vars
----------------------------------------------------------------------------
Keys == [desc : Descs, images : SUBSET Handles, screen : Handles \cup {None}]
PassKeys == [clear : BOOLEAN, targets : SUBSET (Textures \cup Pointers)]
FramebufferKeys == [pass : PassKeys, images : SUBSET Handles]

(* An image is in one place: a texture's, the swapchain's, or one queue. *)
ImagesApart ==
    /\ Range(image) \cap Range(chain) = {}
    /\ \A b \in DOMAIN doomed : doomed[b] \cap (Range(image) \cup Range(chain)) = {}
    /\ \A a, b \in DOMAIN doomed : a # b => doomed[a] \cap doomed[b] = {}

TargetsOK ==
    /\ image \in Injection(Textures, Handles)
    /\ chain \in Injection(Images, Handles)
    /\ front \in Pointers
    /\ current \in Images
    /\ buffer \in Buffers
    /\ doomed \in [Buffers -> SUBSET Handles]
    /\ ImagesApart

Pipelines == [framebuffers : SUBSET FramebufferKeys, pass : PassKeys, age : 0 .. LifeTime + 1]

CachesOK ==
    /\ DOMAIN pipelines \subseteq Keys
    /\ \A k \in DOMAIN pipelines : pipelines[k] \in Pipelines
    /\ framebuffers \subseteq FramebufferKeys
    /\ passes \subseteq PassKeys
    /\ held \in [Kept -> Keys \cup {None}]
    /\ stale \subseteq framebuffers
    /\ phase \in {"between", "frame"}
    /\ odd \subseteq {"alias", "overfull"}

(* The variables have their types, and no image is destroyed while a       *)
(* texture or the swapchain uses it (the deletion queues).                 *)
TypeOK == TargetsOK /\ CachesOK

(* The framebuffers a pipeline would be bound with, if it were asked for. *)
Bound(d) == IF Key(d) \in DOMAIN pipelines THEN pipelines[Key(d)].framebuffers ELSE Framebuffers(d)

(* Whatever was resized or made anew since they were cached, no pipeline   *)
(* is bound with framebuffers on images that are destroyed: the handles in *)
(* the hashes of Pipeline::Get and Framebuffer::Get.  One thing the code   *)
(* does not guard against is excepted: a handle that came back while a     *)
(* framebuffer on its former image was cached.                             *)
LiveTargets ==
    phase = "frame" /\ "alias" \notin odd => \A d \in Descs : Bound(d) \cap stale = {}

(* The caches keep no more and no less than the pipelines need: between    *)
(* them there is no framebuffer and no render pass without a pipeline, and *)
(* none is deleted while a pipeline has it, unless a sweep was overfull.   *)
(* (The order of the three DeleteUnusedCache calls of Application::OnFrame)*)
CachesMatch ==
    /\ "overfull" \notin odd => framebuffers = FramebuffersOf(pipelines)
    /\ FramebuffersOf(pipelines) \subseteq framebuffers
    /\ passes = PassesOf(pipelines)

(* The pipeline a member keeps stays in the cache, however long nobody     *)
(* asked for it: the reference count in Pipeline::DeleteUnusedCache.       *)
KeptAreCached == \A d \in Kept : held[d] # None => held[d] \in DOMAIN pipelines

(* RenderPass::DeleteUnusedCache never writes beyond its array keysToDelete,*)
(* which it does not check: at most KeyDeleteSize pipelines are deleted in *)
(* a frame, and only they can have been the last to use a render pass.     *)
KeysFit ==
    [][EndFrame => Cardinality(passes \ PassesOf(pipelines')) <= KeyDeleteSize]_vars
=============================================================================
