# excimer: specifications and proofs

excimer is a C++ game engine for Windows and Vulkan with an editor. This
directory holds TLA+ modules of the engine and the editor, TLC configurations
that check them on small instances, and theorems that TLAPS checks for every
value of the constants. The parts whose correctness depends on the order of
events (threads, the GPU, frames in flight, callbacks, sessions) are state
machines; those that compute something from an input (loaders, shapes, shader
reflection, what is asked of Vulkan) are operators, checked on all inputs of a
small set. Paths below are relative to `src/excimer/src/excimer/` unless they
begin with `src/`.

Contents: [1 the system](#1-the-system-and-what-is-hard-about-it),
[2 the modules](#2-the-modules-and-the-code),
[3 the runs](#3-the-runs-and-their-bounds),
[4 the proofs](#4-the-proofs), [5 findings](#5-findings),
[6 limits](#6-what-is-not-modelled), [7 plan](#7-plan).

## 1. The system and what is hard about it

One process. The main thread runs `Application::OnFrame` in a loop: apply a
queued scene switch, poll the window's events, record and submit a frame, sweep
the render caches. Worker threads run jobs; the GPU and the presentation engine
work through what was submitted. The editor is an `Application` that draws its
panels within the frame. The program has no tests; what it promises is said in
comments and in how its parts use each other.

| component | state it keeps | operations | talks to | what makes it correct |
|---|---|---|---|---|
| **JobSystem** (`core/JobSystem.*`) | one locked deque and a `processing` flag per worker, a cursor, a condition variable, a counter per context | `Execute`, `Dispatch`, `Wait`, worker loop, shutdown | callers; tasks run on any thread | counters exact; a context outlives its jobs; a `Wait` returns, and not before its jobs are done |
| **Main loop, window, input** (`core/Application.*`, `platform/glfw/GLFWWindow.cpp`, `core/os/Input.*`, `imgui/ImGuiManager.*`, `src/editor/src/editor.cpp`, `SceneViewPanel.cpp`) | held keys, the cursor's mode, sizes of the window, the swapchain, ImGui's framebuffers and the view's targets | callbacks of the window, splash, frame, resize, minimise, quit | every other part, on the main thread | no key or cursor sticks; what is drawn fits its targets; the window follows the user |
| **Frame loop** (`platform/vulkan/VKSwapChain.*`, `VKCommandBuffer.*`, `VKFence.cpp`, `VKRenderer.*`, `VKContext.h`) | swapchain images, a command buffer, fence, semaphore and deletion queue per frame | begin, acquire, submit, present, resize, destroy | GPU, presentation engine, surface | nothing the GPU may use is reset or destroyed; frames keep coming |
| **Render caches** (`graphics/rhi/Pipeline.*`, `Framebuffer.cpp`, `RenderPass.cpp`) | maps from descriptions and image handles to objects, with ages | `Get`, `DeleteUnusedCache` | renderers, textures, swapchain | no object on a destroyed image is used; the caches stay in step |
| **Descriptor sets** (`platform/vulkan/VKDescriptorSet.*`) | one value and a copy per frame in flight, with marks | `SetUniform`, `SetTexture`, `Update`, bind | renderers, inspector, GPU | each frame reads what it was recorded with |
| **Textures** (`platform/vulkan/VKTexture.*`) | handles, layouts, views of levels | make, resize, transition, mips, clear, delete | passes, sets, ImGui, deletion queue | handles are freed once; layouts are what the GPU has; views are of the image |
| **Buffers** (`platform/vulkan/VK*Buffer.cpp`) | an allocation, its size and mapping | make, map, write, resize, delete | allocator, deletion queue | mapped once, written within its size, freed once and not while used |
| **Render graph** (`graphics/renderers/RenderGraph.*`, `DebugRenderer.*`) | images exchanged between passes, queues of meshes, sprites, texts and debug shapes, batches | `BeginScene`, `OnRender`, resize, new scene, debug drawing | all of Vulkan's parts, scene | each image is legal to read and shows all that is on; each thing is drawn once |
| **Shaders and pipelines** (`platform/vulkan/VKShader.cpp`, `VKPipeline.cpp`, `VKRenderPass.cpp`, `VKFramebuffer.cpp`) | what is reflected from the binaries | build from a description | render graph | passes, shaders and targets agree |
| **Device** (`platform/vulkan/VKContext.cpp`, `VKDevice.cpp`, `VKSwapChain.cpp`, `VKUtilities.cpp`) | what the machine has | start-up, conversions | driver | nothing is asked for that is not there |
| **Scene hierarchy** (`scene/SceneGraph.*`, `scene/Scene.cpp`, `src/editor/src/HierarchyPanel.cpp`) | `Hierarchy` components: parent, first, next, prev | callbacks of the registry, `Reparent`, create, delete, duplicate, paste | registry, panel | the links form a forest; an operation changes only what it names |
| **Scene manager** (`scene/SceneManager.*`, `core/Application.*`) | list of scenes, index, one queued switch, the project file | enqueue, switch, apply, load, save, quit | client code, file system | a project comes back as it was left |
| **Scene and project files** (`scene/Scene.cpp`, `scene/component/*`, `core/VFS.cpp`) | files of eight versions | save, load | archive, asset libraries | what is saved comes back |
| **Inspector, panels, editor's camera** (`src/editor/src/*Panel.cpp`, `editor.cpp`, `graphics/Material.*`, `graphics/camera/*`, `maths/Transform.*`) | a scene's components, the selection, the windows and where they are docked, the camera | edits, menu, gizmo, rows of the hierarchy, motion | scene, render graph | what is edited is drawn and kept; keys and clicks select what is drawn; everything is seen with the camera's own lens and place |
| **Asset libraries, reference counting** (`utilities/AssetManager.h`, `core/Reference.h`) | maps with expiry, counters | get, update; reference, drop | components, renderers | what is held is alive, what is dropped is freed once |
| **Models and loaders** (`graphics/modelloader/*`) | | load glTF, FBX, OBJ | file, parsers | a model is drawn as its file says |
| **Shapes, mathematics, fonts, texts** (`graphics/MeshFactory.cpp`, `maths/*`, `graphics/Font.cpp`) | a cache of fonts on disk | make, cull, pick, lay out | render graph, editor | surfaces closed, boxes right, texts complete |

The behaviours that are hard to test, each listed at its line in `PROJECT.json`
under `hazards`:

- *interleavings*: stolen jobs against counters and lost notifications; copies
  that the program writes while the GPU reads; deletion queues against frames in
  flight; ImGui and the camera disagreeing about the cursor;
- *failures and restarts*: fence waits that give up (`VKFence.cpp:63`), a
  swapchain found out of date in the middle of a frame, a project file or the
  picture of a font half written when the process dies, files of scenes that
  name what is not there;
- *stale state*: caches keyed by image handles while images are made anew under
  them; views of an image that was resized; sizes that come from different
  resizes; a world matrix that an edit has not reached yet; the expiry of an
  asset judged by another's;
- *ordering*: layouts and images that each pass leaves for the next, under every
  combination of settings; layouts changed by a command buffer that runs earlier
  than the one recorded before it;
- *long sequences of legal calls*: drops, pastes and deletions in the panel;
  scenes enqueued, renamed and saved over several sessions; windows turned into
  icons and back;
- *limits and widths*: 32-bit sums in `Dispatch`, swapchains of one image,
  batches that are full, an unchecked array of 256 keys, queue families that
  coincide.

## 2. The modules and the code

`PROJECT.json` (`map`) gives the source lines of every definition. Definitions
marked "mutant" are the same code with a plausible bug; each property of a
passing run is violated by one of them.

| module | what it is | uses |
|---|---|---|
| `JobGroups` | the arithmetic of `Dispatch`, at any width | |
| `JobPool` | abstract: what a caller of the job system is promised | |
| `JobSystem`, `JobSystemProofs` | queues, threads, notifications, shutdown | `JobGroups`; implements `JobPool` |
| `Input` | who sees which key, button and cursor | |
| `Application`, `ApplicationProofs` | the main thread, the window and what is drawn at which size; the proofs include `AssetLibrary`'s | `Input` |
| `FrameRing` | abstract: frames in flight as a ring | |
| `FrameLoop`, `FrameLoopProofs` | swapchain, command buffers, fences, semaphores, deletion queues | implements `FrameRing` |
| `DescriptorSet`, `DescriptorSetProofs` | a descriptor set over the ring | `FrameRing` |
| `RenderCaches`, `RenderCachesProofs` | the three caches against resized images | |
| `Textures`, `TexturesProofs` | handles, layouts and views of an image | |
| `RenderGraph`, `RenderGraphProofs` | the passes of a frame, their images and layouts | `SpriteBatch`, `DebugRenderer` |
| `SpriteBatch` | batches of sprites and texts | |
| `DebugRenderer` | debug shapes and their lists | |
| `OrderedForest` | abstract: an ordered forest and its operations | |
| `SceneHierarchy`, `SceneProofs` | the linked lists in the `Hierarchy` components | implements `OrderedForest` |
| `SceneManager`, `SceneProofs` | scene list, switches and the project file over sessions | |
| `References`, `AssetLibrary` | counted pointers, and libraries that hand them out | |
| `ShaderInterface`, `PipelineSetup`, `EngineShaders` | what a shader reflects, what a pipeline asks for, every shader and pass of the engine | in this order |
| `DeviceSetup` | instance, card, queues, swapchain | |
| `VulkanFormats` | formats, layouts, barriers, present modes, cubes from crosses | |
| `VulkanBuffers` | buffers over the allocator | |
| `DrawQueue` | meshes from the queue to the command buffer | |
| `Geometry` | boxes, frustums, rays, culling, picking, shadow cascades | |
| `MeshFactory` | the shapes the engine makes | `Geometry` |
| `TextLayout` | fonts and their cache, lines and glyphs of a text | |
| `ModelLoader` | glTF, FBX, OBJ | |
| `SceneArchive`, `AnimatedSprite` | files of scenes and projects, virtual paths; animations | |
| `Inspector` | panels, menu, gizmo, rows of the hierarchy, windows and the editor's camera | |
| `MC...` | the constants and tasks of the runs | |

The promise of the frame loop is written once, as `FrameRing`: `FrameLoop` is
shown to implement it, and `DescriptorSet` is built on it and not on fences.

**JobSystem.** One action per atomic access, at the code's granularity: the
submitter raises the counter (`Submit`), picks a queue, pushes, and notifies;
`work()` is `PopEmpty`, `PopJob`, `RunIndex`, `FinishJob`, run by workers and by
a waiting client. `push_back`/`pop_front` are under a spin lock, hence one
action each. `wakeMutex` guards no data and is held only on the way into and out
of `wait()`, so it is merged into `Sleep` and `WakeUp`. A pushed job is told
apart by its call and range; a task is one step that records which index ran
(`ran`) and counts the calls (`runs`), so that running an index twice is no step
of `JobPool`.
The destructor of the static state runs after every client has left, while the
detached workers go on; the queues of a freed system are modelled as keeping
their contents. Jobs that submit jobs and contexts shared between threads are
not modelled: no caller does either.

**Input, Application.** `down` is what the user holds; `held` and `pressed` are
Input's, `ioDown` and `ioMods` ImGui's. ImGui handles a press first and may
swallow it, never a release; but only a press sets the flags of the modifiers
(`ioMods`), which a released key leaves behind. `HandleMouse` captures the cursor
and returns it. The main thread goes through the stages `splash`, `frame`, `poll`,
`render`, `draw`; `win`, `app`, `display`, `swap`, `frames`, `graph`, `view` and
`target` are the sizes that the window, the application, ImGui, the swapchain, its
framebuffers, the render graph and the scene view believe in, and each handler
changes its own. `layout` is how the user has placed the view: closed, skipped
(behind another tab), docked or floating. `special` remembers that the cursor left
while a button was held, that a floating view was moved and that a frame found the
swapchain out of date, after which ImGui's framebuffers are on destroyed images
until the next resize: the properties name what does not survive these. Scrolling,
controllers, the scene's own cameras and the thread that updates systems (none is
registered) are left out; ImGui is assumed to skip a view that the window has no
room for.

**FrameRing, FrameLoop.** `phase` is where the main thread is in a frame. A
semaphore is whether it is signalled, a fence the state of its handle, a
recording the set of resources it uses. `Begin` includes the wait for the fence,
the flush of the deletion queue and the reset of the command buffer. `faults`
records a fence wait that gave up (after 4.3 s, ignored by the code) and an
acquire that found the swapchain out of date; the properties that do not survive
a fault name it. As in the code, `Init` acquires an image that is never
presented, with a signal that nobody waits for (`firstSignal`), so that one later
acquire signals a semaphore which is signalled already; a swapchain of one image
acquires it once; after an out-of-date acquire the frame goes on without an image,
and what it presents is one that the new swapchain has not handed out (`HasImage`),
which the engine may refuse or take; resizing happens between frames. A
surface without a limit (`maxImageCount = 0`, which the code turns into zero
buffers) is left out.

**DescriptorSet.** `storage` and `texture` are the program's values, `uniform`
and `written` the GPU's copies, and `hasUpdated`, `dirty`, `updated` the marks.
`draws` remembers what the commands of each frame are meant to read. Renderers
update a set once per frame before they bind it; the two exceptions are recorded
in `special`: the bloom passes change and bind one set several times in a frame
("redraw"), and the inspector updates a material's set between frames ("edit").

**RenderCaches.** Keys are records of what the hashes combine: a pipeline key
its description and the image handles of its targets, a framebuffer key its
render pass and handles, a render pass key the addresses of its targets. A
destroyed handle may be given out again by the driver; textures' images are
destroyed when their deletion queue is flushed, the swapchain's at once.
`stale` records cached framebuffers with a destroyed image, "alias" that a
handle came back while a framebuffer named it, "overfull" that a sweep reached
its limit. Sizes are left out of the keys (a resize changes a handle), as are
blend mode and clear colour, which the code's key omits too.

**Textures.** Two slots: a texture of any kind and an image of the swapchain.
Each constructor, resize, transition, generation of mips, clearing, blit, view,
descriptor and destructor is an operation on handles and on the layout of every
level and layer. A frame records operations and is executed later, while `Update`
and the loaders use command buffers of their own that are executed at once, so
that what the program believes of a layout and what the GPU has are two
variables. ImGui's renderer moves the pictures of panels to the layout a shader
reads. Handles are made and deleted only while the deletion queue is empty.

**RenderGraph, SpriteBatch, DebugRenderer.** One action per pass. `gpu` holds, for
each image, its layout and what it shows (a sequence of pass names); `main`,
`post`, `last` and `bloomLast` say which image is the main one, the second, the
last that was drawn to and the bloom's. Every pass ends or begins with the
transitions of its code, and each effect with the swap of images. A batch is its
quads, table of textures and number. Nothing in `TextPass` looks at the end of its
vertex buffer (9333 quads of 60 bytes a vertex, where the test, made between two
texts only, is for 10000) or of the table of textures: what is written past an end
is taken to be lost for the GPU and to damage nothing else, and `SpritesShown`
says nothing of such queues. A debug shape is the calls it makes to the two lists
(with and without depth test) of points, lines, thick lines, triangles and texts.

**SceneHierarchy.** An action is one menu entry or drop of the panel, or what the
scene does at a switch, with every callback of the registry it sets off. `h[e] =
NoHierarchy` is an entity without `Hierarchy`. A walk along links is `InOrder`,
the traversal of the binary tree that two kinds of link lead to, and `Ancestors`
is the loop over the parents; both go on for `MaxEntities` steps, and `WellLinked`
says that the loops of the code, which have no bound, end too. Cut and paste takes
effect in two steps as in the code: the copy now, the destruction (`doomed`) at
the end of the frame. The entity to copy may be any live one, since it was chosen
earlier. Two operations lose links: pasting an entity without `Hierarchy` onto a
node (`Scene.cpp:431`, `OnConstruct` is disconnected meanwhile) and dropping an
entity on the panel's area. `lost` records them, and the properties that they
break say so. `OnUpdate`, `Compare`, `DeleteChildren`, `ClearChildren` and
`Entity::Destroy` have no callers. An identifier carries a version and is not used
again within a scene; `ExitScene` starts over. Files are those with one entity, or
a parent and a list of children.

**SceneManager.** A behaviour is any number of sessions. `Start` reads the project
file (absent, no JSON, cut, or whole, and then of any version: the list of scenes
is read from version 3 on, the index from 4 on; the run takes versions 2, 3 and
8); a session without a scene can only crash where the code uses one;
`LoadCurrentList` ends the splash screen; client code runs in its `Init` and in
updates; a switch is applied at the start of a frame; `OnQuit` writes the file;
`Crash` may come at any time, also while the file is being written, which leaves a
file that is no JSON. `Strip` and `Stored` model how names change: the extension
is removed when a scene is enqueued from a file, and the name in the scene file
wins when it is loaded. The branch of `ApplySceneSwitch` for a scene that is not
in the list is unreachable, and so is the quit at `Application.cpp:67`
(`GLFWWindow::Init` always succeeds).

**References, AssetLibrary.** A memory is the objects on the heap, the counts,
and the pointers by the names of their holders; a pointer's operations are the
functions of `Reference` and `Owned` that the program calls, all on the main
thread. A library is a map with times of use whose order is arbitrary, so that
`Update` may take any entry for the first; at most as many entries expire in one
frame as its array of keys holds (256, unchecked). Entities hold what a library
hands out, and the parts quit in the order of `OnQuit` (libraries, scenes, the
engine's own meshes). References that go together (the entries of a library, the
components of an entity) go in one step; `DestroyedOneByOne` proves that their
order makes no difference. `WeakReference`, `release`, `swap`, reloading and
`Destroy` are used nowhere, and the library of fonts is filled past its manager.

**ShaderInterface, PipelineSetup, EngineShaders.** A compiled shader is its
stages' resources as the reflection library lists them, taken from the shader
sources of the repository. From these come the layout of a vertex, the layouts
of sets, push constants and the places of uniforms, as `VKShader` computes them.
`PipelineSetup` is what `VKPipeline`, `VKRenderPass` and `VKFramebuffer` ask of
Vulkan for a description. `EngineShaders` lists each pass of the render graph
with its description, its vertices, and the sets, uniforms and textures it sets,
except `CreateCubeFromHDRI`; at most 32 lights are assumed.

**DeviceSetup, VulkanFormats, VulkanBuffers.** A machine is a loader (layers,
extensions), cards (type, memory, queue families, features), and a surface. Families
that draw are assumed to compute and copy as well, and the wanted card to exist
(`VKDevice.cpp:51`). Three requests are made whether or not the machine has what
they name, and `RequestsLegal` excepts each: the flag for portability
(`VKContext.cpp:289`), two features of descriptor indexing (`VKDevice.cpp:342`),
and the number of images of a surface that allows any number, of which the code
asks for none, or that wants more than three (`VKSwapChain.cpp:82`).
Formats, layouts and accesses are their names. A buffer is an allocation over
the operations of the allocator, which refuses a second unmapping, a write past
the end, and a second freeing; frames follow each other, as which of them overlap
is `FrameLoop`'s. Memory is coherent; indices are 32 bits wide.

**DrawQueue, Geometry, MeshFactory, TextLayout.** `DrawQueue` has the requests
for pipelines, the order, and the passes that bind pipelines, each of which
begins a render pass. Coordinates are integers and transforms are integer
matrices, so that rounding is left out; a camera is its planes, in perspective
or not. The cascades of the shadows are computed in percent of the view and in
multiples of the texel, with the un-projection of the corners left to the task.
A click tests sprites against a box whose size is taken for its far corner
(`PickBox`), so that it is right only at the place of the entity; and sprites are
culled with a frustum that is set only while meshes are drawn (`FrustumView`).
Shapes have their vertices, triangles and boxes; angles are numbers of segments.
A font is its glyphs with their widths, kerning included; its picture is the set
of glyphs, kept under its name and read back if the file is there.

**ModelLoader, SceneArchive, AnimatedSprite.** A model file is what the parsers
of the three formats return. A vertex is a sequence of nodes and a point, which
stands for the product of the transforms that are applied: in glTF files those of a
node and its parent, however deep it is. Files with more positions than indices are
written past the end of an array (`Overruns`, `Undefined`); primitives without
indices, for which the code reads accessor -1, and strides other than the size of
an element are left out. The simplifier keeps any set of
triangles. The archive is a list of items, numbers or nodes of named values, as
JSON gives them back; the loader uses one instance of a component again for the
next entity, as the code does. `Restorable` is what the format can keep: models
have meshes, no font lies below a mount, and nothing without a picture follows
something with one. Files of versions 1 to 8 are those of the code.

**Inspector.** The components that the panels edit, on one axis; a frame applies
at most one edit and is then drawn. A model or a light that is added brings a
transform (`AddDependency`). Edits leave the hierarchy alone; entities are
active and in view; a file chosen in the dialog exists; the gizmo does not snap.
The rows of the hierarchy panel, with search, clicks and double clicks, work on
small trees; the windows are what `Editor::OnImGui` asks of ImGui's docking; the
camera is its position, speed and angles over a few frames of keys and motion of
the mouse.

## 3. The runs and their bounds

| run | instance | shows |
|---|---|---|
| `jobs` | 1 client, 2 workers, 2 calls out of one job or groups of 2 over 2 or 3 jobs, unsigned numbers modulo 5 | `CounterExact`, `ContextOutlivesJobs`, `NothingLeftBehind`, `PoolPromise`, `WaitTerminates` |
| `jobs_lost_wakeup` | 1 worker | finding 1 |
| `jobs_running_at_stop` | 2 workers, a client may leave without waiting | finding 2 |
| `application` | 1 key, 1 button, windows of 2 sizes, views of 2 | `NothingSticks`, `FrameFits`, `WindowFollows` |
| `frame_loop` | surfaces of 1, 2 and 8 images (swapchains of 1 to 3), 1 resource, waits give up with at most 3 submissions pending | `NoUseAfterFree`, `SubmissionsLegal`, `RingPromise`, `FramesKeepComing`, `DroppedIsFreed` |
| `descriptor_set` | 1 to 3 frames, 2 values, 1 texture | `UnmarkedIsFresh`, `DrawsSeeTheirData`, `InFlightUntouched` |
| `render_caches` | 2 textures, a swapchain of 2 images, 3 pipelines (one kept), 6 handles, sweeps of 1 | `LiveTargets`, `CachesMatch`, `KeptAreCached`, `KeysFit` |
| `textures` | a texture of any kind and a swapchain's image, 2 sizes, operations until a frame has 3 commands | `OwnedOnce`, `LayoutsAgree`, `ViewsCurrent` |
| `render_graph` | each effect alone, all, and all but one; 5 or 6 levels of bloom, with and without compute; batches of 3 quads, of which a text's buffer holds 2, and of 2 textures; 2 batches; 2 debug shapes | `FrameLegal`, `EffectsShown`, `SpritesShown`, `DebugShown` |
| `scene_hierarchy` | 5 entities | `WellLinked`, `EveryEntityDrawn`, `ForestPromise` |
| `scene_manager` | 3 names, one of which loses an extension, files of up to 2 scenes and of versions 2, 3 and 8, lists of up to 4 | `ProjectKept`, `UnknownKeepsScene` |
| `algorithms` | the tasks below | `GroupsPartitionJobs`, `BoundsSound`, `ShapesSound`, `RequestsLegal`, `PipelinesLegal`, `ModelsFaithful`, `ContentKept`, `OwnershipExact` |

Some properties are conjunctions, so that one mutant run stands for them:
`NothingLeftBehind` is `SpinOnlyOnRunning` (a waiting thread spins only on jobs
that are running) and `QuietShutdown`; `WellLinked` is `ForwardLinks`,
`SiblingLinks` and `Acyclic`; `SubmissionsLegal` says that what is pending is not
reset or waited for twice (`PendingIsSubmitted`), can run (`SubmissionsCanRun`),
draws to an image that the swapchain has handed out to it alone
(`ImageExclusive`), and signals semaphores whose last signal has been taken
(`AcquireSignalsOnce`, `SignalTaken`), each with the faults it does not survive;
`ProjectKept` is `NeverEmpty`, `SceneComes`, `ScenesKept` and `CurrentKept`;
`NothingSticks` is `HeldIsDown`, `CursorComesBack` and `FlagsCatchUp`.

The run `algorithms` takes one task per behaviour and checks what the code
computes for it; `TakeX` in `MCAlgorithms` and `MCContent` are the tasks:

| property | tasks | says |
|---|---|---|
| `GroupsPartitionJobs` | all arguments below 32, sums modulo 32 | groups partition the indices unless the rounding sum wraps |
| `BoundsSound` | boxes under rotations, shears and mirrorings before cameras in perspective and not; pairs of boxes and spheres; clicks into scenes of two models and a sprite, in its place or not; cascades of 3 views under 3 lights | nothing that can be seen is culled (`CullingSafe`), but sprites while meshes are off and the camera has moved since they were on; inside, outside and across are told exactly (`ContainmentExact`); a click finds what the ray meets first, if sprites are at their entity's place (`PickNearest`); each part of the view is in its shadow map and texels stay put (`CascadesCover`); the splits are in order exactly if the view is deep enough (`SplitsOrdered`) |
| `ShapesSound` | shapes of 3 to 5 segments, terrains of 2 to 6, crosses of cells up to 3 by 3, texts of up to 5 characters of four letters or 8 of letters and spaces, 3 fonts made in up to 3 starts | surfaces are closed and face one way, boxes are smallest, a cross folds to a cube whose neighbours are those of the picture, no character of a text is lost and lines stay in their width where there is a space to break at, a font has its glyphs whatever was in the cache before |
| `RequestsLegal` | loaders, cards of 2 to 4 families, up to 3 cards, surfaces; all pairs of layouts; any subset of formats and present modes; calls on buffers of 4 kinds over 2 frames | what is asked of Vulkan is something it has and accepts, but for the three requests named in section 2 |
| `PipelinesLegal` | every pass with its shader; shader files with parts in any order; queues of up to 3 meshes | vertices, sets, uniforms, push constants and targets of the passes are those of the shaders; each mesh is drawn once, in order, in a render pass of its own pipeline |
| `ModelsFaithful` | files of up to 3 nodes, beside and below each other, and 6 triangles | each triangle is drawn once, with its material, where its own and its parent's transform put it, which for deeper nodes is not where the file does; files with more positions than indices are excepted |
| `ContentKept` | scenes of 2 entities and 2 classes of components, old scenes, projects of each version, paths, animations; up to 2 edits of a scene | what is saved is loaded; what is edited is drawn in the next frame and nothing else changes; the arrow keys go to the rows before and after the selected one, and a click to a row that is drawn (`NodesSelected`); a panel is shown unless it was closed or full screen hides it, and each window is docked in a place of its own (`WindowsKept`); everything is seen through the lens and from the place that the camera has, which turns as the cursor moves and comes to rest (`CameraSound`) |
| `OwnershipExact` | 2 entities, 2 files, 3 objects, a clock of 2 steps and expiry after 1 (a machine of its own within the run) | counters are the numbers of holders, nothing is freed twice or while held |

The state machines check their `TypeOK` as a part of one of the properties or
have it proved (section 4).

Why the bounds are enough. *jobs*: two workers give two thieves and a queue that
is nobody's first; two calls give a context that is used again after a `Wait`;
with numbers modulo 5 the cursor wraps. A second client adds nothing but its own
counter and is covered by the theorems, which hold for any number; a larger bound
`MaxCalls` would let two clients starve each other's work by submitting for ever,
which no caller does. *application*: two sizes tell old from new; keys do not
interact but for the flags of modifiers: the one key of the run is a modifier, and
the theorem has any number of keys. *frames*: three is the code's
`MAX_SWAPCHAIN_BUFFERS`; resources do not interact, so one is enough.
*descriptors*: two values are needed to tell old from new; a second texture is
symmetric to the buffer. *caches*: six handles are four in use and two to be
destroyed or come back; a sweep of one makes every second sweep overfull. The life
time is one tick, an age above it is counted as one more. TLC explores up to the
first alias (`CONSTRAINT NoAlias`), which keeps the run finite in minutes; the
theorems include what follows. *textures*: operations are recorded until a frame
has three commands, so that two of them follow each other in every order; a cube
of two faces and two layers tell "all" from "first". *render graph*: effects
interact only through the exchanged images and layouts, whose parity and order
all, one and all-but-one give; the queues fill a batch, exceed it by one, need the
last batch there is, exceed the table of textures in the middle of a batch, and,
of texts, exceed the buffer and the table, which `SpritesShown` excepts;
`CONSTRAINTS` explores sprites and debug shapes apart from the effects, which
share no state with them. *scenes*: five entities are a chain of five, a parent
with four children, and a copied subtree of two next to three others; the code
never looks further than a neighbour, except for the walks, which these shapes
exercise. *manager*: two scenes plus one the client adds distinguish first, last
and other; the names cover each way to change name. *algorithms*: the tables say
what is enumerated; shapes repeat by segment, and three is the first number with
an inner one; three meshes are the least for a comparison to be no order. Runs
made finite by bounds in guards: `MaxScenes`, `MaxCalls`, `MaxTime`, `MaxObjects`,
`MaxRecorded`, `MaxQueued`, `MaxItems`, `MaxBatches` only guard what the
surroundings ask for.

Deadlock is not checked where the system may stop: in `algorithms` a task is the
end, `application` ends with the program, and in `frame_loop` a swapchain of one
or two images ends in a wait for an image or a fence, as the code would.

Fairness. `jobs`: weak fairness of every started call and worker step and of the
destructor: the operating system runs threads that are not blocked, and tasks
return. A client need not make a call, and `wait()` need not wake up spuriously.
`frame_loop`: the main thread goes on with frames (no wait needs to give up), the
GPU finishes submissions that can run, and the presentation engine shows what is
ready. Liveness there is stated for three images and without faults, which is
where the code provides it. `application`: weak fairness of the main thread,
since `glfwPollEvents` returns whether or not there are events; nothing is
assumed of the user.

## 4. The proofs

| theorem | states |
|---|---|
| `JobSystemProofs!DispatchPartitions` | for any arguments whose rounding sum does not wrap, at any width, the groups are non-empty, disjoint, of at most `groupSize`, and cover the indices |
| `JobSystemProofs!TypeCorrect` | `TypeOK` |
| `JobSystemProofs!CounterCorrect` | `CounterExact`, for any number of workers, clients and calls |
| `JobSystemProofs!ContextsOutliveJobs` | `ContextOutlivesJobs` |
| `JobSystemProofs!NothingEverLeftBehind` | `NothingLeftBehind` |
| `JobSystemProofs!PromiseKept` | `PoolPromise`: the job system implements `JobPool` |
| `FrameLoopProofs!TypeCorrect` | `TypeOK` |
| `FrameLoopProofs!NeverUsedAfterFree` | `NoUseAfterFree`, for swapchains of any length |
| `FrameLoopProofs!SubmissionsAlwaysLegal` | `SubmissionsLegal`, with the exceptions its parts name |
| `FrameLoopProofs!RingPromiseKept` | `RingPromise`: the frame loop implements `FrameRing` |
| `DescriptorSetProofs!TypeCorrect` | `TypeOK`, and that the main thread never records into a buffer in flight |
| `DescriptorSetProofs!UnmarkedAlwaysFresh` | `UnmarkedIsFresh` |
| `DescriptorSetProofs!InFlightAlwaysUntouched` | `InFlightUntouched` |
| `DescriptorSetProofs!DrawsAlwaysSeeTheirData` | `DrawsSeeTheirData` |
| `RenderCachesProofs!TypeCorrect` | `TypeOK`: no image is destroyed while it is in use |
| `RenderCachesProofs!CachesAgree` | `CachesMatch` |
| `RenderCachesProofs!KeptStay` | `KeptAreCached` |
| `RenderCachesProofs!KeysAlwaysFit` | `KeysFit` |
| `RenderCachesProofs!TargetsAlwaysLive` | `LiveTargets` |
| `TexturesProofs!OwnedAlwaysOnce` | `OwnedOnce`, for textures of any number of levels and layers |
| `TexturesProofs!ViewsAlwaysCurrent` | `ViewsCurrent` |
| `TexturesProofs!LayoutsAlwaysAgree` | `LayoutsAgree`, for any number of levels and layers and frames of any length |
| `RenderGraphProofs!FrameAlwaysLegal` | `FrameLegal`, for any scene, settings and level of bloom |
| `RenderGraphProofs!EveryEffectShown` | `EffectsShown` |
| `RenderGraphProofs!EveryShapeShown` | `DebugShown` |
| `SceneProofs!TypeCorrect` | `TypeOK` |
| `SceneProofs!ProjectAlwaysKept` | `ProjectKept`, over any number of sessions and crashes, from files of every version |
| `SceneProofs!UnknownAlwaysKeepsScene` | `UnknownKeepsScene` |
| `SceneProofs!WellLinkedAlways` | `WellLinked`, for any number of entities |
| `SceneProofs!EveryEntityAlwaysDrawn` | `EveryEntityDrawn`, for any number of entities |
| `SceneProofs!ForestAlwaysKept` | `ForestPromise`: the linked lists implement `OrderedForest` until links are lost |
| `ApplicationProofs!TypeCorrect` | `TypeOK` |
| `ApplicationProofs!NothingSticksAlways` | `NothingSticks`, for any keys, modifiers and buttons |
| `ApplicationProofs!FrameFitsAlways` | `FrameFits`, for any sizes: sizes agree in every frame, ImGui's framebuffers are on existing images unless Begin has replaced these since the last resize |
| `ApplicationProofs!OwnershipAlwaysExact` | `OwnershipExact`, for any entities, files and number of objects |
| `ApplicationProofs!DestroyedOneByOne` | that destroying References at once is `~Reference` of one after the other, in any order |

They assume only the named `ASSUME`s of the modules, which TLC evaluates in the
runs: positive numbers of workers, frames, buffers and entities; `Dispatch`
arguments that are positive, and for `DispatchPartitions` ones whose sum does not
wrap; "no job", "unset", "no image" and "no handle" are none of the values they
stand beside; sizes are positive and those of views even, as the panel rounds
them; modifiers are keys; scenes are those that `BeginScene` can find
(`SceneShape`), images of the bloom have 5 to 16 levels (16 to 32768 pixels),
debug shapes are those of the public functions, and entities and files of models
are finitely many and files have none of the other objects' names.
`RingPromiseKept` is about surfaces that allow an image (`count > 0`).

*Counters.* `CounterExact` (a context's counter is the number of its groups that
are unpushed, queued or running) is not inductive: lowering it by one in
`FinishJob` is right only if the finished group is nowhere else. `CounterInv`
adds that each job is in one place (`PlacesApart`), that a new call's jobs are
new (`CallsMade`), that a running call still has a group to push (`CallOK`), and
that the sets counted are finite. `DispatchPartitions` gives that the groups of
one call differ. Each action then moves one job from one place to another, adds
the groups of a call, or removes one.

*Contexts and what is left.* With exact counters a context whose counter is
positive is in use, and a context in use is open (`OpenInUse`), so no job
touches a counter that is gone. A waiting client spins only on running jobs
because `SweepAhead` holds during its sweep: its own jobs are in queues that the
sweep has still to visit, since nobody but the client itself pushes them.

*The promise of the job system.* `AskedOnce` says that what is asked of a context
and has not run is exactly what its outstanding entries will run, each index
once, so that a call of a task is always for an index that has not run;
`RunInTurn` that a thread has run the indices of its entry below the one
it is at. Every step is then a step of `JobPool` or leaves its variables alone,
and a client leaves `Wait` only when everything asked has run.

*Frame loop.* `FencesInv` says that only submitted buffers have a signalled
fence and that none waits twice in the GPU's queue, so the wait in `Begin` is for
the last use of the buffer. For `NoUseAfterFree`, `DeletionInv` adds that a resource
waits in one deletion queue (`QueuedOnce`) and that this is the queue of a buffer
begun no earlier than any buffer in flight that uses it (`DroppedAfterUse`);
the age of a buffer in the ring makes "earlier" exact. For `SubmissionsLegal`,
`FramesInv` describes the frames on their way to the screen: their buffers are
consecutive (`FramesInTurn`), their images differ (`FramesExclusive`), the GPU
has finished the oldest of them (`FramesDrawn`), and semaphores are signalled
where one waits for them (`SemaphoresAgree`). That an acquire finds its semaphore
unsignalled needs that a signalled one is waited for by a frame that is not
finished (`SignalsAwaited`), Init's apart. `RingPromiseKept` follows: each
step is a step of `FrameRing` or a stutter until a wait for a fence gives up.

*Descriptor sets.* `RingInv` says that the buffer being recorded is not in
flight. Only the copies of the current buffer are written while recording
(`OnlyCurrentWritten`), so what is in flight stays. A second draw in a frame
either writes nothing, because an unmarked copy is fresh, or is a "redraw",
which the property excepts.

*Caches.* An image is in one place, a texture, the swapchain or one deletion
queue (`ImagesApart`), so a flush destroys nothing in use. For `LiveTargets` the
strengthening `LiveInv` says that a stale framebuffer names a handle that nobody
has, and that the framebuffers under a key name only the key's handles and, if
the key's swapchain image is still in the swapchain, the swapchain's. A key that
is asked for consists of live handles, hence the framebuffers found under it
are not stale. `KeysFit` follows because every orphaned render pass is that of a
pipeline deleted in the same frame.

*Textures.* For each constructor a lemma (`LoadedIs`, `DepthInitIs` and so on)
says that what it builds has a whole image under a number that no handle had,
with the views its kind has, and adds exactly these to the handles. `OwnedOnce`
needs three facts together (`Owned`): live textures are `Shaped`, that is, they
have the handles of their kind on their own image; live and queued handles are
distinct and all there are; and the numbers of live images are not those of
queued handles. Without the last a new view of a level could be one that is
still in the queue. The lemmas `Comes`, `Goes`, `Changes` and `Flushed` say what
making, deleting, replacing a view and emptying the queue do to these facts.
`ViewsCurrent` is read off `Shaped`.

*Layouts.* `LayoutsAgree` is about sequences of commands. Executing two of them
joined is executing one after the other (`LayoutSecond`, `FindsSecond`), and
commands on one image leave the others as they are (`OthersStay`). `Takes` says of
a sequence that it takes an image from one arrangement of layouts to another
and that every command finds what it was told; it composes (`TakesBoth`). Each
constructor is a chain of such steps (`Growing`), with the arrangement spelled
out for every face and level. Generating mips is a loop over levels, for a
cube also over faces: `TakesInTurn` proves that a loop whose turns each take the
image one stage on takes it from the first stage to the last. It is an
induction over the turns, by their least counterexample (`LeastNumber`). The
invariant `Agreement` adds to the property that the layouts of the device are
those of the images it has (`ImagesLaidOut`) and that a texture with an image has
a first level; a texture whose file is missing records commands about no
image, which change nothing (`AgreedNothing`). Then recording appends a sequence
that takes one image on (`AgreedMoved`), executing at once what makes an image
changes no other (`AgreedNew`), and submitting or flushing only moves what is
already agreed (`AgreedExecuted`, `AgreedDestroyed`).

*Render graph.* `FrameLegal` has to know what earlier passes decided: which image
is the target, which environment the forward pass has bound, which level a turn of
the bloom is at (`Handed`). `EffectsShown` compares the image on the screen with
what the settings ask for; `Pictured` says what the main image shows before each
pass and `Bloomed` which levels of the three bloom images hold which others, which
covers the parity of the downward and upward loops. `DebugShown` needs that each
shape is in the list of its kind and depth test and nowhere else (`Listed`), and
then that each list is drawn by the pass, in full, with its own indices.

*Scene manager.* `ProjectKept` compares a session with the last one. `Kept` says
that the file on the disk is the last one written unless it was lost
(`FileIsLast`), that a start takes all of it (`StartTakesAll`), and that from
there on, until the client asks for something and if the version of the file has
them, list and index stay those of the file up to the names that are stripped
(`SessionKeeps`). `UnknownKeepsScene` adds that a request which was not resolved
leaves the current index in the queue (`QueueIsCurrent`).

*Scene hierarchy.* `HierarchyInv` describes the links without walking along them.
`Linked` says that neighbours point at each other and that some `rank` of the
entities rises from sibling to sibling and from parent to child; a rank is a
witness that all walks end, and it is what each operation has to provide anew
(`LiftKeepsLinked` for a new parent, `CopiedKeeps` gives a copy the ranks of its
original). `Aged` says that links name entities that were created, and
`Tidy`, until links are lost, that the links back and up agree with those
forward. What a walk reaches is then shown by minimality, not by an induction
over lists: what a traversal reaches is closed under the links and in any closed
set that has its start (`InOrderInside`, `InOrderComplete`, `SubtreeFacts`), and
a walk that missed something has a first step at which it did. A panel's test
`IsParentOfEntity` is enough because what is drawn hangs together
(`DrawnFacts`). `DestroyEntity` is one destruction after the other in an order
that has children first (`LeftFirst`, `DestroyAllKeeps`), so every one of them
is that of an entity without children (`DestroyKeepsTidy`).

`ForestPromise` compares whole lists. `Spells` says without recursion when a
sequence is the list that starts at an entity: its items are what the links
`next` go through, and null follows the last. A graph has one such sequence for
each start (`SpellsOnce`) and `ChildList` is it (`SiblingsSpelled`), so to know a
list after an operation it is enough to name a sequence and compare links
(`ListIs`). Each handler has one lemma that says what it makes of every list:
`ListDetached` and `ListDestroyed` take an entity out, `ListMoved` and
`ListPasted` append it elsewhere, `CopiedLists` maps the lists of a subtree to
those of its copy, and `DeletedLists` shows that deleting an entity and what is
below it takes just that entity out of one remaining list. `ForestSubtree`
identifies the two definitions of a subtree. Every action then is a step of the
forest (`DropMaps`, `DuplicateMaps` and so on).

*Main thread.* That no key sticks needs that ImGui is told of every release
(`ImGuiListens`) and that Input holds nothing that is not down (`HeldIsDown`);
that the cursor comes back needs that a captured cursor means an active view
whose button is down (`CapturedIsActive`). That flags catch up is a step:
only a press makes Input hold a new key, and it has set the flags
(`StepCatchesUp`). `FrameFits` compares two sizes that
different handlers set: `SizeInv` relates each to the window's at each stage of
the frame (`WindowSized`, `GraphSized`, `ViewCovered`).

*Ownership.* `SoundMemory` says that each counter is the number of References that
hold it, that pointer and counter come and go together, and that an object lives
exactly as long as it is held or owned. A sound memory is determined by who
points to what (`Determined`), so each operation of `Reference` and `Owned` has
one lemma that says it stays sound and which pointers change, and a step of the
program is a few of these in turn. `LibraryInv` adds what `Update` relies on: a
holder's model of a file is the same Reference as its entry's (`Linked`), so an
entry whose count is one is held by nobody else; and that nothing stays in a
local, so that the end leaves nothing.

Only model-checked are
- liveness (`WaitTerminates`, `FramesKeepComing`, `DroppedIsFreed`,
  `WindowFollows`) and what rests on `ENABLED`, which the prover does not handle;
- `SpritesShown` of the render graph, which is about what a recursive function
  makes of a queue, and holds of queues that `SpritesFit` and `TextsFit` describe;
- what else the run `algorithms` checks: those are tables of inputs and recursive
  definitions, and what these compute is an induction over data.

## 5. Findings

Each is a violation run of one property that states what a comment says.

1. `jobs_lost_wakeup`: `JobSystem.h:31` says any idle thread will execute a job.
   A worker that found the queues empty and has not yet reached `wait()`
   (`JobSystem.cpp:178`, no predicate) misses the notification, and the job stays
   queued while the worker sleeps, until somebody waits. `Wait` itself is not
   harmed: `WaitTerminates` holds.
2. `jobs_running_at_stop`: `JobSystem.cpp:99` says the destructor waits for
   running jobs. `processing` is one flag per queue and is cleared by any thread
   that finds the queue empty, also while another runs a job of it. It needs a
   client that leaves without waiting; `NothingLeftBehind` shows that otherwise
   nothing is left to run.

Seen while modelling, where the repository states nothing that could be
contradicted, and excepted by name in the properties or by what the tasks are:

- children of an entity that is dropped on the panel's area keep it as their
  parent (`HierarchyPanel.cpp:635`), and paste after cut on a node destroys the
  node and its new copy;
- a material edited in the inspector updates the copy of the frame submitted last
  (`Material.cpp:136`), which the GPU may be drawing;
- handles that come back to a cached framebuffer; the image acquired by `Init` and
  never presented, and its semaphore, which is signalled a second time
  (`VKSwapChain.cpp:42`, `:275`); an out-of-date acquire after which the GPU waits
  for a semaphore nobody signals, an image is presented that was not acquired, and
  ImGui's framebuffers are on destroyed images until the next resize; ignored
  fence timeouts; a close request during the splash screen that is lost;
- a cursor captured in the poll in which it leaves the view stays hidden
  (`EditorCamera.cpp:44`);
- the flags of modifiers stay set in ImGui after their keys are released, until
  the next key is pressed (`ImGuiManager.cpp:192`);
- the depth target of a request for a pipeline stays once a mesh has asked for it
  (`RenderGraph.cpp:815`), and meshes are sorted only if sprites are drawn
  (`:867`);
- the last split of the cascades is fixed (`RenderGraph.cpp:1147`), which puts it
  before the third if the view is not 256 times as deep as its near plane;
- a picture of a font that was cut short, or made from a font file that has
  changed since, is read like any other (`Font.cpp:82`);
- a text that fits may be broken because a later line of it does not
  (`RenderGraph.cpp:2413`: a line break does not forget the last space);
- the buffer of texts holds fewer quads than the test for its end allows, the test
  is made only before a text (`:2360`), and the table of textures is not tested at
  all (`:2394`); more than 100 batches of sprites have no buffer;
- the queues of the cascades are filled in every frame with a directional light
  and emptied only when shadows are on (`:692`, `:775`): with shadows off they grow
  without a bound;
- sprites are culled with the frustum of the last frame that drew meshes, or at
  first with that of no camera (`:655`, `:839`), and picked with a box that is
  wrong away from the origin (`src/editor/src/editor.cpp:562`, `:584`);
- a project file of version 1 or 2 leaves no scene, after which the program ends
  in a division by zero or an access past the list, and one of version 3 no current
  scene (`Application.h:228`, `:244`); the comments on versions in `save`
  (`:182` to `:194`) are one off from what `load` tests;
- a node of a glTF file deeper than its root's children loses the transforms above
  its parent (`GLTFLoader.cpp:472`), and positions that outnumber the indices are
  written past the end of the vertices (`:245`);
- features of descriptor indexing and the flag for portability are asked for
  without a look whether they are there (`VKDevice.cpp:342`, `VKContext.cpp:289`),
  and a surface with any number of images is asked for none (`VKSwapChain.cpp:82`);
- an asset's expiry is judged by the first entry of the map
  (`AssetManager.h:122`), and assigning a null `Reference` of another type keeps
  the pointer (`Reference.h:173`);
- no panel is called "Game", so "Fullscreen on play" closes every panel, the one
  with the setting included (`editor.cpp`: the editor is in play from the start);
- a ray from the screen uses the projection as it was when it was last asked for
  (`Camera.cpp:97`);
- a model without meshes makes the rest of a scene file unreadable
  (`ModelComponent.h:37`).

## 6. What is not modelled

- Numbers that only the picture shows: colours, lights' strengths, texture
  coordinates, tangents, heights of a terrain, the rounding of floats.
- Pixels and packing: decoding of images, the packing and drawing of glyphs,
  SPIR-V itself.
- Wording and look of panels, icons, styles, logging and profiling
  (`imgui/ImGuiUtilities.cpp`, `IconsMaterialDesignIcons.h`, the compiled shaders
  in `src/excimer/assets/shaders/CompiledSPV` as bytes).
- Code without callers: `SSAOPass`, `OutlinePass`, `EyeAdaptationPass`,
  `VKInitialisers`' unused helpers, `BinAllocator`, `WeakReference`,
  most of `Rect` and `BoundingSphere`, `ReloadResources`, `Resize` of a depth array.
- Memory allocators (statistics around malloc) and the registry's pools: a
  component is a value, so a pointer that outlives a growing pool
  (`HierarchyPanel.cpp:340`) is not seen.
- Systems (physics, audio): none is registered, so the thread that `OnFrame`
  starts to update them does nothing. Timers, strings, identifiers and blocking
  file access are taken as functions.
- Limits of buffers that no definition has: those of the debug renderer's lists,
  and the queues of the cascades, which `DrawQueue` does not keep from frame to
  frame.
- Parts of the modelled components: `CreateQuad` with a place and a size
  (`graphics/MeshFactory.cpp:36`), secondary and single-time command buffers,
  `VKBuffer::Resize` in use, dynamic offsets, cube faces and mip levels in cache
  keys, clearing the caches and the deletion queues at shutdown,
  `hardware_concurrency() = 0`, frames on surfaces without a limit of images,
  scenes without a camera, and a camera in two dimensions (`SetMode` has no
  callers).
- `src/excimer/external` is third-party code, modelled only through its use.

## 7. Plan

The order was by how much depends on a part and how far tests are from it: the
job system, the scene hierarchy, the frame loop and what is built on its ring,
the scene manager and the render caches; then the render graph and textures, the
main thread with its proofs, shaders and pipelines, files and loaders, asset
libraries, the device, the inspector, buffers, fonts and texts.

What is left: `SpritesShown` as a theorem; models of sets other than one buffer
and one texture in `DescriptorSet`, and of the render graph without a camera and
its panel.
