----------------------------- MODULE RenderGraph -----------------------------
(***************************************************************************)
(* RenderGraph: what is recorded for one frame of a scene, pass by pass.   *)
(* The passes hand images to each other through four pointers (main, post, *)
(* last, bloomLast) and two of the images change roles after every full    *)
(* screen pass, so which image holds what depends on which effects are on. *)
(* Every image has a layout, which descriptor sets and pipelines change as *)
(* a side effect and which must be right when a draw call reads or writes  *)
(* it.                                                                     *)
(*                                                                         *)
(* An image is known by the passes whose work it shows (holds); of a bloom *)
(* image, each mip level is known by the levels of the down-sampling chain *)
(* that went into it.  Meshes, materials, lights, cascades and the         *)
(* parameters of the effects are left out.                                 *)
(***************************************************************************)
EXTENDS SpriteBatch, DebugRenderer, Integers

CONSTANTS
    Scenes,         \* what BeginScene may find, see SceneShape
    Levels,         \* the mip counts of the bloom images after a resize
    Compute,        \* Capabilities::SupportCompute may be any of these
    Asked           \* the shapes that may be asked for

Features == {"3d", "2d", "sky", "shadow", "bloom", "deband", "fxaa", "chroma",
             "grain", "debug"}

\* A scene that has a camera with a transform: its SceneRenderSettings, whether it has an environment, whether
\* meshes are in view and in the light's cascades, its sprites and its texts.
SceneShape(s) ==
    /\ DOMAIN s = {"on", "env", "meshes", "casters", "sprites", "texts"}
    /\ s.on \subseteq Features
    /\ {s.env, s.meshes, s.casters} \subseteq BOOLEAN
    /\ s.sprites \in Seq(Range(s.sprites)) /\ s.texts \in Seq(Range(s.texts))
    /\ \A t \in Range(s.texts) : DOMAIN t = {"font", "glyphs"} /\ t.glyphs \in Nat

ASSUME GraphAssumption ==
    /\ \A s \in Scenes : SceneShape(s)
    /\ Levels \subseteq 5 .. 16     \* from 16 pixels wide or high to 32768, Vulkan's most
    /\ Compute \subseteq BOOLEAN
    /\ Asked \subseteq Shapes

VARIABLES
    scene,      \* m_CurrentScene
    compute,    \* m_SupportCompute
    levels,     \* m_BloomTexture->GetMipMapLevels()
    stage,      \* what OnRender does next
    main,       \* m_MainTexture
    post,       \* m_PostProcessTexture1
    last,       \* m_LastRenderTarget
    bloomLast,  \* m_BloomTextureLastRenderered
    target,     \* m_MainTexture when the forward queue was made
    envMap,     \* m_ForwardData.m_EnvironmentMap is the scene's, not the default
    cubeMap,    \* m_CubeMap # nullptr
    marked,     \* forward set 2 is to be updated
    lut,        \* ~m_GenerateBRDFLUT
    mip,        \* the loop variable of BloomPass
    even,       \* evenMip
    gpu         \* the images: layout, holds, level, and the last draw

graphVars == <<scene, compute, levels, stage, main, post, last, bloomLast, target,
               envMap, cubeMap, marked, lut, mip, even, gpu>>
vars == <<graphVars, batchVars, debugVars>>

Mains  == {"hdr0", "hdr1"}
Blooms == {"bloom", "bloom1", "bloom2"}
Images == Mains \cup Blooms \cup {"depth", "shadow", "lut", "cube", "white", "out"}

Mips == levels - 2

Layouts == {"SHADER_READ", "DEPTH_READ", "COLOUR_ATTACHMENT", "DEPTH_ATTACHMENT",
            "GENERAL", "TRANSFER_DST"}

Passes == {"forward", "sky", "sprites", "texts", "tone", "deband", "fxaa", "chroma", "grain",
           "debug", "final"}

GPU == [layout : [Images -> Layouts],
        holds  : [Images -> Seq(Passes)],
        level  : [Blooms -> [0 .. 15 -> SUBSET Nat]],
        draw   : [reads : SUBSET Images, writes : SUBSET Images]]
-----------------------------------------------------------------------------
(***************************************************************************)
(* Layouts.  Updating a descriptor set, or TransitionImages, makes what it *)
(* samples and stores readable; binding a graphics pipeline makes what it  *)
(* draws to writable; a compute pipeline changes nothing.                  *)
(***************************************************************************)
ReadLayout(i)  == IF i \in {"depth", "shadow"} THEN "DEPTH_READ" ELSE "SHADER_READ"
DrawnLayout(i) == IF i \in {"depth", "shadow"} THEN "DEPTH_ATTACHMENT" ELSE "COLOUR_ATTACHMENT"

Relaid(g, images, LayoutOf(_)) ==
    [g EXCEPT !.layout = [i \in Images |-> IF i \in images THEN LayoutOf(i) ELSE g.layout[i]]]

Sampled(g, images) == Relaid(g, images, ReadLayout)
Stored(g, images)  == Relaid(g, images, LAMBDA i : "GENERAL")
Bound(g, images)   == Relaid(g, images, DrawnLayout)

\* A draw call or dispatch that samples reads and writes to.
Call(g, reads, writes) == [g EXCEPT !.draw = [reads |-> reads, writes |-> writes]]

\* Replaces what an image holds, or draws over it.
From(g, source, image, pass) ==
    [g EXCEPT !.holds[image] = Append(g.holds[source], pass)]
Onto(g, image, pass) == From(g, image, image, pass)

NoDraw(g) == [g EXCEPT !.draw = [reads |-> {}, writes |-> {}]]

\* The images a call writes, by the kind of pipeline.
Written(g, image, byCompute) ==
    IF byCompute THEN Stored(g, {image}) ELSE Bound(g, {image})

\* A graphics pass over the scene: it samples reads and draws to main, with
\* the depth image.
ScenePass(pass, reads) ==
    gpu' = Onto(Call(Bound(Sampled(gpu, reads), {main, "depth"}), reads, {main, "depth"}),
                main, pass)

Skip(next) ==
    /\ stage' = next
    /\ gpu' = NoDraw(gpu)
-----------------------------------------------------------------------------
NoHolds == [i \in Images |-> <<>>]
NoLevel == [i \in Blooms |-> [m \in 0 .. 15 |-> {}]]

Init ==
    /\ compute \in Compute /\ levels \in Levels
    /\ scene \in Scenes
    /\ stage = "idle"
    /\ main = "hdr0" /\ post = "hdr1" /\ last = "hdr0"
    /\ bloomLast = "white" /\ target = "hdr0"
    /\ envMap = FALSE /\ cubeMap = FALSE
    /\ marked = FALSE /\ lut = FALSE
    /\ mip = 0 /\ even = TRUE
    /\ gpu = [layout |-> [i \in Images |->
                            IF i \in {"cube", "white"} THEN "SHADER_READ" ELSE DrawnLayout(i)],
              holds |-> NoHolds, level |-> NoLevel,
              draw |-> [reads |-> {}, writes |-> {}]]
    /\ BatchInit /\ DebugInit
-----------------------------------------------------------------------------
(* Between two frames. *)

\* OnResize makes the images anew, except the shadow map and the table of the
\* BRDF; a new image comes in the layout its kind is drawn to with.
OnResize ==
    /\ stage = "idle"
    /\ levels' \in Levels
    /\ gpu' = [NoDraw(Bound(gpu, Mains \cup Blooms \cup {"depth"})) EXCEPT !.level = NoLevel]
    /\ UNCHANGED <<scene, compute, stage, main, post, last, bloomLast, target, envMap,
                   cubeMap, marked, lut, mip, even, batchVars, debugVars>>

\* OnNewScene forgets the environment; forward set 2 is made anew.
OnNewScene ==
    /\ stage = "idle"
    /\ envMap' = FALSE /\ cubeMap' = FALSE /\ marked' = FALSE
    /\ UNCHANGED <<scene, compute, levels, stage, main, post, last, bloomLast, target, lut,
                   mip, even, gpu, batchVars, debugVars>>

\* OnDebugDraw, OnUpdate and OnImGui of the application may ask for shapes.
Ask(shape) ==
    /\ stage = "idle"
    /\ Draw(shape)
    /\ UNCHANGED <<graphVars, batchVars>>
-----------------------------------------------------------------------------
(***************************************************************************)
(* BeginScene: any of the scenes, whose settings and entities may have been *)
(* edited since the last frame.  The environment is looked up when the sky *)
(* or the meshes are drawn, and the queue is made, its pipelines for the   *)
(* main image of now.                                                      *)
(***************************************************************************)
FirstEnvironment(s) ==
    IF s.on \cap {"sky", "3d"} = {} THEN UNCHANGED <<envMap, cubeMap>>
    ELSE IF s.env THEN envMap' = TRUE /\ cubeMap' = (cubeMap \/ ~envMap)
    ELSE envMap' = FALSE /\ cubeMap' = (cubeMap /\ ~envMap)

BeginScene(s) ==
    /\ stage = "idle"
    /\ scene' = s
    /\ FirstEnvironment(s)
    /\ marked' = (marked \/ "3d" \in s.on)
    /\ target' = main
    /\ stage' = "clear"
    /\ UNCHANGED <<compute, levels, main, post, last, bloomLast, lut, mip, even,
                   gpu, batchVars, debugVars>>

\* OnRender clears the main image, which keeps its layout, and the depth image,
\* which is left ready for a transfer.
Clear ==
    /\ stage = "clear"
    /\ bloomLast' = "white"
    /\ gpu' = [NoDraw(gpu) EXCEPT !.holds = NoHolds, !.level = NoLevel,
                                  !.layout["depth"] = "TRANSFER_DST"]
    /\ stage' = "lut"
    /\ UNCHANGED <<scene, compute, levels, main, post, last, target, envMap, cubeMap,
                   marked, lut, mip, even, batchVars, debugVars>>

GenerateBRDFLUTPass ==
    /\ stage = "lut"
    /\ stage' = "prepass"
    /\ lut' = TRUE
    /\ gpu' = IF lut THEN NoDraw(gpu) ELSE Call(Bound(gpu, {"lut"}), {}, {"lut"})
    /\ UNCHANGED <<scene, compute, levels, main, post, last, bloomLast, target, envMap,
                   cubeMap, marked, mip, even, batchVars, debugVars>>

\* The pipeline is bound even when no mesh is drawn.
DepthPrePass ==
    /\ stage = "prepass"
    /\ stage' = "shadow"
    /\ gpu' = Call(Bound(gpu, {"depth"}), {}, {"depth"})
    /\ UNCHANGED <<scene, compute, levels, main, post, last, bloomLast, target, envMap,
                   cubeMap, marked, lut, mip, even, batchVars, debugVars>>

ShadowPass ==
    /\ stage = "shadow"
    /\ stage' = "forward"
    /\ gpu' = IF "shadow" \in scene.on /\ scene.casters
              THEN Call(Bound(gpu, {"shadow"}), {}, {"shadow"})
              ELSE NoDraw(gpu)
    /\ UNCHANGED <<scene, compute, levels, main, post, last, bloomLast, target, envMap,
                   cubeMap, marked, lut, mip, even, batchVars, debugVars>>

\* What the meshes are drawn with and to.
ForwardReads == {"shadow", "lut", "cube"}
ForwardDrawn(g) ==
    Onto(Call(Bound(g, {target, "depth"}), ForwardReads, {target, "depth"}), target, "forward")

\* A mutant: the set is not updated.
ForwardPassUnmarked ==
    /\ stage = "forward"
    /\ stage' = "sky"
    /\ marked' = FALSE
    /\ gpu' = IF "3d" \in scene.on /\ scene.meshes THEN ForwardDrawn(gpu) ELSE NoDraw(gpu)
    /\ UNCHANGED <<scene, compute, levels, main, post, last, bloomLast, target, envMap,
                   cubeMap, lut, mip, even, batchVars, debugVars>>

\* Without meshes the pass returns before it updates the set.
ForwardPass ==
    /\ stage = "forward"
    /\ stage' = "sky"
    /\ IF "3d" \in scene.on /\ scene.meshes
       THEN /\ gpu' = ForwardDrawn(IF marked THEN Sampled(gpu, ForwardReads) ELSE gpu)
            /\ marked' = FALSE
       ELSE /\ gpu' = NoDraw(gpu)
            /\ UNCHANGED marked
    /\ UNCHANGED <<scene, compute, levels, main, post, last, bloomLast, target, envMap,
                   cubeMap, lut, mip, even, batchVars, debugVars>>

SkyboxPass ==
    /\ stage = "sky"
    /\ stage' = "sprites"
    /\ IF "sky" \in scene.on /\ cubeMap THEN ScenePass("sky", {"cube"}) ELSE gpu' = NoDraw(gpu)
    /\ IF "2d" \in scene.on THEN BeginBatches(scene.sprites, scene.sprites, MaxQuads)
       ELSE UNCHANGED batchVars
    /\ UNCHANGED <<scene, compute, levels, main, post, last, bloomLast, target, envMap,
                   cubeMap, marked, lut, mip, even, debugVars>>
-----------------------------------------------------------------------------
(* Sprites and text draw to the main image, in batches (SpriteBatch). *)

Sprites2D == "2d" \in scene.on /\ scene.sprites # <<>>

Render2DQuad ==
    /\ stage = "sprites" /\ Sprites2D
    /\ NextSprite
    /\ UNCHANGED <<graphVars, debugVars>>

\* Render2DPass returns at once without sprites; else the last batch is drawn.
Render2DPass ==
    /\ stage = "sprites"
    /\ stage' = "shown2d"
    /\ IF Sprites2D
       THEN /\ EndBatches
            /\ ScenePass("sprites", {})
       ELSE /\ gpu' = NoDraw(gpu)
            /\ UNCHANGED batchVars
    /\ UNCHANGED <<scene, compute, levels, main, post, last, bloomLast, target, envMap,
                   cubeMap, marked, lut, mip, even, debugVars>>

\* The text pass has buffers and sets of its own.
BeginText ==
    /\ stage = "shown2d"
    /\ Skip("text")
    /\ BeginBatches(scene.texts,
         FlattenSeq([k \in DOMAIN scene.texts |->
                       [i \in 1 .. scene.texts[k].glyphs |-> scene.texts[k].font]]),
         TextQuads)
    /\ UNCHANGED <<scene, compute, levels, main, post, last, bloomLast, target, envMap,
                   cubeMap, marked, lut, mip, even, debugVars>>

TextQuad ==
    /\ stage = "text"
    /\ NextText
    /\ UNCHANGED <<graphVars, debugVars>>

\* The end of TextPass, which has no depth image and draws nothing without
\* glyphs; OnRender then takes the main image for the last one drawn to.
TextPass ==
    /\ stage = "text"
    /\ EndBatches
    /\ gpu' = IF data'.calls = <<>> THEN NoDraw(gpu)
              ELSE Onto(Call(Bound(gpu, {main}), {}, {main}), main, "texts")
    /\ last' = main
    /\ stage' = IF "bloom" \in scene.on THEN "bloom" ELSE "tone"
    /\ UNCHANGED <<scene, compute, levels, main, post, bloomLast, target, envMap, cubeMap,
                   marked, lut, mip, even, debugVars>>
-----------------------------------------------------------------------------
(***************************************************************************)
(* BloomPass.  Level i of a chain is made from level i - 1; on the way up  *)
(* each level is added to the ones below.  Without compute shaders the     *)
(* image that is drawn to cannot be sampled, so the passes alternate       *)
(* between two images.                                                     *)
(***************************************************************************)
\* A dispatch or draw to a level of a bloom image; with compute shaders the
\* set's image is stored to, after the set's images are made readable.
BloomCall(reads, image, level, adds) ==
    LET g == Written(Sampled(gpu, reads), image, compute)
    IN  gpu' = [Call(g, reads, {image}) EXCEPT !.level[image][level] = adds]

Below(adds) == {n + 1 : n \in adds}

Prefilter ==
    /\ stage = "bloom"
    /\ BloomCall({main}, "bloom", 0, {0})
    /\ mip' = 1
    /\ stage' = "down"
    /\ UNCHANGED <<scene, compute, levels, main, post, last, bloomLast, target, envMap,
                   cubeMap, marked, lut, even, batchVars, debugVars>>

\* One turn of the first loop has two calls: a filtered copy, and back.
Downsample ==
    /\ stage = "down" /\ mip < Mips
    /\ BloomCall({"bloom", main}, "bloom1", mip, Below(gpu.level["bloom"][mip - 1]))
    /\ stage' = "back"
    /\ UNCHANGED <<scene, compute, levels, main, post, last, bloomLast, target, envMap,
                   cubeMap, marked, lut, mip, even, batchVars, debugVars>>

DownsampleBack ==
    /\ stage = "back"
    /\ BloomCall({"bloom1", main}, "bloom", mip, gpu.level["bloom1"][mip])
    /\ mip' = mip + 1
    /\ stage' = "down"
    /\ UNCHANGED <<scene, compute, levels, main, post, last, bloomLast, target, envMap,
                   cubeMap, marked, lut, even, batchVars, debugVars>>

FirstUpsample ==
    /\ stage = "down" /\ mip >= Mips
    /\ BloomCall({"bloom", main}, "bloom2", Mips - 2,
                 gpu.level["bloom"][Mips - 1] \cup gpu.level["bloom"][Mips - 2])
    /\ mip' = Mips - 3
    /\ even' = TRUE
    /\ stage' = "up"
    /\ UNCHANGED <<scene, compute, levels, main, post, last, bloomLast, target, envMap,
                   cubeMap, marked, lut, batchVars, debugVars>>

UpsampleFrom(source, image) ==
    /\ stage = "up" /\ mip >= 0
    /\ BloomCall({"bloom", source}, image, mip,
                 gpu.level["bloom"][mip] \cup gpu.level[source][mip + 1])
    /\ bloomLast' = image
    /\ mip' = mip - 1
    /\ even' = ~even
    /\ UNCHANGED <<scene, compute, levels, stage, main, post, last, target, envMap,
                   cubeMap, marked, lut, batchVars, debugVars>>

Upsample ==
    IF even THEN UpsampleFrom("bloom2", "bloom1") ELSE UpsampleFrom("bloom1", "bloom2")

EndBloom ==
    /\ stage = "up" /\ mip < 0
    /\ Skip("tone")
    /\ UNCHANGED <<scene, compute, levels, main, post, last, bloomLast, target, envMap,
                   cubeMap, marked, lut, mip, even, batchVars, debugVars>>
-----------------------------------------------------------------------------

(***************************************************************************)
(* The full screen effects: each reads the main image and writes the other *)
(* one, which then becomes the main image.                                 *)
(***************************************************************************)
Effect(pass, reads, byCompute) ==
    /\ gpu' = From(Call(Written(Sampled(gpu, reads), post, byCompute), reads, {post}),
                   main, post, pass)
    /\ last' = post
    /\ main' = post
    /\ post' = main
    /\ UNCHANGED <<scene, compute, levels, bloomLast, target, envMap, cubeMap, marked, lut,
                   mip, even, batchVars, debugVars>>

\* One of the optional effects, in the order of OnRender.
Optional(feature, next, byCompute) ==
    /\ stage = feature
    /\ stage' = next
    /\ IF feature \in scene.on THEN Effect(feature, {main}, byCompute)
       ELSE /\ gpu' = NoDraw(gpu)
            /\ UNCHANGED <<scene, compute, levels, main, post, last, bloomLast, target,
                           envMap, cubeMap, marked, lut, mip, even, batchVars, debugVars>>

ToneMappingPass ==
    /\ stage = "tone"
    /\ stage' = "deband"
    /\ Effect("tone", {main, bloomLast}, FALSE)

DebandingPass == Optional("deband", "fxaa", FALSE)

\* A mutant: the images do not change roles.
FXAAPassUnswapped ==
    /\ stage = "fxaa"
    /\ stage' = "chroma"
    /\ gpu' = IF "fxaa" \in scene.on
              THEN From(Call(Written(Sampled(gpu, {main}), post, compute), {main}, {post}),
                        main, post, "fxaa")
              ELSE NoDraw(gpu)
    /\ last' = IF "fxaa" \in scene.on THEN post ELSE last
    /\ UNCHANGED <<scene, compute, levels, main, post, bloomLast, target, envMap, cubeMap,
                   marked, lut, mip, even, batchVars, debugVars>>

FXAAPass == Optional("fxaa", "chroma", compute)

ChromaticAberationPass == Optional("chroma", "grain", FALSE)

FilmicGrainPass == Optional("grain", "debug", FALSE)

\* DebugPass of DebugRenderer, drawn to the main image.
Debug ==
    /\ stage = "debug"
    /\ stage' = "final"
    /\ IF "debug" \in scene.on
       THEN /\ DebugPass
            /\ IF shown' = <<>> THEN gpu' = NoDraw(gpu) ELSE ScenePass("debug", {})
       ELSE gpu' = NoDraw(gpu) /\ UNCHANGED debugVars
    /\ UNCHANGED <<scene, compute, levels, main, post, last, bloomLast, target, envMap,
                   cubeMap, marked, lut, mip, even, batchVars>>

\* The last image goes to the texture of the scene view or to the swapchain.
FinalPass ==
    /\ stage = "final"
    /\ stage' = "rendered"
    /\ gpu' = From(Call(Bound(Sampled(gpu, {last}), {"out"}), {last}, {"out"}),
                   last, "out", "final")
    /\ UNCHANGED <<scene, compute, levels, main, post, last, bloomLast, target, envMap,
                   cubeMap, marked, lut, mip, even, batchVars, debugVars>>

\* Application::OnRender resets the debug lists after the frame.
EndFrame ==
    /\ stage = "rendered"
    /\ Skip("idle")
    /\ Reset
    /\ UNCHANGED <<scene, compute, levels, main, post, last, bloomLast, target, envMap,
                   cubeMap, marked, lut, mip, even, batchVars>>
-----------------------------------------------------------------------------
Next ==
    \/ OnResize \/ OnNewScene \/ (\E shape \in Asked : Ask(shape))
    \/ (\E s \in Scenes : BeginScene(s)) \/ Clear \/ GenerateBRDFLUTPass \/ DepthPrePass \/ ShadowPass
    \/ ForwardPass \/ SkyboxPass \/ Render2DQuad \/ Render2DPass \/ BeginText
    \/ TextQuad \/ TextPass
    \/ Prefilter \/ Downsample \/ DownsampleBack \/ FirstUpsample \/ Upsample \/ EndBloom
    \/ ToneMappingPass \/ DebandingPass \/ FXAAPass \/ ChromaticAberationPass
    \/ FilmicGrainPass \/ Debug \/ FinalPass \/ EndFrame

Spec == Init /\ [][Next]_vars
-----------------------------------------------------------------------------
Stages == {"idle", "clear", "lut", "prepass", "shadow", "forward", "sky", "sprites",
           "shown2d", "text", "bloom", "down", "back", "up", "tone", "deband", "fxaa",
           "chroma", "grain", "debug", "final", "rendered"}

\* The types of the variables of the passes; main and post are always the two
\* main images, whichever effects have made them change roles.
TypeOK ==
    /\ SceneShape(scene) /\ compute \in Compute /\ levels \in Levels
    /\ stage \in Stages
    /\ {main, post} = Mains
    /\ {last, target} \subseteq Mains
    /\ bloomLast \in Blooms \cup {"white"}
    /\ {envMap, cubeMap, marked, lut, even} \subseteq BOOLEAN
    /\ mip \in -1 .. Mips
    /\ gpu \in GPU

\* No call samples what it draws to, and at each call every image it samples has
\* the layout to be read and every image it draws to the layout to be written
\* (DescriptorSet::Update, TransitionImages and Pipeline::Bind, which change the
\* layouts as a side effect, in all the orders that the settings, a resize and
\* the passes of the frame before put them in).
DrawsAreLegal ==
    /\ gpu.draw.reads \cap gpu.draw.writes = {}
    /\ \A i \in gpu.draw.reads : gpu.layout[i] = ReadLayout(i)
    /\ \A i \in gpu.draw.writes : gpu.layout[i] \in {DrawnLayout(i), "GENERAL"}

\* The same, with the ranges of the variables.
FrameLegal == TypeOK /\ DrawsAreLegal

\* What the passes of a frame should add up to.
Part(cond, pass) == IF cond THEN <<pass>> ELSE <<>>

Wanted ==
    Part("3d" \in scene.on /\ scene.meshes, "forward")
    \o Part("sky" \in scene.on /\ scene.env, "sky")
    \o Part("2d" \in scene.on /\ scene.sprites # <<>>, "sprites")
    \o Part(\E k \in DOMAIN scene.texts : scene.texts[k].glyphs > 0, "texts")
    \o <<"tone">>
    \o Part("deband" \in scene.on, "deband")
    \o Part("fxaa" \in scene.on, "fxaa")
    \o Part("chroma" \in scene.on, "chroma")
    \o Part("grain" \in scene.on, "grain")
    \o Part("debug" \in scene.on /\ (\E k \in DOMAIN submitted : submitted[k].n > 0), "debug")
    \o <<"final">>

\* The image of a frame shows every pass that is switched on, each on top of the
\* one before, and nothing of an earlier frame; the bloom that tone mapping adds
\* is made of every level of this frame's chain (OnRender and the swaps of main
\* and post at the end of each effect).
EffectsShown ==
    stage = "rendered" =>
        /\ gpu.holds["out"] = Wanted
        /\ "bloom" \in scene.on =>
             bloomLast \in Blooms /\ gpu.level[bloomLast][0] = 0 .. Mips - 1
        /\ "bloom" \notin scene.on => bloomLast = "white"

\* When the sprites of a frame or its texts are drawn, each call stays within its
\* buffers, its table and the descriptor sets, and the GPU will show each quad
\* once, in the order of the queue and with the texture it was submitted with,
\* however the queue was cut into batches (Render2DPass, SubmitTexture,
\* Render2DFlush, TextPass).  Left out are the queues that the code does not look
\* at in time: of sprites, those that may need more than MaxBatches batches; of
\* texts, all those with more glyphs together than one vertex buffer holds or
\* with more fonts than the table (TextPass writes past the end of both).
Drawn == Picture(data) = asked /\ CallsFit(data)

SpritesShown ==
    /\ stage = "shown2d" /\ Sprites2D /\ SpritesFit(scene.sprites) => Drawn
    /\ stage = "rendered" /\ TextsFit(scene.texts) => Drawn

\* DebugPass shows each shape asked for since the last frame in exactly one call
\* of its kind, with all of its primitives, and nothing else (the buffers that
\* lines, thick lines and the two lists share; Reset at the end of the frame).
DebugShown ==
    stage = "final" /\ "debug" \in scene.on =>
        /\ \A id \in DOMAIN submitted :
             submitted[id].n > 0 =>
                \E k \in DOMAIN shown :
                    ShownAs(id, submitted[id].kind, submitted[id].n) = {k}
        /\ \A k \in DOMAIN shown :
             /\ \A i \in DOMAIN shown[k].items : shown[k].items[i].id \in DOMAIN submitted
             /\ shown[k].indices = IndicesOf(shown[k].kind) *
                    Primitives(shown[k].items)
=============================================================================
