--------------------------- MODULE EngineShaders ----------------------------
(***************************************************************************)
(* The engine's shaders and the passes of the render graph that use them:  *)
(* what is in the binaries built into the program (assets/shaders), what   *)
(* each pass sets and draws.  Sizes and offsets are bytes.                 *)
(***************************************************************************)
EXTENDS PipelineSetup

LOCAL In(location, base, n) == [location |-> location, type |-> [base |-> base, width |-> 32, vecsize |-> n]]
LOCAL Floats(sizes) == [k \in DOMAIN sizes |-> In(k - 1, "Float", sizes[k])]
LOCAL At(offset, size) == [offset |-> offset, size |-> size]
LOCAL UBO(set, binding, name, size, members) ==
    [set |-> set, binding |-> binding, name |-> name, count |-> 1, size |-> size, members |-> members]
LOCAL Image(set, binding, name) == [set |-> set, binding |-> binding, name |-> name, count |-> 1]
LOCAL Images(set, names) == [k \in DOMAIN names |-> Image(set, k - 1, names[k])]
LOCAL Stage(type) == [type |-> type, inputs |-> <<>>, buffers |-> <<>>, push |-> <<>>,
                      samplers |-> <<>>, images |-> <<>>]
LOCAL Push(members) == [members |-> members,
                        active |-> [k \in 1 .. Cardinality(DOMAIN members) |->
                                      members[SetToSeq(DOMAIN members)[k]].size]]
-----------------------------------------------------------------------------
(* The binaries. *)

MeshInputs == Floats(<<3, 4, 2, 3, 3>>)

MeshVertex(name, member, size, push) ==
    [Stage("VERTEX") EXCEPT !.inputs = MeshInputs, !.push = push,
                            !.buffers = <<UBO(0, 0, name, size, (member :> At(0, size)))>>]

ForwardVertex == MeshVertex("UBO", "projView", 64, <<Push([transform |-> At(0, 64)])>>)
ShadowVertex == MeshVertex("ShadowData", "LightMatrices", 1024,
                           <<Push([transform |-> At(0, 64), cascadeIndex |-> At(64, 4)])>>)
SkyboxVertex == MeshVertex("UBO", "invprojview", 64, <<>>)
GridVertex ==
    [Stage("VERTEX") EXCEPT !.inputs = MeshInputs,
        !.buffers = <<UBO(0, 0, "UBO", 192, [view |-> At(0, 64), proj |-> At(64, 64), u_MVP |-> At(128, 64)])>>]
ScreenVertex == Stage("VERTEX")

Batch(sizes) ==
    [Stage("VERTEX") EXCEPT !.inputs = Floats(sizes),
                            !.buffers = <<UBO(0, 0, "UBO", 64, [projView |-> At(0, 64)])>>]

MaterialMaps == {"u_AlbedoMap", "u_MetallicMap", "u_RoughnessMap", "u_NormalMap", "u_AOMap", "u_EmissiveMap"}

\* The material's set of the three shaders that draw meshes, as its binary
\* orders it.
MaterialFragment(names) ==
    [Stage("FRAGMENT") EXCEPT
        !.buffers = <<UBO(1, 6, "UniformMaterialData", 64, <<>>)>>,
        !.samplers = [k \in DOMAIN names |->
            Image(1, CASE names[k] = "u_AlbedoMap" -> 0 [] names[k] = "u_MetallicMap" -> 1
                       [] names[k] = "u_RoughnessMap" -> 2 [] names[k] = "u_NormalMap" -> 3
                       [] names[k] = "u_AOMap" -> 4 [] names[k] = "u_EmissiveMap" -> 5, names[k])]]

InOrder == MaterialFragment(<<"u_AlbedoMap", "u_MetallicMap", "u_RoughnessMap", "u_NormalMap",
                              "u_AOMap", "u_EmissiveMap">>)

LightMembers ==
    [lights |-> At(0, 2048), ShadowTransform |-> At(2048, 256), ViewMatrix |-> At(2304, 64),
     LightView |-> At(2368, 64), BiasMatrix |-> At(2432, 64), cameraPosition |-> At(2496, 16),
     SplitDepths |-> At(2512, 64), LightSize |-> At(2576, 4), MaxShadowDist |-> At(2580, 4),
     ShadowFade |-> At(2584, 4), CascadeFade |-> At(2588, 4), LightCount |-> At(2592, 4),
     ShadowCount |-> At(2596, 4), Mode |-> At(2600, 4), EnvMipCount |-> At(2604, 4),
     InitialBias |-> At(2608, 4)]

ForwardFragment ==
    LET material == MaterialFragment(<<"u_AlbedoMap", "u_MetallicMap", "u_RoughnessMap", "u_AOMap",
                                       "u_EmissiveMap", "u_NormalMap">>)
    IN  [material EXCEPT !.buffers = Append(@, UBO(2, 4, "UBOLight", 2612, LightMembers)),
                         !.samplers = @ \o <<Image(2, 3, "uShadowMap"), Image(2, 2, "uIrrMap"),
                                             Image(2, 1, "uEnvMap"), Image(2, 0, "uBRDFLUT")>>]

\* A full screen effect: it reads one picture or more.
Effect(samplers, buffers, push) ==
    [Stage("FRAGMENT") EXCEPT !.samplers = samplers, !.buffers = buffers, !.push = push]

OneTexture == <<Image(0, 1, "u_Texture")>>
TwoTextures == Append(OneTexture, Image(0, 2, "u_BloomTexture"))
BloomPush == Push([Params |-> At(0, 16), Params2 |-> At(16, 16)])
TextureArray == [Stage("FRAGMENT") EXCEPT !.samplers = <<[Image(1, 0, "textures") EXCEPT !.count = 16]>>]

\* LoadEngineShaders: the embedded shaders by name, one with and one without
\* compute for bloom and FXAA.
Library ==
    [Skybox |-> Embedded(<<SkyboxVertex, Effect(<<Image(0, 1, "u_CubeMap")>>, <<>>, <<>>)>>),
     ForwardPBR |-> Embedded(<<ForwardVertex, ForwardFragment>>),
     Shadow |-> Embedded(<<ShadowVertex, InOrder>>),
     DepthPrePass |-> Embedded(<<ForwardVertex, InOrder>>),
     Batch2DPoint |-> Embedded(<<Batch(<<3, 4, 2, 2>>), Stage("FRAGMENT")>>),
     Batch2DLine |-> Embedded(<<Batch(<<3, 4>>), Stage("FRAGMENT")>>),
     Batch2D |-> Embedded(<<Batch(<<3, 2, 2, 4>>), TextureArray>>),
     Text |-> Embedded(<<Batch(<<3, 2, 2, 4, 4>>), TextureArray>>),
     FinalPass |-> Embedded(<<ScreenVertex, Effect(OneTexture, <<>>, <<>>)>>),
     Grid |-> Embedded(<<GridVertex, Effect(<<>>, <<UBO(0, 1, "UniformBuffer", 48, <<>>)>>, <<>>)>>),
     CreateEnvironmentMap |-> Embedded(<<ScreenVertex, Effect(<<Image(0, 0, "u_Texture")>>, <<>>,
                                          <<Push([cubeFaceIndex |-> At(0, 4)])>>)>>),
     FXAA |-> Embedded(<<ScreenVertex, Effect(OneTexture, <<>>, <<>>)>>),
     FXAAComp |-> Embedded(<<[Stage("COMPUTE") EXCEPT !.samplers = <<Image(0, 0, "u_Texture")>>,
                                                       !.images = <<Image(0, 1, "o_Image")>>]>>),
     FilmicGrain |-> Embedded(<<ScreenVertex, Effect(OneTexture, <<>>,
                                 <<Push([time |-> At(0, 4), filmGrainIntensity |-> At(4, 4)])>>)>>),
     Debanding |-> Embedded(<<ScreenVertex, Effect(OneTexture, <<>>, <<>>)>>),
     ChromaticAberation |-> Embedded(<<ScreenVertex, Effect(OneTexture,
        <<UBO(0, 0, "UniformBuffer", 16,
              [chromaticAberrationIntensity |-> At(0, 4), cameraAperture |-> At(4, 4)])>>, <<>>)>>),
     ToneMapping |-> Embedded(<<ScreenVertex, Effect(TwoTextures,
        <<UBO(0, 0, "UniformBuffer", 16, [BloomIntensity |-> At(0, 4), ToneMapIndex |-> At(4, 4)])>>, <<>>)>>),
     Bloom |-> Embedded(<<ScreenVertex, Effect(TwoTextures, <<>>, <<BloomPush>>)>>),
     BloomComp |-> Embedded(<<[Stage("COMPUTE") EXCEPT !.samplers = TwoTextures, !.push = <<BloomPush>>,
                                                        !.images = <<Image(0, 0, "o_Image")>>]>>),
     BRDFLUT |-> Embedded(<<ScreenVertex, Stage("FRAGMENT")>>)]
-----------------------------------------------------------------------------
(* What the passes draw with: the members of a vertex of the program, as   *)
(* the sizes of its fields, and the targets.                               *)

Vertex == <<12, 16, 8, 12, 12>>
VertexData == <<12, 8, 8, 16>>
TextVertexData == <<12, 8, 8, 16, 16>>
LineVertexData == <<12, 16>>
PointVertexData == <<12, 16, 8, 8>>
NoVertex == <<>>

Colour(mips) == [type |-> "COLOUR", layout |-> "SHADER_READ_ONLY_OPTIMAL", mips |-> mips]
MainTexture == Colour(1)
BloomTexture == Colour(3)
DepthTexture == [type |-> "DEPTH", layout |-> "SHADER_READ_ONLY_OPTIMAL"]
ShadowMap == [type |-> "DEPTHARRAY", layout |-> "SHADER_READ_ONLY_OPTIMAL", layers |-> 4]
SwapImages == [k \in 1 .. 3 |-> [type |-> "COLOUR", layout |-> "PRESENT_SRC_KHR", mips |-> 1, index |-> k]]

\* A set a pass binds: the shader and index it was made for, the uniforms,
\* buffers and textures the pass sets in it.  A uniform is <<buffer, member,
\* bytes>>, the bytes those of the variable it is read from.
\* An array is one whose length the pass gives.
BoundSet(shader, index, uniforms, buffers, textures) ==
    [shader |-> shader, index |-> index, uniforms |-> uniforms, buffers |-> buffers,
     textures |-> textures, arrays |-> {}]

\* A pass writes its first block of push constants by offset and size, or a
\* member of it by name.
NoPush == [raw |-> {}, named |-> {}]
Raw(writes) == [raw |-> writes, named |-> {}]
Named(members) == [raw |-> {}, named |-> members]

\* A pass draws with a shader into what a description names.
Pass(shader, desc, vertex, sets, push) ==
    [shader |-> shader, desc |-> desc, vertex |-> vertex, sets |-> sets, push |-> push]

Into(target) == [DefaultDesc EXCEPT !.colourTargets = <<target>>]
IntoDepth(target) == [Into(target) EXCEPT !.depthTarget = DepthTexture]
Blended(desc) == [desc EXCEPT !.transparencyEnabled = TRUE, !.blendMode = "SrcAlphaOneMinusSrcAlpha"]
Cleared(desc) == [desc EXCEPT !.clearTargets = TRUE]

\* Material::CreateDescriptorSet and UpdateDescriptorSet.
MaterialSet == BoundSet("ForwardPBR", 1, {}, {<<"UniformMaterialData", 64>>}, MaterialMaps)

CameraSet(shader) == BoundSet(shader, 0, {<<"UBO", "projView", 64>>}, {}, {})

\* The lights are the first of an array; numLights of them are copied, which
\* only fit while there are no more than the shader's 32.
MaxLights == 32
LightSet(numLights) ==
    [BoundSet("ForwardPBR", 2,
        {<<"UBOLight", "cameraPosition", 16>>, <<"UBOLight", "ViewMatrix", 64>>,
         <<"UBOLight", "LightView", 64>>, <<"UBOLight", "ShadowTransform", 1024>>,
         <<"UBOLight", "SplitDepths", 256>>, <<"UBOLight", "BiasMatrix", 64>>}
          \cup {<<"UBOLight", m, 4>> : m \in {"LightSize", "ShadowFade", "CascadeFade", "MaxShadowDist",
                "InitialBias", "LightCount", "ShadowCount", "Mode", "EnvMipCount"}},
        {}, {"uShadowMap", "uBRDFLUT", "uEnvMap", "uIrrMap"})
     EXCEPT !.arrays = {<<"UBOLight", "lights", 64 * numLights>>}]

GenerateBRDFLUT == Pass("BRDFLUT", Into(MainTexture), NoVertex, <<>>, NoPush)

ShadowPass ==
    Pass("Shadow",
         [Cleared(DefaultDesc) EXCEPT !.cullMode = "FRONT", !.depthArrayTarget = ShadowMap,
                                      !.depthBiasEnabled = TRUE],
         Vertex, <<BoundSet("Shadow", 0, {<<"ShadowData", "LightMatrices", 1024>>}, {}, {}), MaterialSet>>,
         Raw({<<0, 64>>, <<64, 4>>}))

DepthPrePass ==
    Pass("DepthPrePass",
         [DefaultDesc EXCEPT !.blendMode = "SrcAlphaOneMinusSrcAlpha", !.depthTarget = DepthTexture],
         Vertex, <<CameraSet("ForwardPBR"), MaterialSet>>, Named({"transform"}))

ForwardPass(depthTest, twoSided, alphaBlend, numLights) ==
    Pass("ForwardPBR",
         [(IF depthTest THEN IntoDepth(MainTexture) ELSE Into(MainTexture)) EXCEPT
            !.blendMode = "SrcAlphaOneMinusSrcAlpha", !.transparencyEnabled = alphaBlend,
            !.cullMode = IF twoSided THEN "NONE" ELSE "BACK"],
         Vertex, <<CameraSet("ForwardPBR"), MaterialSet, LightSet(numLights)>>, Named({"transform"}))

\* SkyboxPass also sets three uniforms of a buffer its shader does not have.
SkyboxPass ==
    Pass("Skybox", IntoDepth(MainTexture), Vertex,
         <<BoundSet("Skybox", 0, {<<"UBO", "invprojview", 64>>}, {}, {"u_CubeMap"})>>, NoPush)

GridPass(onScreen) ==
    Pass("Grid",
         Blended(IF onScreen THEN [DefaultDesc EXCEPT !.swapchainTarget = TRUE, !.depthTarget = DepthTexture]
                 ELSE IntoDepth(MainTexture)),
         Vertex,
         <<BoundSet("Grid", 0, {<<"UBO", "u_MVP", 64>>, <<"UBO", "view", 64>>, <<"UBO", "proj", 64>>},
                    {<<"UniformBuffer", 48>>}, {})>>, NoPush)

ScreenPass(shader, desc, uniforms, textures, push) ==
    Pass(shader, desc, NoVertex, <<BoundSet(shader, 0, uniforms, {}, textures)>>, push)

ToneMappingPass ==
    ScreenPass("ToneMapping", Into(MainTexture),
               {<<"UniformBuffer", "BloomIntensity", 4>>, <<"UniformBuffer", "ToneMapIndex", 4>>},
               {"u_Texture", "u_BloomTexture"}, NoPush)

\* Into the scene view's texture, or onto the screen.
FinalPass(onScreen) ==
    ScreenPass("FinalPass",
               IF onScreen THEN [DefaultDesc EXCEPT !.swapchainTarget = TRUE] ELSE Into(MainTexture),
               {}, {"u_Texture"}, NoPush)

BloomPass(compute, mip) ==
    ScreenPass(IF compute THEN "BloomComp" ELSE "Bloom",
               [DefaultDesc EXCEPT !.mipIndex = mip,
                                   !.colourTargets = IF compute THEN <<>> ELSE <<BloomTexture>>],
               {}, {"u_Texture", "u_BloomTexture"} \cup (IF compute THEN {"o_Image"} ELSE {}),
               Raw({<<0, 32>>}))

FXAAPass(compute) ==
    ScreenPass(IF compute THEN "FXAAComp" ELSE "FXAA",
               [DefaultDesc EXCEPT !.colourTargets = IF compute THEN <<>> ELSE <<MainTexture>>],
               {}, {"u_Texture"} \cup (IF compute THEN {"o_Image"} ELSE {}),NoPush)

DebandingPass == ScreenPass("Debanding", Cleared(Into(MainTexture)), {}, {"u_Texture"}, NoPush)

FilmicGrainPass ==
    ScreenPass("FilmicGrain", Cleared(Into(MainTexture)), {}, {"u_Texture"}, Named({"time", "filmGrainIntensity"}))

ChromaticAberationPass ==
    ScreenPass("ChromaticAberation", Cleared(Into(MainTexture)),
               {<<"UniformBuffer", "chromaticAberrationIntensity", 4>>, <<"UniformBuffer", "cameraAperture", 4>>},
               {"u_Texture"}, NoPush)

Render2DPass ==
    Pass("Batch2D", Blended(IntoDepth(MainTexture)), VertexData,
         <<CameraSet("Batch2D"), BoundSet("Batch2D", 1, {}, {}, {"textures"})>>, NoPush)

\* Its camera set is made for the sprites' shader, not the text's.
TextPass ==
    Pass("Text", Blended(Into(MainTexture)), TextVertexData,
         <<CameraSet("Batch2D"), BoundSet("Text", 1, {}, {}, {"textures"})>>, NoPush)

Tested(depthTest) == IF depthTest THEN IntoDepth(MainTexture) ELSE Into(MainTexture)

LinePass(depthTest, width) ==
    Pass("Batch2DLine", [Tested(depthTest) EXCEPT !.drawType = "LINES", !.lineWidth = width],
         LineVertexData, <<CameraSet("Batch2DLine")>>, NoPush)

PointPass(depthTest) ==
    Pass("Batch2DPoint", Blended(Tested(depthTest)), PointVertexData, <<CameraSet("Batch2DPoint")>>, NoPush)

\* Nothing is ever set in its second set.
TrianglePass(depthTest) ==
    Pass("Batch2D", [Blended(Tested(depthTest)) EXCEPT !.depthBiasEnabled = TRUE], VertexData,
         <<CameraSet("Batch2D"), BoundSet("Batch2D", 1, {}, {}, {})>>, NoPush)

Passes ==
    {GenerateBRDFLUT, ShadowPass, DepthPrePass, SkyboxPass, ToneMappingPass, DebandingPass,
     FilmicGrainPass, ChromaticAberationPass, Render2DPass, TextPass}
      \cup {ForwardPass(d, t, a, n) : d, t, a \in BOOLEAN, n \in {0, MaxLights}}
      \cup {FinalPass(s) : s \in BOOLEAN} \cup {GridPass(s) : s \in BOOLEAN}
      \cup {BloomPass(c, m) : c \in BOOLEAN, m \in 0 .. 2}
      \cup {FXAAPass(c) : c \in BOOLEAN} \cup {LinePass(d, w) : d \in BOOLEAN, w \in {1, 2}}
      \cup {PointPass(d) : d \in BOOLEAN} \cup {TrianglePass(d) : d \in BOOLEAN}
=============================================================================
