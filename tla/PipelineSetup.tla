--------------------------- MODULE PipelineSetup ----------------------------
(***************************************************************************)
(* VKPipeline, VKRenderPass and VKFramebuffer: what a pipeline description *)
(* makes of a shader and its targets.  A target is [type, layout], with    *)
(* mips or layers where it has them; a description has the fields of       *)
(* PipelineDesc the engine sets.                                           *)
(***************************************************************************)
EXTENDS ShaderInterface

\* The targets a description may name.
NoTarget == [type |-> "NONE"]

DefaultDesc ==
    [cullMode |-> "BACK", polygonMode |-> "FILL", drawType |-> "TRIANGLE", blendMode |-> "None",
     transparencyEnabled |-> FALSE, depthBiasEnabled |-> FALSE, swapchainTarget |-> FALSE,
     clearTargets |-> FALSE, colourTargets |-> <<>>, cubeMapTarget |-> NoTarget,
     depthTarget |-> NoTarget, depthArrayTarget |-> NoTarget, lineWidth |-> 1,
     cubeMapIndex |-> 0, mipIndex |-> -1]

\* TransitionAttachments: the layout each target is moved to when the pipeline
\* is made and when it is bound.  A cube map is left as it is.
InLayout(target, layout) == [target EXCEPT !.layout = layout]

TransitionAttachments(desc) ==
    [desc EXCEPT
        !.colourTargets = [k \in DOMAIN @ |-> InLayout(@[k], "COLOR_ATTACHMENT_OPTIMAL")],
        !.depthTarget = IF @ = NoTarget THEN @ ELSE InLayout(@, "DEPTH_STENCIL_ATTACHMENT_OPTIMAL"),
        !.depthArrayTarget =
            IF @ = NoTarget THEN @ ELSE InLayout(@, "DEPTH_STENCIL_ATTACHMENT_OPTIMAL")]

\* A mutant: the depth target comes first.
DepthFirst(desc, image) ==
    SelectSeq(<<desc.depthTarget>> \o (IF desc.swapchainTarget THEN <<image>> ELSE desc.colourTargets)
                \o <<desc.depthArrayTarget, desc.cubeMapTarget>>,
              LAMBDA t : t # NoTarget)

\* The attachments of the render pass: one swapchain image or the colour
\* targets, then the depth target, the depth array and the cube map.
Attachments(desc, image) ==
    SelectSeq((IF desc.swapchainTarget THEN <<image>> ELSE desc.colourTargets)
                \o <<desc.depthTarget, desc.depthArrayTarget, desc.cubeMapTarget>>,
              LAMBDA t : t # NoTarget)

\* GetAttachmentDescription.
AttachmentDescription(target, clear) ==
    [loadOp |-> IF clear THEN "CLEAR" ELSE "LOAD",
     initialLayout |-> IF clear THEN "UNDEFINED" ELSE target.layout,
     finalLayout |-> target.layout]

Colours(attachments) == SelectSeq([k \in DOMAIN attachments |-> k],
                                  LAMBDA k : attachments[k].type \in {"COLOUR", "CUBE"})
DepthsOf(attachments) == SelectSeq([k \in DOMAIN attachments |-> k],
                                   LAMBDA k : attachments[k].type \in {"DEPTH", "DEPTHARRAY"})

\* VKRenderPass::Init.  A subpass has one depth attachment at most, the first.
RenderPassOf(attachments, clear) ==
    [attachments |-> [k \in DOMAIN attachments |-> AttachmentDescription(attachments[k], clear)],
     colours |-> [k \in DOMAIN Colours(attachments) |->
        LET a == Colours(attachments)[k]
        IN  [attachment |-> a,
             layout |-> IF attachments[a].layout = "PRESENT_SRC_KHR" THEN "COLOR_ATTACHMENT_OPTIMAL"
                        ELSE attachments[a].layout]],
     depths |-> [k \in DOMAIN DepthsOf(attachments) |->
        LET a == DepthsOf(attachments)[k]
        IN  [attachment |-> a, layout |-> attachments[a].layout]],
     depthOnly |-> Colours(attachments) = <<>>,
     clearDepth |-> clear /\ DepthsOf(attachments) # <<>>]

\* BeginRenderpass: a colour for every attachment of a pass that has one, and
\* the depth for the last.
ClearValues(pass) ==
    LET count == Len(pass.attachments)
    IN  [k \in 1 .. count |->
            IF pass.clearDepth /\ k = count THEN "depth"
            ELSE IF pass.depthOnly THEN "unset" ELSE "colour"]

\* The view of an attachment in a framebuffer.
ViewOf(target, mipIndex, layer) ==
    CASE target.type = "COLOUR" -> IF mipIndex >= 0 THEN <<"mip", mipIndex>> ELSE <<"whole">>
      [] target.type \in {"DEPTHARRAY", "CUBE"} -> <<"layer", layer>>
      [] OTHER -> <<"whole">>

\* CreateFramebuffers: one for every image of the swapchain, every layer of
\* the depth array, every face of the cube, or one; what they draw into takes
\* the place of the first attachment.
Framebuffers(desc, images) ==
    LET attachments == Attachments(desc, images[1])
        with(first) == [attachments EXCEPT ![1] = first]
        views(list, mip, layer) == [k \in DOMAIN list |-> ViewOf(list[k], mip, layer)]
        one(list, mip, layer) == [targets |-> list, views |-> views(list, mip, layer)]
    IN  CASE desc.swapchainTarget -> [i \in DOMAIN images |-> one(with(images[i]), -1, 0)]
          [] ~desc.swapchainTarget /\ desc.depthArrayTarget # NoTarget ->
                [i \in 1 .. desc.depthArrayTarget.layers |-> one(with(desc.depthArrayTarget), -1, i - 1)]
          [] ~desc.swapchainTarget /\ desc.depthArrayTarget = NoTarget /\ desc.cubeMapTarget # NoTarget ->
                [i \in 1 .. 6 |-> one(with(desc.cubeMapTarget), -1, i - 1)]
          [] OTHER -> <<one(attachments, desc.mipIndex, 0)>>

\* Bind: the framebuffer drawn into.
BoundFramebuffer(desc, currentImage, layer) ==
    CASE desc.swapchainTarget -> currentImage + 1
      [] ~desc.swapchainTarget /\ (desc.depthArrayTarget # NoTarget \/ desc.cubeMapTarget # NoTarget) -> layer + 1
      [] OTHER -> 1

\* The blend factors (source and destination, of the colour) of an attachment.
BlendFactors(desc) ==
    IF ~desc.transparencyEnabled THEN <<"ZERO", "ZERO">>
    ELSE CASE desc.blendMode = "SrcAlphaOneMinusSrcAlpha" -> <<"SRC_ALPHA", "ONE_MINUS_SRC_ALPHA">>
           [] desc.blendMode = "ZeroSrcColor" -> <<"ZERO", "SRC_COLOR">>
           [] desc.blendMode = "OneZero" -> <<"ONE", "ZERO">>
           [] OTHER -> <<"ZERO", "ZERO">>

DynamicStates(desc, wideLines) ==
    {"VIEWPORT", "SCISSOR"}
      \cup (IF wideLines /\ desc.polygonMode = "LINE" THEN {"LINE_WIDTH"} ELSE {})
      \cup (IF desc.depthBiasEnabled THEN {"DEPTH_BIAS"} ELSE {})

\* What Bind sets before the first draw: the viewport and the scissor with the
\* render pass, the depth bias if it is enabled.
BoundStates(desc) ==
    {"VIEWPORT", "SCISSOR"} \cup (IF desc.depthBiasEnabled THEN {"DEPTH_BIAS"} ELSE {})

\* The names Vulkan has for how a pipeline draws.
CullModeToVK(mode) == IF mode = "FRONTANDBACK" THEN "FRONT_AND_BACK" ELSE mode
PolygonModeToVk(mode) == IF mode \in {"LINE", "POINT"} THEN mode ELSE "FILL"
DrawTypeToVk(type) ==
    CASE type = "LINES" -> "LINE_LIST" [] type = "POINT" -> "POINT_LIST" [] OTHER -> "TRIANGLE_LIST"

\* Init: what Vulkan is asked to build.
PipelineOf(desc, shader, images, wideLines) ==
    LET ready  == TransitionAttachments(desc)
        inputs == FlattenSeq([k \in DOMAIN shader.stages |->
                     IF shader.stages[k].type = "VERTEX" THEN shader.stages[k].inputs ELSE <<>>])
        stride == VertexInputStride(inputs)
        pass   == RenderPassOf(Attachments(ready, images[1]), ready.clearTargets)
    IN  [layouts |-> SetLayouts(shader), compute |-> IsCompute(shader),
         stages |-> shader.declared, stride |-> stride,
         attributes |-> IF stride > 0 THEN VertexAttributes(inputs) ELSE <<>>,
         pass |-> pass, framebuffers |-> Framebuffers(ready, images),
         blend |-> [k \in DOMAIN pass.colours |-> BlendFactors(desc)],
         topology |-> DrawTypeToVk(desc.drawType), cull |-> CullModeToVK(desc.cullMode),
         fill |-> PolygonModeToVk(desc.polygonMode),
         lineWidth |-> IF wideLines THEN desc.lineWidth ELSE 1,
         frontFace |-> IF desc.swapchainTarget THEN "COUNTER_CLOCKWISE" ELSE "CLOCKWISE",
         dynamic |-> DynamicStates(desc, wideLines)]
=============================================================================
