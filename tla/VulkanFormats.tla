--------------------------- MODULE VulkanFormats ----------------------------
(***************************************************************************)
(* The decisions of VKUtilities: which format and present mode the program *)
(* asks the device for, and the barrier with which TransitionImageLayout   *)
(* moves an image from one layout to the next.                             *)
(* A flag word is a set of the names of its bits; the names of formats and *)
(* of layouts are Vulkan's, without their prefix.                          *)
(***************************************************************************)
EXTENDS Integers, Sequences, SequencesExt, FiniteSets, TLC

Undefined == "UNDEFINED"
-----------------------------------------------------------------------------
(* Formats.  Two tables: of linear data and of colours in sRGB.            *)

Floats == [R16G16B16_Float |-> "R16G16B16_SFLOAT", R16G16B16A16_Float |-> "R16G16B16A16_SFLOAT",
           R32G32B32_Float |-> "R32G32B32_SFLOAT", R32G32B32A32_Float |-> "R32G32B32A32_SFLOAT"]

Depths == [D16_Unorm |-> "D16_UNORM", D32_Float |-> "D32_SFLOAT",
           D24_Unorm_S8_UInt |-> "D24_UNORM_S8_UINT", D32_Float_S8_UInt |-> "D32_SFLOAT_S8_UINT"]

SrgbTable ==
    Floats @@ [R8_Unorm |-> "R8_SRGB", R8G8_Unorm |-> "R8G8_SRGB",
               R8G8B8_Unorm |-> "R8G8B8_SRGB", R8G8B8A8_Unorm |-> "R8G8B8A8_SRGB"]

LinearTable ==
    Floats @@ Depths
      @@ [R8_Unorm |-> "R8_UNORM", R8G8_Unorm |-> "R8G8_UNORM",
          R8G8B8_Unorm |-> "R8G8B8A8_UNORM", R8G8B8A8_Unorm |-> "R8G8B8A8_UNORM",
          R11G11B10_Float |-> "B10G11R11_UFLOAT_PACK32",
          R10G10B10A2_Unorm |-> "A2R10G10B10_UNORM_PACK32",
          R16_Float |-> "R16_SFLOAT", R16G16_Float |-> "R16G16_SFLOAT",
          R32_Float |-> "R32_SFLOAT", R32G32_Float |-> "R32G32_SFLOAT"]

FormatToVK(format, srgb) ==
    LET table == IF srgb THEN SrgbTable ELSE LinearTable
    IN  IF format \in DOMAIN table THEN table[format]
        ELSE IF srgb THEN "R8G8B8A8_SRGB" ELSE "R8G8B8A8_UNORM"

\* Formats of one or two floats, and colours without alpha, are not taken back.
NotTakenBack == {"R16_Float", "R16G16_Float", "R32_Float", "R32G32_Float", "R8G8B8_Unorm"}

VKToFormat(format) ==
    LET known == {f \in DOMAIN SrgbTable : SrgbTable[f] = format}
                   \cup {f \in DOMAIN LinearTable \ NotTakenBack : LinearTable[f] = format}
    IN  IF known = {} THEN "R8G8B8A8_Unorm" ELSE CHOOSE f \in known : TRUE

\* Texture: how many bits a pixel has, and the format of so many bits.
BitsTable ==
    [R8_Unorm |-> 8, R8G8_Unorm |-> 16, R8G8B8_Unorm |-> 24, R8G8B8A8_Unorm |-> 32,
     R16G16B16_Float |-> 48, R16G16B16A16_Float |-> 64,
     R32G32B32_Float |-> 96, R32G32B32A32_Float |-> 128]

GetBitsFromFormat(format) ==
    IF format \in DOMAIN BitsTable THEN BitsTable[format]
    ELSE IF format = "D16_Unorm" THEN 16 ELSE 32

BitsToFormat(bits) ==
    IF \E f \in DOMAIN BitsTable : BitsTable[f] = bits
    THEN CHOOSE f \in DOMAIN BitsTable : BitsTable[f] = bits
    ELSE "R8G8B8A8_Unorm"
-----------------------------------------------------------------------------
(* Depth formats. *)

DepthCandidates ==
    <<"D32_SFLOAT_S8_UINT", "D32_SFLOAT", "D24_UNORM_S8_UINT", "D16_UNORM_S8_UINT", "D16_UNORM">>

\* The first candidate the device can attach as depth and stencil.
FindDepthFormat(supported) ==
    LET found == SelectSeq(DepthCandidates, LAMBDA f : f \in supported)
    IN  IF found = <<>> THEN Undefined ELSE Head(found)

IsDepthFormat(format) == format \in ToSet(DepthCandidates)

IsStencilFormat(format) == format \in {"D32_SFLOAT_S8_UINT", "D24_UNORM_S8_UINT"}

\* The aspects of the image a barrier of TransitionImageLayout is about.
AspectMask(format) ==
    {IF IsDepthFormat(format) THEN "DEPTH" ELSE "COLOR"}
      \cup (IF IsStencilFormat(format) THEN {"STENCIL"} ELSE {})
-----------------------------------------------------------------------------
(* Barriers. *)

LayoutAccess ==
    [UNDEFINED |-> {}, GENERAL |-> {"SHADER_READ", "SHADER_WRITE"},
     COLOR_ATTACHMENT_OPTIMAL |-> {"COLOR_ATTACHMENT_READ", "COLOR_ATTACHMENT_WRITE"},
     DEPTH_STENCIL_ATTACHMENT_OPTIMAL |->
        {"DEPTH_STENCIL_ATTACHMENT_READ", "DEPTH_STENCIL_ATTACHMENT_WRITE"},
     DEPTH_STENCIL_READ_ONLY_OPTIMAL |-> {"SHADER_READ"},
     SHADER_READ_ONLY_OPTIMAL |-> {"SHADER_READ", "INPUT_ATTACHMENT_READ"},
     TRANSFER_SRC_OPTIMAL |-> {"TRANSFER_READ"}, TRANSFER_DST_OPTIMAL |-> {"TRANSFER_WRITE"},
     PREINITIALIZED |-> {"HOST_WRITE"},
     DEPTH_READ_ONLY_STENCIL_ATTACHMENT_OPTIMAL |-> {"DEPTH_STENCIL_ATTACHMENT_READ"},
     DEPTH_ATTACHMENT_STENCIL_READ_ONLY_OPTIMAL |-> {"DEPTH_STENCIL_ATTACHMENT_READ"},
     PRESENT_SRC_KHR |-> {"MEMORY_READ"}]

Layouts == DOMAIN LayoutAccess

LayoutToAccessMask(layout, isDestination) ==
    IF layout = "PREINITIALIZED" /\ isDestination THEN {} ELSE LayoutAccess[layout]

Shaders == {"VERTEX_SHADER", "FRAGMENT_SHADER", "COMPUTE_SHADER"}
DepthTests == {"EARLY_FRAGMENT_TESTS", "LATE_FRAGMENT_TESTS"}

AccessStages(access, stageFlags) ==
    CASE access = "INDIRECT_COMMAND_READ" -> {"DRAW_INDIRECT"}
      [] access \in {"INDEX_READ", "VERTEX_ATTRIBUTE_READ"} -> {"VERTEX_INPUT"}
      [] access \in {"UNIFORM_READ", "SHADER_READ", "SHADER_WRITE"} ->
            stageFlags \cup {"COMPUTE_SHADER"}
      [] access = "INPUT_ATTACHMENT_READ" -> {"FRAGMENT_SHADER"}
      [] access \in {"COLOR_ATTACHMENT_READ", "COLOR_ATTACHMENT_WRITE"} ->
            {"COLOR_ATTACHMENT_OUTPUT"}
      [] access \in {"DEPTH_STENCIL_ATTACHMENT_READ", "DEPTH_STENCIL_ATTACHMENT_WRITE"} ->
            DepthTests
      [] access \in {"TRANSFER_READ", "TRANSFER_WRITE"} -> {"TRANSFER"}
      [] access \in {"HOST_READ", "HOST_WRITE"} -> {"HOST"}
      [] access \in {"MEMORY_READ", "MEMORY_WRITE"} -> {}

AccessFlagsToPipelineStage(accesses, stageFlags) ==
    UNION {AccessStages(a, stageFlags) : a \in accesses}

\* A mutant: presenting is treated like every other layout.
SideStagesPlain(layout, accesses, whenPresenting, whenNothing) ==
    IF accesses # {} THEN AccessFlagsToPipelineStage(accesses, Shaders) ELSE {whenNothing}

\* The stages of one side of a barrier: presenting is outside every access.
SideStages(layout, accesses, whenPresenting, whenNothing) ==
    IF layout = "PRESENT_SRC_KHR" THEN {whenPresenting}
    ELSE IF accesses # {} THEN AccessFlagsToPipelineStage(accesses, Shaders)
    ELSE {whenNothing}

TransitionImageLayout(format, oldLayout, newLayout) ==
    LET src == LayoutToAccessMask(oldLayout, FALSE)
        dst == LayoutToAccessMask(newLayout, TRUE)
    IN  [aspects |-> AspectMask(format), src |-> src, dst |-> dst,
         srcStages |-> SideStages(oldLayout, src, "BOTTOM_OF_PIPE", "TOP_OF_PIPE"),
         dstStages |-> SideStages(newLayout, dst, "TOP_OF_PIPE", "BOTTOM_OF_PIPE")]
-----------------------------------------------------------------------------
(* What is chosen among what the device offers. *)

\* Without vsync a device that offers nothing of the list still gets MAILBOX.
ChoosePresentMode(supported, vsync) ==
    LET wanted == IF vsync THEN <<"MAILBOX", "FIFO", "IMMEDIATE">>
                  ELSE <<"IMMEDIATE", "FIFO_RELAXED", "FIFO">>
        found == SelectSeq(wanted, LAMBDA m : m \in supported)
    IN  IF found = <<>> THEN "MAILBOX" ELSE Head(found)
-----------------------------------------------------------------------------
(* VKTextureCube::Load: the faces of a cube from a picture of four rows of *)
(* three cells that is unfolded like a cross.                              *)

FaceSize(picture) == [width |-> picture.width \div 3, height |-> picture.height \div 4]

\* The cells with a face, row by row; a cell is <<cx, cy>>.
CrossCells ==
    SelectSeq([k \in 1 .. 12 |-> <<(k - 1) % 3, (k - 1) \div 3>>], LAMBDA c : c[2] = 1 \/ c[1] = 1)

\* The pixel of the picture at a place of a face; the last one is turned around.
FacePixel(size, face, x, y) ==
    LET cell == CrossCells[face]
        turned == face = Len(CrossCells)
    IN  <<cell[1] * size.width  + (IF turned THEN size.width  - (x + 1) ELSE x),
          cell[2] * size.height + (IF turned THEN size.height - (y + 1) ELSE y)>>

\* The faces in the order of a cube's layers.
FaceOrder == <<4, 2, 1, 5, 3, 6>>

LayerPixel(size, layer, x, y) == FacePixel(size, FaceOrder[layer], x, y)
=============================================================================
