----------------------------- MODULE DeviceSetup -----------------------------
(***************************************************************************)
(* What VKContext and VKDevice ask Vulkan for when the program starts: an  *)
(* instance, one of the graphics cards, a device on it with its queues and *)
(* features, and the images of the window's surface.                       *)
(*                                                                         *)
(* A loader is a record [layers, extensions, version]; a card is a record  *)
(* [type, memory, families, features, extensions], its families a sequence *)
(* of sets of what their queues can do.  0 stands for no family (-1).      *)
(***************************************************************************)
EXTENDS Integers, Sequences, SequencesExt, FiniteSets, FiniteSetsExt

NoFamily == 0

ValidationLayer == "KHRONOS_validation"
Portability == "KHR_portability_enumeration"

RequiredLayers == <<ValidationLayer>>
RequiredExtensions ==
    <<"EXT_debug_utils", "EXT_debug_report", "KHR_get_physical_device_properties2",
      "KHR_surface", Portability, "KHR_win32_surface">>

\* What the loader does not have is left out, with a warning.
Supported(names, offered) == SelectSeq(names, LAMBDA n : n \in offered)

CreateInstance(loader, sdkVersion) ==
    [layers |-> Supported(RequiredLayers, loader.layers),
     extensions |-> Supported(RequiredExtensions, loader.extensions),
     version |-> IF sdkVersion < loader.version THEN sdkVersion ELSE loader.version,
     flags |-> {"ENUMERATE_PORTABILITY"}]

\* Without the extension there is no function to set the callback with.
DebugCallbackSet(instance) == Contains(instance.extensions, "EXT_debug_report")
-----------------------------------------------------------------------------
(* The card. *)

CardTypes == <<"DISCRETE_GPU", "INTEGRATED_GPU", "VIRTUAL_GPU", "CPU", "OTHER">>
Rank(card) == CHOOSE k \in DOMAIN CardTypes : CardTypes[k] = card.type

\* The order of the cards; between equals, the sort may leave any first.
Better(a, b) == IF Rank(a) = Rank(b) THEN a.memory > b.memory ELSE Rank(a) < Rank(b)

\* The card of the project's settings, if there is one of that number (they
\* count from 0); the last one if there is not; the best if none is asked for.
Chosen(cards, desired) ==
    IF desired >= 0 THEN {IF desired >= Len(cards) THEN Len(cards) ELSE desired + 1}
    ELSE {k \in DOMAIN cards : \A l \in DOMAIN cards : ~Better(cards[l], cards[k])}
-----------------------------------------------------------------------------
(* Queues. *)

FamiliesWith(families, kind) == {i \in DOMAIN families : kind \in families[i]}

FirstOf(S, T) == IF S # {} THEN Min(S) ELSE IF T # {} THEN Min(T) ELSE NoFamily

\* A family of its own for computing and one for copying, or else the first
\* that can; for drawing, the last that can.
GetQueueFamilyIndices(families) ==
    LET graphics == FamiliesWith(families, "GRAPHICS")
        compute  == FamiliesWith(families, "COMPUTE")
        transfer == FamiliesWith(families, "TRANSFER")
    IN  [graphics |-> IF graphics = {} THEN NoFamily ELSE Max(graphics),
         compute  |-> FirstOf(compute \ graphics, compute),
         transfer |-> FirstOf((transfer \ graphics) \ compute, transfer)]

\* The families of which a queue is asked for.
QueueCreateInfos(i) ==
    <<i.graphics>> \o (IF i.compute # i.graphics THEN <<i.compute>> ELSE <<>>)
      \o (IF i.transfer # i.graphics /\ i.transfer # i.compute THEN <<i.transfer>> ELSE <<>>)

\* The chain of the request (pNext): asked for of every card, without the
\* extension they belong to.
IndexingFeatures == {"runtimeDescriptorArray", "descriptorBindingPartiallyBound"}

\* The device, with the queues that are taken from it.
CreateDevice(card) ==
    LET i == GetQueueFamilyIndices(card.families)
    IN  [queues |-> QueueCreateInfos(i),
         features |-> (card.features \cap {"wideLines", "samplerAnisotropy"}) \cup IndexingFeatures,
         extensions |-> {"KHR_swapchain"} \cup (card.extensions \cap {"EXT_debug_utils"}),
         taken |-> [graphics |-> i.graphics, present |-> i.graphics, compute |-> i.compute],
         pool |-> i.graphics]
-----------------------------------------------------------------------------
(* The swapchain.  A surface is a record [minImages, maxImages, formats,   *)
(* transforms, current, alphas, usages]; its formats are a sequence of     *)
(* <<format, colour space>>.                                               *)

FindImageFormatAndColourSpace(formats) ==
    LET preferred == SelectSeq(formats, LAMBDA f : f[1] = "B8G8R8A8_UNORM")
    IN  CASE Len(formats) = 1 /\ formats[1][1] = "UNDEFINED" -> <<"B8G8R8A8_UNORM", formats[1][2]>>
          [] preferred # <<>> -> preferred[1]
          [] OTHER -> formats[1]

\* In the order they are tried; the first stands for none of them.
CompositeAlphas == <<"OPAQUE", "PRE_MULTIPLIED", "POST_MULTIPLIED", "INHERIT">>
CompositeAlpha(supported) ==
    Head(Append(SelectSeq(CompositeAlphas, LAMBDA a : a \in supported), CompositeAlphas[1]))

\* VKSwapChain::Init asks for three images if the surface allows as many.
SwapchainRequest(surface) ==
    [images |-> IF surface.maxImages > 3 THEN 3 ELSE surface.maxImages,
     format |-> FindImageFormatAndColourSpace(surface.formats),
     transform |-> IF "IDENTITY" \in surface.transforms THEN "IDENTITY" ELSE surface.current,
     alpha |-> CompositeAlpha(surface.alphas),
     usage |-> {"COLOR_ATTACHMENT"} \cup (surface.usages \cap {"TRANSFER_SRC", "TRANSFER_DST"})]
=============================================================================
