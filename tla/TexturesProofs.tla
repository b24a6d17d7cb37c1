--------------------------- MODULE TexturesProofs ---------------------------
(***************************************************************************)
(* Theorems about Textures for any slots, sizes, faces and layers, and any *)
(* bounds: who owns the objects of the device, what the views show, and    *)
(* which layout every level of every layer is in.                          *)
(***************************************************************************)
EXTENDS Textures, SequenceTheorems, FiniteSetTheorems, WellFoundedInduction, TLAPS

-----------------------------------------------------------------------------
(***************************************************************************)
(* Sequences of handles                                                    *)
(***************************************************************************)
Distinct(seq) == \A i, j \in DOMAIN seq : seq[i] = seq[j] => i = j

LEMMA ConcatElements ==
    ASSUME NEW S, NEW s \in Seq(S), NEW t \in Seq(S)
    PROVE  /\ s \o t \in Seq(S)
           /\ Elements(s \o t) = Elements(s) \cup Elements(t)
           /\ Distinct(s) /\ Distinct(t) /\ Elements(s) \cap Elements(t) = {} => Distinct(s \o t)
  <1>1. /\ s \o t \in Seq(S) /\ Len(s) \in Nat /\ Len(t) \in Nat
        /\ DOMAIN s = 1 .. Len(s) /\ DOMAIN t = 1 .. Len(t)
        /\ DOMAIN (s \o t) = 1 .. Len(s) + Len(t)
        /\ \A i \in 1 .. Len(s) : (s \o t)[i] = s[i]
        /\ \A i \in 1 .. Len(s) + Len(t) : i > Len(s) => (s \o t)[i] = t[i - Len(s)]
    BY ConcatProperties, LenProperties
  <1>2. \A i \in 1 .. Len(t) : Len(s) + i \in 1 .. Len(s) + Len(t) /\ (s \o t)[Len(s) + i] = t[i]
    BY <1>1
  <1>3. \A i \in 1 .. Len(s) + Len(t) : i \in 1 .. Len(s) \/ i - Len(s) \in 1 .. Len(t)
    BY <1>1
  <1>4. Elements(s \o t) = Elements(s) \cup Elements(t)
    <2>1. ASSUME NEW x \in Elements(s \o t) PROVE x \in Elements(s) \cup Elements(t)
      <3>1. PICK i \in 1 .. Len(s) + Len(t) : x = (s \o t)[i]
        BY <1>1, <2>1 DEF Elements
      <3>2. CASE i \in 1 .. Len(s)
        BY <1>1, <3>1, <3>2 DEF Elements
      <3>3. CASE i - Len(s) \in 1 .. Len(t)
        <4>1. i > Len(s)
          BY <1>1, <3>1, <3>3
        <4> QED
          BY <1>1, <3>1, <3>3, <4>1 DEF Elements
      <3> QED
        BY <1>3, <3>1, <3>2, <3>3
    <2>2. ASSUME NEW x \in Elements(s) PROVE x \in Elements(s \o t)
      <3>1. PICK i \in 1 .. Len(s) : x = s[i]
        BY <1>1 DEF Elements
      <3>2. i \in 1 .. Len(s) + Len(t) /\ (s \o t)[i] = x
        BY <1>1, <3>1
      <3> QED
        BY <1>1, <3>2 DEF Elements
    <2>3. ASSUME NEW x \in Elements(t) PROVE x \in Elements(s \o t)
      <3>1. PICK i \in 1 .. Len(t) : x = t[i]
        BY <1>1 DEF Elements
      <3> QED
        BY <1>1, <1>2, <3>1 DEF Elements
    <2> QED
      BY <2>1, <2>2, <2>3
  <1>5. ASSUME Distinct(s), Distinct(t), Elements(s) \cap Elements(t) = {},
               NEW i \in 1 .. Len(s) + Len(t), NEW j \in 1 .. Len(s) + Len(t),
               (s \o t)[i] = (s \o t)[j]
        PROVE  i = j
    <2>1. ASSUME NEW k \in 1 .. Len(s), NEW l \in 1 .. Len(t) PROVE s[k] # t[l]
      BY <1>1, <1>5 DEF Elements
    <2>2. CASE i \in 1 .. Len(s) /\ j \in 1 .. Len(s)
      BY <1>1, <1>5, <2>2 DEF Distinct
    <2>3. CASE i > Len(s) /\ j > Len(s)
      <3>1. i - Len(s) \in 1 .. Len(t) /\ j - Len(s) \in 1 .. Len(t)
        BY <1>1, <2>3
      <3>2. t[i - Len(s)] = t[j - Len(s)]
        BY <1>1, <1>5, <2>3
      <3>3. i - Len(s) = j - Len(s)
        BY <1>1, <1>5, <3>1, <3>2 DEF Distinct
      <3> QED
        BY <1>1, <3>3
    <2>4. CASE i \in 1 .. Len(s) /\ j > Len(s)
      <3>1. j - Len(s) \in 1 .. Len(t)
        BY <1>1, <2>4
      <3> QED
        BY <1>1, <1>5, <2>1, <2>4, <3>1
    <2>5. CASE i > Len(s) /\ j \in 1 .. Len(s)
      <3>1. i - Len(s) \in 1 .. Len(t)
        BY <1>1, <2>5
      <3> QED
        BY <1>1, <1>5, <2>1, <2>5, <3>1
    <2>6. (i \in 1 .. Len(s) \/ i > Len(s)) /\ (j \in 1 .. Len(s) \/ j > Len(s))
      BY <1>1
    <2> QED
      BY <2>2, <2>3, <2>4, <2>5, <2>6
  <1> QED
    BY <1>1, <1>4, <1>5 DEF Distinct

LEMMA GivenElements ==
    ASSUME NEW x \in Handle \cup {None}
    PROVE  /\ Given(x) \in Seq(Handle) /\ Distinct(Given(x))
           /\ Elements(Given(x)) = {x} \ {None}
  <1>1. CASE x = None
    <2>1. Given(x) = <<>> /\ DOMAIN Given(x) = {}
      BY <1>1, EmptySeq DEF Given
    <2> QED
      BY <1>1, <2>1, EmptySeq DEF Distinct, Elements
  <1>2. CASE x # None
    <2>1. Given(x) = <<x>> /\ DOMAIN Given(x) = {1} /\ Given(x)[1] = x
      BY <1>2 DEF Given
    <2> QED
      BY <1>2, <2>1 DEF Distinct, Elements
  <1> QED
    BY <1>1, <1>2

(* A set as a sequence. *)
LEMMA SetElements ==
    ASSUME NEW S, IsFiniteSet(S)
    PROVE  /\ SetToSeq(S) \in Seq(S) /\ Distinct(SetToSeq(S))
           /\ Elements(SetToSeq(S)) = S
  <1> DEFINE n == Cardinality(S)
  <1>1. n \in Nat /\ ExistsBijection(1 .. n, S)
    BY FS_CardinalityType
  <1>2. \E f \in [1 .. n -> S] : IsInjective(f)
    BY <1>1 DEF ExistsBijection, Bijection, Injection
  <1>3. SetToSeq(S) \in [1 .. n -> S] /\ IsInjective(SetToSeq(S))
    BY <1>2 DEF SetToSeq
  <1> DEFINE q == SetToSeq(S)
  <1> HIDE DEF q
  <1>4. q \in Injection(1 .. n, S)
    BY <1>3 DEF q, Injection
  <1>5. Cardinality(1 .. n) = n
    BY <1>1, FS_Interval
  <1>6. q \in Surjection(1 .. n, S)
    BY <1>4, <1>5, FS_Injection
  <1>7. \A x \in S : \E i \in 1 .. n : q[i] = x
    BY <1>6 DEF Surjection
  <1> QED
    BY <1>1, <1>3, <1>7 DEF q, Distinct, Elements, IsInjective

(* A sequence without repetitions has as many elements as places. *)
LEMMA DistinctCounts ==
    ASSUME NEW S, NEW s \in Seq(S), Distinct(s)
    PROVE  IsFiniteSet(Elements(s)) /\ Cardinality(Elements(s)) = Len(s)
  <1>1. Len(s) \in Nat /\ DOMAIN s = 1 .. Len(s)
    BY LenProperties
  <1>2. IsFiniteSet(1 .. Len(s)) /\ Cardinality(1 .. Len(s)) = Len(s)
    BY <1>1, FS_Interval
  <1>3. s \in [1 .. Len(s) -> Elements(s)]
    BY <1>1 DEF Elements
  <1>4. s \in Bijection(1 .. Len(s), Elements(s))
    BY <1>1, <1>3 DEF Bijection, Injection, Surjection, IsInjective, Distinct, Elements
  <1> QED
    BY <1>2, <1>4, FS_Bijection DEF ExistsBijection

-----------------------------------------------------------------------------
(***************************************************************************)
(* Textures                                                                *)
(***************************************************************************)
Kinds == {"2d", "cube", "depth", "array"}
ImageLayouts ==
    {Undefined, Colour, DepthDrawn, DepthRead, ShaderRead, Dst, Src, General, Present}
Images == {Image(n) : n \in Nat}
Maybe == Handle \cup {None}
LevelViews == UNION {[L -> Handle] : L \in SUBSET Nat}

Texture ==
    [kind : Kinds, size : Nat, image : Maybe, view : Maybe, sampler : Maybe,
     mipViews : LevelViews, layerViews : Seq(Handle), layout : ImageLayouts, levels : Nat,
     target : BOOLEAN, createMips : BOOLEAN, keepMipViews : BOOLEAN, deleteImage : BOOLEAN,
     descriptor : [view : Maybe, sampler : Maybe, layout : ImageLayouts]]

WholeView(t) == View(t.image, "all", AllLayers(t), AllLevels(t))
LevelView(image, l) == View(image, "level", {0}, {l})
LayerViewsOf(t) ==
    IF t.kind \in {"cube", "array"}
    THEN [i \in 1 .. Layers(t) |-> View(t.image, "layer", {i - 1}, {0})]
    ELSE <<>>

(* What a texture has: all of its image, or nothing if its file is missing. *)
Shaped(t) ==
    IF t.image = None
    THEN /\ t.view = None /\ t.sampler = None /\ t.kind = "2d"
         /\ ~t.target /\ ~t.deleteImage
         /\ DOMAIN t.mipViews = {} /\ t.layerViews = <<>>
    ELSE /\ t.image \in Images
         /\ t.view = WholeView(t)
         /\ t.sampler = IF t.deleteImage THEN Sampler(t.image) ELSE None
         /\ \A l \in DOMAIN t.mipViews :
               l \in AllLevels(t) /\ t.mipViews[l] = LevelView(t.image, l)
         /\ t.layerViews = LayerViewsOf(t)
         /\ t.kind # "2d" => DOMAIN t.mipViews = {} /\ t.deleteImage /\ t.levels > 0
         /\ t.target => t.kind = "2d" /\ t.deleteImage
         /\ t.descriptor = [view |-> t.view, sampler |-> t.sampler, layout |-> t.layout]

LEMMA LayersAreNat ==
    ASSUME NEW t
    PROVE  /\ Layers(t) \in Nat \ {0}
           /\ AllLayers(t) \in SUBSET Nat
           /\ t.levels \in Nat => AllLevels(t) \in SUBSET Nat
  <1>1. Layers(t) \in Nat \ {0}
    BY TexturesAssumption DEF Layers
  <1> QED
    BY <1>1 DEF AllLayers, AllLevels, Range0

LEMMA ImagesAre ==
    ASSUME NEW image \in Images
    PROVE  /\ image \in Handle /\ image # None /\ image.type = "image" /\ image.n \in Nat
           /\ image = Image(image.n)
           /\ Sampler(image) \in Handle /\ Sampler(image) # None
           /\ Sampler(image).type = "sampler" /\ Sampler(image).n = image.n
  <1>1. PICK n \in Nat : image = Image(n)
    BY DEF Images
  <1>2. image = [type |-> "image", n |-> n] /\ Sampler(image) = [type |-> "sampler", n |-> n]
    BY <1>1 DEF Image, Sampler
  <1>3. image \in Handle /\ Sampler(image) \in Handle
    BY <1>2 DEF Handle
  <1>4. image.n = n /\ image.type = "image"
    BY <1>2
  <1>5. Sampler(image).n = n /\ Sampler(image).type = "sampler"
    BY <1>2
  <1>6. image # None /\ Sampler(image) # None
    BY <1>3, NoHandleAssumption
  <1> QED
    BY <1>1, <1>3, <1>4, <1>5, <1>6

LEMMA ViewsAre ==
    ASSUME NEW image \in Images, NEW shows \in {"all", "layer", "level"},
           NEW faces \in SUBSET Nat, NEW levels \in SUBSET Nat
    PROVE  LET v == View(image, shows, faces, levels)
           IN  /\ v \in Handle /\ v # None /\ v.type = "view" /\ v.n = image.n
               /\ v.shows = shows /\ v.faces = faces /\ v.levels = levels
  <1>1. image.n \in Nat
    BY ImagesAre
  <1>2. View(image, shows, faces, levels) \in Handle
    BY <1>1 DEF View, Handle
  <1> QED
    BY <1>2, NoHandleAssumption DEF View

LEMMA LayerViewsAre ==
    ASSUME NEW t, t.image \in Images
    PROVE  /\ LayerViewsOf(t) \in Seq(Handle) /\ Distinct(LayerViewsOf(t))
           /\ \A h \in Elements(LayerViewsOf(t)) :
                 /\ h \in Handle /\ h.type = "view" /\ h.shows = "layer"
                 /\ h.n = t.image.n /\ h.levels = {0}
  <1> DEFINE views == [i \in 1 .. Layers(t) |-> View(t.image, "layer", {i - 1}, {0})]
  <1>1. CASE t.kind \in {"cube", "array"}
    <2>1. LayerViewsOf(t) = views /\ Layers(t) \in Nat
      BY <1>1, LayersAreNat DEF LayerViewsOf
    <2>2. ASSUME NEW i \in 1 .. Layers(t)
          PROVE  /\ views[i] \in Handle /\ views[i].type = "view" /\ views[i].n = t.image.n
                 /\ views[i].shows = "layer" /\ views[i].faces = {i - 1} /\ views[i].levels = {0}
      <3>1. {i - 1} \in SUBSET Nat /\ {0} \in SUBSET Nat
        BY <2>1
      <3> QED
        BY <3>1, ViewsAre
    <2>3. \A i, j \in 1 .. Layers(t) : views[i] = views[j] => i = j
      <3> SUFFICES ASSUME NEW i \in 1 .. Layers(t), NEW j \in 1 .. Layers(t), views[i] = views[j]
                   PROVE  i = j
        OBVIOUS
      <3>1. {i - 1} = {j - 1}
        BY <2>2
      <3>2. i - 1 \in {j - 1}
        BY <3>1
      <3> QED
        BY <2>1, <3>2
    <2> HIDE DEF views
    <2>4. DOMAIN views = 1 .. Layers(t) /\ views \in Seq(Handle)
      <3>1. views \in [1 .. Layers(t) -> Handle]
        BY <2>2 DEF views
      <3> QED
        BY <2>1, <3>1
    <2> QED
      BY <2>1, <2>2, <2>3, <2>4 DEF Distinct, Elements
  <1>2. CASE t.kind \notin {"cube", "array"}
    <2>1. LayerViewsOf(t) = <<>> /\ DOMAIN LayerViewsOf(t) = {}
      BY <1>2, EmptySeq DEF LayerViewsOf
    <2> QED
      BY <2>1, EmptySeq DEF Distinct, Elements
  <1> QED
    BY <1>1, <1>2

LEMMA LevelViewsAre ==
    ASSUME NEW t \in Texture, t.image \in Images,
           \A l \in DOMAIN t.mipViews : l \in AllLevels(t) /\ t.mipViews[l] = LevelView(t.image, l)
    PROVE  /\ DOMAIN t.mipViews \subseteq Nat
           /\ IsFiniteSet({t.mipViews[l] : l \in DOMAIN t.mipViews})
           /\ \A l \in DOMAIN t.mipViews :
                 /\ t.mipViews[l] \in Handle /\ t.mipViews[l].type = "view"
                 /\ t.mipViews[l].shows = "level" /\ t.mipViews[l].n = t.image.n
                 /\ t.mipViews[l].levels = {l}
  <1> DEFINE D == DOMAIN t.mipViews
             S == {t.mipViews[l] : l \in D}
  <1>1. D \subseteq Nat /\ t.levels \in Nat
    BY LayersAreNat DEF Texture
  <1>2. IsFiniteSet(D)
    <2>1. \A l \in D : l <= t.levels
      BY <1>1 DEF AllLevels, Range0
    <2> QED
      BY <1>1, <2>1, FS_BoundedSetOfNaturals
  <1>3. IsFiniteSet(S)
    <2> DEFINE f == [l \in D |-> t.mipViews[l]]
    <2>1. f \in Surjection(D, S)
      BY DEF Surjection
    <2> QED
      BY <1>2, <2>1, FS_Surjection
  <1>4. ASSUME NEW l \in D
        PROVE  /\ t.mipViews[l] \in Handle /\ t.mipViews[l].type = "view"
               /\ t.mipViews[l].shows = "level" /\ t.mipViews[l].n = t.image.n
               /\ t.mipViews[l].levels = {l}
    <2>1. {l} \in SUBSET Nat /\ {0} \in SUBSET Nat
      BY <1>1
    <2> DEFINE v == View(t.image, "level", {0}, {l})
    <2>2. /\ v \in Handle /\ v.type = "view" /\ v.shows = "level" /\ v.n = t.image.n
          /\ v.levels = {l}
      BY <2>1, ViewsAre
    <2>3. t.mipViews[l] = v
      BY DEF LevelView
    <2> QED
      BY <2>2, <2>3
  <1> QED
    BY <1>1, <1>3, <1>4

(* Everything a texture has bears the number of its image. *)
LEMMA HandlesAre ==
    ASSUME NEW t \in Texture, Shaped(t)
    PROVE  /\ IsFiniteSet(HandlesOf(t)) /\ HandlesOf(t) \subseteq Handle
           /\ t.image = None => HandlesOf(t) = {}
           /\ t.image # None => t.image \in HandlesOf(t) /\ \A h \in HandlesOf(t) : h.n = t.image.n
  <1>1. CASE t.image = None
    <2>1. {t.mipViews[l] : l \in DOMAIN t.mipViews} = {}
      BY <1>1 DEF Shaped
    <2>2. Elements(t.layerViews) = {}
      BY <1>1, EmptySeq DEF Shaped, Elements
    <2>3. HandlesOf(t) = {}
      BY <1>1, <2>1, <2>2 DEF HandlesOf, Shaped
    <2> QED
      BY <1>1, <2>3, FS_EmptySet
  <1>2. CASE t.image # None
    <2> DEFINE three == {h \in {t.image, t.view, t.sampler} : h # None}
               levels == {t.mipViews[l] : l \in DOMAIN t.mipViews}
               layers == Elements(t.layerViews)
    <2>1. /\ t.image \in Images /\ t.view = WholeView(t) /\ t.layerViews = LayerViewsOf(t)
          /\ t.sampler \in {None, Sampler(t.image)}
          /\ \A l \in DOMAIN t.mipViews :
                l \in AllLevels(t) /\ t.mipViews[l] = LevelView(t.image, l)
      BY <1>2 DEF Shaped
    <2>2. t.levels \in Nat
      BY DEF Texture
    <2>3. t.view \in Handle /\ t.view.n = t.image.n
      <3>1. AllLayers(t) \in SUBSET Nat /\ AllLevels(t) \in SUBSET Nat
        BY <2>2, LayersAreNat
      <3> DEFINE v == View(t.image, "all", AllLayers(t), AllLevels(t))
      <3>2. v \in Handle /\ v.n = t.image.n
        BY <2>1, <3>1, ViewsAre
      <3> QED
        BY <2>1, <3>2 DEF WholeView
    <2>4. \A h \in three : h \in Handle /\ h.n = t.image.n
      <3>1. /\ t.image \in Handle
            /\ Sampler(t.image) \in Handle /\ Sampler(t.image).n = t.image.n
        BY <2>1, ImagesAre
      <3> QED
        BY <2>1, <2>3, <3>1
    <2>5. \A h \in levels : h \in Handle /\ h.n = t.image.n
      <3>1. \A l \in DOMAIN t.mipViews :
               t.mipViews[l] \in Handle /\ t.mipViews[l].n = t.image.n
        BY <2>1, LevelViewsAre
      <3> QED
        BY <3>1
    <2>6. \A h \in layers : h \in Handle /\ h.n = t.image.n
      BY <2>1, LayerViewsAre
    <2>7. IsFiniteSet(layers)
      BY <2>1, LayerViewsAre, DistinctCounts
    <2>8. IsFiniteSet(levels)
      BY <2>1, LevelViewsAre
    <2>9. IsFiniteSet(three)
      <3>1. IsFiniteSet({} \cup {t.image} \cup {t.view} \cup {t.sampler})
        BY FS_EmptySet, FS_AddElement
      <3>2. three \in SUBSET ({} \cup {t.image} \cup {t.view} \cup {t.sampler})
        OBVIOUS
      <3> QED
        BY <3>1, <3>2, FS_Subset
    <2>10. HandlesOf(t) = three \cup layers \cup levels
      BY DEF HandlesOf
    <2> HIDE DEF three, layers, levels
    <2>11. IsFiniteSet(HandlesOf(t))
      BY <2>7, <2>8, <2>9, <2>10, FS_Union
    <2>12. t.image \in HandlesOf(t)
      BY <1>2, <2>10 DEF three
    <2> QED
      BY <1>2, <2>4, <2>5, <2>6, <2>10, <2>11, <2>12
  <1> QED
    BY <1>1, <1>2

(* What is pushed on the deletion queue: everything, but for an image that *)
(* is the swapchain's.                                                     *)
LEMMA ReleasedAre ==
    ASSUME NEW t \in Texture, Shaped(t)
    PROVE  /\ Released(t) \in Seq(Handle) /\ Distinct(Released(t))
           /\ Elements(Released(t)) = HandlesOf(t) \ (IF t.deleteImage THEN {} ELSE {t.image})
  <1>1. CASE t.image = None
    <2>1. Released(t) = <<>> \o <<>> \o Values(t.mipViews) \o <<>>
      BY <1>1 DEF Shaped, Released, DeleteResources, Given, OwnImage
    <2>2. {t.mipViews[l] : l \in DOMAIN t.mipViews} = {}
      BY <1>1 DEF Shaped
    <2>3. Values(t.mipViews) = SetToSeq({})
      BY <2>2 DEF Values
    <2>4. /\ SetToSeq({}) \in Seq(Handle) /\ Elements(SetToSeq({})) = {}
          /\ Distinct(SetToSeq({}))
      BY FS_EmptySet, SetElements, SeqMonotonic
    <2>5. Released(t) = SetToSeq({})
      BY <2>1, <2>3, <2>4, ConcatEmptySeq, EmptySeq
    <2> QED
      BY <1>1, <2>4, <2>5, HandlesAre
  <1>2. CASE t.image # None
    <2> DEFINE levels == {t.mipViews[l] : l \in DOMAIN t.mipViews}
               a == Given(t.sampler)
               b == Given(t.view)
               c == IF t.kind = "2d" THEN Values(t.mipViews) ELSE t.layerViews
               d == OwnImage(t)
    <2>1. /\ t.image \in Images /\ t.view = WholeView(t) /\ t.layerViews = LayerViewsOf(t)
          /\ t.sampler = IF t.deleteImage THEN Sampler(t.image) ELSE None
          /\ t.kind # "2d" => DOMAIN t.mipViews = {} /\ t.deleteImage
          /\ \A l \in DOMAIN t.mipViews :
                l \in AllLevels(t) /\ t.mipViews[l] = LevelView(t.image, l)
      BY <1>2 DEF Shaped
    <2>2. /\ t.image \in Handle /\ t.image.type = "image" /\ t.image # None
          /\ Sampler(t.image) \in Handle /\ Sampler(t.image).type = "sampler" /\ Sampler(t.image) # None
      BY <2>1, ImagesAre
    <2>3. t.view \in Handle /\ t.view.type = "view" /\ t.view.shows = "all" /\ t.view # None
      <3>1. AllLayers(t) \in SUBSET Nat /\ AllLevels(t) \in SUBSET Nat
        BY LayersAreNat DEF Texture
      <3> DEFINE v == View(t.image, "all", AllLayers(t), AllLevels(t))
      <3>2. v \in Handle /\ v.type = "view" /\ v.shows = "all" /\ v # None
        BY <2>1, <3>1, ViewsAre
      <3> QED
        BY <2>1, <3>2 DEF WholeView
    <2>4. /\ a \in Seq(Handle) /\ Distinct(a) /\ Elements(a) = {t.sampler} \ {None}
          /\ b \in Seq(Handle) /\ Distinct(b) /\ Elements(b) = {t.view}
      BY <2>1, <2>2, <2>3, GivenElements
    <2>5. /\ d \in Seq(Handle) /\ Distinct(d)
          /\ Elements(d) = IF t.deleteImage THEN {t.image} ELSE {}
      <3>1. CASE t.deleteImage
        BY <2>2, <3>1, GivenElements DEF OwnImage
      <3>2. CASE ~t.deleteImage
        <4>1. Given(None) \in Seq(Handle) /\ Distinct(Given(None)) /\ Elements(Given(None)) = {}
          BY GivenElements
        <4>2. d = Given(None)
          BY <3>2 DEF OwnImage, Given
        <4> QED
          BY <3>2, <4>1, <4>2
      <3> QED
        BY <3>1, <3>2
    <2>6. /\ c \in Seq(Handle) /\ Distinct(c)
          /\ Elements(c) = Elements(t.layerViews) \cup levels
          /\ \A h \in Elements(c) : h.type = "view" /\ h.shows \in {"layer", "level"}
      <3>1. CASE t.kind = "2d"
        <4>1. t.layerViews = <<>> /\ Elements(t.layerViews) = {}
          BY <2>1, <3>1, EmptySeq DEF LayerViewsOf, Elements
        <4>2. IsFiniteSet(levels) /\ levels \subseteq Handle
          BY <2>1, LevelViewsAre
        <4>3. \A h \in levels : h.type = "view" /\ h.shows = "level"
          BY <2>1, LevelViewsAre, ZenonT(30)
        <4>4. c = SetToSeq(levels)
          BY <3>1 DEF Values
        <4> HIDE DEF c, levels
        <4>5. c \in Seq(levels) /\ Distinct(c) /\ Elements(c) = levels
          BY <4>2, <4>4, SetElements
        <4>6. c \in Seq(Handle)
          BY <4>2, <4>5, SeqMonotonic
        <4> QED
          BY <4>1, <4>3, <4>5, <4>6
      <3>2. CASE t.kind # "2d"
        <4>1. levels = {}
          BY <2>1, <3>2
        <4>2. c = LayerViewsOf(t)
          BY <2>1, <3>2
        <4>3. /\ LayerViewsOf(t) \in Seq(Handle) /\ Distinct(LayerViewsOf(t))
              /\ \A h \in Elements(LayerViewsOf(t)) : h.type = "view" /\ h.shows = "layer"
          BY <2>1, LayerViewsAre
        <4> HIDE DEF c, levels
        <4> QED
          BY <2>1, <4>1, <4>2, <4>3
      <3> QED
        BY <3>1, <3>2
    <2>7. Released(t) = a \o b \o c \o d
      <3>1. CASE t.kind = "2d"
        BY <3>1 DEF Released, DeleteResources
      <3>2. CASE t.kind = "cube"
        BY <3>2 DEF Released, CubeReleases
      <3>3. CASE t.kind \in {"depth", "array"}
        <4>1. a = <<t.sampler>> /\ b = <<t.view>> /\ d = <<t.image>> /\ c = LayerViewsOf(t)
          BY <2>1, <2>2, <2>3, <3>3 DEF Given, OwnImage
        <4>2. <<t.sampler, t.view>> = <<t.sampler>> \o <<t.view>>
          OBVIOUS
        <4>3. CASE t.kind = "array"
          BY <2>1, <4>1, <4>2, <4>3 DEF Released, ArrayReleases
        <4>4. CASE t.kind = "depth"
          <5>1. c = <<>>
            BY <4>1, <4>4 DEF LayerViewsOf
          <5>2. <<t.sampler, t.view, t.image>> = <<t.sampler>> \o <<t.view>> \o <<t.image>>
            OBVIOUS
          <5>3. a \o b \in Seq(Handle)
            BY <2>4, ConcatProperties
          <5>4. (a \o b) \o <<>> = a \o b
            BY <5>3, ConcatEmptySeq
          <5> QED
            BY <4>1, <4>4, <5>1, <5>2, <5>4 DEF Released, DepthReleases
        <4> QED
          BY <3>3, <4>3, <4>4
      <3>4. t.kind \in {"2d", "cube", "depth", "array"}
        BY DEF Texture, Kinds
      <3> QED
        BY <3>1, <3>2, <3>3, <3>4
    <2>8. HandlesOf(t) = ({t.image, t.view, t.sampler} \ {None}) \cup Elements(t.layerViews) \cup levels
      BY DEF HandlesOf
    <2> HIDE DEF a, b, c, d, levels
    <2>9. \A h \in {t.sampler} \ {None} : h.type = "sampler"
      BY <2>1, <2>2
    <2>10. \A h \in Elements(c) : h.type = "view" /\ h.shows # "all"
      BY <2>6
    <2> DEFINE ab == a \o b
               abc == ab \o c
    <2>11. /\ ab \in Seq(Handle) /\ Distinct(ab)
           /\ Elements(ab) = ({t.sampler} \ {None}) \cup {t.view}
      <3>1. Elements(a) \cap Elements(b) = {}
        BY <2>3, <2>4, <2>9
      <3> QED
        BY <2>4, <3>1, ConcatElements
    <2> HIDE DEF ab
    <2>12. /\ abc \in Seq(Handle) /\ Distinct(abc)
           /\ Elements(abc) = Elements(ab) \cup Elements(c)
      <3>1. Elements(ab) \cap Elements(c) = {}
        BY <2>3, <2>9, <2>10, <2>11
      <3> QED
        BY <2>6, <2>11, <3>1, ConcatElements
    <2> HIDE DEF abc
    <2>13. /\ abc \o d \in Seq(Handle) /\ Distinct(abc \o d)
           /\ Elements(abc \o d) = Elements(abc) \cup Elements(d)
      <3>1. Elements(abc) \cap Elements(d) = {}
        BY <2>2, <2>3, <2>5, <2>9, <2>10, <2>11, <2>12
      <3> QED
        BY <2>5, <2>12, <3>1, ConcatElements
    <2>14. Released(t) = abc \o d
      BY <2>7 DEF ab, abc
    <2>15. t.image \notin Elements(c) /\ t.image # t.view /\ t.image \notin {t.sampler} \ {None}
      BY <2>2, <2>3, <2>9, <2>10
    <2> QED
      BY <2>2, <2>3, <2>5, <2>6, <2>8, <2>11, <2>12, <2>13, <2>14, <2>15
  <1> QED
    BY <1>1, <1>2

(* Kind, image and levels determine what is shown of an image. *)
LEMMA Alike ==
    ASSUME NEW t, NEW u, u.kind = t.kind, u.image = t.image, u.levels = t.levels
    PROVE  /\ AllLayers(u) = AllLayers(t) /\ AllLevels(u) = AllLevels(t)
           /\ WholeView(u) = WholeView(t) /\ LayerViewsOf(u) = LayerViewsOf(t)
  <1>1. Layers(u) = Layers(t)
    BY DEF Layers
  <1> QED
    BY <1>1 DEF AllLayers, AllLevels, WholeView, LayerViewsOf

-----------------------------------------------------------------------------
(***************************************************************************)
(* Steps of the constructors                                               *)
(***************************************************************************)
Numbers(S) == {h.n : h \in S}

LEMMA FreshIs ==
    ASSUME NEW g, IsFiniteSet(g.handles)
    PROVE  FreshImage(g) \in Images /\ FreshImage(g).n \notin Numbers(g.handles)
  <1> DEFINE used == {h.n : h \in g.handles}
             c == Cardinality(used)
             new == CHOOSE n \in 1 .. c + 1 : n \notin used
  <1>1. IsFiniteSet(used) /\ c \in Nat
    <2> DEFINE number == [h \in g.handles |-> h.n]
    <2>1. number \in Surjection(g.handles, used)
      BY DEF Surjection
    <2> QED
      BY <2>1, FS_Surjection, FS_CardinalityType
  <1> HIDE DEF used
  <1>2. \E n \in 1 .. c + 1 : n \notin used
    <2> SUFFICES ASSUME 1 .. c + 1 \subseteq used PROVE FALSE
      OBVIOUS
    <2>1. Cardinality(1 .. c + 1) = c + 1
      BY <1>1, FS_Interval
    <2>2. Cardinality(1 .. c + 1) <= c
      BY <1>1, FS_Subset
    <2> QED
      BY <1>1, <2>1, <2>2
  <1>3. new \in 1 .. c + 1 /\ new \notin used
    BY <1>2
  <1>4. new \in Nat
    BY <1>1, <1>3
  <1>5. FreshImage(g) = Image(new) /\ Image(new).n = new
    BY DEF FreshImage, Image, used
  <1> QED
    BY <1>3, <1>4, <1>5 DEF Images, Numbers, used

LEMMA WithImageIs ==
    ASSUME NEW t \in Texture, NEW g, IsFiniteSet(g.handles)
    PROVE  LET w == WithImage(Work(t, g))
           IN  /\ w.t \in Texture /\ w.t = [t EXCEPT !.image = w.t.image]
               /\ w.t.image \in Images /\ w.t.image.n \notin Numbers(g.handles)
               /\ w.g.handles = g.handles \cup {w.t.image}
  <1> DEFINE i == FreshImage(g)
             w == WithImage(Work(t, g))
  <1>1. i \in Images /\ i.n \notin Numbers(g.handles)
    BY FreshIs
  <1>2. i \in Maybe
    BY <1>1, ImagesAre DEF Maybe
  <1>3. w.t = [t EXCEPT !.image = i]
    BY DEF WithImage, Work
  <1>4. w.g.handles = g.handles \cup {i}
    BY DEF WithImage, Work, CreateImage, Make
  <1> HIDE DEF i, w
  <1>5. w.t \in Texture /\ w.t.image = i
    BY <1>2, <1>3 DEF Texture
  <1> QED
    BY <1>1, <1>3, <1>4, <1>5 DEF w

LEMMA WithViewIs ==
    ASSUME NEW w, w.t \in Texture, w.t.image \in Images
    PROVE  LET u == WithView(w)
           IN  /\ u.t \in Texture /\ u.t = [w.t EXCEPT !.view = WholeView(w.t)]
               /\ u.g.handles = w.g.handles \cup {WholeView(w.t)}
  <1> DEFINE u == WithView(w)
             v == View(w.t.image, "all", AllLayers(w.t), AllLevels(w.t))
  <1>1. AllLayers(w.t) \in SUBSET Nat /\ AllLevels(w.t) \in SUBSET Nat
    BY LayersAreNat DEF Texture
  <1>2. v \in Handle /\ v = WholeView(w.t)
    BY <1>1, ViewsAre DEF WholeView
  <1>3. u.t = [w.t EXCEPT !.view = v] /\ u.g.handles = w.g.handles \cup {v}
    BY DEF WithView, Work, Make
  <1> HIDE DEF u, v
  <1>4. u.t \in Texture
    BY <1>2, <1>3 DEF Texture, Maybe
  <1> QED
    BY <1>2, <1>3, <1>4 DEF u

LEMMA WithSamplerIs ==
    ASSUME NEW w, w.t \in Texture, w.t.image \in Images
    PROVE  LET u == WithSampler(w)
           IN  /\ u.t \in Texture /\ u.t = [w.t EXCEPT !.sampler = Sampler(w.t.image)]
               /\ u.g.handles = w.g.handles \cup {Sampler(w.t.image)}
  <1> DEFINE u == WithSampler(w)
             x == Sampler(w.t.image)
  <1>1. x \in Handle
    BY ImagesAre
  <1>2. u.t = [w.t EXCEPT !.sampler = x] /\ u.g.handles = w.g.handles \cup {x}
    BY DEF WithSampler, Work, Make
  <1> HIDE DEF u, x
  <1>3. u.t \in Texture
    BY <1>1, <1>2 DEF Texture, Maybe
  <1> QED
    BY <1>2, <1>3 DEF u, x

LEMMA WithLayerViewsIs ==
    ASSUME NEW w, w.t \in Texture, w.t.image \in Images, w.t.kind \in {"cube", "array"}
    PROVE  LET u == WithLayerViews(w)
           IN  /\ u.t \in Texture /\ u.t = [w.t EXCEPT !.layerViews = LayerViewsOf(w.t)]
               /\ u.g.handles = w.g.handles \cup Elements(LayerViewsOf(w.t))
  <1> DEFINE u == WithLayerViews(w)
             x == LayerViewsOf(w.t)
  <1>1. x \in Seq(Handle)
    BY LayerViewsAre
  <1>2. u.t = [w.t EXCEPT !.layerViews = x] /\ u.g.handles = w.g.handles \cup Elements(x)
    BY DEF WithLayerViews, Work, Make, LayerViewsOf
  <1> HIDE DEF u, x
  <1>3. u.t \in Texture
    BY <1>1, <1>2 DEF Texture
  <1> QED
    BY <1>2, <1>3 DEF u, x

LEMMA InLayoutIs ==
    ASSUME NEW t \in Texture, NEW layout \in ImageLayouts
    PROVE  LET u == InLayout(t, layout)
           IN  /\ u \in Texture /\ u.layout = layout
               /\ u.descriptor = [view |-> t.view, sampler |-> t.sampler, layout |-> layout]
               /\ u.kind = t.kind /\ u.image = t.image /\ u.view = t.view /\ u.sampler = t.sampler
               /\ u.mipViews = t.mipViews /\ u.layerViews = t.layerViews /\ u.levels = t.levels
               /\ u.target = t.target /\ u.deleteImage = t.deleteImage
  <1> DEFINE v == [t EXCEPT !.layout = layout]
             d == [view |-> v.view, sampler |-> v.sampler, layout |-> v.layout]
             u == [v EXCEPT !.descriptor = d]
  <1>1. /\ v \in Texture /\ v.layout = layout
        /\ v.kind = t.kind /\ v.image = t.image /\ v.view = t.view /\ v.sampler = t.sampler
        /\ v.mipViews = t.mipViews /\ v.layerViews = t.layerViews /\ v.levels = t.levels
        /\ v.target = t.target /\ v.deleteImage = t.deleteImage
    BY DEF Texture
  <1>2. InLayout(t, layout) = u
    BY DEF InLayout, UpdateDescriptor
  <1> HIDE DEF v
  <1>3. d \in [view : Maybe, sampler : Maybe, layout : ImageLayouts]
    BY <1>1 DEF Texture
  <1>4. d = [view |-> t.view, sampler |-> t.sampler, layout |-> layout]
    BY <1>1
  <1> HIDE DEF d
  <1>5. /\ u \in Texture /\ u.layout = v.layout /\ u.descriptor = d
        /\ u.kind = v.kind /\ u.image = v.image /\ u.view = v.view /\ u.sampler = v.sampler
        /\ u.mipViews = v.mipViews /\ u.layerViews = v.layerViews /\ u.levels = v.levels
        /\ u.target = v.target /\ u.deleteImage = v.deleteImage
    BY <1>1, <1>3 DEF Texture
  <1> QED
    BY <1>1, <1>2, <1>4, <1>5

LEMMA MipViewsAre ==
    ASSUME NEW w, w.t \in Texture, w.t.image \in Images, NEW L \in SUBSET Nat,
           DOMAIN w.t.mipViews \subseteq Nat
    PROVE  LET u == MipViews(w, L)
           IN  /\ u.t \in Texture /\ u.t = [w.t EXCEPT !.mipViews = u.t.mipViews]
               /\ DOMAIN u.t.mipViews = DOMAIN w.t.mipViews \cup L
               /\ \A l \in DOMAIN w.t.mipViews : u.t.mipViews[l] = w.t.mipViews[l]
               /\ \A l \in L \ DOMAIN w.t.mipViews : u.t.mipViews[l] = LevelView(w.t.image, l)
               /\ u.g.handles = w.g.handles \cup {LevelView(w.t.image, l) : l \in L \ DOMAIN w.t.mipViews}
  <1> DEFINE old == w.t.mipViews
             D == DOMAIN old
             new == L \ D
             m == [l \in D \cup new |-> IF l \in new THEN LevelView(w.t.image, l) ELSE old[l]]
             u == MipViews(w, L)
  <1>1. \A l \in new : LevelView(w.t.image, l) \in Handle
    <2> SUFFICES ASSUME NEW l \in new PROVE LevelView(w.t.image, l) \in Handle
      OBVIOUS
    <2>1. l \in Nat
      OBVIOUS
    <2>2. {l} \in SUBSET Nat /\ {0} \in SUBSET Nat
      BY <2>1
    <2> QED
      BY <2>2, ViewsAre DEF LevelView
  <1>2. \A l \in D : old[l] \in Handle
    BY DEF Texture, LevelViews
  <1>3. m \in [D \cup L -> Handle]
    BY <1>1, <1>2
  <1>4. m \in LevelViews
    BY <1>3 DEF LevelViews
  <1>5. u.t = [w.t EXCEPT !.mipViews = m]
    BY DEF MipViews, Work, LevelView
  <1>6. u.g.handles = w.g.handles \cup {LevelView(w.t.image, l) : l \in new}
    BY DEF MipViews, Work, Make, LevelView
  <1> HIDE DEF u
  <1>7. DOMAIN m = D \cup L /\ (\A l \in D : m[l] = old[l]) /\ (\A l \in new : m[l] = LevelView(w.t.image, l))
    OBVIOUS
  <1> HIDE DEF m
  <1>8. u.t \in Texture /\ u.t.mipViews = m
    BY <1>4, <1>5 DEF Texture
  <1> QED
    BY <1>5, <1>6, <1>7, <1>8 DEF u

-----------------------------------------------------------------------------
(***************************************************************************)
(* Constructors                                                            *)
(***************************************************************************)
(* What every constructor of an image does: a texture that has all of its  *)
(* image, under a number nobody had, and nothing else.                     *)
Built(w, g) ==
    /\ w.t \in Texture /\ Shaped(w.t)
    /\ w.t.image \in Images /\ w.t.image.n \notin Numbers(g.handles)
    /\ w.g.handles = g.handles \cup HandlesOf(w.t)

LEMMA HandlesTogether ==
    ASSUME NEW t \in Texture, t.image \in Images, t.view = WholeView(t)
    PROVE  HandlesOf(t) = {t.image, t.view} \cup ({t.sampler} \ {None}) \cup Elements(t.layerViews)
                            \cup {t.mipViews[l] : l \in DOMAIN t.mipViews}
  <1>1. AllLayers(t) \in SUBSET Nat /\ AllLevels(t) \in SUBSET Nat
    BY LayersAreNat DEF Texture
  <1> DEFINE v == View(t.image, "all", AllLayers(t), AllLevels(t))
  <1>2. v # None
    BY <1>1, ViewsAre
  <1>3. t.view # None /\ t.image # None
    BY <1>2, ImagesAre DEF WholeView
  <1> QED
    BY <1>3 DEF HandlesOf

LEMMA MipCountIsNat ==
    ASSUME NEW size \in Nat
    PROVE  MipCount(size) \in Nat /\ (size > 0 => MipCount(size) > 0)
  <1> DEFINE S == {n \in 0 .. size : 2 ^ n <= size}
  <1>1. IsFiniteSet(0 .. size)
    BY FS_Interval
  <1>2. S \in SUBSET (0 .. size)
    OBVIOUS
  <1>3. size > 0 => 0 \in S
    <2>1. 2 ^ 0 = 1
      OBVIOUS
    <2> QED
      BY <2>1
  <1> HIDE DEF S
  <1>4. IsFiniteSet(S)
    BY <1>1, <1>2, FS_Subset
  <1>5. Cardinality(S) \in Nat /\ (Cardinality(S) = 0 <=> S = {})
    BY <1>4, FS_CardinalityType, FS_EmptySet
  <1>6. MipCount(size) = Cardinality(S)
    BY DEF MipCount, S
  <1> QED
    BY <1>3, <1>5, <1>6

(* The end of every constructor. *)
LEMMA Finished ==
    ASSUME NEW w, NEW g, w.t \in Texture,
           w.t.image \in Images, w.t.image.n \notin Numbers(g.handles),
           w.t.view = WholeView(w.t),
           w.t.sampler = IF w.t.deleteImage THEN Sampler(w.t.image) ELSE None,
           \A l \in DOMAIN w.t.mipViews :
               l \in AllLevels(w.t) /\ w.t.mipViews[l] = LevelView(w.t.image, l),
           w.t.layerViews = LayerViewsOf(w.t),
           w.t.kind # "2d" => DOMAIN w.t.mipViews = {} /\ w.t.deleteImage /\ w.t.levels > 0,
           w.t.target => w.t.kind = "2d" /\ w.t.deleteImage,
           w.t.descriptor = [view |-> w.t.view, sampler |-> w.t.sampler, layout |-> w.t.layout],
           w.g.handles = g.handles \cup {w.t.image, w.t.view} \cup ({w.t.sampler} \ {None})
                           \cup Elements(w.t.layerViews)
                           \cup {w.t.mipViews[l] : l \in DOMAIN w.t.mipViews}
    PROVE  Built(w, g)
  <1> DEFINE t == w.t
  <1>1. t.image # None
    BY ImagesAre
  <1>2. Shaped(t)
    BY <1>1 DEF Shaped
  <1>3. HandlesOf(t) = {t.image, t.view} \cup ({t.sampler} \ {None}) \cup Elements(t.layerViews)
                         \cup {t.mipViews[l] : l \in DOMAIN t.mipViews}
    BY HandlesTogether
  <1>4. w.g.handles = g.handles \cup HandlesOf(t)
    BY <1>3
  <1> QED
    BY <1>2, <1>4 DEF Built

LEMMA TransitionIs ==
    ASSUME NEW w, w.t \in Texture, NEW layout \in ImageLayouts
    PROVE  LET u == Transition(w, layout)
           IN  u.t = InLayout(w.t, layout) /\ u.g.handles = w.g.handles
  BY DEF Transition, Work, ExecuteAll

LEMMA ExecutedIs ==
    ASSUME NEW w, NEW commands
    PROVE  Executed(w, commands).t = w.t /\ Executed(w, commands).g.handles = w.g.handles
  BY DEF Executed, Work, ExecuteAll

LEMMA UpdateDescriptorIs ==
    ASSUME NEW t \in Texture
    PROVE  LET u == UpdateDescriptor(t)
           IN  /\ u \in Texture
               /\ u.descriptor = [view |-> u.view, sampler |-> u.sampler, layout |-> u.layout]
               /\ u.kind = t.kind /\ u.image = t.image /\ u.view = t.view /\ u.sampler = t.sampler
               /\ u.mipViews = t.mipViews /\ u.layerViews = t.layerViews /\ u.levels = t.levels
               /\ u.target = t.target /\ u.deleteImage = t.deleteImage /\ u.layout = t.layout
  <1> DEFINE d == [view |-> t.view, sampler |-> t.sampler, layout |-> t.layout]
             u == [t EXCEPT !.descriptor = d]
  <1>1. UpdateDescriptor(t) = u
    BY DEF UpdateDescriptor
  <1>2. d \in [view : Maybe, sampler : Maybe, layout : ImageLayouts]
    BY DEF Texture
  <1>3. d = [view |-> t.view, sampler |-> t.sampler, layout |-> t.layout]
    OBVIOUS
  <1> HIDE DEF d
  <1>4. /\ u \in Texture /\ u.descriptor = d
        /\ u.kind = t.kind /\ u.image = t.image /\ u.view = t.view /\ u.sampler = t.sampler
        /\ u.mipViews = t.mipViews /\ u.layerViews = t.layerViews /\ u.levels = t.levels
        /\ u.target = t.target /\ u.deleteImage = t.deleteImage /\ u.layout = t.layout
    BY <1>2 DEF Texture
  <1> QED
    BY <1>1, <1>3, <1>4

LEMMA BuildTextureIs ==
    ASSUME NEW t \in Texture, NEW g, IsFiniteSet(g.handles),
           t.kind = "2d", t.deleteImage, DOMAIN t.mipViews = {}, t.layerViews = <<>>
    PROVE  Built(BuildTexture(t, g), g)
  <1> DEFINE levels == IF t.createMips THEN MipCount(t.size) ELSE t.levels
             t0 == [t EXCEPT !.levels = levels]
             w1 == WithImage(Work(t0, g))
             w2 == WithView(w1)
             w3 == WithSampler(w2)
             w4 == Work([w3.t EXCEPT !.layout = Undefined], w3.g)
             w5 == Transition(w4, Colour)
             w6 == MipViews(w5, Range0(levels))
             w == IF t.keepMipViews THEN w6 ELSE w5
  <1>1. levels \in Nat
    BY MipCountIsNat DEF Texture
  <1>2. BuildTexture(t, g) = w
    BY DEF BuildTexture
  <1> HIDE DEF levels
  <1>3. /\ t0 \in Texture /\ t0.kind = "2d" /\ t0.deleteImage /\ DOMAIN t0.mipViews = {}
        /\ t0.layerViews = <<>> /\ t0.levels = levels
    BY <1>1 DEF Texture
  <1> HIDE DEF t0
  <1>4. /\ w1.t \in Texture /\ w1.t = [t0 EXCEPT !.image = w1.t.image]
        /\ w1.t.image \in Images /\ w1.t.image.n \notin Numbers(g.handles)
        /\ w1.g.handles = g.handles \cup {w1.t.image}
    BY <1>3, WithImageIs
  <1> HIDE DEF w1
  <1>5. /\ w1.t.kind = "2d" /\ w1.t.deleteImage /\ DOMAIN w1.t.mipViews = {}
        /\ w1.t.layerViews = <<>> /\ w1.t.levels = levels
    BY <1>3, <1>4 DEF Texture
  <1>6. /\ w2.t \in Texture /\ w2.t = [w1.t EXCEPT !.view = WholeView(w1.t)]
        /\ w2.g.handles = w1.g.handles \cup {WholeView(w1.t)}
    BY <1>4, WithViewIs
  <1> HIDE DEF w2
  <1>7. /\ w2.t.kind = "2d" /\ w2.t.deleteImage /\ DOMAIN w2.t.mipViews = {}
        /\ w2.t.layerViews = <<>> /\ w2.t.levels = levels
        /\ w2.t.image = w1.t.image /\ w2.t.view = WholeView(w1.t)
    BY <1>4, <1>5, <1>6 DEF Texture
  <1>8. /\ w3.t \in Texture /\ w3.t = [w2.t EXCEPT !.sampler = Sampler(w2.t.image)]
        /\ w3.g.handles = w2.g.handles \cup {Sampler(w2.t.image)}
    BY <1>4, <1>6, <1>7, WithSamplerIs
  <1> HIDE DEF w3
  <1>9. /\ w3.t.kind = "2d" /\ w3.t.deleteImage /\ DOMAIN w3.t.mipViews = {}
        /\ w3.t.layerViews = <<>> /\ w3.t.levels = levels
        /\ w3.t.image = w1.t.image /\ w3.t.view = WholeView(w1.t)
        /\ w3.t.sampler = Sampler(w1.t.image)
    BY <1>6, <1>7, <1>8 DEF Texture
  <1>10. w4.t = [w3.t EXCEPT !.layout = Undefined] /\ w4.g = w3.g
    BY DEF Work
  <1>11. /\ w4.t \in Texture /\ w4.t.kind = "2d" /\ w4.t.deleteImage /\ DOMAIN w4.t.mipViews = {}
         /\ w4.t.layerViews = <<>> /\ w4.t.levels = levels
         /\ w4.t.image = w1.t.image /\ w4.t.view = WholeView(w1.t)
         /\ w4.t.sampler = Sampler(w1.t.image)
    <2>1. Undefined \in ImageLayouts
      BY DEF ImageLayouts
    <2>2. w3.t \in Texture
      BY <1>8
    <2> HIDE DEF w4
    <2> QED
      BY <1>9, <1>10, <2>1, <2>2 DEF Texture
  <1> HIDE DEF w4
  <1> DEFINE u == w5.t
  <1>12. u = InLayout(w4.t, Colour) /\ w5.g.handles = w4.g.handles
    BY <1>11, TransitionIs DEF ImageLayouts
  <1> HIDE DEF w5
  <1>13. /\ u \in Texture /\ u.kind = "2d" /\ u.deleteImage /\ DOMAIN u.mipViews = {}
         /\ u.layerViews = <<>> /\ u.levels = levels
         /\ u.image = w1.t.image /\ u.view = WholeView(w1.t)
         /\ u.sampler = Sampler(w1.t.image)
         /\ u.descriptor = [view |-> u.view, sampler |-> u.sampler, layout |-> u.layout]
    <2>1. Colour \in ImageLayouts
      BY DEF ImageLayouts
    <2>2. LET x == InLayout(w4.t, Colour)
          IN  /\ x \in Texture /\ x.layout = Colour
              /\ x.descriptor = [view |-> w4.t.view, sampler |-> w4.t.sampler, layout |-> Colour]
              /\ x.kind = w4.t.kind /\ x.image = w4.t.image /\ x.view = w4.t.view
              /\ x.sampler = w4.t.sampler /\ x.mipViews = w4.t.mipViews
              /\ x.layerViews = w4.t.layerViews /\ x.levels = w4.t.levels
              /\ x.target = w4.t.target /\ x.deleteImage = w4.t.deleteImage
      BY <1>11, <2>1, InLayoutIs, ZenonT(30)
    <2> QED
      BY <1>11, <1>12, <2>2
  <1>14. /\ WholeView(u) = WholeView(w1.t) /\ LayerViewsOf(u) = <<>>
         /\ AllLevels(u) = Range0(levels)
    BY <1>5, <1>13, Alike DEF LayerViewsOf, AllLevels
  <1>15. w5.g.handles = g.handles \cup {u.image, u.view} \cup {u.sampler}
    BY <1>4, <1>6, <1>7, <1>8, <1>10, <1>12, <1>13
  <1> HIDE DEF u
  <1>16. w1.t.image \in Images /\ w1.t.image.n \notin Numbers(g.handles)
    BY <1>4
  <1>17. CASE ~t.keepMipViews
    <2>1. w.t = u /\ w.g = w5.g
      BY <1>17 DEF u
    <2> HIDE DEF w
    <2>2. /\ w.t.image \in Images /\ w.t.image.n \notin Numbers(g.handles)
          /\ w.t.sampler # None
      BY <1>13, <2>1, <1>16, ImagesAre
    <2>3. /\ Elements(w.t.layerViews) = {} /\ {w.t.mipViews[l] : l \in DOMAIN w.t.mipViews} = {}
          /\ {w.t.sampler} \ {None} = {w.t.sampler}
      BY <1>13, <2>1, <2>2, EmptySeq DEF Elements
    <2>4. w.g.handles = g.handles \cup {w.t.image, w.t.view} \cup ({w.t.sampler} \ {None})
                           \cup Elements(w.t.layerViews)
                           \cup {w.t.mipViews[l] : l \in DOMAIN w.t.mipViews}
      BY <1>15, <2>1, <2>3
    <2>5. Built(w, g)
      BY <1>13, <1>14, <2>1, <2>2, <2>4, Finished
    <2> QED
      BY <1>2, <2>5
  <1>18. CASE t.keepMipViews
    <2> DEFINE m == w6.t.mipViews
               new == {LevelView(u.image, l) : l \in Range0(levels)}
    <2>1. Range0(levels) \in SUBSET Nat /\ DOMAIN u.mipViews = {} /\ u.image \in Images
      BY <1>1, <1>13, <1>16 DEF Range0
    <2>2. /\ w6.t \in Texture /\ w6.t = [u EXCEPT !.mipViews = m]
          /\ DOMAIN m = Range0(levels)
          /\ \A l \in Range0(levels) : m[l] = LevelView(u.image, l)
          /\ w6.g.handles = w5.g.handles \cup new
      <3>1. w5.t = u
        BY DEF u
      <3>2. w5.t \in Texture /\ w5.t.image \in Images /\ DOMAIN w5.t.mipViews = {}
        BY <1>13, <2>1, <3>1
      <3>3. /\ w6.t \in Texture /\ w6.t = [w5.t EXCEPT !.mipViews = m]
            /\ DOMAIN m = DOMAIN w5.t.mipViews \cup Range0(levels)
            /\ \A l \in Range0(levels) \ DOMAIN w5.t.mipViews : m[l] = LevelView(w5.t.image, l)
            /\ w6.g.handles =
                  w5.g.handles \cup {LevelView(w5.t.image, l) : l \in Range0(levels) \ DOMAIN w5.t.mipViews}
        <4>1. DOMAIN w5.t.mipViews \subseteq Nat
          BY <3>2
        <4> QED
          BY <2>1, <3>2, <4>1, MipViewsAre, ZenonT(30)
      <3>4. Range0(levels) \ DOMAIN w5.t.mipViews = Range0(levels)
        BY <3>2
      <3> QED
        BY <3>1, <3>2, <3>3, <3>4
    <2>3. w = w6
      BY <1>18
    <2> HIDE DEF w, w6
    <2>4. /\ w.t.kind = "2d" /\ w.t.deleteImage /\ w.t.layerViews = <<>> /\ w.t.levels = levels
          /\ w.t.image = u.image /\ w.t.view = u.view /\ w.t.sampler = u.sampler
          /\ w.t.descriptor = u.descriptor /\ w.t.layout = u.layout
      BY <1>13, <2>2, <2>3 DEF Texture
    <2>5. w.t \in Texture /\ w.t.mipViews = m
      BY <2>2, <2>3
    <2> HIDE DEF m
    <2>6. /\ WholeView(w.t) = WholeView(u) /\ LayerViewsOf(w.t) = LayerViewsOf(u)
          /\ AllLevels(w.t) = AllLevels(u)
      BY <1>13, <2>4, Alike
    <2>7. /\ w.t.image \in Images /\ w.t.image.n \notin Numbers(g.handles)
          /\ w.t.sampler # None
      BY <1>13, <1>16, <2>4, ImagesAre
    <2>8. /\ Elements(w.t.layerViews) = {} /\ {w.t.mipViews[l] : l \in DOMAIN w.t.mipViews} = new
          /\ {w.t.sampler} \ {None} = {w.t.sampler}
      BY <2>2, <2>4, <2>5, <2>7, EmptySeq DEF Elements
    <2> HIDE DEF new
    <2>9. w.g.handles = g.handles \cup {w.t.image, w.t.view} \cup ({w.t.sampler} \ {None})
                           \cup Elements(w.t.layerViews)
                           \cup {w.t.mipViews[l] : l \in DOMAIN w.t.mipViews}
      BY <1>15, <2>2, <2>3, <2>4, <2>8
    <2>10. \A l \in DOMAIN w.t.mipViews :
              l \in AllLevels(w.t) /\ w.t.mipViews[l] = LevelView(w.t.image, l)
      BY <1>14, <2>2, <2>4, <2>5, <2>6
    <2>11. Built(w, g)
      BY <1>13, <1>14, <2>4, <2>5, <2>6, <2>7, <2>9, <2>10, Finished
    <2> QED
      BY <1>2, <2>11
  <1> QED
    BY <1>17, <1>18
LEMMA LoadedIs ==
    ASSUME NEW t \in Texture, NEW g, IsFiniteSet(g.handles),
           t.kind = "2d", t.deleteImage, DOMAIN t.mipViews = {}, t.layerViews = <<>>
    PROVE  Built(Loaded(t, g), g)
  <1> DEFINE levels == IF t.createMips THEN MipCount(t.size) ELSE 1
             t0 == [t EXCEPT !.levels = levels]
             w1 == WithImage(Work(t0, g))
             upload == << Command(w1.t.image, {0}, Range0(levels), Undefined, Dst),
                          Use(w1.t.image, {0}, {0}, Dst) >>
             mips == IF t.createMips THEN MipCommands(w1.t.image, 0, levels) ELSE <<>>
             w2 == Executed(w1, upload \o mips)
             w3 == Transition(w2, ShaderRead)
             w4 == WithView(w3)
             w5 == WithSampler(w4)
             w == Work(UpdateDescriptor(w5.t), w5.g)
             image == w1.t.image
  <1>1. levels \in Nat
    BY MipCountIsNat DEF Texture
  <1>2. Loaded(t, g) = w
    BY DEF Loaded, Load
  <1> HIDE DEF levels
  <1>3. /\ t0 \in Texture /\ t0.kind = "2d" /\ t0.deleteImage /\ DOMAIN t0.mipViews = {}
        /\ t0.layerViews = <<>> /\ t0.levels = levels
    BY <1>1 DEF Texture
  <1> HIDE DEF t0
  <1>4. /\ w1.t \in Texture /\ w1.t = [t0 EXCEPT !.image = image]
        /\ image \in Images /\ image.n \notin Numbers(g.handles)
        /\ w1.g.handles = g.handles \cup {image}
    BY <1>3, WithImageIs
  <1>5. w2.t = w1.t /\ w2.g.handles = w1.g.handles
    BY ExecutedIs
  <1>6. w3.t = InLayout(w2.t, ShaderRead) /\ w3.g.handles = w2.g.handles
    BY <1>4, <1>5, TransitionIs DEF ImageLayouts
  <1> HIDE DEF w1, w2, w3
  <1>7. /\ w1.t.kind = "2d" /\ w1.t.deleteImage /\ DOMAIN w1.t.mipViews = {}
        /\ w1.t.layerViews = <<>> /\ w1.t.levels = levels
    BY <1>3, <1>4 DEF Texture
  <1>8. image \in Images /\ image.n \notin Numbers(g.handles)
    BY <1>4
  <1>9. /\ w3.t \in Texture /\ w3.t.kind = "2d" /\ w3.t.deleteImage /\ DOMAIN w3.t.mipViews = {}
        /\ w3.t.layerViews = <<>> /\ w3.t.levels = levels /\ w3.t.image = image
    <2>1. ShaderRead \in ImageLayouts
      BY DEF ImageLayouts
    <2>2. w2.t \in Texture
      BY <1>4, <1>5
    <2> DEFINE x == InLayout(w2.t, ShaderRead)
    <2>3. /\ x \in Texture /\ x.kind = w2.t.kind /\ x.image = w2.t.image
          /\ x.mipViews = w2.t.mipViews /\ x.layerViews = w2.t.layerViews
          /\ x.levels = w2.t.levels /\ x.deleteImage = w2.t.deleteImage
      BY <2>1, <2>2, InLayoutIs
    <2> QED
      BY <1>5, <1>6, <1>7, <2>3
  <1>10. /\ w4.t \in Texture /\ w4.t = [w3.t EXCEPT !.view = WholeView(w3.t)]
         /\ w4.g.handles = w3.g.handles \cup {WholeView(w3.t)}
    BY <1>8, <1>9, WithViewIs
  <1> HIDE DEF w4
  <1>11. /\ w4.t.kind = "2d" /\ w4.t.deleteImage /\ DOMAIN w4.t.mipViews = {}
         /\ w4.t.layerViews = <<>> /\ w4.t.levels = levels /\ w4.t.image = image
         /\ w4.t.view = WholeView(w3.t)
    BY <1>9, <1>10 DEF Texture
  <1>12. /\ w5.t \in Texture /\ w5.t = [w4.t EXCEPT !.sampler = Sampler(w4.t.image)]
         /\ w5.g.handles = w4.g.handles \cup {Sampler(w4.t.image)}
    BY <1>8, <1>10, <1>11, WithSamplerIs
  <1> HIDE DEF w5
  <1>13. /\ w5.t.kind = "2d" /\ w5.t.deleteImage /\ DOMAIN w5.t.mipViews = {}
         /\ w5.t.layerViews = <<>> /\ w5.t.levels = levels /\ w5.t.image = image
         /\ w5.t.view = WholeView(w3.t) /\ w5.t.sampler = Sampler(image)
    BY <1>10, <1>11, <1>12 DEF Texture
  <1>14. /\ w.t \in Texture /\ w.t.kind = "2d" /\ w.t.deleteImage /\ DOMAIN w.t.mipViews = {}
         /\ w.t.layerViews = <<>> /\ w.t.levels = levels /\ w.t.image = image
         /\ w.t.view = WholeView(w3.t) /\ w.t.sampler = Sampler(image)
         /\ w.t.descriptor = [view |-> w.t.view, sampler |-> w.t.sampler, layout |-> w.t.layout]
    <2> DEFINE x == UpdateDescriptor(w5.t)
    <2>1. /\ x \in Texture
          /\ x.descriptor = [view |-> x.view, sampler |-> x.sampler, layout |-> x.layout]
          /\ x.kind = w5.t.kind /\ x.image = w5.t.image /\ x.view = w5.t.view
          /\ x.sampler = w5.t.sampler /\ x.mipViews = w5.t.mipViews
          /\ x.layerViews = w5.t.layerViews /\ x.levels = w5.t.levels
          /\ x.deleteImage = w5.t.deleteImage
      BY <1>12, UpdateDescriptorIs
    <2> HIDE DEF x
    <2>2. w.t = x
      BY DEF x, Work
    <2> QED
      BY <1>13, <2>1, <2>2
  <1>15. /\ WholeView(w.t) = WholeView(w3.t) /\ LayerViewsOf(w.t) = <<>>
    <2> HIDE DEF w
    <2>1. WholeView(w.t) = WholeView(w3.t)
      BY <1>9, <1>14, Alike
    <2>2. w.t.kind \notin {"cube", "array"}
      BY <1>14
    <2> QED
      BY <2>1, <2>2 DEF LayerViewsOf
  <1>16. w.g.handles = g.handles \cup {image, w.t.view} \cup {w.t.sampler}
    <2>1. w.g = w5.g
      BY DEF Work
    <2> QED
      BY <1>4, <1>5, <1>6, <1>10, <1>11, <1>12, <1>14, <2>1, SMTT(20)
  <1> HIDE DEF w, image
  <1>17. w.t.sampler # None /\ Elements(w.t.layerViews) = {}
         /\ {w.t.mipViews[l] : l \in DOMAIN w.t.mipViews} = {}
    BY <1>8, <1>14, ImagesAre, EmptySeq DEF Elements
  <1>18. w.g.handles = g.handles \cup {w.t.image, w.t.view} \cup ({w.t.sampler} \ {None})
                         \cup Elements(w.t.layerViews)
                         \cup {w.t.mipViews[l] : l \in DOMAIN w.t.mipViews}
    BY <1>14, <1>16, <1>17
  <1> QED
    BY <1>2, <1>8, <1>14, <1>15, <1>18, Finished

LEMMA WrappedIs ==
    ASSUME NEW t \in Texture, NEW g, IsFiniteSet(g.handles),
           t.kind = "2d", t.sampler = None, ~t.target, DOMAIN t.mipViews = {}, t.layerViews = <<>>
    PROVE  Built(Wrapped(t, g), g)
  <1> DEFINE w1 == WithImage(Work(t, g))
             w2 == WithView(w1)
             w3 == Work([w2.t EXCEPT !.deleteImage = FALSE], w2.g)
             w == Transition(w3, Present)
             image == w1.t.image
  <1>1. Wrapped(t, g) = w
    BY DEF Wrapped
  <1>2. /\ w1.t \in Texture /\ w1.t = [t EXCEPT !.image = image]
        /\ image \in Images /\ image.n \notin Numbers(g.handles)
        /\ w1.g.handles = g.handles \cup {image}
    BY WithImageIs
  <1> HIDE DEF w1
  <1>3. /\ w1.t.kind = "2d" /\ w1.t.sampler = None /\ ~w1.t.target /\ DOMAIN w1.t.mipViews = {}
        /\ w1.t.layerViews = <<>>
    BY <1>2 DEF Texture
  <1>4. image \in Images /\ image.n \notin Numbers(g.handles)
    BY <1>2
  <1>5. /\ w2.t \in Texture /\ w2.t = [w1.t EXCEPT !.view = WholeView(w1.t)]
        /\ w2.g.handles = w1.g.handles \cup {WholeView(w1.t)}
    BY <1>2, WithViewIs
  <1> HIDE DEF w2
  <1>6. /\ w2.t.kind = "2d" /\ w2.t.sampler = None /\ ~w2.t.target /\ DOMAIN w2.t.mipViews = {}
        /\ w2.t.layerViews = <<>> /\ w2.t.levels = w1.t.levels /\ w2.t.image = image
        /\ w2.t.view = WholeView(w1.t)
    BY <1>2, <1>3, <1>5 DEF Texture
  <1>7. w3.t = [w2.t EXCEPT !.deleteImage = FALSE] /\ w3.g = w2.g
    BY DEF Work
  <1>8. w.t = InLayout(w3.t, Present) /\ w.g.handles = w3.g.handles
    BY DEF Transition, Work, ExecuteAll
  <1> HIDE DEF w3
  <1>9. /\ w3.t \in Texture /\ w3.t.kind = "2d" /\ w3.t.sampler = None /\ ~w3.t.target
        /\ DOMAIN w3.t.mipViews = {}
        /\ w3.t.layerViews = <<>> /\ w3.t.levels = w1.t.levels /\ w3.t.image = image
        /\ w3.t.view = WholeView(w1.t) /\ w3.t.deleteImage = FALSE
    <2>1. w2.t \in Texture
      BY <1>5
    <2> QED
      BY <1>6, <1>7, <2>1 DEF Texture
  <1>10. /\ w.t \in Texture /\ w.t.kind = "2d" /\ w.t.sampler = None /\ ~w.t.target
         /\ DOMAIN w.t.mipViews = {}
         /\ w.t.layerViews = <<>> /\ w.t.levels = w1.t.levels /\ w.t.image = image
         /\ w.t.view = WholeView(w1.t) /\ w.t.deleteImage = FALSE
         /\ w.t.descriptor = [view |-> w.t.view, sampler |-> w.t.sampler, layout |-> w.t.layout]
    <2>1. Present \in ImageLayouts
      BY DEF ImageLayouts
    <2> DEFINE x == InLayout(w3.t, Present)
    <2>2. /\ x \in Texture /\ x.layout = Present
          /\ x.descriptor = [view |-> w3.t.view, sampler |-> w3.t.sampler, layout |-> Present]
          /\ x.kind = w3.t.kind /\ x.image = w3.t.image /\ x.view = w3.t.view
          /\ x.sampler = w3.t.sampler /\ x.mipViews = w3.t.mipViews
          /\ x.layerViews = w3.t.layerViews /\ x.levels = w3.t.levels
          /\ x.target = w3.t.target /\ x.deleteImage = w3.t.deleteImage
      BY <1>9, <2>1, InLayoutIs
    <2> HIDE DEF w
    <2> QED
      BY <1>8, <1>9, <2>2
  <1> HIDE DEF w
  <1>11. /\ WholeView(w.t) = WholeView(w1.t) /\ LayerViewsOf(w.t) = <<>>
    BY <1>3, <1>10, Alike DEF LayerViewsOf
  <1>12. w.g.handles = g.handles \cup {image, w.t.view}
    BY <1>2, <1>5, <1>6, <1>7, <1>8, <1>10
  <1> HIDE DEF image
  <1>13. Elements(w.t.layerViews) = {} /\ {w.t.mipViews[l] : l \in DOMAIN w.t.mipViews} = {}
    BY <1>10, EmptySeq DEF Elements
  <1>14. w.g.handles = g.handles \cup {w.t.image, w.t.view} \cup ({w.t.sampler} \ {None})
                         \cup Elements(w.t.layerViews)
                         \cup {w.t.mipViews[l] : l \in DOMAIN w.t.mipViews}
    BY <1>10, <1>12, <1>13
  <1> QED
    BY <1>1, <1>4, <1>10, <1>11, <1>14, Finished, ZenonT(30)

LEMMA DepthInitIs ==
    ASSUME NEW t \in Texture, NEW g, IsFiniteSet(g.handles),
           t.kind = "depth", t.deleteImage, ~t.target, t.levels > 0, DOMAIN t.mipViews = {}, t.layerViews = <<>>
    PROVE  Built(DepthInit(t, g), g)
  <1> DEFINE w1 == WithImage(Work(t, g))
             w2 == WithView(w1)
             cmd == Command(w2.t.image, {0}, {0}, Undefined, DepthDrawn)
             w3 == Executed(w2, <<cmd>>)
             w4 == WithSampler(w3)
             w == Work(InLayout(w4.t, DepthDrawn), w4.g)
             image == w1.t.image
  <1>1. DepthInit(t, g) = w
    BY DEF DepthInit
  <1>2. /\ w1.t \in Texture /\ w1.t = [t EXCEPT !.image = image]
        /\ image \in Images /\ image.n \notin Numbers(g.handles)
        /\ w1.g.handles = g.handles \cup {image}
    BY WithImageIs
  <1> HIDE DEF w1
  <1>3. /\ w1.t.kind = "depth" /\ w1.t.deleteImage /\ ~w1.t.target /\ DOMAIN w1.t.mipViews = {}
        /\ w1.t.levels > 0
        /\ w1.t.layerViews = <<>>
    BY <1>2 DEF Texture
  <1>4. image \in Images /\ image.n \notin Numbers(g.handles)
    BY <1>2
  <1>5. /\ w2.t \in Texture /\ w2.t = [w1.t EXCEPT !.view = WholeView(w1.t)]
        /\ w2.g.handles = w1.g.handles \cup {WholeView(w1.t)}
    BY <1>2, WithViewIs
  <1>6. w3.t = w2.t /\ w3.g.handles = w2.g.handles
    BY ExecutedIs
  <1> HIDE DEF w2, w3
  <1>7. /\ w2.t.kind = "depth" /\ w2.t.deleteImage /\ ~w2.t.target /\ DOMAIN w2.t.mipViews = {}
        /\ w2.t.layerViews = <<>> /\ w2.t.levels = w1.t.levels /\ w2.t.image = image
        /\ w2.t.view = WholeView(w1.t)
    BY <1>2, <1>3, <1>5 DEF Texture
  <1>8. w3.t \in Texture /\ w3.t.image \in Images /\ w3.t.image = image
    BY <1>4, <1>5, <1>6, <1>7
  <1>9. /\ w4.t \in Texture /\ w4.t = [w3.t EXCEPT !.sampler = Sampler(w3.t.image)]
        /\ w4.g.handles = w3.g.handles \cup {Sampler(w3.t.image)}
    BY <1>8, WithSamplerIs
  <1> HIDE DEF w4
  <1>10. /\ w4.t.kind = "depth" /\ w4.t.deleteImage /\ ~w4.t.target /\ DOMAIN w4.t.mipViews = {}
         /\ w4.t.layerViews = <<>> /\ w4.t.levels = w1.t.levels /\ w4.t.image = image
         /\ w4.t.view = WholeView(w1.t) /\ w4.t.sampler = Sampler(image)
    BY <1>6, <1>7, <1>8, <1>9 DEF Texture
  <1>11. /\ w.t \in Texture /\ w.t.kind = "depth" /\ w.t.deleteImage /\ ~w.t.target
         /\ DOMAIN w.t.mipViews = {}
         /\ w.t.layerViews = <<>> /\ w.t.levels = w1.t.levels /\ w.t.image = image
         /\ w.t.view = WholeView(w1.t) /\ w.t.sampler = Sampler(image)
         /\ w.t.descriptor = [view |-> w.t.view, sampler |-> w.t.sampler, layout |-> w.t.layout]
    <2>1. DepthDrawn \in ImageLayouts
      BY DEF ImageLayouts
    <2>2. w4.t \in Texture
      BY <1>9
    <2> DEFINE x == InLayout(w4.t, DepthDrawn)
    <2>3. /\ x \in Texture /\ x.layout = DepthDrawn
          /\ x.descriptor = [view |-> w4.t.view, sampler |-> w4.t.sampler, layout |-> DepthDrawn]
          /\ x.kind = w4.t.kind /\ x.image = w4.t.image /\ x.view = w4.t.view
          /\ x.sampler = w4.t.sampler /\ x.mipViews = w4.t.mipViews
          /\ x.layerViews = w4.t.layerViews /\ x.levels = w4.t.levels
          /\ x.target = w4.t.target /\ x.deleteImage = w4.t.deleteImage
      BY <2>1, <2>2, InLayoutIs
    <2>4. w.t = x
      BY DEF Work
    <2> HIDE DEF w
    <2> QED
      BY <1>10, <2>3, <2>4
  <1>12. /\ WholeView(w.t) = WholeView(w1.t) /\ LayerViewsOf(w.t) = <<>>
    BY <1>3, <1>11, Alike DEF LayerViewsOf
  <1>13. w.g.handles = g.handles \cup {image, w.t.view} \cup {w.t.sampler}
    <2>1. w.g = w4.g
      BY DEF Work
    <2> HIDE DEF w
    <2> QED
      BY <1>2, <1>5, <1>6, <1>8, <1>9, <1>11, <2>1
  <1> HIDE DEF w, image
  <1>14. /\ w.t.sampler # None /\ Elements(w.t.layerViews) = {}
         /\ {w.t.mipViews[l] : l \in DOMAIN w.t.mipViews} = {}
    BY <1>4, <1>11, ImagesAre, EmptySeq DEF Elements
  <1>15. w.g.handles = g.handles \cup {w.t.image, w.t.view} \cup ({w.t.sampler} \ {None})
                         \cup Elements(w.t.layerViews)
                         \cup {w.t.mipViews[l] : l \in DOMAIN w.t.mipViews}
    BY <1>11, <1>13, <1>14
  <1> QED
    BY <1>1, <1>3, <1>4, <1>11, <1>12, <1>15, Finished, SMTT(20)

LEMMA DepthArrayInitIs ==
    ASSUME NEW t \in Texture, NEW g, IsFiniteSet(g.handles),
           t.kind = "array", t.deleteImage, ~t.target, t.levels > 0, DOMAIN t.mipViews = {}
    PROVE  Built(DepthArrayInit(t, g), g)
  <1> DEFINE w1 == WithImage(Work(t, g))
             w2 == WithView(w1)
             w3 == WithLayerViews(w2)
             cmd == Command(w3.t.image, AllLayers(t), {0}, Undefined, DepthDrawn)
             w4 == Executed(w3, <<cmd>>)
             w5 == WithSampler(w4)
             w == Work(InLayout(w5.t, DepthDrawn), w5.g)
             image == w1.t.image
  <1>1. DepthArrayInit(t, g) = w
    BY DEF DepthArrayInit
  <1>2. /\ w1.t \in Texture /\ w1.t = [t EXCEPT !.image = image]
        /\ image \in Images /\ image.n \notin Numbers(g.handles)
        /\ w1.g.handles = g.handles \cup {image}
    BY WithImageIs
  <1> HIDE DEF w1
  <1>3. /\ w1.t.kind = "array" /\ w1.t.deleteImage /\ ~w1.t.target /\ DOMAIN w1.t.mipViews = {}
        /\ w1.t.levels > 0
    BY <1>2 DEF Texture
  <1>4. image \in Images /\ image.n \notin Numbers(g.handles)
    BY <1>2
  <1>5. /\ w2.t \in Texture /\ w2.t = [w1.t EXCEPT !.view = WholeView(w1.t)]
        /\ w2.g.handles = w1.g.handles \cup {WholeView(w1.t)}
    BY <1>2, <1>4, <1>3, WithViewIs
  <1> HIDE DEF w2
  <1>6. /\ w2.t.kind = "array" /\ w2.t.deleteImage /\ ~w2.t.target /\ DOMAIN w2.t.mipViews = {}
        /\ w2.t.levels = w1.t.levels
        /\ w2.t.image = image
        /\ w2.t.view = WholeView(w1.t)
    BY <1>2, <1>5, <1>3 DEF Texture
  <1>7. /\ w3.t \in Texture /\ w3.t = [w2.t EXCEPT !.layerViews = LayerViewsOf(w2.t)]
        /\ w3.g.handles = w2.g.handles \cup Elements(LayerViewsOf(w2.t))
    BY <1>5, <1>4, <1>6, WithLayerViewsIs
  <1> HIDE DEF w3
  <1>8. WholeView(w2.t) = WholeView(w1.t) /\ LayerViewsOf(w2.t) = LayerViewsOf(w1.t)
    BY <1>3, <1>6, Alike
  <1>9. /\ w3.t.kind = "array" /\ w3.t.deleteImage /\ ~w3.t.target /\ DOMAIN w3.t.mipViews = {}
        /\ w3.t.levels = w1.t.levels
        /\ w3.t.image = image
        /\ w3.t.view = WholeView(w1.t)
        /\ w3.t.layerViews = LayerViewsOf(w1.t)
    BY <1>5, <1>7, <1>6, <1>8 DEF Texture
  <1>10. w4.t = w3.t /\ w4.g.handles = w3.g.handles
    BY ExecutedIs
  <1> HIDE DEF w4
  <1>11. /\ w4.t \in Texture
        /\ w4.t.kind = "array" /\ w4.t.deleteImage /\ ~w4.t.target /\ DOMAIN w4.t.mipViews = {}
        /\ w4.t.levels = w1.t.levels
        /\ w4.t.image = image
        /\ w4.t.view = WholeView(w1.t)
        /\ w4.t.layerViews = LayerViewsOf(w1.t)
    BY <1>7, <1>10, <1>9
  <1>12. /\ w5.t \in Texture /\ w5.t = [w4.t EXCEPT !.sampler = Sampler(w4.t.image)]
        /\ w5.g.handles = w4.g.handles \cup {Sampler(w4.t.image)}
    BY <1>11, <1>4, WithSamplerIs
  <1> HIDE DEF w5
  <1>13. /\ w5.t.kind = "array" /\ w5.t.deleteImage /\ ~w5.t.target /\ DOMAIN w5.t.mipViews = {}
        /\ w5.t.levels = w1.t.levels
        /\ w5.t.image = image
        /\ w5.t.view = WholeView(w1.t)
        /\ w5.t.sampler = Sampler(image)
        /\ w5.t.layerViews = LayerViewsOf(w1.t)
    BY <1>11, <1>12 DEF Texture
  <1>14. /\ w.t \in Texture
         /\ w.t.kind = "array" /\ w.t.deleteImage /\ ~w.t.target /\ DOMAIN w.t.mipViews = {}
         /\ w.t.levels = w1.t.levels
         /\ w.t.image = image
         /\ w.t.view = WholeView(w1.t)
         /\ w.t.sampler = Sampler(image)
         /\ w.t.layerViews = LayerViewsOf(w1.t)
         /\ w.t.descriptor = [view |-> w.t.view, sampler |-> w.t.sampler, layout |-> w.t.layout]
    <2>1. DepthDrawn \in ImageLayouts
      BY DEF ImageLayouts
    <2>2. w5.t \in Texture
      BY <1>12
    <2> DEFINE x == InLayout(w5.t, DepthDrawn)
    <2>3. /\ x \in Texture /\ x.layout = DepthDrawn
          /\ x.descriptor = [view |-> w5.t.view, sampler |-> w5.t.sampler, layout |-> DepthDrawn]
          /\ x.kind = w5.t.kind /\ x.image = w5.t.image /\ x.view = w5.t.view
          /\ x.sampler = w5.t.sampler /\ x.mipViews = w5.t.mipViews
          /\ x.layerViews = w5.t.layerViews /\ x.levels = w5.t.levels
          /\ x.target = w5.t.target /\ x.deleteImage = w5.t.deleteImage
      BY <2>1, <2>2, InLayoutIs
    <2>4. w.t = x
      BY DEF Work
    <2> HIDE DEF w
    <2> QED
      BY <1>13, <2>3, <2>4
  <1>15. WholeView(w.t) = WholeView(w1.t) /\ LayerViewsOf(w.t) = LayerViewsOf(w1.t)
    BY <1>3, <1>14, Alike
  <1>16. w.g.handles = g.handles \cup {image, w.t.view} \cup {w.t.sampler} \cup Elements(w.t.layerViews)
    <2>1. w.g.handles = w5.g.handles
      BY DEF Work, ExecuteAll
    <2> HIDE DEF w
    <2> QED
      BY <1>2, <1>5, <1>6, <1>7, <1>8, <1>9, <1>10, <1>12, <1>13, <1>14, <2>1
  <1> HIDE DEF w, image
  <1>17. w.t.sampler # None /\ {w.t.mipViews[l] : l \in DOMAIN w.t.mipViews} = {}
    BY <1>4, <1>14, ImagesAre
  <1>18. w.g.handles = g.handles \cup {w.t.image, w.t.view} \cup ({w.t.sampler} \ {None})
                         \cup Elements(w.t.layerViews)
                         \cup {w.t.mipViews[l] : l \in DOMAIN w.t.mipViews}
    BY <1>14, <1>16, <1>17
  <1> QED
    BY <1>1, <1>3, <1>4, <1>14, <1>15, <1>18, Finished

LEMMA CubeFromDataIs ==
    ASSUME NEW t \in Texture, NEW g, NEW data \in BOOLEAN, IsFiniteSet(g.handles),
           t.kind = "cube", t.deleteImage, ~t.target, t.size > 0, DOMAIN t.mipViews = {}
    PROVE  Built(CubeFromData(t, g, data), g)
  <1> DEFINE levels == MipCount(t.size)
             t0 == [t EXCEPT !.levels = levels]
             w1 == WithImage(Work(t0, g))
             w2 == WithSampler(w1)
             w3 == WithView(w2)
             all == AllLayers(t)
             some == AllLevels(w3.t)
             copy == << Command(w3.t.image, all, some, Undefined, Dst), Use(w3.t.image, all, some, Dst),
                        Command(w3.t.image, all, some, Dst, ShaderRead) >>
             drawn == << Command(w3.t.image, all, some, Undefined, Colour) >>
             w4 == IF data THEN Executed(w3, copy) ELSE w3
             w5 == WithLayerViews(w4)
             w == Work(InLayout(w5.t, Colour), ExecuteAll(w5.g, drawn))
             image == w1.t.image
  <1>1. CubeFromData(t, g, data) = w
    BY DEF CubeFromData
  <1>2. levels \in Nat \ {0}
    BY MipCountIsNat DEF Texture
  <1>3. /\ t0 \in Texture /\ t0.kind = "cube" /\ t0.deleteImage /\ ~t0.target
        /\ DOMAIN t0.mipViews = {} /\ t0.levels > 0
    BY <1>2 DEF Texture
  <1> HIDE DEF t0
  <1>4. /\ w1.t \in Texture /\ w1.t = [t0 EXCEPT !.image = image]
        /\ image \in Images /\ image.n \notin Numbers(g.handles)
        /\ w1.g.handles = g.handles \cup {image}
    BY <1>2, <1>3, WithImageIs
  <1> HIDE DEF w1
  <1>5. /\ w1.t.kind = "cube" /\ w1.t.deleteImage /\ ~w1.t.target /\ DOMAIN w1.t.mipViews = {}
        /\ w1.t.levels > 0
    BY <1>4, <1>3 DEF Texture
  <1>6. image \in Images /\ image.n \notin Numbers(g.handles)
    BY <1>4
  <1>7. /\ w2.t \in Texture /\ w2.t = [w1.t EXCEPT !.sampler = Sampler(w1.t.image)]
        /\ w2.g.handles = w1.g.handles \cup {Sampler(w1.t.image)}
    BY <1>4, <1>6, <1>5, WithSamplerIs
  <1> HIDE DEF w2
  <1>8. /\ w2.t.kind = "cube" /\ w2.t.deleteImage /\ ~w2.t.target /\ DOMAIN w2.t.mipViews = {}
        /\ w2.t.levels = w1.t.levels
        /\ w2.t.image = image
        /\ w2.t.sampler = Sampler(image)
    BY <1>4, <1>7, <1>5 DEF Texture
  <1>9. /\ w3.t \in Texture /\ w3.t = [w2.t EXCEPT !.view = WholeView(w2.t)]
        /\ w3.g.handles = w2.g.handles \cup {WholeView(w2.t)}
    BY <1>7, <1>6, <1>8, WithViewIs
  <1> HIDE DEF w3
  <1>10. WholeView(w2.t) = WholeView(w1.t) /\ LayerViewsOf(w2.t) = LayerViewsOf(w1.t)
    BY <1>5, <1>8, Alike
  <1>11. /\ w3.t.kind = "cube" /\ w3.t.deleteImage /\ ~w3.t.target /\ DOMAIN w3.t.mipViews = {}
        /\ w3.t.levels = w1.t.levels
        /\ w3.t.image = image
        /\ w3.t.view = WholeView(w1.t)
        /\ w3.t.sampler = Sampler(image)
    BY <1>7, <1>9, <1>8, <1>10 DEF Texture
  <1>12. w4.t = w3.t /\ w4.g.handles = w3.g.handles
    BY ExecutedIs
  <1> HIDE DEF w4
  <1>13. /\ w4.t \in Texture
        /\ w4.t.kind = "cube" /\ w4.t.deleteImage /\ ~w4.t.target /\ DOMAIN w4.t.mipViews = {}
        /\ w4.t.levels = w1.t.levels
        /\ w4.t.image = image
        /\ w4.t.view = WholeView(w1.t)
        /\ w4.t.sampler = Sampler(image)
    BY <1>9, <1>12, <1>11
  <1>14. /\ w5.t \in Texture /\ w5.t = [w4.t EXCEPT !.layerViews = LayerViewsOf(w4.t)]
        /\ w5.g.handles = w4.g.handles \cup Elements(LayerViewsOf(w4.t))
    BY <1>13, <1>6, WithLayerViewsIs
  <1> HIDE DEF w5
  <1>15. WholeView(w4.t) = WholeView(w1.t) /\ LayerViewsOf(w4.t) = LayerViewsOf(w1.t)
    BY <1>5, <1>13, Alike
  <1>16. /\ w5.t.kind = "cube" /\ w5.t.deleteImage /\ ~w5.t.target /\ DOMAIN w5.t.mipViews = {}
        /\ w5.t.levels = w1.t.levels
        /\ w5.t.image = image
        /\ w5.t.view = WholeView(w1.t)
        /\ w5.t.sampler = Sampler(image)
        /\ w5.t.layerViews = LayerViewsOf(w1.t)
    BY <1>13, <1>14, <1>15 DEF Texture
  <1>17. /\ w.t \in Texture
         /\ w.t.kind = "cube" /\ w.t.deleteImage /\ ~w.t.target /\ DOMAIN w.t.mipViews = {}
         /\ w.t.levels = w1.t.levels
         /\ w.t.image = image
         /\ w.t.view = WholeView(w1.t)
         /\ w.t.sampler = Sampler(image)
         /\ w.t.layerViews = LayerViewsOf(w1.t)
         /\ w.t.descriptor = [view |-> w.t.view, sampler |-> w.t.sampler, layout |-> w.t.layout]
    <2>1. Colour \in ImageLayouts
      BY DEF ImageLayouts
    <2>2. w5.t \in Texture
      BY <1>14
    <2> DEFINE x == InLayout(w5.t, Colour)
    <2>3. /\ x \in Texture /\ x.layout = Colour
          /\ x.descriptor = [view |-> w5.t.view, sampler |-> w5.t.sampler, layout |-> Colour]
          /\ x.kind = w5.t.kind /\ x.image = w5.t.image /\ x.view = w5.t.view
          /\ x.sampler = w5.t.sampler /\ x.mipViews = w5.t.mipViews
          /\ x.layerViews = w5.t.layerViews /\ x.levels = w5.t.levels
          /\ x.target = w5.t.target /\ x.deleteImage = w5.t.deleteImage
      BY <2>1, <2>2, InLayoutIs
    <2>4. w.t = x
      BY DEF Work
    <2> HIDE DEF w
    <2> QED
      BY <1>16, <2>3, <2>4
  <1>18. WholeView(w.t) = WholeView(w1.t) /\ LayerViewsOf(w.t) = LayerViewsOf(w1.t)
    BY <1>5, <1>17, Alike
  <1>19. w.g.handles = g.handles \cup {image, w.t.view} \cup {w.t.sampler} \cup Elements(w.t.layerViews)
    <2>1. w.g.handles = w5.g.handles
      BY DEF Work, ExecuteAll
    <2> HIDE DEF w
    <2> QED
      BY <1>4, <1>7, <1>8, <1>9, <1>10, <1>11, <1>12, <1>14, <1>15, <1>16, <1>17, <2>1
  <1> HIDE DEF w, image
  <1>20. w.t.sampler # None /\ {w.t.mipViews[l] : l \in DOMAIN w.t.mipViews} = {}
    BY <1>6, <1>17, ImagesAre
  <1>21. w.g.handles = g.handles \cup {w.t.image, w.t.view} \cup ({w.t.sampler} \ {None})
                         \cup Elements(w.t.layerViews)
                         \cup {w.t.mipViews[l] : l \in DOMAIN w.t.mipViews}
    BY <1>17, <1>19, <1>20
  <1> QED
    BY <1>1, <1>5, <1>6, <1>17, <1>18, <1>21, Finished

LEMMA CubeFromFilesIs ==
    ASSUME NEW t \in Texture, NEW g, NEW levels \in Nat \ {0}, IsFiniteSet(g.handles),
           t.kind = "cube", t.deleteImage, ~t.target, DOMAIN t.mipViews = {}
    PROVE  Built(CubeFromFiles(t, g, levels), g)
  <1> DEFINE t0 == [t EXCEPT !.levels = levels]
             w1 == WithImage(Work(t0, g))
             all == AllLayers(t)
             copy == << Command(w1.t.image, all, Range0(levels), Undefined, Dst),
                        Use(w1.t.image, all, Range0(levels), Dst),
                        Command(w1.t.image, all, Range0(levels), Dst, ShaderRead) >>
             w2 == Executed(w1, copy)
             w3 == WithSampler(w2)
             w4 == WithView(w3)
             w5 == WithLayerViews(w4)
             w == Work(InLayout(w5.t, ShaderRead), w5.g)
             image == w1.t.image
  <1>1. CubeFromFiles(t, g, levels) = w
    BY DEF CubeFromFiles
  <1>2. levels \in Nat \ {0}
    BY DEF Texture
  <1>3. /\ t0 \in Texture /\ t0.kind = "cube" /\ t0.deleteImage /\ ~t0.target
        /\ DOMAIN t0.mipViews = {} /\ t0.levels > 0
    BY <1>2 DEF Texture
  <1> HIDE DEF t0
  <1>4. /\ w1.t \in Texture /\ w1.t = [t0 EXCEPT !.image = image]
        /\ image \in Images /\ image.n \notin Numbers(g.handles)
        /\ w1.g.handles = g.handles \cup {image}
    BY <1>2, <1>3, WithImageIs
  <1> HIDE DEF w1
  <1>5. /\ w1.t.kind = "cube" /\ w1.t.deleteImage /\ ~w1.t.target /\ DOMAIN w1.t.mipViews = {}
        /\ w1.t.levels > 0
    BY <1>4, <1>3 DEF Texture
  <1>6. image \in Images /\ image.n \notin Numbers(g.handles)
    BY <1>4
  <1>7. w2.t = w1.t /\ w2.g.handles = w1.g.handles
    BY ExecutedIs
  <1> HIDE DEF w2
  <1>8. /\ w2.t \in Texture
        /\ w2.t.kind = "cube" /\ w2.t.deleteImage /\ ~w2.t.target /\ DOMAIN w2.t.mipViews = {}
        /\ w2.t.levels = w1.t.levels
        /\ w2.t.image = image
    BY <1>4, <1>7, <1>5
  <1>9. /\ w3.t \in Texture /\ w3.t = [w2.t EXCEPT !.sampler = Sampler(w2.t.image)]
        /\ w3.g.handles = w2.g.handles \cup {Sampler(w2.t.image)}
    BY <1>8, <1>6, WithSamplerIs
  <1> HIDE DEF w3
  <1>10. /\ w3.t.kind = "cube" /\ w3.t.deleteImage /\ ~w3.t.target /\ DOMAIN w3.t.mipViews = {}
        /\ w3.t.levels = w1.t.levels
        /\ w3.t.image = image
        /\ w3.t.sampler = Sampler(image)
    BY <1>8, <1>9 DEF Texture
  <1>11. /\ w4.t \in Texture /\ w4.t = [w3.t EXCEPT !.view = WholeView(w3.t)]
        /\ w4.g.handles = w3.g.handles \cup {WholeView(w3.t)}
    BY <1>9, <1>6, <1>10, WithViewIs
  <1> HIDE DEF w4
  <1>12. WholeView(w3.t) = WholeView(w1.t) /\ LayerViewsOf(w3.t) = LayerViewsOf(w1.t)
    BY <1>5, <1>10, Alike
  <1>13. /\ w4.t.kind = "cube" /\ w4.t.deleteImage /\ ~w4.t.target /\ DOMAIN w4.t.mipViews = {}
        /\ w4.t.levels = w1.t.levels
        /\ w4.t.image = image
        /\ w4.t.view = WholeView(w1.t)
        /\ w4.t.sampler = Sampler(image)
    BY <1>9, <1>11, <1>10, <1>12 DEF Texture
  <1>14. /\ w5.t \in Texture /\ w5.t = [w4.t EXCEPT !.layerViews = LayerViewsOf(w4.t)]
        /\ w5.g.handles = w4.g.handles \cup Elements(LayerViewsOf(w4.t))
    BY <1>11, <1>6, <1>13, WithLayerViewsIs
  <1> HIDE DEF w5
  <1>15. WholeView(w4.t) = WholeView(w1.t) /\ LayerViewsOf(w4.t) = LayerViewsOf(w1.t)
    BY <1>5, <1>13, Alike
  <1>16. /\ w5.t.kind = "cube" /\ w5.t.deleteImage /\ ~w5.t.target /\ DOMAIN w5.t.mipViews = {}
        /\ w5.t.levels = w1.t.levels
        /\ w5.t.image = image
        /\ w5.t.view = WholeView(w1.t)
        /\ w5.t.sampler = Sampler(image)
        /\ w5.t.layerViews = LayerViewsOf(w1.t)
    BY <1>11, <1>14, <1>13, <1>15 DEF Texture
  <1>17. /\ w.t \in Texture
         /\ w.t.kind = "cube" /\ w.t.deleteImage /\ ~w.t.target /\ DOMAIN w.t.mipViews = {}
         /\ w.t.levels = w1.t.levels
         /\ w.t.image = image
         /\ w.t.view = WholeView(w1.t)
         /\ w.t.sampler = Sampler(image)
         /\ w.t.layerViews = LayerViewsOf(w1.t)
         /\ w.t.descriptor = [view |-> w.t.view, sampler |-> w.t.sampler, layout |-> w.t.layout]
    <2>1. ShaderRead \in ImageLayouts
      BY DEF ImageLayouts
    <2>2. w5.t \in Texture
      BY <1>14
    <2> DEFINE x == InLayout(w5.t, ShaderRead)
    <2>3. /\ x \in Texture /\ x.layout = ShaderRead
          /\ x.descriptor = [view |-> w5.t.view, sampler |-> w5.t.sampler, layout |-> ShaderRead]
          /\ x.kind = w5.t.kind /\ x.image = w5.t.image /\ x.view = w5.t.view
          /\ x.sampler = w5.t.sampler /\ x.mipViews = w5.t.mipViews
          /\ x.layerViews = w5.t.layerViews /\ x.levels = w5.t.levels
          /\ x.target = w5.t.target /\ x.deleteImage = w5.t.deleteImage
      BY <2>1, <2>2, InLayoutIs
    <2>4. w.t = x
      BY DEF Work
    <2> HIDE DEF w
    <2> QED
      BY <1>16, <2>3, <2>4
  <1>18. WholeView(w.t) = WholeView(w1.t) /\ LayerViewsOf(w.t) = LayerViewsOf(w1.t)
    BY <1>5, <1>17, Alike
  <1>19. w.g.handles = g.handles \cup {image, w.t.view} \cup {w.t.sampler} \cup Elements(w.t.layerViews)
    <2>1. w.g.handles = w5.g.handles
      BY DEF Work, ExecuteAll
    <2> HIDE DEF w
    <2> QED
      BY <1>4, <1>7, <1>9, <1>10, <1>11, <1>12, <1>13, <1>14, <1>15, <1>16, <1>17, <2>1
  <1> HIDE DEF w, image
  <1>20. w.t.sampler # None /\ {w.t.mipViews[l] : l \in DOMAIN w.t.mipViews} = {}
    BY <1>6, <1>17, ImagesAre
  <1>21. w.g.handles = g.handles \cup {w.t.image, w.t.view} \cup ({w.t.sampler} \ {None})
                         \cup Elements(w.t.layerViews)
                         \cup {w.t.mipViews[l] : l \in DOMAIN w.t.mipViews}
    BY <1>17, <1>19, <1>20
  <1> QED
    BY <1>1, <1>5, <1>6, <1>17, <1>18, <1>21, Finished

LEMMA CubeFromHdriIs ==
    ASSUME NEW t \in Texture, NEW g, IsFiniteSet(g.handles),
           t.kind = "cube", t.deleteImage, ~t.target, t.size > 0, DOMAIN t.mipViews = {}
    PROVE  Built(CubeFromHdri(t, g), g)
  <1> DEFINE cube == CubeFromData(t, g, FALSE)
             w == CubeFromHdri(t, g)
  <1>1. w.t = cube.t /\ w.g.handles = cube.g.handles
    BY DEF CubeFromHdri, GenerateMipMaps, Executed, Work, ExecuteAll
  <1> HIDE DEF w
  <1>2. Built(cube, g)
    BY CubeFromDataIs
  <1> HIDE DEF cube
  <1>3. Built(w, g)
    BY <1>1, <1>2 DEF Built
  <1> QED
    BY <1>3 DEF w

-----------------------------------------------------------------------------
(***************************************************************************)
(* Who owns what: the textures tx, the handles H of the device and the     *)
(* deletion queue q.  Numbers tell the objects of one image from those of  *)
(* another, also from the ones that are still to be destroyed.             *)
(***************************************************************************)
Here(tx) == {s \in Slots : tx[s] # NoTexture}

NumbersApart(tx, q) ==
    \A s \in Here(tx) : tx[s].image # None =>
        /\ \A h \in Elements(q) : h.n # tx[s].image.n
        /\ \A r \in Here(tx) \ {s} : tx[r].image # None => tx[r].image.n # tx[s].image.n

Owned(tx, H, q) ==
    /\ tx \in [Slots -> Texture \cup {NoTexture}]
    /\ \A s \in Here(tx) : Shaped(tx[s])
    /\ IsFiniteSet(H) /\ H \subseteq Handle
    /\ q \in Seq(Handle) /\ Distinct(q) /\ Elements(q) \subseteq H
    /\ NumbersApart(tx, q)
    /\ \A s \in Here(tx) : HandlesOf(tx[s]) \subseteq H
    /\ \A h \in H \ Elements(q) : \E s \in Here(tx) : h \in HandlesOf(tx[s])

LEMMA NoTextureIs == NoTexture \notin Texture
  <1>1. NoTexture.kind = "none"
    BY DEF NoTexture
  <1> QED
    BY <1>1 DEF Texture, Kinds

(* A texture goes, with what it leaves on the queue. *)
LEMMA Goes ==
    ASSUME NEW tx, NEW H, NEW q, Owned(tx, H, q), NEW s \in Here(tx)
    PROVE  LET t == tx[s]
               gone == IF t.deleteImage THEN {} ELSE {t.image}
           IN  Owned([tx EXCEPT ![s] = NoTexture], H \ gone, q \o Released(t))
  <1> DEFINE t == tx[s]
             gone == IF t.deleteImage THEN {} ELSE {t.image}
             ty == [tx EXCEPT ![s] = NoTexture]
             R == Released(t)
             p == q \o R
  <1>1. /\ s \in Slots /\ t \in Texture /\ Shaped(t) /\ HandlesOf(t) \subseteq H
        /\ q \in Seq(Handle) /\ Distinct(q) /\ Elements(q) \subseteq H
        /\ H \subseteq Handle /\ IsFiniteSet(H)
    BY DEF Owned, Here
  <1>2. /\ ty \in [Slots -> Texture \cup {NoTexture}] /\ Here(ty) = Here(tx) \ {s}
        /\ \A r \in Here(ty) : ty[r] = tx[r]
    BY <1>1 DEF Owned, Here
  <1>3. R \in Seq(Handle) /\ Distinct(R) /\ Elements(R) = HandlesOf(t) \ gone
    BY <1>1, ReleasedAre
  <1>4. \A h \in HandlesOf(t) : t.image # None /\ h.n = t.image.n
    BY <1>1, HandlesAre
  <1>5. \A h \in Elements(q) : t.image # None => h.n # t.image.n
    BY DEF Owned, NumbersApart
  <1> HIDE DEF t, R, gone, ty
  <1>6. Elements(q) \cap Elements(R) = {} /\ Elements(q) \cap gone = {}
    <2>1. \A h \in gone : h \in HandlesOf(t) \/ h = None
      BY <1>1, HandlesAre DEF gone
    <2>2. None \notin Elements(q)
      BY <1>1, NoHandleAssumption
    <2> QED
      BY <1>3, <1>4, <1>5, <2>1, <2>2
  <1>7. p \in Seq(Handle) /\ Distinct(p) /\ Elements(p) = Elements(q) \cup Elements(R)
    BY <1>1, <1>3, <1>6, ConcatElements
  <1> HIDE DEF p
  <1>8. IsFiniteSet(H \ gone) /\ H \ gone \subseteq Handle /\ Elements(p) \subseteq H \ gone
    BY <1>1, <1>3, <1>6, <1>7, FS_Subset
  <1>9. NumbersApart(ty, p)
    <2> SUFFICES ASSUME NEW r \in Here(ty), ty[r].image # None
                 PROVE  /\ \A h \in Elements(p) : h.n # ty[r].image.n
                        /\ \A o \in Here(ty) \ {r} :
                              ty[o].image # None => ty[o].image.n # ty[r].image.n
      BY DEF NumbersApart
    <2>1. r \in Here(tx) /\ r # s /\ ty[r] = tx[r]
      BY <1>2
    <2>2. /\ \A h \in Elements(q) : h.n # tx[r].image.n
          /\ \A o \in Here(tx) \ {r} : tx[o].image # None => tx[o].image.n # tx[r].image.n
      BY <2>1 DEF Owned, NumbersApart
    <2>3. \A h \in Elements(R) : h.n # tx[r].image.n
      BY <1>3, <1>4, <2>1, <2>2 DEF t
    <2> QED
      BY <1>2, <1>7, <2>1, <2>2, <2>3
  <1>10. ASSUME NEW r \in Here(ty) PROVE Shaped(ty[r]) /\ HandlesOf(ty[r]) \subseteq H \ gone
    <2>1. r \in Here(tx) /\ r # s /\ ty[r] = tx[r]
      BY <1>2
    <2>2. Shaped(tx[r]) /\ HandlesOf(tx[r]) \subseteq H /\ tx[r] \in Texture
      BY <2>1 DEF Owned, Here
    <2>3. \A h \in HandlesOf(tx[r]) : tx[r].image # None /\ h.n = tx[r].image.n /\ h \in Handle
      BY <2>2, HandlesAre
    <2>4. t.image # None /\ tx[r].image # None => t.image.n # tx[r].image.n
      BY <2>1 DEF Owned, NumbersApart, t
    <2>5. \A h \in HandlesOf(tx[r]) : h \notin gone
      BY <2>3, <2>4, NoHandleAssumption DEF gone
    <2> QED
      BY <2>1, <2>2, <2>5
  <1>11. ASSUME NEW h \in (H \ gone) \ Elements(p)
         PROVE  \E r \in Here(ty) : h \in HandlesOf(ty[r])
    <2>1. PICK r \in Here(tx) : h \in HandlesOf(tx[r])
      BY <1>7 DEF Owned
    <2>2. r # s
      BY <1>3, <1>7, <2>1 DEF t
    <2> QED
      BY <1>2, <2>1, <2>2
  <1>12. Owned(ty, H \ gone, p)
    BY <1>2, <1>7, <1>8, <1>9, <1>10, <1>11 DEF Owned
  <1> QED
    BY <1>12 DEF ty, gone, p, R, t

(* A texture comes. *)
LEMMA Comes ==
    ASSUME NEW tx, NEW H, NEW q, Owned(tx, H, q), NEW s \in Slots \ Here(tx),
           NEW w, NEW g, g.handles = H, Built(w, g)
    PROVE  Owned([tx EXCEPT ![s] = w.t], w.g.handles, q)
  <1> DEFINE t == w.t
             ty == [tx EXCEPT ![s] = t]
             G == w.g.handles
  <1>1. /\ tx \in [Slots -> Texture \cup {NoTexture}]
        /\ q \in Seq(Handle) /\ Distinct(q) /\ Elements(q) \subseteq H
        /\ H \subseteq Handle /\ IsFiniteSet(H)
    BY DEF Owned
  <1>2. /\ t \in Texture /\ Shaped(t) /\ t.image \in Images /\ t.image # None
        /\ t.image.n \notin Numbers(H) /\ G = H \cup HandlesOf(t)
    BY ImagesAre DEF Built
  <1>3. /\ IsFiniteSet(HandlesOf(t)) /\ HandlesOf(t) \subseteq Handle
        /\ \A h \in HandlesOf(t) : h.n = t.image.n
    BY <1>2, HandlesAre
  <1>4. /\ ty \in [Slots -> Texture \cup {NoTexture}] /\ Here(ty) = Here(tx) \cup {s}
        /\ ty[s] = t /\ \A r \in Here(tx) : ty[r] = tx[r]
    BY <1>1, <1>2, NoTextureIs DEF Here
  <1> HIDE DEF t, ty, G
  <1>5. IsFiniteSet(G) /\ G \subseteq Handle /\ Elements(q) \subseteq G
    BY <1>1, <1>2, <1>3, FS_Union
  <1>6. \A h \in H : h.n # t.image.n
    BY <1>2 DEF Numbers
  <1>7. ASSUME NEW r \in Here(tx), tx[r].image # None
        PROVE  tx[r].image.n # t.image.n
    <2>1. tx[r] \in Texture /\ Shaped(tx[r]) /\ HandlesOf(tx[r]) \subseteq H
      BY DEF Owned, Here
    <2>2. tx[r].image \in HandlesOf(tx[r])
      BY <1>7, <2>1, HandlesAre
    <2> QED
      BY <1>6, <2>1, <2>2
  <1>8. NumbersApart(ty, q)
    <2> SUFFICES ASSUME NEW r \in Here(ty), ty[r].image # None
                 PROVE  /\ \A h \in Elements(q) : h.n # ty[r].image.n
                        /\ \A o \in Here(ty) \ {r} :
                              ty[o].image # None => ty[o].image.n # ty[r].image.n
      BY DEF NumbersApart
    <2>1. CASE r = s
      BY <1>1, <1>4, <1>6, <1>7, <2>1
    <2>2. CASE r # s
      <3>1. r \in Here(tx) /\ ty[r] = tx[r]
        BY <1>4, <2>2
      <3>2. /\ \A h \in Elements(q) : h.n # tx[r].image.n
            /\ \A o \in Here(tx) \ {r} : tx[o].image # None => tx[o].image.n # tx[r].image.n
        BY <3>1 DEF Owned, NumbersApart
      <3> QED
        BY <1>4, <1>7, <3>1, <3>2
    <2> QED
      BY <2>1, <2>2
  <1>9. ASSUME NEW r \in Here(ty) PROVE Shaped(ty[r]) /\ HandlesOf(ty[r]) \subseteq G
    BY <1>2, <1>4 DEF Owned
  <1>10. ASSUME NEW h \in G \ Elements(q) PROVE \E r \in Here(ty) : h \in HandlesOf(ty[r])
    <2>1. CASE h \in HandlesOf(t)
      BY <1>4, <2>1
    <2>2. CASE h \in H
      <3>1. PICK r \in Here(tx) : h \in HandlesOf(tx[r])
        BY <2>2 DEF Owned
      <3> QED
        BY <1>4, <3>1
    <2> QED
      BY <1>2, <2>1, <2>2
  <1>11. Owned(ty, G, q)
    BY <1>1, <1>4, <1>5, <1>8, <1>9, <1>10 DEF Owned
  <1> QED
    BY <1>11 DEF ty, G, t

(* A texture changes, but not its image. *)
LEMMA Changes ==
    ASSUME NEW tx, NEW H, NEW q, Owned(tx, H, q), NEW s \in Here(tx),
           NEW u \in Texture, Shaped(u), u.image = tx[s].image, HandlesOf(tx[s]) \subseteq HandlesOf(u)
    PROVE  Owned([tx EXCEPT ![s] = u], H \cup HandlesOf(u), q)
  <1> DEFINE t == tx[s]
             ty == [tx EXCEPT ![s] = u]
             G == H \cup HandlesOf(u)
  <1>1. /\ s \in Slots /\ t \in Texture /\ Shaped(t) /\ HandlesOf(t) \subseteq H
        /\ q \in Seq(Handle) /\ Distinct(q) /\ Elements(q) \subseteq H
        /\ H \subseteq Handle /\ IsFiniteSet(H)
    BY DEF Owned, Here
  <1>2. IsFiniteSet(HandlesOf(u)) /\ HandlesOf(u) \subseteq Handle
    BY HandlesAre
  <1>3. /\ ty \in [Slots -> Texture \cup {NoTexture}] /\ Here(ty) = Here(tx)
        /\ ty[s] = u /\ \A r \in Here(tx) \ {s} : ty[r] = tx[r]
    BY <1>1, NoTextureIs DEF Owned, Here
  <1>4. \A r \in Here(tx) : ty[r].image = tx[r].image
    BY <1>3
  <1> HIDE DEF t, ty, G
  <1>5. IsFiniteSet(G) /\ G \subseteq Handle /\ Elements(q) \subseteq G
    BY <1>1, <1>2, FS_Union DEF G
  <1>6. NumbersApart(ty, q)
    <2>1. NumbersApart(tx, q)
      BY DEF Owned
    <2> QED
      BY <1>3, <1>4, <2>1 DEF NumbersApart
  <1>7. ASSUME NEW r \in Here(ty) PROVE Shaped(ty[r]) /\ HandlesOf(ty[r]) \subseteq G
    BY <1>3 DEF Owned, G
  <1>8. ASSUME NEW h \in G \ Elements(q) PROVE \E r \in Here(ty) : h \in HandlesOf(ty[r])
    <2>1. CASE h \in HandlesOf(u)
      BY <1>3, <2>1
    <2>2. CASE h \in H
      <3>1. PICK r \in Here(tx) : h \in HandlesOf(tx[r])
        BY <2>2 DEF Owned
      <3> QED
        BY <1>3, <3>1
    <2> QED
      BY <2>1, <2>2 DEF G
  <1>9. Owned(ty, G, q)
    BY <1>1, <1>3, <1>5, <1>6, <1>7, <1>8 DEF Owned
  <1> QED
    BY <1>9 DEF ty, G

(* What is on the queue is destroyed. *)
LEMMA Flushed ==
    ASSUME NEW tx, NEW H, NEW q, Owned(tx, H, q)
    PROVE  Owned(tx, H \ Elements(q), <<>>)
  <1> DEFINE G == H \ Elements(q)
  <1>1. <<>> \in Seq(Handle) /\ Distinct(<<>>) /\ Elements(<<>>) = {}
    BY EmptySeq DEF Distinct, Elements
  <1>2. IsFiniteSet(G) /\ G \subseteq Handle
    BY FS_Subset DEF Owned
  <1>3. ASSUME NEW s \in Here(tx) PROVE HandlesOf(tx[s]) \subseteq G
    <2>1. tx[s] \in Texture /\ Shaped(tx[s]) /\ HandlesOf(tx[s]) \subseteq H
      BY DEF Owned, Here
    <2>2. \A h \in HandlesOf(tx[s]) : tx[s].image # None /\ h.n = tx[s].image.n
      BY <2>1, HandlesAre
    <2>3. tx[s].image # None => \A h \in Elements(q) : h.n # tx[s].image.n
      BY DEF Owned, NumbersApart
    <2> QED
      BY <2>1, <2>2, <2>3
  <1>4. NumbersApart(tx, <<>>)
    <2>1. NumbersApart(tx, q)
      BY DEF Owned
    <2> QED
      BY <1>1, <2>1 DEF NumbersApart
  <1> QED
    BY <1>1, <1>2, <1>3, <1>4 DEF Owned

-----------------------------------------------------------------------------
(* What keeps the shape of a texture. *)
Keeps(t, u) ==
    /\ u \in Texture /\ Shaped(u) /\ u.image = t.image /\ u.kind = t.kind
    /\ u.levels = t.levels /\ HandlesOf(t) \subseteq HandlesOf(u)

LEMMA SameParts ==
    ASSUME NEW t \in Texture, Shaped(t), NEW u \in Texture,
           u.kind = t.kind, u.image = t.image, u.view = t.view, u.sampler = t.sampler,
           u.mipViews = t.mipViews, u.layerViews = t.layerViews, u.levels = t.levels,
           u.target = t.target, u.deleteImage = t.deleteImage,
           u.descriptor = [view |-> u.view, sampler |-> u.sampler, layout |-> u.layout]
    PROVE  Keeps(t, u) /\ HandlesOf(u) = HandlesOf(t)
  <1>1. /\ AllLayers(u) = AllLayers(t) /\ AllLevels(u) = AllLevels(t)
        /\ WholeView(u) = WholeView(t) /\ LayerViewsOf(u) = LayerViewsOf(t)
    BY Alike
  <1>2. HandlesOf(u) = HandlesOf(t)
    BY DEF HandlesOf
  <1>3. CASE t.image = None
    <2>1. Shaped(u)
      BY <1>3 DEF Shaped
    <2> QED
      BY <1>2, <2>1 DEF Keeps
  <1>4. CASE t.image # None
    <2>1. Shaped(u)
      BY <1>1, <1>4 DEF Shaped
    <2> QED
      BY <1>2, <2>1 DEF Keeps
  <1> QED
    BY <1>3, <1>4

LEMMA InLayoutKeeps ==
    ASSUME NEW t \in Texture, Shaped(t), NEW layout \in ImageLayouts
    PROVE  /\ Keeps(t, InLayout(t, layout)) /\ HandlesOf(InLayout(t, layout)) = HandlesOf(t)
           /\ InLayout(t, layout).target = t.target /\ InLayout(t, layout).mipViews = t.mipViews
  <1> DEFINE u == InLayout(t, layout)
  <1>1. /\ u \in Texture /\ u.layout = layout
        /\ u.descriptor = [view |-> t.view, sampler |-> t.sampler, layout |-> layout]
        /\ u.kind = t.kind /\ u.image = t.image /\ u.view = t.view /\ u.sampler = t.sampler
        /\ u.mipViews = t.mipViews /\ u.layerViews = t.layerViews /\ u.levels = t.levels
        /\ u.target = t.target /\ u.deleteImage = t.deleteImage
    BY InLayoutIs
  <1> HIDE DEF u
  <1>2. Keeps(t, u) /\ HandlesOf(u) = HandlesOf(t)
    BY <1>1, SameParts
  <1> QED
    BY <1>1, <1>2 DEF u

LEMMA UpdateDescriptorKeeps ==
    ASSUME NEW t \in Texture, Shaped(t)
    PROVE  Keeps(t, UpdateDescriptor(t)) /\ HandlesOf(UpdateDescriptor(t)) = HandlesOf(t)
  <1> DEFINE u == UpdateDescriptor(t)
  <1>1. /\ u \in Texture
        /\ u.descriptor = [view |-> u.view, sampler |-> u.sampler, layout |-> u.layout]
        /\ u.kind = t.kind /\ u.image = t.image /\ u.view = t.view /\ u.sampler = t.sampler
        /\ u.mipViews = t.mipViews /\ u.layerViews = t.layerViews /\ u.levels = t.levels
        /\ u.target = t.target /\ u.deleteImage = t.deleteImage
    BY UpdateDescriptorIs
  <1> HIDE DEF u
  <1>2. Keeps(t, u) /\ HandlesOf(u) = HandlesOf(t)
    BY <1>1, SameParts
  <1> QED
    BY <1>2 DEF u

(* Views of more levels of a target. *)
LEMMA MipViewsKeeps ==
    ASSUME NEW w, w.t \in Texture, Shaped(w.t), w.t.image # None, w.t.kind = "2d",
           NEW L \in SUBSET AllLevels(w.t), HandlesOf(w.t) \subseteq w.g.handles
    PROVE  /\ Keeps(w.t, MipViews(w, L).t)
           /\ MipViews(w, L).g.handles = w.g.handles \cup HandlesOf(MipViews(w, L).t)
  <1> DEFINE t == w.t
             x == MipViews(w, L)
             u == x.t
             D == DOMAIN t.mipViews
             new == {LevelView(t.image, l) : l \in L \ D}
  <1>1. /\ t.image \in Images /\ L \in SUBSET Nat /\ D \subseteq Nat
        /\ \A l \in D : l \in AllLevels(t) /\ t.mipViews[l] = LevelView(t.image, l)
        /\ t.levels \in Nat
    BY LayersAreNat DEF Shaped, Texture
  <1>2. /\ u \in Texture /\ u = [t EXCEPT !.mipViews = u.mipViews]
        /\ DOMAIN u.mipViews = D \cup L
        /\ \A l \in D : u.mipViews[l] = t.mipViews[l]
        /\ \A l \in L \ D : u.mipViews[l] = LevelView(t.image, l)
        /\ x.g.handles = w.g.handles \cup new
    BY <1>1, MipViewsAre
  <1> HIDE DEF x
  <1>3. /\ u.kind = t.kind /\ u.image = t.image /\ u.view = t.view /\ u.sampler = t.sampler
        /\ u.layerViews = t.layerViews /\ u.levels = t.levels
        /\ u.target = t.target /\ u.deleteImage = t.deleteImage
        /\ u.descriptor = t.descriptor /\ u.layout = t.layout
    BY <1>2 DEF Texture
  <1>4. /\ AllLayers(u) = AllLayers(t) /\ AllLevels(u) = AllLevels(t)
        /\ WholeView(u) = WholeView(t) /\ LayerViewsOf(u) = LayerViewsOf(t)
    BY <1>3, Alike
  <1>5. \A l \in DOMAIN u.mipViews : l \in AllLevels(u) /\ u.mipViews[l] = LevelView(u.image, l)
    BY <1>1, <1>2, <1>3, <1>4
  <1>6. Shaped(u)
    <2>1. u.kind = "2d" /\ u.image # None /\ t.image # None
      BY <1>3
    <2>2. /\ t.view = WholeView(t) /\ t.layerViews = LayerViewsOf(t)
          /\ t.sampler = (IF t.deleteImage THEN Sampler(t.image) ELSE None)
          /\ (t.target => t.deleteImage)
          /\ t.descriptor = [view |-> t.view, sampler |-> t.sampler, layout |-> t.layout]
      BY DEF Shaped
    <2> QED
      BY <1>1, <1>3, <1>4, <1>5, <2>1, <2>2 DEF Shaped
  <1>7. {u.mipViews[l] : l \in DOMAIN u.mipViews} = {t.mipViews[l] : l \in D} \cup new
    BY <1>2
  <1> HIDE DEF new
  <1>8. HandlesOf(u) = HandlesOf(t) \cup new
    BY <1>3, <1>7 DEF HandlesOf
  <1>9. Keeps(t, u) /\ x.g.handles = w.g.handles \cup HandlesOf(u)
    BY <1>2, <1>3, <1>6, <1>8 DEF Keeps
  <1> QED
    BY <1>9 DEF x

-----------------------------------------------------------------------------
(***************************************************************************)
(* Every step keeps what is owned.                                         *)
(***************************************************************************)
Ownership == Owned(textures, handles, queue)

LEMMA BlankIs ==
    ASSUME NEW kind \in Kinds, NEW size \in Nat
    PROVE  LET t == Blank(kind, size)
           IN  /\ t \in Texture /\ t.kind = kind /\ t.image = None /\ t.view = None
               /\ t.sampler = None /\ t.deleteImage /\ ~t.target /\ DOMAIN t.mipViews = {}
               /\ t.layerViews = <<>> /\ t.size = size /\ t.levels = 1 /\ t.layout = Undefined
  <1> DEFINE t == Blank(kind, size)
  <1>1. NoViews \in Seq(Handle) /\ DOMAIN NoViews = {} /\ NoViews = <<>>
    BY EmptySeq DEF NoViews
  <1>2. NoViews \in LevelViews
    <2>1. NoViews \in [{} -> Handle]
      BY <1>1
    <2> QED
      BY <2>1 DEF LevelViews
  <1>3. t = [kind |-> kind, size |-> size, image |-> None, view |-> None, sampler |-> None,
             mipViews |-> NoViews, layerViews |-> NoViews, layout |-> Undefined,
             levels |-> 1, target |-> FALSE, createMips |-> FALSE, keepMipViews |-> FALSE,
             deleteImage |-> TRUE,
             descriptor |-> [view |-> None, sampler |-> None, layout |-> Undefined]]
    BY DEF Blank
  <1>4. Undefined \in ImageLayouts /\ None \in Maybe
    BY DEF ImageLayouts, Maybe
  <1> DEFINE v == NoViews
  <1> HIDE DEF t, v
  <1>5. t \in Texture
    BY <1>1, <1>2, <1>3, <1>4 DEF Texture
  <1> QED
    BY <1>1, <1>3, <1>5 DEF t

LEMMA SizesAreNat == \A size \in Sizes : size \in Nat /\ size > 0
  BY TexturesAssumption

(* A texture without an image, whose file is missing. *)
LEMMA ComesEmpty ==
    ASSUME NEW tx, NEW H, NEW q, Owned(tx, H, q), NEW s \in Slots \ Here(tx),
           NEW t \in Texture, Shaped(t), t.image = None
    PROVE  Owned([tx EXCEPT ![s] = t], H, q)
  <1> DEFINE ty == [tx EXCEPT ![s] = t]
  <1>1. tx \in [Slots -> Texture \cup {NoTexture}]
    BY DEF Owned
  <1>2. /\ ty \in [Slots -> Texture \cup {NoTexture}] /\ Here(ty) = Here(tx) \cup {s}
        /\ ty[s] = t /\ \A r \in Here(tx) : ty[r] = tx[r]
    BY <1>1, NoTextureIs DEF Here
  <1>3. HandlesOf(t) = {}
    BY HandlesAre
  <1> HIDE DEF ty
  <1>4. NumbersApart(ty, q)
    <2>1. NumbersApart(tx, q)
      BY DEF Owned
    <2> QED
      BY <1>2, <2>1 DEF NumbersApart
  <1>5. ASSUME NEW r \in Here(ty) PROVE Shaped(ty[r]) /\ HandlesOf(ty[r]) \subseteq H
    BY <1>2, <1>3 DEF Owned
  <1>6. ASSUME NEW h \in H \ Elements(q) PROVE \E r \in Here(ty) : h \in HandlesOf(ty[r])
    BY <1>2 DEF Owned
  <1>7. Owned(ty, H, q)
    BY <1>2, <1>4, <1>5, <1>6 DEF Owned
  <1> QED
    BY <1>7 DEF ty

LEMMA CreateKeeps ==
    ASSUME Ownership, Create
    PROVE  Ownership'
  <1>1. PICK s \in Slots :
            /\ textures[s] = NoTexture
            /\ \/ SwapChainImage(s)
               \/ Texture2DCreate(s) \/ Texture2DFromSource(s) \/ Texture2DFromMissingFile(s)
               \/ CubeCreate(s) \/ CreateCubeFromHDRI(s) \/ CreateFromVCross(s)
               \/ DepthCreate(s) \/ DepthArrayCreate(s)
    BY DEF Create
  <1>2. s \in Slots \ Here(textures)
    BY <1>1 DEF Here
  <1>3. Device.handles = handles /\ IsFiniteSet(Device.handles)
    BY DEF Device, Ownership, Owned
  <1>4. ASSUME NEW w, Built(w, Device), Keep(s, w) PROVE Ownership'
    <2>1. Owned([textures EXCEPT ![s] = w.t], w.g.handles, queue)
      BY <1>2, <1>3, <1>4, Comes DEF Ownership
    <2>2. /\ textures' = [textures EXCEPT ![s] = w.t] /\ handles' = w.g.handles /\ queue' = queue
      BY <1>4 DEF Keep, SetDevice
    <2> QED
      BY <2>1, <2>2 DEF Ownership
  <1>5. CASE SwapChainImage(s)
    <2> DEFINE t == Blank("2d", 1)
    <2>1. /\ t \in Texture /\ t.kind = "2d" /\ t.sampler = None /\ ~t.target
          /\ DOMAIN t.mipViews = {} /\ t.layerViews = <<>>
      BY BlankIs DEF Kinds
    <2> HIDE DEF t
    <2>2. Built(Wrapped(t, Device), Device)
      BY <1>3, <2>1, WrappedIs
    <2> QED
      BY <1>4, <1>5, <2>2 DEF SwapChainImage, t
  <1>6. CASE Texture2DCreate(s)
    <2>1. PICK size \in Sizes, mips \in BOOLEAN, keep \in BOOLEAN :
              Keep(s, BuildTexture([Blank("2d", size) EXCEPT !.target = TRUE, !.createMips = mips,
                                                             !.keepMipViews = keep],
                                   Device))
      BY <1>6 DEF Texture2DCreate
    <2> DEFINE b == Blank("2d", size)
               t == [b EXCEPT !.target = TRUE, !.createMips = mips, !.keepMipViews = keep]
    <2>2. size \in Nat /\ size > 0
      BY SizesAreNat
    <2>3. b \in Texture /\ b.kind = "2d" /\ b.deleteImage /\ DOMAIN b.mipViews = {} /\ b.layerViews = <<>>
      BY <2>2, BlankIs DEF Kinds
    <2> HIDE DEF b
    <2>4. t \in Texture /\ t.kind = "2d" /\ t.deleteImage /\ DOMAIN t.mipViews = {} /\ t.layerViews = <<>>
      BY <2>3 DEF Texture
    <2> HIDE DEF t
    <2>5. Built(BuildTexture(t, Device), Device)
      BY <1>3, <2>4, BuildTextureIs
    <2> QED
      BY <1>4, <2>1, <2>5 DEF t, b
  <1>7. CASE Texture2DFromSource(s)
    <2>1. PICK size \in Sizes, mips \in BOOLEAN :
              Keep(s, Loaded([Blank("2d", size) EXCEPT !.createMips = mips], Device))
      BY <1>7 DEF Texture2DFromSource
    <2> DEFINE b == Blank("2d", size)
               t == [b EXCEPT !.createMips = mips]
    <2>2. size \in Nat /\ size > 0
      BY SizesAreNat
    <2>3. b \in Texture /\ b.kind = "2d" /\ b.deleteImage /\ DOMAIN b.mipViews = {} /\ b.layerViews = <<>>
      BY <2>2, BlankIs DEF Kinds
    <2> HIDE DEF b
    <2>4. t \in Texture /\ t.kind = "2d" /\ t.deleteImage /\ DOMAIN t.mipViews = {} /\ t.layerViews = <<>>
      BY <2>3 DEF Texture
    <2> HIDE DEF t
    <2>5. Built(Loaded(t, Device), Device)
      BY <1>3, <2>4, LoadedIs
    <2> QED
      BY <1>4, <2>1, <2>5 DEF t, b
  <1>8. CASE Texture2DFromMissingFile(s)
    <2> DEFINE b == Blank("2d", 0)
               t == [b EXCEPT !.deleteImage = FALSE]
    <2>1. /\ b \in Texture /\ b.kind = "2d" /\ b.image = None /\ b.view = None /\ b.sampler = None
          /\ ~b.target /\ DOMAIN b.mipViews = {} /\ b.layerViews = <<>>
      BY BlankIs DEF Kinds
    <2>2. /\ textures' = [textures EXCEPT ![s] = t] /\ handles' = handles /\ queue' = queue
      BY <1>8 DEF Texture2DFromMissingFile, Keep, Work, SetDevice, Device
    <2> HIDE DEF b
    <2>3. /\ t \in Texture /\ t.kind = "2d" /\ t.image = None /\ t.view = None /\ t.sampler = None
          /\ ~t.target /\ ~t.deleteImage /\ DOMAIN t.mipViews = {} /\ t.layerViews = <<>>
      BY <2>1 DEF Texture
    <2> HIDE DEF t
    <2>4. Shaped(t)
      BY <2>3 DEF Shaped
    <2>5. Owned([textures EXCEPT ![s] = t], handles, queue)
      BY <1>2, <2>3, <2>4, ComesEmpty DEF Ownership
    <2> QED
      BY <2>2, <2>5 DEF Ownership
  <1>9. CASE CubeCreate(s)
    <2>1. PICK size \in Sizes, data \in BOOLEAN : Keep(s, CubeFromData(Blank("cube", size), Device, data))
      BY <1>9 DEF CubeCreate
    <2> DEFINE t == Blank("cube", size)
    <2>2. size \in Nat /\ size > 0
      BY SizesAreNat
    <2>3. /\ t \in Texture /\ t.kind = "cube" /\ t.deleteImage /\ ~t.target /\ DOMAIN t.mipViews = {}
          /\ t.size > 0
      BY <2>2, BlankIs DEF Kinds
    <2> HIDE DEF t
    <2>4. Built(CubeFromData(t, Device, data), Device)
      BY <1>3, <2>3, CubeFromDataIs
    <2> QED
      BY <1>4, <2>1, <2>4 DEF t
  <1>10. CASE CreateCubeFromHDRI(s)
    <2>1. PICK size \in Sizes : Keep(s, CubeFromHdri(Blank("cube", size), Device))
      BY <1>10 DEF CreateCubeFromHDRI
    <2> DEFINE t == Blank("cube", size)
    <2>2. size \in Nat /\ size > 0
      BY SizesAreNat
    <2>3. /\ t \in Texture /\ t.kind = "cube" /\ t.deleteImage /\ ~t.target /\ DOMAIN t.mipViews = {}
          /\ t.size > 0
      BY <2>2, BlankIs DEF Kinds
    <2> HIDE DEF t
    <2>4. Built(CubeFromHdri(t, Device), Device)
      BY <1>3, <2>3, CubeFromHdriIs
    <2> QED
      BY <1>4, <2>1, <2>4 DEF t
  <1>11. CASE CreateFromVCross(s)
    <2>1. PICK size \in Sizes : \E mips \in 1 .. MipCount(size) :
              Keep(s, CubeFromFiles(Blank("cube", size), Device, mips))
      BY <1>11 DEF CreateFromVCross
    <2>2. PICK mips \in 1 .. MipCount(size) :
              Keep(s, CubeFromFiles(Blank("cube", size), Device, mips))
      BY <2>1
    <2> DEFINE t == Blank("cube", size)
    <2>3. size \in Nat /\ size > 0
      BY SizesAreNat
    <2>4. /\ t \in Texture /\ t.kind = "cube" /\ t.deleteImage /\ ~t.target /\ DOMAIN t.mipViews = {}
          /\ t.size > 0
      BY <2>3, BlankIs DEF Kinds
    <2>5. mips \in Nat \ {0}
      BY <2>3, MipCountIsNat
    <2> HIDE DEF t
    <2>6. Built(CubeFromFiles(t, Device, mips), Device)
      BY <1>3, <2>4, <2>5, CubeFromFilesIs
    <2> QED
      BY <1>4, <2>2, <2>6 DEF t
  <1>12. CASE DepthCreate(s)
    <2> DEFINE t == Blank("depth", 1)
    <2>1. /\ t \in Texture /\ t.kind = "depth" /\ t.deleteImage /\ ~t.target /\ t.levels > 0
          /\ DOMAIN t.mipViews = {} /\ t.layerViews = <<>>
      BY BlankIs DEF Kinds
    <2> HIDE DEF t
    <2>2. Built(DepthInit(t, Device), Device)
      BY <1>3, <2>1, DepthInitIs
    <2> QED
      BY <1>4, <1>12, <2>2 DEF DepthCreate, t
  <1>13. CASE DepthArrayCreate(s)
    <2> DEFINE t == Blank("array", 1)
    <2>1. /\ t \in Texture /\ t.kind = "array" /\ t.deleteImage /\ ~t.target /\ DOMAIN t.mipViews = {}
          /\ t.levels > 0
      BY BlankIs DEF Kinds
    <2> HIDE DEF t
    <2>2. Built(DepthArrayInit(t, Device), Device)
      BY <1>3, <2>1, DepthArrayInitIs
    <2> QED
      BY <1>4, <1>13, <2>2 DEF DepthArrayCreate, t
  <1> QED
    BY <1>1, <1>5, <1>6, <1>7, <1>8, <1>9, <1>10, <1>11, <1>12, <1>13

LEMMA DeleteKeeps ==
    ASSUME Ownership, NEW s \in Slots, Delete(s)
    PROVE  Ownership'
  <1>1. s \in Here(textures) /\ textures[s].deleteImage
    BY DEF Delete, Here
  <1>2. Owned([textures EXCEPT ![s] = NoTexture], handles \ {}, queue \o Released(textures[s]))
    BY <1>1, Goes DEF Ownership
  <1>3. handles \ {} = handles
    OBVIOUS
  <1> QED
    BY <1>2, <1>3 DEF Delete, Ownership

LEMMA DeleteForeignKeeps ==
    ASSUME Ownership, NEW s \in Slots, DeleteForeign(s)
    PROVE  Ownership'
  <1> DEFINE t == textures[s]
  <1>1. s \in Here(textures) /\ ~t.deleteImage
    BY DEF DeleteForeign, Here
  <1>2. Owned([textures EXCEPT ![s] = NoTexture], handles \ {t.image}, queue \o Released(t))
    BY <1>1, Goes DEF Ownership
  <1>3. handles' = handles \ {t.image}
    <2>1. CASE t.image = None
      <3>1. handles' = handles
        BY <2>1 DEF DeleteForeign, SetDevice, Device
      <3>2. None \notin handles
        BY NoHandleAssumption DEF Ownership, Owned
      <3> QED
        BY <2>1, <3>1, <3>2
    <2>2. CASE t.image # None
      <3> DEFINE one == <<t.image>>
      <3>1. handles' = Destroy(Device, one).handles
        BY <2>2 DEF DeleteForeign, SetDevice
      <3>2. Elements(one) = {t.image}
        BY DEF Elements
      <3> HIDE DEF one
      <3>3. Destroy(Device, one).handles = handles \ Elements(one)
        BY DEF Destroy, Device
      <3> QED
        BY <3>1, <3>2, <3>3
    <2> QED
      BY <2>1, <2>2
  <1> QED
    BY <1>2, <1>3 DEF DeleteForeign, Ownership

(* A texture is made anew in its place, and what it had goes to the queue. *)
LEMMA Renewed ==
    ASSUME Ownership, NEW s \in Here(textures), textures[s].deleteImage,
           NEW w, Built(w, Device),
           textures' = [textures EXCEPT ![s] = w.t], handles' = w.g.handles,
           queue' = queue \o Released(textures[s])
    PROVE  Ownership'
  <1> DEFINE tx == [textures EXCEPT ![s] = NoTexture]
             q == queue \o Released(textures[s])
  <1>1. s \in Slots /\ textures \in [Slots -> Texture \cup {NoTexture}]
    BY DEF Ownership, Owned, Here
  <1>2. Owned(tx, handles \ {}, q)
    BY Goes DEF Ownership
  <1>3. handles \ {} = handles /\ Device.handles = handles
    BY DEF Device
  <1>4. s \in Slots \ Here(tx)
    BY <1>1 DEF Here
  <1>5. [tx EXCEPT ![s] = w.t] = [textures EXCEPT ![s] = w.t]
    BY <1>1
  <1> HIDE DEF tx, q
  <1>6. Owned([tx EXCEPT ![s] = w.t], w.g.handles, q)
    BY <1>2, <1>3, <1>4, Comes
  <1> QED
    BY <1>5, <1>6 DEF Ownership, q

LEMMA Resize2DKeeps ==
    ASSUME Ownership, NEW s \in Slots, Resize2D(s)
    PROVE  Ownership'
  <1> DEFINE t == textures[s]
  <1>1. s \in Here(textures) /\ t.target
    BY DEF Resize2D, Here
  <1>2. t \in Texture /\ Shaped(t)
    BY <1>1 DEF Ownership, Owned, Here
  <1>3. PICK size \in Sizes :
            LET w == BuildTexture(Emptied(t, size), Device)
            IN  textures' = [textures EXCEPT ![s] = w.t] /\ SetDevice(w.g)
    BY DEF Resize2D
  <1> DEFINE u == Emptied(t, size)
             w == BuildTexture(u, Device)
  <1>4. t.kind = "2d" /\ t.deleteImage /\ t.layerViews = <<>>
    BY <1>1, <1>2 DEF Shaped, LayerViewsOf
  <1>5. size \in Nat
    BY SizesAreNat
  <1>6. NoViews \in LevelViews /\ DOMAIN NoViews = {}
    <2>1. NoViews \in [{} -> Handle] /\ DOMAIN NoViews = {}
      BY EmptySeq DEF NoViews
    <2> QED
      BY <2>1 DEF LevelViews
  <1>7. u = [t EXCEPT !.size = size, !.mipViews = NoViews]
    BY DEF Emptied
  <1> DEFINE v == NoViews
  <1> HIDE DEF t, u, v
  <1>8. /\ u \in Texture /\ u.kind = "2d" /\ u.deleteImage /\ DOMAIN u.mipViews = {}
        /\ u.layerViews = <<>>
    BY <1>2, <1>4, <1>5, <1>6, <1>7 DEF Texture
  <1>9. IsFiniteSet(Device.handles)
    BY DEF Device, Ownership, Owned
  <1>10. Built(w, Device)
    BY <1>8, <1>9, BuildTextureIs
  <1>11. /\ textures' = [textures EXCEPT ![s] = w.t] /\ handles' = w.g.handles
         /\ queue' = queue \o Released(t)
    BY <1>3 DEF Resize2D, SetDevice, t, u
  <1> HIDE DEF w
  <1> QED
    BY <1>1, <1>4, <1>10, <1>11, Renewed DEF t

LEMMA ResizeDepthKeeps ==
    ASSUME Ownership, NEW s \in Slots, ResizeDepth(s)
    PROVE  Ownership'
  <1> DEFINE t == textures[s]
             w == DepthInit(t, Device)
  <1>1. s \in Here(textures) /\ t.kind = "depth"
    BY DEF ResizeDepth, Here
  <1>2. t \in Texture /\ Shaped(t)
    BY <1>1 DEF Ownership, Owned, Here
  <1>3. /\ t.deleteImage /\ ~t.target /\ DOMAIN t.mipViews = {} /\ t.layerViews = <<>>
        /\ t.levels > 0
    BY <1>1, <1>2 DEF Shaped, LayerViewsOf
  <1>4. IsFiniteSet(Device.handles)
    BY DEF Device, Ownership, Owned
  <1>5. Built(w, Device)
    BY <1>1, <1>2, <1>3, <1>4, DepthInitIs
  <1>6. /\ textures' = [textures EXCEPT ![s] = w.t] /\ handles' = w.g.handles
        /\ queue' = queue \o Released(t)
    BY DEF ResizeDepth, SetDevice
  <1> HIDE DEF w
  <1> QED
    BY <1>1, <1>3, <1>5, <1>6, Renewed

(* The steps that leave a texture its image. *)
LEMMA KeptAs ==
    ASSUME Ownership, NEW s \in Here(textures), NEW u, Keeps(textures[s], u),
           textures' = [textures EXCEPT ![s] = u], handles' = handles \cup HandlesOf(u),
           queue' = queue
    PROVE  Ownership'
  <1>1. Owned([textures EXCEPT ![s] = u], handles \cup HandlesOf(u), queue)
    BY Changes DEF Ownership, Keeps
  <1> QED
    BY <1>1 DEF Ownership

LEMMA SampledKeeps ==
    ASSUME Ownership, NEW s \in Slots, Sampled(s)
    PROVE  Ownership'
  <1> DEFINE t == textures[s]
             u == InLayout(t, ReadLayout(t))
  <1>1. s \in Here(textures)
    BY DEF Sampled, Here
  <1>2. t \in Texture /\ Shaped(t) /\ HandlesOf(t) \subseteq handles
    BY <1>1 DEF Ownership, Owned, Here
  <1>3. ReadLayout(t) \in ImageLayouts
    BY DEF ReadLayout, ImageLayouts
  <1>4. Keeps(t, u) /\ HandlesOf(u) = HandlesOf(t)
    BY <1>2, <1>3, InLayoutKeeps
  <1>5. textures' = [textures EXCEPT ![s] = u] /\ handles' = handles /\ queue' = queue
    BY DEF Sampled
  <1> HIDE DEF u
  <1>6. handles' = handles \cup HandlesOf(u)
    BY <1>2, <1>4, <1>5
  <1> QED
    BY <1>1, <1>4, <1>5, <1>6, KeptAs

LEMMA StoreKeeps ==
    ASSUME Ownership, NEW s \in Slots, Store(s)
    PROVE  Ownership'
  <1> DEFINE t == textures[s]
             moved == IF TransitionImages(t) = <<>> THEN t ELSE InLayout(t, General)
             w1 == Work(moved, Device)
             w2 == Transition(w1, General)
  <1>1. s \in Here(textures) /\ t.target
    BY DEF Store, Here
  <1>2. t \in Texture /\ Shaped(t) /\ HandlesOf(t) \subseteq handles
    BY <1>1 DEF Ownership, Owned, Here
  <1>3. t.kind = "2d" /\ t.image # None
    BY <1>1, <1>2 DEF Shaped
  <1>4. PICK level \in AllLevels(t) :
            /\ textures' = [textures EXCEPT ![s] = Updated(w1, level).t]
            /\ SetDevice(Updated(w1, level).g)
    BY DEF Store
  <1> DEFINE w == Updated(w1, level)
             u == w.t
  <1>5. General \in ImageLayouts
    BY DEF ImageLayouts
  <1>6. Keeps(t, moved) /\ HandlesOf(moved) = HandlesOf(t)
    <2>1. Keeps(t, t)
      BY <1>2 DEF Keeps
    <2>2. Keeps(t, InLayout(t, General)) /\ HandlesOf(InLayout(t, General)) = HandlesOf(t)
      BY <1>2, <1>5, InLayoutKeeps
    <2> QED
      BY <2>1, <2>2
  <1>7. w1.t = moved /\ w1.g.handles = handles
    BY DEF Work, Device
  <1> HIDE DEF moved, w1
  <1>8. Keeps(moved, w2.t) /\ HandlesOf(w2.t) = HandlesOf(moved) /\ w2.g.handles = handles
    <2>1. w1.t \in Texture /\ Shaped(w1.t)
      BY <1>6, <1>7 DEF Keeps
    <2>2. w2.t = InLayout(w1.t, General) /\ w2.g.handles = w1.g.handles
      BY <1>5, <2>1, TransitionIs
    <2>3. /\ Keeps(w1.t, InLayout(w1.t, General))
          /\ HandlesOf(InLayout(w1.t, General)) = HandlesOf(w1.t)
      BY <1>5, <2>1, InLayoutKeeps
    <2> QED
      BY <1>7, <2>2, <2>3
  <1>9. w = IF level > 0 THEN MipViews(w2, {level}) ELSE w2
    BY DEF Updated
  <1> HIDE DEF w2, w
  <1>10. /\ w2.t \in Texture /\ Shaped(w2.t) /\ w2.t.image # None /\ w2.t.kind = "2d"
         /\ AllLevels(w2.t) = AllLevels(t) /\ HandlesOf(w2.t) \subseteq w2.g.handles
         /\ Keeps(t, w2.t)
    BY <1>2, <1>3, <1>6, <1>8 DEF Keeps, AllLevels
  <1>11. Keeps(t, u) /\ w.g.handles = handles \cup HandlesOf(u)
    <2>1. CASE level > 0
      <3>1. {level} \in SUBSET AllLevels(w2.t)
        BY <1>10
      <3>2. /\ Keeps(w2.t, MipViews(w2, {level}).t)
            /\ MipViews(w2, {level}).g.handles = w2.g.handles \cup HandlesOf(MipViews(w2, {level}).t)
        BY <1>10, <3>1, MipViewsKeeps
      <3>3. w = MipViews(w2, {level})
        BY <1>9, <2>1
      <3> QED
        BY <1>8, <1>10, <3>2, <3>3 DEF Keeps
    <2>2. CASE ~(level > 0)
      BY <1>2, <1>6, <1>8, <1>9, <1>10, <2>2
    <2> QED
      BY <2>1, <2>2
  <1>12. textures' = [textures EXCEPT ![s] = u] /\ handles' = handles \cup HandlesOf(u) /\ queue' = queue
    BY <1>4, <1>11 DEF Store, SetDevice, w
  <1> HIDE DEF u
  <1> QED
    BY <1>1, <1>11, <1>12, KeptAs

LEMMA BindKeeps ==
    ASSUME Ownership, NEW s \in Slots, Bind(s)
    PROVE  Ownership'
  <1> DEFINE t == textures[s]
             w1 == Work(t, Device)
  <1>1. s \in Here(textures) /\ t.image # None
    BY DEF Bind, Drawable, Here
  <1>2. t \in Texture /\ Shaped(t) /\ HandlesOf(t) \subseteq handles
    BY <1>1 DEF Ownership, Owned, Here
  <1>3. PICK level \in AllLevels(t) :
            LET w == IF t.target /\ level > 0 THEN MipViews(w1, {level}) ELSE w1
            IN  /\ textures' = [textures EXCEPT ![s] = InLayout(w.t, DrawnLayout(t))]
                /\ SetDevice(w.g)
    BY DEF Bind
  <1> DEFINE w == IF t.target /\ level > 0 THEN MipViews(w1, {level}) ELSE w1
             u == InLayout(w.t, DrawnLayout(t))
  <1>4. w1.t = t /\ w1.g.handles = handles
    BY DEF Work, Device
  <1> HIDE DEF w1
  <1>5. Keeps(t, w.t) /\ w.g.handles = handles \cup HandlesOf(w.t)
    <2>1. CASE t.target /\ level > 0
      <3>1. {level} \in SUBSET AllLevels(w1.t) /\ w1.t.kind = "2d"
        BY <1>1, <1>2, <1>4, <2>1 DEF Shaped
      <3>2. w1.t \in Texture /\ Shaped(w1.t) /\ w1.t.image # None /\ HandlesOf(w1.t) \subseteq w1.g.handles
        BY <1>1, <1>2, <1>4
      <3>3. /\ Keeps(w1.t, MipViews(w1, {level}).t)
            /\ MipViews(w1, {level}).g.handles = w1.g.handles \cup HandlesOf(MipViews(w1, {level}).t)
        BY <3>1, <3>2, MipViewsKeeps
      <3> QED
        BY <1>4, <2>1, <3>3
    <2>2. CASE ~(t.target /\ level > 0)
      <3>1. w = w1
        BY <2>2
      <3> HIDE DEF w
      <3>2. Keeps(t, t)
        BY <1>2 DEF Keeps
      <3> QED
        BY <1>2, <1>4, <3>1, <3>2
    <2> QED
      BY <2>1, <2>2
  <1>6. textures' = [textures EXCEPT ![s] = u] /\ handles' = w.g.handles /\ queue' = queue
    BY <1>3 DEF Bind, SetDevice
  <1> HIDE DEF w
  <1>7. DrawnLayout(t) \in ImageLayouts
    BY DEF DrawnLayout, ImageLayouts
  <1>8. Keeps(w.t, u) /\ HandlesOf(u) = HandlesOf(w.t)
    BY <1>5, <1>7, InLayoutKeeps DEF Keeps
  <1> HIDE DEF u
  <1>9. Keeps(t, u)
    BY <1>5, <1>8 DEF Keeps
  <1> QED
    BY <1>1, <1>5, <1>6, <1>8, <1>9, KeptAs

LEMMA ClearRenderTargetKeeps ==
    ASSUME Ownership, NEW s \in Slots, ClearRenderTarget(s)
    PROVE  Ownership'
  <1> DEFINE t == textures[s]
  <1>1. s \in Here(textures)
    BY DEF ClearRenderTarget, Drawable, Here
  <1>2. t \in Texture /\ Shaped(t) /\ HandlesOf(t) \subseteq handles
    BY <1>1 DEF Ownership, Owned, Here
  <1>3. Dst \in ImageLayouts
    BY DEF ImageLayouts
  <1>4. /\ textures' = [textures EXCEPT ![s] = InLayout(t, Dst)]
           \/ textures' = [textures EXCEPT ![s] = UpdateDescriptor(t)]
        /\ handles' = handles /\ queue' = queue
    BY DEF ClearRenderTarget
  <1>5. ASSUME NEW u, Keeps(t, u) /\ HandlesOf(u) = HandlesOf(t),
               textures' = [textures EXCEPT ![s] = u]
        PROVE  Ownership'
    <2>1. handles' = handles \cup HandlesOf(u)
      BY <1>2, <1>4, <1>5
    <2> QED
      BY <1>1, <1>4, <1>5, <2>1, KeptAs
  <1>6. /\ Keeps(t, InLayout(t, Dst)) /\ HandlesOf(InLayout(t, Dst)) = HandlesOf(t)
        /\ Keeps(t, UpdateDescriptor(t)) /\ HandlesOf(UpdateDescriptor(t)) = HandlesOf(t)
    BY <1>2, <1>3, InLayoutKeeps, UpdateDescriptorKeeps
  <1> QED
    BY <1>4, <1>5, <1>6

LEMMA DrawSplashScreenKeeps ==
    ASSUME Ownership, NEW s \in Slots, NEW screen \in Slots, DrawSplashScreen(s, screen)
    PROVE  Ownership'
  <1> DEFINE t == textures[s]
             image == textures[screen]
             u == InLayout(t, Src)
             v == UpdateDescriptor(image)
             tx == [textures EXCEPT ![s] = u]
  <1>1. s \in Here(textures) /\ screen \in Here(textures) /\ s # screen
    BY DEF DrawSplashScreen, Here
  <1>2. /\ t \in Texture /\ Shaped(t) /\ HandlesOf(t) \subseteq handles
        /\ image \in Texture /\ Shaped(image) /\ HandlesOf(image) \subseteq handles
        /\ textures \in [Slots -> Texture \cup {NoTexture}]
    BY <1>1 DEF Ownership, Owned, Here
  <1>3. Src \in ImageLayouts
    BY DEF ImageLayouts
  <1>4. /\ Keeps(t, u) /\ HandlesOf(u) = HandlesOf(t)
        /\ Keeps(image, v) /\ HandlesOf(v) = HandlesOf(image)
    BY <1>2, <1>3, InLayoutKeeps, UpdateDescriptorKeeps
  <1>5. /\ textures' = [tx EXCEPT ![screen] = v]
        /\ handles' = handles /\ queue' = queue
    BY <1>1, <1>2 DEF DrawSplashScreen
  <1>6. handles \cup HandlesOf(u) = handles /\ handles \cup HandlesOf(v) = handles
    BY <1>2, <1>4
  <1> HIDE DEF u, v
  <1>7. Owned(tx, handles \cup HandlesOf(u), queue)
    BY <1>1, <1>4, Changes DEF Ownership, Keeps
  <1>8. screen \in Here(tx) /\ tx[screen] = image
    BY <1>1, <1>2 DEF Here
  <1> HIDE DEF tx
  <1>9. Owned([tx EXCEPT ![screen] = v], handles \cup HandlesOf(v), queue)
    BY <1>4, <1>6, <1>7, <1>8, Changes DEF Keeps
  <1> QED
    BY <1>5, <1>6, <1>9 DEF Ownership

LEMMA FlushKeeps ==
    ASSUME Ownership, Flush
    PROVE  Ownership'
  <1>1. Owned(textures, handles \ Elements(queue), <<>>)
    BY Flushed DEF Ownership
  <1>2. textures' = textures /\ handles' = handles \ Elements(queue) /\ queue' = <<>>
    BY DEF Flush, SetDevice, Destroy, Device
  <1> QED
    BY <1>1, <1>2 DEF Ownership

LEMMA OwnershipKept ==
    ASSUME Ownership, [Next]_vars
    PROVE  Ownership'
  <1>1. CASE Create
    BY <1>1, CreateKeeps
  <1>2. ASSUME NEW s \in Slots,
               \/ Delete(s) \/ DeleteForeign(s) \/ Resize2D(s) \/ ResizeDepth(s)
               \/ Sample(s) \/ FrameRender(s) \/ Store(s) \/ Bind(s) \/ ClearRenderTarget(s)
        PROVE  Ownership'
    <2>1. CASE Sample(s) \/ FrameRender(s)
      BY <2>1, SampledKeeps DEF Sample, FrameRender
    <2> QED
      BY <1>2, <2>1, DeleteKeeps, DeleteForeignKeeps, Resize2DKeeps, ResizeDepthKeeps,
         StoreKeeps, BindKeeps, ClearRenderTargetKeeps
  <1>3. ASSUME NEW s \in Slots, NEW screen \in Slots, DrawSplashScreen(s, screen)
        PROVE  Ownership'
    BY <1>3, DrawSplashScreenKeeps
  <1>4. CASE Submit
    <2>1. textures' = textures /\ handles' = handles /\ queue' = queue
      BY <1>4 DEF Submit, SetDevice, ExecuteAll, Device
    <2> QED
      BY <2>1 DEF Ownership
  <1>5. CASE Flush
    BY <1>5, FlushKeeps
  <1>6. CASE UNCHANGED vars
    BY <1>6 DEF vars, Ownership
  <1> QED
    BY <1>1, <1>2, <1>3, <1>4, <1>5, <1>6 DEF Next

LEMMA OwnershipAlways == Spec => []Ownership
  <1>1. Init => Ownership
    <2> SUFFICES ASSUME Init PROVE Ownership
      OBVIOUS
    <2>1. Here(textures) = {} /\ textures \in [Slots -> Texture \cup {NoTexture}]
      BY DEF Init, Here
    <2>2. queue = <<>> /\ handles = {} /\ Elements(<<>>) = {} /\ Distinct(<<>>) /\ <<>> \in Seq(Handle)
      BY EmptySeq DEF Init, Elements, Distinct
    <2> QED
      BY <2>1, <2>2, FS_EmptySet DEF Ownership, Owned, NumbersApart
  <1> QED
    BY <1>1, OwnershipKept, PTL DEF Spec

(***************************************************************************)
(* Every object of the device belongs to one texture or is once on the     *)
(* deletion queue, for any slots and sizes, and in every state             *)
(* (DeleteResources, the destructors, Resize, the constructors).           *)
(***************************************************************************)
THEOREM OwnedAlwaysOnce == Spec => []OwnedOnce
  <1>1. Ownership => OwnedOnce
    <2> SUFFICES ASSUME Ownership PROVE OwnedOnce
      OBVIOUS
    <2> DEFINE held == [s \in Live |-> HandlesOf(textures[s])]
               queued == Elements(queue)
    <2>1. Live = Here(textures)
      BY DEF Live, Here
    <2>2. ASSUME NEW s \in Live
          PROVE  /\ held[s] \subseteq handles
                 /\ \A h \in held[s] : textures[s].image # None /\ h.n = textures[s].image.n
      BY <2>1, HandlesAre DEF Ownership, Owned, Here
    <2>3. ASSUME NEW s \in Live PROVE held[s] \subseteq handles \ queued
      <3>1. textures[s].image # None => \A h \in queued : h.n # textures[s].image.n
        BY <2>1 DEF Ownership, Owned, NumbersApart
      <3> QED
        BY <2>2, <3>1
    <2>4. ASSUME NEW s \in Live, NEW r \in Live, s # r PROVE held[s] \cap held[r] = {}
      <3>1. textures[s].image # None /\ textures[r].image # None
               => textures[s].image.n # textures[r].image.n
        BY <2>1, <2>4 DEF Ownership, Owned, NumbersApart
      <3> QED
        BY <2>2, <3>1
    <2>5. queued \subseteq handles /\ Cardinality(queued) = Len(queue)
      BY DistinctCounts DEF Ownership, Owned
    <2>6. ASSUME NEW h \in handles \ queued PROVE h \in UNION {held[s] : s \in Live}
      BY <2>1 DEF Ownership, Owned
    <2>7. handles \ queued = UNION {held[s] : s \in Live}
      BY <2>3, <2>6
    <2> QED
      BY <2>3, <2>4, <2>5, <2>7 DEF OwnedOnce
  <1> QED
    BY <1>1, OwnershipAlways, PTL

(***************************************************************************)
(* The views of a texture are of its present image, whatever was resized   *)
(* and however often, and its descriptor shows it in its present layout    *)
(* (GetMipImageView, UpdateDescriptor, Resize).                            *)
(***************************************************************************)
THEOREM ViewsAlwaysCurrent == Spec => []ViewsCurrent
  <1>1. Ownership => ViewsCurrent
    <2> SUFFICES ASSUME Ownership, NEW s \in Live
                 PROVE  LET t == textures[s]
                            views == {h \in HandlesOf(t) : h.type = "view"}
                        IN  /\ \A v \in views : v.n = t.image.n /\ v.levels \subseteq AllLevels(t)
                            /\ \A l \in DOMAIN t.mipViews : t.mipViews[l].levels = {l}
                            /\ t.image # None =>
                                  t.descriptor = [view |-> t.view, sampler |-> t.sampler, layout |-> t.layout]
      BY DEF ViewsCurrent
    <2> DEFINE t == textures[s]
    <2>1. t \in Texture /\ Shaped(t)
      BY DEF Live, Ownership, Owned, Here
    <2> HIDE DEF t
    <2>2. CASE t.image = None
      <3>1. HandlesOf(t) = {} /\ DOMAIN t.mipViews = {}
        BY <2>1, <2>2, HandlesAre DEF Shaped
      <3> QED
        BY <2>2, <3>1 DEF t
    <2>3. CASE t.image # None
      <3>1. /\ t.image \in Images /\ t.view = WholeView(t) /\ t.layerViews = LayerViewsOf(t)
            /\ t.sampler \in {None, Sampler(t.image)}
            /\ \A l \in DOMAIN t.mipViews :
                  l \in AllLevels(t) /\ t.mipViews[l] = LevelView(t.image, l)
            /\ t.kind # "2d" => t.levels > 0
            /\ t.descriptor = [view |-> t.view, sampler |-> t.sampler, layout |-> t.layout]
        BY <2>1, <2>3 DEF Shaped
      <3>2. t.levels \in Nat
        BY <2>1 DEF Texture
      <3>3. t.view.levels = AllLevels(t)
        BY <3>1, <3>2 DEF WholeView, View
      <3>4. \A l \in DOMAIN t.mipViews : l \in AllLevels(t) /\ t.mipViews[l].levels = {l}
        BY <2>1, <3>1, LevelViewsAre
      <3>5. \A h \in Elements(t.layerViews) : h.levels = {0} /\ 0 \in AllLevels(t)
        <4>1. CASE t.kind \in {"cube", "array"}
          <5>1. 0 \in AllLevels(t)
            BY <3>1, <3>2, <4>1 DEF AllLevels, Range0
          <5> QED
            BY <3>1, <5>1, LayerViewsAre
        <4>2. CASE t.kind \notin {"cube", "array"}
          BY <3>1, <4>2, EmptySeq DEF LayerViewsOf, Elements
        <4> QED
          BY <4>1, <4>2
      <3>6. t.image.type = "image" /\ Sampler(t.image).type = "sampler"
        BY <3>1, ImagesAre
      <3>7. \A h \in HandlesOf(t) : h.n = t.image.n
        BY <2>1, <2>3, HandlesAre
      <3>8. ASSUME NEW v \in HandlesOf(t), v.type = "view" PROVE v.levels \subseteq AllLevels(t)
        <4>1. \/ v = t.view \/ v \in Elements(t.layerViews)
              \/ \E l \in DOMAIN t.mipViews : v = t.mipViews[l]
          BY <3>1, <3>6, <3>8 DEF HandlesOf
        <4> QED
          BY <3>3, <3>4, <3>5, <4>1
      <3> QED
        BY <3>1, <3>4, <3>7, <3>8 DEF t
    <2> QED
      BY <2>2, <2>3
  <1> QED
    BY <1>1, OwnershipAlways, PTL

-----------------------------------------------------------------------------
(***************************************************************************)
(* Commands: what they leave of the layouts, and what each one finds.      *)
(***************************************************************************)
Commands ==
    [image : Images \cup {None}, faces : SUBSET Nat, levels : SUBSET Nat,
     old : ImageLayouts, new : ImageLayouts]

\* A set of numbers has a least one: < is a well-founded relation.
LEMMA LeastNumber ==
    ASSUME NEW T, T \subseteq Nat, T # {}
    PROVE  \E x \in T : \A y \in T : x <= y
  <1>1. PICK R : IsWellFoundedOn(R, Nat) /\ \A x, y \in Nat : x < y => <<x, y>> \in R
    <2> DEFINE R == OpToRel(<, Nat)
    <2>1. \A x, y \in Nat : x < y => <<x, y>> \in R
      BY DEF OpToRel
    <2>2. IsWellFoundedOn(R, Nat)
      BY NatLessThanWellFounded
    <2> HIDE DEF R
    <2> QED
      BY <2>1, <2>2
  <1>2. T \subseteq Nat /\ T # {}
    OBVIOUS
  <1>3. \A S : IsWellFoundedOn(R, S) /\ T \subseteq S =>
           \E x \in T : \A y \in T : ~ (<<y, x>> \in R)
    BY <1>2, WFMin, Zenon
  <1>4. PICK x \in T : \A y \in T : ~ (<<y, x>> \in R)
    BY <1>1, <1>2, <1>3
  <1>5. ASSUME NEW y \in T PROVE x <= y
    <2>1. ~ (y < x)
      BY <1>1, <1>2, <1>4
    <2> QED
      BY <1>2, <2>1
  <1> QED
    BY <1>5

LEMMA GreatestNumber ==
    ASSUME NEW n \in Nat, NEW T, T \subseteq 1 .. n, T # {}
    PROVE  \E x \in T : \A y \in T : x >= y
  <1> DEFINE U == {n - x : x \in T}
  <1>1. U \subseteq Nat /\ U # {}
    <2>1. ASSUME NEW x \in T PROVE n - x \in Nat
      <3>1. x \in 1 .. n
        OBVIOUS
      <3> QED
        BY <3>1
    <2>2. PICK x \in T : TRUE
      OBVIOUS
    <2>3. n - x \in U
      OBVIOUS
    <2> QED
      BY <2>1, <2>3
  <1>2. PICK u \in U : \A v \in U : u <= v
    BY <1>1, LeastNumber
  <1>3. PICK x \in T : u = n - x
    BY <1>2
  <1>4. ASSUME NEW y \in T PROVE x >= y
    <2>1. n - y \in U
      OBVIOUS
    <2>2. n - x <= n - y
      BY <1>2, <1>3, <2>1
    <2> QED
      BY <2>2
  <1> QED
    BY <1>4

(* The commands among the first n that touch a place. *)
Touching(C, n, image, f, l) ==
    {i \in 1 .. n : C[i].image = image /\ f \in C[i].faces /\ l \in C[i].levels}

Untouched(C, n, image, f, l) == Touching(C, n, image, f, l) = {}

(* The last command that touches a place decides its layout. *)
LEMMA LastTouch ==
    ASSUME NEW g, NEW C, NEW n \in Nat, NEW image, NEW f, NEW l,
           NEW k \in Touching(C, n, image, f, l),
           \A i \in Touching(C, n, image, f, l) : k >= i
    PROVE  LayoutAfter(g, C, n, image, f, l) = C[k].new
  <1> DEFINE by == Touching(C, n, image, f, l)
  <1>1. k \in by /\ \A i \in by : k >= i
    OBVIOUS
  <1>2. \A x \in by : (\A y \in by : x >= y) => x = k
    BY <1>1 DEF Touching
  <1>3. LayoutAfter(g, C, n, image, f, l) =
           IF by = {} THEN g.layouts[image][f][l] ELSE C[Max(by)].new
    BY DEF LayoutAfter, Touching
  <1> HIDE DEF by
  <1>4. Max(by) = k
    BY <1>1, <1>2 DEF Max
  <1> QED
    BY <1>1, <1>3, <1>4

LEMMA NoTouch ==
    ASSUME NEW g, NEW C, NEW n \in Nat, NEW image, NEW f, NEW l,
           Untouched(C, n, image, f, l)
    PROVE  LayoutAfter(g, C, n, image, f, l) = g.layouts[image][f][l]
  BY DEF LayoutAfter, Touching, Untouched

LEMMA TouchedOrNot ==
    ASSUME NEW C, NEW n \in Nat, NEW image, NEW f, NEW l
    PROVE  LET by == Touching(C, n, image, f, l)
           IN  Untouched(C, n, image, f, l) \/ \E k \in by : \A i \in by : k >= i
  <1> DEFINE by == Touching(C, n, image, f, l)
  <1>1. by \subseteq 1 .. n
    BY DEF Touching
  <1> HIDE DEF by
  <1>2. by = {} \/ \E k \in by : \A i \in by : k >= i
    BY <1>1, GreatestNumber
  <1> QED
    BY <1>2 DEF by, Untouched

(* A layout after some commands does not depend on those that follow, ... *)
LEMMA Begun ==
    ASSUME NEW g, NEW a, NEW b, NEW n \in Nat, NEW image, NEW f, NEW l,
           \A i \in 1 .. n : a[i] = b[i]
    PROVE  LayoutAfter(g, a, n, image, f, l) = LayoutAfter(g, b, n, image, f, l)
  <1>1. Touching(a, n, image, f, l) = Touching(b, n, image, f, l)
    BY DEF Touching
  <1> DEFINE by == Touching(a, n, image, f, l)
  <1>2. by \subseteq 1 .. n
    BY DEF Touching
  <1>3. Untouched(a, n, image, f, l) \/ \E k \in by : \A i \in by : k >= i
    BY TouchedOrNot
  <1>4. CASE Untouched(a, n, image, f, l)
    <2>1. LayoutAfter(g, a, n, image, f, l) = g.layouts[image][f][l]
      BY <1>4, NoTouch
    <2>2. LayoutAfter(g, b, n, image, f, l) = g.layouts[image][f][l]
      <3>1. Untouched(b, n, image, f, l)
        BY <1>1, <1>4 DEF Untouched
      <3> QED
        BY <3>1, NoTouch
    <2> QED
      BY <2>1, <2>2
  <1>5. ASSUME NEW k \in by, \A i \in by : k >= i
        PROVE  LayoutAfter(g, a, n, image, f, l) = LayoutAfter(g, b, n, image, f, l)
    <2>1. LayoutAfter(g, a, n, image, f, l) = a[k].new
      BY <1>5, LastTouch
    <2>2. LayoutAfter(g, b, n, image, f, l) = b[k].new
      BY <1>1, <1>5, LastTouch
    <2> QED
      BY <1>2, <2>1, <2>2
  <1> QED
    BY <1>3, <1>4, <1>5

(* ... and is decided by the second of two sequences, if it touches the    *)
(* place, and by the first otherwise.                                      *)
Continues(g, c, p, h, b, n, m, image, f, l) ==
    /\ p \in Nat /\ n \in Nat /\ m = p + n /\ \A i \in 1 .. n : c[p + i] = b[i]
    /\ h.layouts[image][f][l] = LayoutAfter(g, c, p, image, f, l)

LEMMA Continued ==
    ASSUME NEW g, NEW c, NEW p, NEW h, NEW b, NEW n, NEW m, NEW image, NEW f, NEW l,
           Continues(g, c, p, h, b, n, m, image, f, l)
    PROVE  LayoutAfter(g, c, m, image, f, l) = LayoutAfter(h, b, n, image, f, l)
  <1> USE DEF Continues
  <1> DEFINE first == Touching(c, p, image, f, l)
             second == Touching(b, n, image, f, l)
             both == Touching(c, m, image, f, l)
  <1>1. m \in Nat /\ first \subseteq 1 .. p /\ second \subseteq 1 .. n
    BY DEF Touching
  <1>2. both = first \cup {p + i : i \in second}
    <2>1. ASSUME NEW i \in both PROVE i \in first \cup {p + j : j \in second}
      <3>1. /\ i \in 1 .. m /\ c[i].image = image
            /\ f \in c[i].faces /\ l \in c[i].levels
        BY DEF Touching
      <3>2. CASE i <= p
        <4>1. i \in 1 .. p
          BY <3>1, <3>2
        <4> QED
          BY <3>1, <4>1 DEF Touching
      <3>3. CASE i > p
        <4> DEFINE j == i - p
        <4>1. j \in 1 .. n /\ i = p + j
          BY <3>1, <3>3
        <4> HIDE DEF j
        <4>2. c[i] = b[j]
          BY <4>1
        <4>3. j \in second
          BY <3>1, <4>1, <4>2 DEF Touching
        <4> QED
          BY <4>1, <4>3
      <3> QED
        BY <3>1, <3>2, <3>3
    <2>2. ASSUME NEW i \in first PROVE i \in both
      <3>1. i \in 1 .. m
        BY <1>1
      <3> QED
        BY <3>1 DEF Touching
    <2>3. ASSUME NEW j \in second PROVE p + j \in both
      <3> DEFINE i == p + j
      <3>1. /\ j \in 1 .. n /\ b[j].image = image
            /\ f \in b[j].faces /\ l \in b[j].levels
        BY DEF Touching
      <3>2. i \in 1 .. m /\ c[i] = b[j]
        BY <3>1
      <3> HIDE DEF i
      <3>3. i \in both
        BY <3>1, <3>2 DEF Touching
      <3> QED
        BY <3>3 DEF i
    <2> QED
      BY <2>1, <2>2, <2>3
  <1>3. CASE Untouched(b, n, image, f, l)
    <2>1. LayoutAfter(h, b, n, image, f, l) = LayoutAfter(g, c, p, image, f, l)
      BY <1>3, NoTouch
    <2>2. both = first
      BY <1>2, <1>3 DEF Untouched
    <2>3. CASE Untouched(c, p, image, f, l)
      <3>1. Untouched(c, m, image, f, l)
        BY <2>2, <2>3 DEF Untouched
      <3>2. LayoutAfter(g, c, m, image, f, l) = g.layouts[image][f][l]
        BY <1>1, <3>1, NoTouch
      <3>3. LayoutAfter(g, c, p, image, f, l) = g.layouts[image][f][l]
        BY <2>3, NoTouch
      <3> QED
        BY <2>1, <3>2, <3>3
    <2>4. ASSUME NEW k \in first, \A i \in first : k >= i
          PROVE  LayoutAfter(g, c, m, image, f, l) = LayoutAfter(h, b, n, image, f, l)
      <3>1. LayoutAfter(g, c, p, image, f, l) = c[k].new
        BY <2>4, LastTouch
      <3>2. LayoutAfter(g, c, m, image, f, l) = c[k].new
        BY <1>1, <2>2, <2>4, LastTouch
      <3> QED
        BY <2>1, <3>1, <3>2
    <2>5. Untouched(c, p, image, f, l) \/ \E k \in first : \A i \in first : k >= i
      BY TouchedOrNot
    <2>6. LayoutAfter(g, c, m, image, f, l) = LayoutAfter(h, b, n, image, f, l)
      BY <2>3, <2>4, <2>5
    <2> QED
      BY <2>6
  <1>4. ASSUME NEW k \in second, \A i \in second : k >= i
        PROVE  LayoutAfter(g, c, m, image, f, l) = LayoutAfter(h, b, n, image, f, l)
    <2> DEFINE j == p + k
    <2>1. LayoutAfter(h, b, n, image, f, l) = b[k].new
      BY <1>4, LastTouch
    <2>2. j \in both
      BY <1>2
    <2>3. ASSUME NEW i \in both PROVE j >= i
      <3>1. CASE i \in first
        BY <1>1, <3>1
      <3>2. ASSUME NEW q \in second, i = p + q PROVE j >= i
        BY <1>1, <1>4, <3>2
      <3> QED
        BY <1>2, <3>1, <3>2
    <2>4. c[j] = b[k]
      BY <1>1
    <2> HIDE DEF j
    <2>5. LayoutAfter(g, c, m, image, f, l) = c[j].new
      BY <1>1, <2>2, <2>3, LastTouch
    <2> QED
      BY <2>1, <2>4, <2>5
  <1>5. Untouched(b, n, image, f, l) \/ \E k \in second : \A i \in second : k >= i
    BY TouchedOrNot
  <1>6. LayoutAfter(g, c, m, image, f, l) = LayoutAfter(h, b, n, image, f, l)
    BY <1>3, <1>4, <1>5
  <1> QED
    BY <1>6

LEMMA ExecutedAre ==
    ASSUME NEW g, NEW C, NEW image \in DOMAIN g.layouts
    PROVE  LET h == ExecuteAll(g, C)
           IN  /\ h.handles = g.handles /\ DOMAIN h.layouts = DOMAIN g.layouts
               /\ DOMAIN h.layouts[image] = DOMAIN g.layouts[image]
               /\ \A f \in DOMAIN g.layouts[image] :
                     /\ DOMAIN h.layouts[image][f] = DOMAIN g.layouts[image][f]
                     /\ \A l \in DOMAIN g.layouts[image][f] :
                           h.layouts[image][f][l] = LayoutAfter(g, C, Len(C), image, f, l)
  BY DEF ExecuteAll

(* What a command finds in the first of two sequences, and in the second.  *)
LEMMA FindsFirst ==
    ASSUME NEW g, NEW a \in Seq(Commands), NEW b \in Seq(Commands),
           NEW k \in 1 .. Len(a), Finds(g, a, k)
    PROVE  Finds(g, a \o b, k)
  <1> DEFINE ab == a \o b
  <1>1. k - 1 \in Nat /\ \A i \in 1 .. k : ab[i] = a[i]
    BY ConcatProperties, LenProperties
  <1> HIDE DEF ab
  <1>2. ab[k] = a[k] /\ \A i \in 1 .. k - 1 : a[i] = ab[i]
    BY <1>1
  <1>3. \A image, f, l : LayoutAfter(g, ab, k - 1, image, f, l) = LayoutAfter(g, a, k - 1, image, f, l)
    BY <1>1, <1>2, Begun
  <1>4. Finds(g, ab, k)
    BY <1>2, <1>3 DEF Finds
  <1> QED
    BY <1>4 DEF ab

LEMMA FindsSecond ==
    ASSUME NEW g, NEW a \in Seq(Commands), NEW b \in Seq(Commands),
           NEW k \in 1 .. Len(b), b[k].image \in DOMAIN g.layouts, Finds(ExecuteAll(g, a), b, k)
    PROVE  Finds(g, a \o b, Len(a) + k)
  <1> DEFINE ab == a \o b
             p == Len(a)
             n == p + k
             h == ExecuteAll(g, a)
             image == b[k].image
  <1>1. /\ p \in Nat /\ k - 1 \in Nat /\ n - 1 = p + (k - 1) /\ n \in Nat
        /\ ab[n] = b[k] /\ \A i \in 1 .. k - 1 : ab[p + i] = b[i]
        /\ \A i \in 1 .. p : ab[i] = a[i]
    <2>1. /\ p \in Nat /\ Len(b) \in Nat
          /\ \A i \in 1 .. p + Len(b) : ab[i] = IF i <= p THEN a[i] ELSE b[i - p]
      BY ConcatProperties, LenProperties
    <2> HIDE DEF ab, p
    <2> QED
      BY <2>1
  <1>2. /\ h.handles = g.handles /\ DOMAIN h.layouts[image] = DOMAIN g.layouts[image]
        /\ \A f \in DOMAIN g.layouts[image] :
              /\ DOMAIN h.layouts[image][f] = DOMAIN g.layouts[image][f]
              /\ \A l \in DOMAIN g.layouts[image][f] :
                    h.layouts[image][f][l] = LayoutAfter(g, a, p, image, f, l)
    BY ExecutedAre
  <1>3. /\ image \in h.handles
        /\ \A f \in b[k].faces, l \in b[k].levels :
              /\ f \in DOMAIN h.layouts[image] /\ l \in DOMAIN h.layouts[image][f]
              /\ b[k].old \in {Undefined, LayoutAfter(h, b, k - 1, image, f, l)}
    BY DEF Finds
  <1> HIDE DEF ab, h, p, image
  <1>4. ASSUME NEW f \in b[k].faces, NEW l \in b[k].levels
        PROVE  /\ f \in DOMAIN g.layouts[image] /\ l \in DOMAIN g.layouts[image][f]
               /\ b[k].old \in {Undefined, LayoutAfter(g, ab, n - 1, image, f, l)}
    <2>1. f \in DOMAIN g.layouts[image] /\ l \in DOMAIN g.layouts[image][f]
      BY <1>2, <1>3, <1>4
    <2>2. h.layouts[image][f][l] = LayoutAfter(g, ab, p, image, f, l)
      <3>1. LayoutAfter(g, a, p, image, f, l) = LayoutAfter(g, ab, p, image, f, l)
        BY <1>1, Begun
      <3> QED
        BY <1>2, <2>1, <3>1
    <2> DEFINE m == k - 1
    <2> DEFINE o == n - 1
    <2>3. m \in Nat /\ o = p + m /\ \A i \in 1 .. m : ab[p + i] = b[i]
      BY <1>1
    <2> HIDE DEF m, n, o
    <2>4. LayoutAfter(g, ab, o, image, f, l) = LayoutAfter(h, b, m, image, f, l)
      <3>1. Continues(g, ab, p, h, b, m, o, image, f, l)
        BY <1>1, <2>2, <2>3 DEF Continues
      <3> QED
        BY <3>1, Continued
    <2>5. LayoutAfter(g, ab, n - 1, image, f, l) = LayoutAfter(h, b, k - 1, image, f, l)
      BY <2>4 DEF m, o
    <2> QED
      BY <1>1, <1>3, <2>1, <2>5
  <1>5. Finds(g, ab, n)
    <2> HIDE DEF n
    <2> QED
      BY <1>1, <1>2, <1>3, <1>4 DEF Finds, image
  <1> QED
    BY <1>5 DEF ab, p

LEMMA LayoutSecond ==
    ASSUME NEW g, NEW a \in Seq(Commands), NEW b \in Seq(Commands),
           NEW image \in DOMAIN g.layouts, NEW f \in DOMAIN g.layouts[image],
           NEW l \in DOMAIN g.layouts[image][f]
    PROVE  LayoutAfter(g, a \o b, Len(a \o b), image, f, l)
             = LayoutAfter(ExecuteAll(g, a), b, Len(b), image, f, l)
  <1> DEFINE ab == a \o b
             p == Len(a)
             q == Len(b)
             h == ExecuteAll(g, a)
  <1>1. /\ p \in Nat /\ q \in Nat /\ Len(ab) = p + q
        /\ \A i \in 1 .. p : ab[i] = a[i]
        /\ \A i \in 1 .. q : ab[p + i] = b[i]
    <2>1. /\ p \in Nat /\ q \in Nat /\ Len(ab) = p + q
          /\ \A i \in 1 .. p + q : ab[i] = IF i <= p THEN a[i] ELSE b[i - p]
      BY ConcatProperties, LenProperties
    <2> HIDE DEF ab, p, q
    <2> QED
      BY <2>1
  <1>2. h.layouts[image][f][l] = LayoutAfter(g, a, p, image, f, l)
    BY ExecutedAre
  <1> HIDE DEF ab, h, p, q
  <1>3. LayoutAfter(g, a, p, image, f, l) = LayoutAfter(g, ab, p, image, f, l)
    BY <1>1, Begun
  <1> DEFINE m == p + q
  <1>4. LayoutAfter(g, ab, m, image, f, l) = LayoutAfter(h, b, q, image, f, l)
    <2>1. p \in Nat /\ q \in Nat /\ m = p + q /\ \A i \in 1 .. q : ab[p + i] = b[i]
      BY <1>1
    <2>2. h.layouts[image][f][l] = LayoutAfter(g, ab, p, image, f, l)
      BY <1>2, <1>3
    <2> HIDE DEF m
    <2> QED
      <3>1. Continues(g, ab, p, h, b, q, m, image, f, l)
        BY <2>1, <2>2 DEF Continues
      <3> QED
        BY <3>1, Continued
  <1> QED
    BY <1>1, <1>4 DEF ab, h, q

-----------------------------------------------------------------------------
(***************************************************************************)
(* Sequences of commands that take the layouts of an image, of the faces F *)
(* and the levels L, from one arrangement to another.                      *)
(***************************************************************************)
Has(g, image, F, L, lay) ==
    /\ image \in g.handles /\ image \in DOMAIN g.layouts
    /\ DOMAIN g.layouts[image] = F
    /\ \A f \in F : /\ DOMAIN g.layouts[image][f] = L
                    /\ \A l \in L : g.layouts[image][f][l] = lay[f][l]

Takes(C, image, F, L, from, to) ==
    /\ C \in Seq(Commands) /\ \A k \in 1 .. Len(C) : C[k].image = image
    /\ \A g : Has(g, image, F, L, from) =>
         /\ \A k \in 1 .. Len(C) : Finds(g, C, k)
         /\ \A f \in F, l \in L : LayoutAfter(g, C, Len(C), image, f, l) = to[f][l]

Everywhere(F, L, layout) == [f \in F |-> [l \in L |-> layout]]

LEMMA TakenIs ==
    ASSUME NEW g, NEW C, NEW image, NEW F, NEW L, NEW from, NEW to,
           Has(g, image, F, L, from), Takes(C, image, F, L, from, to)
    PROVE  Has(ExecuteAll(g, C), image, F, L, to)
  <1> DEFINE h == ExecuteAll(g, C)
  <1>1. /\ h.handles = g.handles /\ DOMAIN h.layouts = DOMAIN g.layouts
        /\ DOMAIN h.layouts[image] = DOMAIN g.layouts[image]
        /\ \A f \in DOMAIN g.layouts[image] :
              /\ DOMAIN h.layouts[image][f] = DOMAIN g.layouts[image][f]
              /\ \A l \in DOMAIN g.layouts[image][f] :
                    h.layouts[image][f][l] = LayoutAfter(g, C, Len(C), image, f, l)
    BY ExecutedAre DEF Has
  <1>2. \A f \in F, l \in L : LayoutAfter(g, C, Len(C), image, f, l) = to[f][l]
    BY DEF Takes
  <1> HIDE DEF h
  <1>3. Has(h, image, F, L, to)
    BY <1>1, <1>2 DEF Has
  <1> QED
    BY <1>3 DEF h

LEMMA TakesNone ==
    ASSUME NEW image, NEW F, NEW L, NEW lay
    PROVE  Takes(<<>>, image, F, L, lay, lay)
  <1>1. <<>> \in Seq(Commands) /\ Len(<<>>) = 0
    BY EmptySeq
  <1>2. \A k \in 1 .. Len(<<>>) : FALSE
    BY <1>1
  <1>3. ASSUME NEW g, Has(g, image, F, L, lay), NEW f \in F, NEW l \in L
        PROVE  LayoutAfter(g, <<>>, Len(<<>>), image, f, l) = lay[f][l]
    <2>1. Untouched(<<>>, 0, image, f, l)
      BY DEF Untouched, Touching
    <2>2. LayoutAfter(g, <<>>, 0, image, f, l) = g.layouts[image][f][l]
      BY <2>1, NoTouch
    <2> QED
      BY <1>1, <1>3, <2>2 DEF Has
  <1> QED
    BY <1>1, <1>2, <1>3 DEF Takes

(* One command, which changes what it touches and nothing else. *)
Changed(c, F, L, from, to) ==
    \A f \in F, l \in L : to[f][l] = IF f \in c.faces /\ l \in c.levels THEN c.new ELSE from[f][l]

LEMMA TakesOne ==
    ASSUME NEW c \in Commands, NEW F, NEW L, NEW from, NEW to,
           c.faces \subseteq F, c.levels \subseteq L,
           \A f \in c.faces, l \in c.levels : c.old \in {Undefined, from[f][l]},
           Changed(c, F, L, from, to)
    PROVE  Takes(<<c>>, c.image, F, L, from, to)
  <1> DEFINE C == <<c>>
             image == c.image
  <1>1. C \in Seq(Commands) /\ Len(C) = 1 /\ C[1] = c
    OBVIOUS
  <1> HIDE DEF C
  <1>2. ASSUME NEW g, Has(g, image, F, L, from)
        PROVE  /\ Finds(g, C, 1)
               /\ \A f \in F, l \in L : LayoutAfter(g, C, 1, image, f, l) = to[f][l]
    <2>1. \A f \in F, l \in L : LayoutAfter(g, C, 0, image, f, l) = from[f][l]
      <3> SUFFICES ASSUME NEW f \in F, NEW l \in L
                   PROVE  LayoutAfter(g, C, 0, image, f, l) = from[f][l]
        OBVIOUS
      <3>1. Untouched(C, 0, image, f, l)
        BY DEF Untouched, Touching
      <3>2. LayoutAfter(g, C, 0, image, f, l) = g.layouts[image][f][l]
        BY <3>1, NoTouch
      <3> QED
        BY <1>2, <3>2 DEF Has
    <2>2. Finds(g, C, 1)
      <3>1. \A f \in c.faces, l \in c.levels : f \in F /\ l \in L
        OBVIOUS
      <3>2. \A f \in c.faces, l \in c.levels :
               c.old \in {Undefined, LayoutAfter(g, C, 0, image, f, l)}
        BY <2>1, <3>1
      <3> QED
        BY <1>1, <1>2, <3>1, <3>2 DEF Finds, Has
    <2>3. ASSUME NEW f \in F, NEW l \in L
          PROVE  LayoutAfter(g, C, 1, image, f, l) = to[f][l]
      <3>1. CASE f \in c.faces /\ l \in c.levels
        <4>1. 1 \in Touching(C, 1, image, f, l)
          BY <1>1, <3>1 DEF Touching
        <4>2. \A i \in Touching(C, 1, image, f, l) : 1 >= i
          BY DEF Touching
        <4>3. LayoutAfter(g, C, 1, image, f, l) = C[1].new
          BY <4>1, <4>2, LastTouch
        <4> QED
          BY <1>1, <3>1, <4>3 DEF Changed
      <3>2. CASE ~(f \in c.faces /\ l \in c.levels)
        <4>1. to[f][l] = from[f][l]
          BY <3>2 DEF Changed
        <4>2. Untouched(C, 1, image, f, l)
          BY <1>1, <3>2 DEF Untouched, Touching
        <4>3. LayoutAfter(g, C, 1, image, f, l) = g.layouts[image][f][l]
          BY <4>2, NoTouch
        <4> QED
          BY <1>2, <4>1, <4>3 DEF Has
      <3> QED
        BY <3>1, <3>2
    <2> QED
      BY <2>2, <2>3
  <1>3. Takes(C, image, F, L, from, to)
    BY <1>1, <1>2 DEF Takes
  <1> QED
    BY <1>3 DEF C

LEMMA TakesBoth ==
    ASSUME NEW a, NEW b, NEW image, NEW F, NEW L, NEW from, NEW between, NEW to,
           Takes(a, image, F, L, from, between), Takes(b, image, F, L, between, to)
    PROVE  Takes(a \o b, image, F, L, from, to)
  <1> DEFINE ab == a \o b
  <1>1. a \in Seq(Commands) /\ b \in Seq(Commands)
    BY DEF Takes
  <1>2. /\ ab \in Seq(Commands) /\ Len(a) \in Nat /\ Len(b) \in Nat
        /\ Len(ab) = Len(a) + Len(b)
        /\ \A i \in 1 .. Len(ab) : ab[i] = IF i <= Len(a) THEN a[i] ELSE b[i - Len(a)]
    BY <1>1, ConcatProperties, LenProperties
  <1>3. ASSUME NEW k \in 1 .. Len(ab) PROVE k \in 1 .. Len(a) \/ k - Len(a) \in 1 .. Len(b)
    BY <1>2
  <1> HIDE DEF ab
  <1>4. \A k \in 1 .. Len(ab) : ab[k].image = image
    <2>1. /\ \A k \in 1 .. Len(a) : a[k].image = image
          /\ \A k \in 1 .. Len(b) : b[k].image = image
      BY DEF Takes
    <2>2. ASSUME NEW k \in 1 .. Len(ab) PROVE ab[k].image = image
      <3>1. CASE k \in 1 .. Len(a)
        <4>1. ab[k] = a[k]
          BY <1>2, <3>1
        <4> QED
          BY <2>1, <3>1, <4>1
      <3>2. CASE k \notin 1 .. Len(a)
        <4>1. ab[k] = b[k - Len(a)] /\ k - Len(a) \in 1 .. Len(b)
          BY <1>2, <1>3, <3>2
        <4> QED
          BY <2>1, <4>1
      <3> QED
        BY <3>1, <3>2
    <2> QED
      BY <2>2
  <1>5. ASSUME NEW g, Has(g, image, F, L, from)
        PROVE  /\ \A k \in 1 .. Len(ab) : Finds(g, ab, k)
               /\ \A f \in F, l \in L : LayoutAfter(g, ab, Len(ab), image, f, l) = to[f][l]
    <2> DEFINE h == ExecuteAll(g, a)
    <2>1. Has(h, image, F, L, between)
      BY <1>5, TakenIs
    <2> HIDE DEF h
    <2>2. ASSUME NEW k \in 1 .. Len(ab) PROVE Finds(g, ab, k)
      <3>1. CASE k \in 1 .. Len(a)
        <4>1. Finds(g, a, k)
          BY <1>5, <3>1 DEF Takes
        <4> QED
          BY <1>1, <3>1, <4>1, FindsFirst DEF ab
      <3>2. CASE k - Len(a) \in 1 .. Len(b)
        <4> DEFINE j == k - Len(a)
        <4>1. Finds(h, b, j) /\ b[j].image = image
          BY <2>1, <3>2 DEF Takes
        <4>2. image \in DOMAIN g.layouts /\ j \in 1 .. Len(b)
          BY <1>5, <3>2 DEF Has
        <4>3. k = Len(a) + j
          BY <1>2
        <4> HIDE DEF j
        <4>4. Finds(g, ab, Len(a) + j)
          BY <1>1, <4>1, <4>2, FindsSecond DEF ab, h
        <4> QED
          BY <4>3, <4>4
      <3> QED
        BY <1>3, <3>1, <3>2
    <2>3. ASSUME NEW f \in F, NEW l \in L
          PROVE  LayoutAfter(g, ab, Len(ab), image, f, l) = to[f][l]
      <3>1. LayoutAfter(h, b, Len(b), image, f, l) = to[f][l]
        BY <2>1 DEF Takes
      <3>2. /\ image \in DOMAIN g.layouts /\ f \in DOMAIN g.layouts[image]
            /\ l \in DOMAIN g.layouts[image][f]
        BY <1>5 DEF Has
      <3>3. LayoutAfter(g, ab, Len(ab), image, f, l) = LayoutAfter(h, b, Len(b), image, f, l)
        BY <1>1, <3>2, LayoutSecond DEF ab, h
      <3> QED
        BY <3>1, <3>3
    <2> QED
      BY <2>2, <2>3
  <1>6. Takes(ab, image, F, L, from, to)
    BY <1>2, <1>4, <1>5 DEF Takes
  <1> QED
    BY <1>6 DEF ab

(* Commands that use an image in the layout it has. *)
LEMMA TakesUses ==
    ASSUME NEW C \in Seq(Commands), NEW image, NEW F, NEW L, NEW layout, NEW lay,
           \A f \in F, l \in L : lay[f][l] = layout,
           \A k \in 1 .. Len(C) :
               /\ C[k].image = image /\ C[k].faces \subseteq F /\ C[k].levels \subseteq L
               /\ C[k].old = layout /\ C[k].new = layout
    PROVE  Takes(C, image, F, L, lay, lay)
  <1>1. Len(C) \in Nat
    BY LenProperties
  <1>2. ASSUME NEW g, Has(g, image, F, L, lay), NEW n \in 0 .. Len(C), NEW f \in F, NEW l \in L
        PROVE  LayoutAfter(g, C, n, image, f, l) = lay[f][l]
    <2>1. n \in Nat
      BY <1>1
    <2>2. CASE Untouched(C, n, image, f, l)
      <3>1. LayoutAfter(g, C, n, image, f, l) = g.layouts[image][f][l]
        BY <2>1, <2>2, NoTouch
      <3> QED
        BY <1>2, <3>1 DEF Has
    <2>3. ASSUME NEW k \in Touching(C, n, image, f, l),
                 \A i \in Touching(C, n, image, f, l) : k >= i
          PROVE  LayoutAfter(g, C, n, image, f, l) = lay[f][l]
      <3>1. LayoutAfter(g, C, n, image, f, l) = C[k].new
        BY <2>1, <2>3, LastTouch
      <3>2. k \in 1 .. Len(C)
        BY <1>1 DEF Touching
      <3> QED
        BY <3>1, <3>2
    <2> QED
      BY <2>1, <2>2, <2>3, TouchedOrNot
  <1>3. ASSUME NEW g, Has(g, image, F, L, lay), NEW k \in 1 .. Len(C)
        PROVE  Finds(g, C, k)
    <2>1. k - 1 \in 0 .. Len(C)
      BY <1>1
    <2>2. \A f \in F, l \in L : LayoutAfter(g, C, k - 1, image, f, l) = lay[f][l]
      BY <1>2, <1>3, <2>1
    <2>3. \A f \in C[k].faces, l \in C[k].levels : f \in F /\ l \in L
      BY <1>3
    <2> QED
      BY <1>3, <2>2, <2>3 DEF Finds, Has
  <1>4. Len(C) \in 0 .. Len(C)
    BY <1>1
  <1> QED
    BY <1>2, <1>3, <1>4 DEF Takes

(***************************************************************************)
(* Sequences of commands one after the other.                              *)
(***************************************************************************)
LEMMA Quotient ==
    ASSUME NEW n \in Nat, NEW q \in Nat, NEW r \in 0 .. n - 1
    PROVE  (q * n + r) \div n = q /\ (q * n + r) % n = r
  <1> DEFINE x == q * n + r
             d == x \div n
             m == x % n
  <1>1. x \in Nat /\ n > 0 /\ q * n \in Nat
    OBVIOUS
  <1>2. d \in Nat /\ m \in 0 .. n - 1 /\ x = d * n + m
    <2> HIDE DEF x
    <2> QED
      BY <1>1
  <1> HIDE DEF d, m
  <1>3. x = q * n + r
    OBVIOUS
  <1> HIDE DEF x
  <1>4. d = q
    <2>1. CASE d > q
      <3>1. d * n >= (q + 1) * n
        BY <1>1, <1>2, <2>1
      <3>2. (q + 1) * n = q * n + n
        OBVIOUS
      <3> QED
        BY <1>1, <1>2, <1>3, <3>1, <3>2
    <2>2. CASE d < q
      <3>1. q * n >= (d + 1) * n
        BY <1>1, <1>2, <2>2
      <3>2. (d + 1) * n = d * n + n
        BY <1>2
      <3> QED
        BY <1>1, <1>2, <1>3, <3>1, <3>2
    <2> QED
      BY <1>2, <2>1, <2>2
  <1>5. m = r
    BY <1>1, <1>2, <1>3, <1>4
  <1> QED
    BY <1>4, <1>5 DEF d, m, x

(* The place of an element in its block. *)
LEMMA Place ==
    ASSUME NEW N \in Nat, NEW n \in Nat \ {0}, NEW k \in 1 .. N * n
    PROVE  \E q \in 0 .. N - 1, r \in 0 .. n - 1 :
              k - 1 = q * n + r /\ (k - 1) \div n = q /\ (k - 1) % n = r
  <1> DEFINE x == k - 1
             q == x \div n
             r == x % n
  <1>1. x \in Nat /\ N * n \in Nat /\ x < N * n
    OBVIOUS
  <1> HIDE DEF x
  <1>2. q \in Nat /\ r \in 0 .. n - 1 /\ x = q * n + r
    BY <1>1
  <1> HIDE DEF q, r
  <1>3. q < N
    <2> SUFFICES ASSUME q >= N PROVE FALSE
      BY <1>2
    <2>1. q * n >= N * n
      BY <1>2
    <2> QED
      BY <1>1, <1>2, <2>1
  <1> QED
    BY <1>2, <1>3 DEF q, r, x

Blocks(n) == {s \in Seq(Commands) : Len(s) = n}

LEMMA InTurnIs ==
    ASSUME NEW n \in Nat \ {0}, NEW blocks, NEW N \in Nat,
           blocks \in Seq(Blocks(n)), Len(blocks) = N
    PROVE  /\ InTurn(blocks, n) \in Seq(Commands) /\ Len(InTurn(blocks, n)) = N * n
           /\ \A q \in 0 .. N - 1, r \in 0 .. n - 1 :
                 /\ q * n + r + 1 \in 1 .. N * n
                 /\ InTurn(blocks, n)[q * n + r + 1] = blocks[q + 1][1 + r]
  <1> DEFINE C == InTurn(blocks, n)
  <1>1. N * n \in Nat /\ C = [k \in 1 .. N * n |-> blocks[(k - 1) \div n + 1][1 + ((k - 1) % n)]]
    BY DEF InTurn
  <1>2. ASSUME NEW q \in 0 .. N - 1, NEW r \in 0 .. n - 1
        PROVE  blocks[q + 1][1 + r] \in Commands
    <2>1. blocks[q + 1] \in Blocks(n)
      BY ElementOfSeq
    <2>2. blocks[q + 1] \in Seq(Commands) /\ Len(blocks[q + 1]) = n
      BY <2>1 DEF Blocks
    <2> QED
      BY <2>2, ElementOfSeq
  <1>3. ASSUME NEW k \in 1 .. N * n PROVE C[k] \in Commands
    <2>1. PICK q \in 0 .. N - 1, r \in 0 .. n - 1 :
               k - 1 = q * n + r /\ (k - 1) \div n = q /\ (k - 1) % n = r
      BY Place
    <2>2. C[k] = blocks[(k - 1) \div n + 1][1 + ((k - 1) % n)]
      BY <1>1
    <2> HIDE DEF C
    <2> QED
      BY <1>2, <2>1, <2>2
  <1>4. ASSUME NEW q \in 0 .. N - 1, NEW r \in 0 .. n - 1
        PROVE  /\ q * n + r + 1 \in 1 .. N * n
               /\ C[q * n + r + 1] = blocks[q + 1][1 + r]
    <2> DEFINE k == q * n + r + 1
    <2>1. q \in Nat /\ n \in Nat /\ q * n \in Nat
      OBVIOUS
    <2>2. k \in 1 .. N * n
      <3>1. (q + 1) * n <= N * n
        BY <2>1
      <3>2. (q + 1) * n = q * n + n
        BY <2>1
      <3> QED
        BY <2>1, <3>1, <3>2
    <2>3. k - 1 = q * n + r
      BY <2>1
    <2>4. (q * n + r) \div n = q /\ (q * n + r) % n = r
      BY <2>1, Quotient
    <2> HIDE DEF k, C
    <2>5. C[k] = blocks[(k - 1) \div n + 1][1 + ((k - 1) % n)]
      BY <1>1, <2>2
    <2>6. C[k] = blocks[q + 1][1 + r]
      BY <2>3, <2>4, <2>5
    <2> QED
      BY <2>2, <2>6 DEF k
  <1>5. C \in Seq(Commands) /\ Len(C) = N * n
    <2>1. C \in [1 .. N * n -> Commands]
      <3>1. DOMAIN C = 1 .. N * n
        BY <1>1
      <3> HIDE DEF C
      <3> QED
        BY <1>1, <1>3, <3>1
    <2> DEFINE M == N * n
    <2>2. M \in Nat /\ C \in [1 .. M -> Commands]
      BY <1>1, <2>1
    <2> HIDE DEF C, M
    <2>3. C \in Seq(Commands) /\ Len(C) = M
      BY <2>2
    <2> QED
      BY <2>3 DEF M
  <1> QED
    BY <1>4, <1>5

Turned(C, blocks, n) ==
    /\ C \in Seq(Commands) /\ Len(C) = Len(blocks) * n
    /\ \A q \in 0 .. Len(blocks) - 1, r \in 0 .. n - 1 : C[q * n + r + 1] = blocks[q + 1][1 + r]

LEMMA InTurnTurned ==
    ASSUME NEW n, NEW blocks, n \in Nat \ {0}, blocks \in Seq(Blocks(n))
    PROVE  Turned(InTurn(blocks, n), blocks, n)
  <1> DEFINE N == Len(blocks)
             C == InTurn(blocks, n)
  <1>1. N \in Nat
    BY LenProperties
  <1>2. /\ C \in Seq(Commands) /\ Len(C) = N * n
        /\ \A q \in 0 .. N - 1, r \in 0 .. n - 1 :
              /\ q * n + r + 1 \in 1 .. N * n
              /\ C[q * n + r + 1] = blocks[q + 1][1 + r]
    BY <1>1, InTurnIs
  <1> HIDE DEF C
  <1> QED
    BY <1>2 DEF Turned, C

(* With one block more, they are those of before and the block. *)
First(blocks, k) == [i \in 1 .. k |-> blocks[i]]

LEMMA FirstIs ==
    ASSUME NEW S, NEW blocks \in Seq(S), NEW k \in 0 .. Len(blocks)
    PROVE  /\ First(blocks, k) \in Seq(S) /\ Len(First(blocks, k)) = k
           /\ \A i \in 1 .. k : First(blocks, k)[i] = blocks[i]
  <1> DEFINE p == First(blocks, k)
  <1>1. k \in Nat /\ \A i \in 1 .. k : blocks[i] \in S
    BY LenProperties, ElementOfSeq
  <1>2. p \in [1 .. k -> S]
    BY <1>1 DEF First
  <1>3. \A i \in 1 .. k : p[i] = blocks[i]
    BY DEF First
  <1> HIDE DEF p
  <1>4. p \in Seq(S) /\ Len(p) = k
    BY <1>1, <1>2
  <1> QED
    BY <1>3, <1>4 DEF p

LEMMA InTurnMore ==
    ASSUME NEW n \in Nat \ {0}, NEW blocks \in Seq(Blocks(n)), NEW k \in 1 .. Len(blocks)
    PROVE  InTurn(First(blocks, k), n) = InTurn(First(blocks, k - 1), n) \o blocks[k]
  <1> DEFINE N == k - 1
             a == First(blocks, N)
             c == First(blocks, k)
             A == InTurn(a, n)
             C == InTurn(c, n)
             s == blocks[k]
             AB == A \o s
             m == N * n
  <1>1. /\ N \in Nat /\ k = N + 1 /\ k \in Nat /\ N \in 0 .. Len(blocks) /\ k \in 0 .. Len(blocks)
        /\ m \in Nat /\ k * n = m + n /\ k * n \in Nat
    <2>1. N \in Nat /\ Len(blocks) \in Nat /\ k = N + 1
      BY LenProperties
    <2> QED
      BY <2>1
  <1>2. /\ a \in Seq(Blocks(n)) /\ Len(a) = N /\ \A i \in 1 .. N : a[i] = blocks[i]
        /\ c \in Seq(Blocks(n)) /\ Len(c) = k /\ \A i \in 1 .. k : c[i] = blocks[i]
    <2> HIDE DEF N
    <2> QED
      BY <1>1, FirstIs
  <1>3. s \in Seq(Commands) /\ Len(s) = n
    <2>1. s \in Blocks(n)
      BY ElementOfSeq
    <2> QED
      BY <2>1 DEF Blocks
  <1> HIDE DEF a, c, s
  <1>4. /\ A \in Seq(Commands) /\ Len(A) = N * n
        /\ \A q \in 0 .. N - 1, r \in 0 .. n - 1 : A[q * n + r + 1] = a[q + 1][1 + r]
    <2>1. Turned(A, a, n)
      BY <1>2, InTurnTurned
    <2> HIDE DEF A
    <2> QED
      BY <1>2, <2>1 DEF Turned
  <1>5. /\ C \in Seq(Commands) /\ Len(C) = k * n
        /\ \A q \in 0 .. k - 1, r \in 0 .. n - 1 : C[q * n + r + 1] = c[q + 1][1 + r]
    <2>1. Turned(C, c, n)
      BY <1>2, InTurnTurned
    <2> HIDE DEF C
    <2> QED
      BY <1>2, <2>1 DEF Turned
  <1> HIDE DEF A, C
  <1>6. /\ AB \in Seq(Commands) /\ Len(AB) = m + n
        /\ \A i \in 1 .. m + n : AB[i] = IF i <= m THEN A[i] ELSE s[i - m]
    <2>1. A \in Seq(Commands) /\ Len(A) = m
      BY <1>4
    <2> HIDE DEF m
    <2>2. /\ AB \in Seq(Commands) /\ Len(AB) = Len(A) + Len(s)
          /\ \A i \in 1 .. Len(A) + Len(s) : AB[i] = IF i <= Len(A) THEN A[i] ELSE s[i - Len(A)]
      BY <1>3, <2>1, ConcatProperties
    <2> HIDE DEF AB
    <2> QED
      BY <1>3, <2>1, <2>2
  <1> HIDE DEF AB
  <1>7. ASSUME NEW i \in 1 .. k * n PROVE C[i] = AB[i]
    <2>1. PICK q \in 0 .. k - 1, r \in 0 .. n - 1 :
             i - 1 = q * n + r /\ (i - 1) \div n = q /\ (i - 1) % n = r
      BY <1>1, Place
    <2>2. /\ q \in Nat /\ r \in Nat /\ q * n \in Nat /\ q * n + r + 1 = i
          /\ q + 1 \in 1 .. k
      BY <1>1, <2>1
    <2>3. C[i] = blocks[q + 1][1 + r]
      <3>1. C[q * n + r + 1] = c[q + 1][1 + r]
        BY <1>5
      <3>2. c[q + 1] = blocks[q + 1]
        BY <1>2, <2>2
      <3> QED
        BY <2>2, <3>1, <3>2
    <2>4. CASE q < N
      <3>1. q \in 0 .. N - 1 /\ q + 1 \in 1 .. N
        BY <1>1, <2>2, <2>4
      <3>2. A[q * n + r + 1] = a[q + 1][1 + r]
        BY <1>4, <3>1
      <3>3. a[q + 1] = blocks[q + 1]
        BY <1>2, <3>1
      <3>4. i <= m
        <4>1. (q + 1) * n <= N * n
          BY <1>1, <2>2, <2>4
        <4>2. (q + 1) * n = q * n + n
          BY <2>2
        <4> HIDE DEF N
        <4> QED
          BY <1>1, <2>1, <2>2, <4>1, <4>2
      <3>5. AB[i] = A[i]
        BY <1>1, <1>6, <3>4
      <3> QED
        BY <2>2, <2>3, <3>2, <3>3, <3>5
    <2>5. CASE q = N
      <3>1. i - m = r + 1 /\ ~(i <= m) /\ i \in 1 .. m + n
        BY <1>1, <2>1, <2>2, <2>5
      <3>2. AB[i] = s[r + 1]
        BY <1>6, <3>1
      <3>3. s = blocks[q + 1]
        BY <1>1, <2>5 DEF s
      <3> QED
        BY <2>2, <2>3, <3>2, <3>3
    <2> QED
      BY <1>1, <2>2, <2>4, <2>5
  <1>8. C = AB
    <2>1. Len(C) = Len(AB) /\ Len(C) = k * n
      BY <1>1, <1>5, <1>6
    <2>2. \A i \in 1 .. Len(C) : C[i] = AB[i]
      BY <1>7, <2>1
    <2> HIDE DEF m
    <2> QED
      BY <1>5, <1>6, <2>1, <2>2, SeqEqual
  <1> QED
    BY <1>8 DEF C, AB, A, a, c, s

(* By induction over the number of blocks: there is no first one at which  *)
(* the image is not where it should be.                                    *)
Stages(blocks, image, F, L, stage) ==
    \A k \in 1 .. Len(blocks) : Takes(blocks[k], image, F, L, stage[k - 1], stage[k])

LEMMA TakesInTurn ==
    ASSUME NEW n, NEW blocks, n \in Nat \ {0}, blocks \in Seq(Blocks(n)),
           NEW image, NEW F, NEW L, NEW stage, Stages(blocks, image, F, L, stage)
    PROVE  Takes(InTurn(blocks, n), image, F, L, stage[0], stage[Len(blocks)])
  <1> DEFINE N == Len(blocks)
             Good(k) == Takes(InTurn(First(blocks, k), n), image, F, L, stage[0], stage[k])
             bad == {k \in 0 .. N : ~Good(k)}
  <1>1. N \in Nat
    BY LenProperties
  <1>2. Good(0)
    <2> DEFINE b == First(blocks, 0)
               C == InTurn(b, n)
    <2>1. b \in Seq(Blocks(n)) /\ Len(b) = 0
      BY <1>1, FirstIs
    <2> HIDE DEF b
    <2>2. C \in Seq(Commands) /\ Len(C) = 0 * n
      BY <2>1, InTurnIs
    <2> HIDE DEF C
    <2>3. Len(C) = 0
      BY <2>2
    <2>4. C = <<>>
      BY <2>2, <2>3, EmptySeq
    <2> QED
      BY <2>4, TakesNone DEF C, b
  <1>3. ASSUME NEW k \in 1 .. N, Good(k - 1) PROVE Good(k)
    <2>1. Takes(blocks[k], image, F, L, stage[k - 1], stage[k])
      BY DEF Stages
    <2>2. InTurn(First(blocks, k), n) = InTurn(First(blocks, k - 1), n) \o blocks[k]
      BY <1>1, InTurnMore
    <2> QED
      BY <1>3, <2>1, <2>2, TakesBoth
  <1> HIDE DEF Good
  <1>4. ~(bad # {})
    <2> SUFFICES ASSUME bad # {} PROVE FALSE
      OBVIOUS
    <2>1. bad \subseteq Nat
      BY <1>1
    <2>2. PICK k \in bad : \A j \in bad : k <= j
      BY <2>1, LeastNumber
    <2>3. k \in 1 .. N /\ k - 1 \in 0 .. N /\ ~(k <= k - 1)
      BY <1>1, <1>2, <2>1, <2>2
    <2>4. k - 1 \notin bad
      BY <2>2, <2>3
    <2> QED
      BY <1>3, <2>2, <2>3, <2>4
  <1>5. Good(N)
    BY <1>1, <1>4
  <1>6. First(blocks, N) = blocks
    <2>1. First(blocks, N) \in Seq(Blocks(n)) /\ Len(First(blocks, N)) = N
          /\ \A i \in 1 .. N : First(blocks, N)[i] = blocks[i]
      <3> HIDE DEF N
      <3>1. N \in 0 .. Len(blocks)
        BY <1>1 DEF N
      <3> QED
        BY <3>1, FirstIs
    <2> QED
      BY <2>1, SeqEqual
  <1> QED
    BY <1>5, <1>6 DEF Good

-----------------------------------------------------------------------------
(***************************************************************************)
(* Mip levels.                                                             *)
(***************************************************************************)
LEMMA CommandIs ==
    ASSUME NEW image \in Images \cup {None}, NEW F \in SUBSET Nat, NEW L \in SUBSET Nat,
           NEW old \in ImageLayouts, NEW new \in ImageLayouts
    PROVE  LET c == Command(image, F, L, old, new)
           IN  /\ c \in Commands /\ c.image = image /\ c.faces = F /\ c.levels = L
               /\ c.old = old /\ c.new = new
  BY DEF Command, Commands

(* A command of one place, ... *)
LEMMA TakesThis ==
    ASSUME NEW image \in Images, NEW A \in SUBSET Nat, NEW B \in SUBSET Nat,
           NEW old \in ImageLayouts, NEW new \in ImageLayouts,
           NEW F, NEW L, NEW from, NEW to, A \subseteq F, B \subseteq L,
           old = Undefined \/ \A f \in A, l \in B : from[f][l] = old,
           \A f \in F, l \in L : to[f][l] = IF f \in A /\ l \in B THEN new ELSE from[f][l]
    PROVE  Takes(<<Command(image, A, B, old, new)>>, image, F, L, from, to)
  <1> DEFINE c == Command(image, A, B, old, new)
  <1>1. /\ c \in Commands /\ c.image = image /\ c.faces = A /\ c.levels = B
        /\ c.old = old /\ c.new = new
    BY CommandIs
  <1> HIDE DEF c
  <1>2. Changed(c, F, L, from, to)
    BY <1>1 DEF Changed
  <1>3. Takes(<<c>>, c.image, F, L, from, to)
    BY <1>1, <1>2, TakesOne
  <1> QED
    BY <1>1, <1>3 DEF c

Joins(a, b, c, d) ==
    /\ <<a>> \o <<b>> = <<a, b>> /\ <<a, b>> \o <<c>> = <<a, b, c>>
    /\ <<a, b, c>> \o <<d>> = <<a, b, c, d>>

LEMMA Joined ==
    ASSUME NEW S, NEW a, NEW b, NEW c, NEW d, {a, b, c, d} \subseteq S
    PROVE  Joins(a, b, c, d)
  <1>1. /\ <<a>> \in Seq(S) /\ <<b>> \in Seq(S) /\ <<c>> \in Seq(S) /\ <<d>> \in Seq(S)
        /\ <<a, b>> \in Seq(S) /\ <<a, b, c>> \in Seq(S) /\ <<a, b, c, d>> \in Seq(S)
    OBVIOUS
  <1>2. /\ Len(<<a>>) = 1 /\ Len(<<b>>) = 1 /\ Len(<<c>>) = 1 /\ Len(<<d>>) = 1
        /\ Len(<<a, b>>) = 2 /\ Len(<<a, b, c>>) = 3 /\ Len(<<a, b, c, d>>) = 4
    OBVIOUS
  <1>3. <<a>> \o <<b>> = <<a, b>>
    <2>1. Len(<<a>> \o <<b>>) = 2 /\ <<a>> \o <<b>> \in Seq(S)
      BY <1>1, <1>2, ConcatProperties
    <2>2. \A i \in 1 .. 2 : (<<a>> \o <<b>>)[i] = <<a, b>>[i]
      BY <1>1, <1>2, ConcatProperties
    <2> QED
      BY <1>1, <1>2, <2>1, <2>2, SeqEqual
  <1>4. <<a, b>> \o <<c>> = <<a, b, c>>
    <2>1. Len(<<a, b>> \o <<c>>) = 3 /\ <<a, b>> \o <<c>> \in Seq(S)
      BY <1>1, <1>2, ConcatProperties
    <2>2. \A i \in 1 .. 3 : (<<a, b>> \o <<c>>)[i] = <<a, b, c>>[i]
      BY <1>1, <1>2, ConcatProperties
    <2> QED
      BY <1>1, <1>2, <2>1, <2>2, SeqEqual
  <1>5. <<a, b, c>> \o <<d>> = <<a, b, c, d>>
    <2>1. Len(<<a, b, c>> \o <<d>>) = 4 /\ <<a, b, c>> \o <<d>> \in Seq(S)
      BY <1>1, <1>2, ConcatProperties
    <2>2. \A i \in 1 .. 4 : (<<a, b, c>> \o <<d>>)[i] = <<a, b, c, d>>[i]
      BY <1>1, <1>2, ConcatProperties
    <2> QED
      BY <1>1, <1>2, <2>1, <2>2, SeqEqual
  <1> QED
    BY <1>3, <1>4, <1>5 DEF Joins

(* ... of one level. *)
Halved(from, to, F, L, f, n) ==
    /\ f \in F /\ {n, n + 1} \subseteq L /\ from[f][n] = Dst /\ from[f][n + 1] = Dst
    /\ \A g \in F, l \in L : to[g][l] = IF g = f /\ l = n THEN ShaderRead ELSE from[g][l]

LEMMA HalvingTakes ==
    ASSUME NEW image \in Images, NEW F \in SUBSET Nat, NEW L \in SUBSET Nat,
           NEW f, NEW n, NEW from, NEW to, Halved(from, to, F, L, f, n)
    PROVE  /\ Halving(image, f, n) \in Blocks(4)
           /\ Takes(Halving(image, f, n), image, F, L, from, to)
  <1> DEFINE c1 == Command(image, {f}, {n}, Dst, Src)
             c2 == Command(image, {f}, {n}, Src, Src)
             c3 == Command(image, {f}, {n + 1}, Dst, Dst)
             c4 == Command(image, {f}, {n}, Src, ShaderRead)
             between == [g \in F |-> [l \in L |-> IF g = f /\ l = n THEN Src ELSE from[g][l]]]
  <1>1. /\ {f} \in SUBSET Nat /\ {n} \in SUBSET Nat /\ {n + 1} \in SUBSET Nat
        /\ {f} \subseteq F /\ {n} \subseteq L /\ {n + 1} \subseteq L /\ n \in Nat /\ n + 1 # n
        /\ from[f][n] = Dst /\ from[f][n + 1] = Dst
        /\ \A g \in F, l \in L : to[g][l] = IF g = f /\ l = n THEN ShaderRead ELSE from[g][l]
    <2>1. f \in F /\ n \in L /\ n + 1 \in L
      BY DEF Halved
    <2>2. f \in Nat /\ n \in Nat
      BY <2>1
    <2> QED
      BY <2>1, <2>2 DEF Halved
  <1>2. Dst \in ImageLayouts /\ Src \in ImageLayouts /\ ShaderRead \in ImageLayouts
    BY DEF ImageLayouts
  <1>3. Takes(<<c1>>, image, F, L, from, between)
    BY <1>1, <1>2, TakesThis
  <1>4. Takes(<<c2>>, image, F, L, between, between)
    BY <1>1, <1>2, TakesThis
  <1>5. Takes(<<c3>>, image, F, L, between, between)
    BY <1>1, <1>2, TakesThis
  <1>6. Takes(<<c4>>, image, F, L, between, to)
    BY <1>1, <1>2, TakesThis
  <1>7. c1 \in Commands /\ c2 \in Commands /\ c3 \in Commands /\ c4 \in Commands
    BY <1>1, <1>2, CommandIs
  <1>8. Halving(image, f, n) = <<c1, c2, c3, c4>>
    BY DEF Halving, Use
  <1> HIDE DEF c1, c2, c3, c4, between
  <1>9. Takes(<<c1>> \o <<c2>> \o <<c3>> \o <<c4>>, image, F, L, from, to)
    <2>1. Takes(<<c1>> \o <<c2>>, image, F, L, from, between)
      BY <1>3, <1>4, TakesBoth
    <2>2. Takes((<<c1>> \o <<c2>>) \o <<c3>>, image, F, L, from, between)
      BY <1>5, <2>1, TakesBoth
    <2> QED
      BY <1>6, <2>2, TakesBoth
  <1>10. <<c1>> \o <<c2>> \o <<c3>> \o <<c4>> = <<c1, c2, c3, c4>>
    <2>1. Joins(c1, c2, c3, c4)
      <3>1. {c1, c2, c3, c4} \subseteq Commands
        BY <1>7
      <3> QED
        BY <3>1, Joined
    <2> QED
      BY <2>1, Zenon DEF Joins
  <1>11. <<c1, c2, c3, c4>> \in Blocks(4)
    BY <1>7 DEF Blocks
  <1> QED
    BY <1>8, <1>9, <1>10, <1>11

SamePlaces(F, L, a, b) == \A f \in F, l \in L : a[f][l] = b[f][l]

LEMMA TakesAlike ==
    ASSUME NEW C, NEW image, NEW F, NEW L, NEW from, NEW to, NEW from2, NEW to2,
           Takes(C, image, F, L, from, to),
           SamePlaces(F, L, from, from2), SamePlaces(F, L, to, to2)
    PROVE  Takes(C, image, F, L, from2, to2)
  <1>1. \A g : Has(g, image, F, L, from2) => Has(g, image, F, L, from)
    BY DEF Has, SamePlaces
  <1> QED
    BY <1>1 DEF Takes, SamePlaces

(* The mips of one face. *)
Mipped(from, to, F, L, f) ==
    /\ f \in F /\ \A l \in L : from[f][l] = Dst
    /\ \A g \in F, l \in L : to[g][l] = IF g = f THEN ShaderRead ELSE from[g][l]

LEMMA MipsTake ==
    ASSUME NEW image \in Images, NEW F \in SUBSET Nat, NEW f, NEW levels \in Nat \ {0},
           NEW from, NEW to, Mipped(from, to, F, Range0(levels), f)
    PROVE  /\ MipCommands(image, f, levels) \in Blocks(4 * levels - 3)
           /\ Takes(MipCommands(image, f, levels), image, F, Range0(levels), from, to)
  <1> DEFINE L == Range0(levels)
             N == levels - 1
             blocks == [l \in 1 .. N |-> Halving(image, f, l - 1)]
             stage == [n \in 0 .. N |->
                          [g \in F |-> [l \in L |-> IF g = f /\ l < n THEN ShaderRead ELSE from[g][l]]]]
             C == InTurn(blocks, 4)
             last == Command(image, {f}, {N}, Dst, ShaderRead)
  <1>1. N \in Nat /\ L = 0 .. N /\ L \in SUBSET Nat
    BY DEF Range0
  <1>2. /\ f \in F /\ f \in Nat /\ \A l \in L : from[f][l] = Dst
        /\ \A g \in F, l \in L : to[g][l] = IF g = f THEN ShaderRead ELSE from[g][l]
    BY DEF Mipped
  <1>3. ASSUME NEW k \in 1 .. N
        PROVE  /\ blocks[k] \in Blocks(4)
               /\ Takes(blocks[k], image, F, L, stage[k - 1], stage[k])
    <2> DEFINE n == k - 1
               before == stage[n]
               after == stage[k]
    <2>1. n \in L /\ n + 1 \in L /\ n \in Nat /\ n \in 0 .. N /\ k \in 0 .. N /\ k = n + 1
      BY <1>1
    <2>2. before[f][n] = Dst /\ before[f][n + 1] = Dst
      BY <1>2, <2>1
    <2>3. \A g \in F, l \in L : after[g][l] = IF g = f /\ l = n THEN ShaderRead ELSE before[g][l]
      <3> SUFFICES ASSUME NEW g \in F, NEW l \in L
                   PROVE  after[g][l] = IF g = f /\ l = n THEN ShaderRead ELSE before[g][l]
        OBVIOUS
      <3>1. /\ after[g][l] = IF g = f /\ l < k THEN ShaderRead ELSE from[g][l]
            /\ before[g][l] = IF g = f /\ l < n THEN ShaderRead ELSE from[g][l]
        BY <2>1
      <3>2. l \in Nat
        BY <1>1
      <3> HIDE DEF before, after
      <3> QED
        BY <2>1, <3>1, <3>2
    <2> HIDE DEF before, after
    <2>4. /\ Halving(image, f, n) \in Blocks(4)
          /\ Takes(Halving(image, f, n), image, F, L, before, after)
      <3>1. Halved(before, after, F, L, f, n)
        BY <1>2, <2>1, <2>2, <2>3 DEF Halved
      <3> HIDE DEF n, L
      <3> QED
        BY <1>1, <3>1, HalvingTakes
    <2>5. blocks[k] = Halving(image, f, n)
      OBVIOUS
    <2> QED
      BY <2>4, <2>5 DEF before, after
  <1>4. blocks \in Seq(Blocks(4)) /\ Len(blocks) = N
    <2>1. blocks \in [1 .. N -> Blocks(4)]
      BY <1>3
    <2> HIDE DEF blocks
    <2> QED
      BY <1>1, <2>1
  <1> HIDE DEF blocks
  <1>5. Takes(C, image, F, L, stage[0], stage[N])
    <2>1. Stages(blocks, image, F, L, stage)
      BY <1>3, <1>4 DEF Stages
    <2> HIDE DEF stage, L
    <2> QED
      BY <1>4, <2>1, TakesInTurn
  <1>6. C \in Seq(Commands) /\ Len(C) = 4 * N
    <2>1. Turned(C, blocks, 4)
      BY <1>4, InTurnTurned
    <2> HIDE DEF C
    <2> QED
      BY <1>1, <1>4, <2>1 DEF Turned
  <1>7. /\ {f} \in SUBSET Nat /\ {N} \in SUBSET Nat /\ {f} \subseteq F /\ {N} \subseteq L
        /\ Dst \in ImageLayouts /\ ShaderRead \in ImageLayouts
    BY <1>2, <1>1 DEF ImageLayouts
  <1>8. last \in Commands
    BY <1>7, CommandIs
  <1>9. Takes(<<last>>, image, F, L, stage[N], to)
    <2> DEFINE before == stage[N]
    <2>1. N \in 0 .. N
      BY <1>1
    <2>2. before[f][N] = Dst
      BY <1>2, <1>1, <2>1
    <2>3. \A g \in F, l \in L : to[g][l] = IF g \in {f} /\ l \in {N} THEN ShaderRead ELSE before[g][l]
      <3> SUFFICES ASSUME NEW g \in F, NEW l \in L
                   PROVE  to[g][l] = IF g \in {f} /\ l \in {N} THEN ShaderRead ELSE before[g][l]
        OBVIOUS
      <3>1. before[g][l] = IF g = f /\ l < N THEN ShaderRead ELSE from[g][l]
        BY <2>1
      <3>2. to[g][l] = IF g = f THEN ShaderRead ELSE from[g][l]
        BY <1>2
      <3>3. l \in Nat /\ l <= N
        BY <1>1
      <3> HIDE DEF before, L
      <3> QED
        BY <3>1, <3>2, <3>3, <1>1
    <2> HIDE DEF before, N, L
    <2>4. Takes(<<Command(image, {f}, {N}, Dst, ShaderRead)>>, image, F, L, before, to)
      BY <1>7, <2>2, <2>3, TakesThis
    <2> QED
      BY <2>4 DEF before
  <1>10. MipCommands(image, f, levels) = C \o <<last>>
    BY DEF MipCommands, blocks
  <1>11. Takes(C \o <<last>>, image, F, L, stage[0], to)
    <2> HIDE DEF C, last, stage, L
    <2> QED
      BY <1>5, <1>9, TakesBoth
  <1>12. Takes(C \o <<last>>, image, F, L, from, to)
    <2> DEFINE start == stage[0]
    <2>1. SamePlaces(F, L, start, from)
      BY <1>1 DEF SamePlaces
    <2>2. SamePlaces(F, L, to, to)
      BY DEF SamePlaces
    <2>3. Takes(C \o <<last>>, image, F, L, start, to)
      BY <1>11
    <2> HIDE DEF C, last, start, L
    <2> QED
      BY <2>1, <2>2, <2>3, TakesAlike
  <1>13. C \o <<last>> \in Blocks(4 * levels - 3)
    <2>1. <<last>> \in Seq(Commands) /\ Len(<<last>>) = 1
      BY <1>8
    <2> HIDE DEF C, last
    <2>2. C \o <<last>> \in Seq(Commands) /\ Len(C \o <<last>>) = 4 * N + 1
      BY <1>6, <2>1, ConcatProperties
    <2> QED
      BY <1>1, <2>2 DEF Blocks
  <1> QED
    BY <1>10, <1>12, <1>13

(* The mips of all faces of a cube, one after the other. *)
LEMMA FacesTake ==
    ASSUME NEW image \in Images, NEW levels \in Nat \ {0}, NEW from, NEW to,
           \A f \in Range0(CubeFaces), l \in Range0(levels) : from[f][l] = Dst /\ to[f][l] = ShaderRead
    PROVE  Takes(InTurn([i \in 1 .. CubeFaces |-> MipCommands(image, i - 1, levels)], 4 * levels - 3),
                 image, Range0(CubeFaces), Range0(levels), from, to)
  <1> DEFINE L == Range0(levels)
             F == Range0(CubeFaces)
             N == CubeFaces
             n == 4 * levels - 3
             blocks == [i \in 1 .. N |-> MipCommands(image, i - 1, levels)]
             stage == [k \in 0 .. N |->
                          [g \in F |-> [l \in L |-> IF g < k THEN ShaderRead ELSE from[g][l]]]]
  <1>1. N \in Nat /\ F = 0 .. N - 1 /\ F \in SUBSET Nat /\ n \in Nat \ {0}
    BY TexturesAssumption DEF Range0
  <1>2. ASSUME NEW k \in 1 .. N
        PROVE  /\ blocks[k] \in Blocks(n)
               /\ Takes(blocks[k], image, F, L, stage[k - 1], stage[k])
    <2> DEFINE f == k - 1
               before == stage[f]
               after == stage[k]
    <2>1. f \in F /\ f \in Nat /\ f \in 0 .. N /\ k \in 0 .. N /\ k = f + 1
      BY <1>1
    <2>2. \A l \in L : before[f][l] = Dst
      BY <2>1
    <2>3. \A g \in F, l \in L : after[g][l] = IF g = f THEN ShaderRead ELSE before[g][l]
      <3> SUFFICES ASSUME NEW g \in F, NEW l \in L
                   PROVE  after[g][l] = IF g = f THEN ShaderRead ELSE before[g][l]
        OBVIOUS
      <3>1. /\ after[g][l] = IF g < k THEN ShaderRead ELSE from[g][l]
            /\ before[g][l] = IF g < f THEN ShaderRead ELSE from[g][l]
        BY <2>1
      <3>2. g \in Nat
        BY <1>1
      <3> HIDE DEF before, after
      <3> QED
        BY <2>1, <3>1, <3>2
    <2> HIDE DEF before, after
    <2>4. /\ MipCommands(image, f, levels) \in Blocks(4 * levels - 3)
          /\ Takes(MipCommands(image, f, levels), image, F, Range0(levels), before, after)
      <3>1. Mipped(before, after, F, L, f)
        BY <2>1, <2>2, <2>3 DEF Mipped
      <3> HIDE DEF f, F
      <3> QED
        BY <1>1, <3>1, MipsTake
    <2>5. blocks[k] = MipCommands(image, f, levels)
      OBVIOUS
    <2> QED
      BY <2>4, <2>5 DEF before, after
  <1>3. blocks \in Seq(Blocks(n)) /\ Len(blocks) = N
    <2>1. blocks \in [1 .. N -> Blocks(n)]
      BY <1>2
    <2> HIDE DEF blocks
    <2> QED
      BY <1>1, <2>1
  <1> HIDE DEF blocks
  <1>4. Takes(InTurn(blocks, n), image, F, L, stage[0], stage[N])
    <2>1. Stages(blocks, image, F, L, stage)
      BY <1>2, <1>3 DEF Stages
    <2> HIDE DEF stage, F, L, n
    <2> QED
      BY <1>1, <1>3, <2>1, TakesInTurn
  <1>5. Takes(InTurn(blocks, n), image, F, L, from, to)
    <2> DEFINE start == stage[0]
               end == stage[N]
    <2>1. \A g \in F, l \in L : from[g][l] = start[g][l] /\ to[g][l] = end[g][l]
      <3> SUFFICES ASSUME NEW g \in F, NEW l \in L
                   PROVE  from[g][l] = start[g][l] /\ to[g][l] = end[g][l]
        OBVIOUS
      <3>1. 0 \in 0 .. N /\ N \in 0 .. N /\ g \in Nat /\ g < N
        BY <1>1
      <3>2. /\ start[g][l] = IF g < 0 THEN ShaderRead ELSE from[g][l]
            /\ end[g][l] = IF g < N THEN ShaderRead ELSE from[g][l]
        BY <3>1
      <3> QED
        BY <3>1, <3>2
    <2>2. SamePlaces(F, L, start, from) /\ SamePlaces(F, L, end, to)
      BY <2>1 DEF SamePlaces
    <2>3. Takes(InTurn(blocks, n), image, F, L, start, end)
      BY <1>4
    <2> HIDE DEF start, end, F, L, n
    <2> QED
      BY <2>2, <2>3, TakesAlike
  <1> QED
    BY <1>5 DEF blocks

-----------------------------------------------------------------------------
(***************************************************************************)
(* Devices: what is recorded for one is still right for one that has more. *)
(***************************************************************************)
(* The layouts of an image are the same, ... *)
Like(g, h, image) ==
    /\ image \in DOMAIN g.layouts /\ image \in DOMAIN h.layouts
    /\ DOMAIN h.layouts[image] = DOMAIN g.layouts[image]
    /\ \A f \in DOMAIN g.layouts[image] :
          /\ DOMAIN h.layouts[image][f] = DOMAIN g.layouts[image][f]
          /\ \A l \in DOMAIN g.layouts[image][f] : h.layouts[image][f][l] = g.layouts[image][f][l]

(* ... of every image but one. *)
Extended(g, h, image) ==
    /\ g.handles \subseteq h.handles /\ h.faults = g.faults
    /\ \A other \in DOMAIN g.layouts : other # image => Like(g, h, other)

(* Commands that are all told right, or are about nothing. *)
Right(g, C) == \A k \in 1 .. Len(C) : Finds(g, C, k) \/ C[k].image = None

ImagesLaidOut(g) == g.handles \cap Images \subseteq DOMAIN g.layouts /\ DOMAIN g.layouts \subseteq Images

LEMMA LikeItself ==
    ASSUME NEW g, NEW image \in DOMAIN g.layouts
    PROVE  Like(g, g, image)
  BY DEF Like

LEMMA LikeLike ==
    ASSUME NEW g, NEW h, NEW i, NEW image, Like(g, h, image), Like(h, i, image)
    PROVE  Like(g, i, image)
  BY DEF Like

LEMMA HasLike ==
    ASSUME NEW g, NEW h, NEW image, NEW F, NEW L, NEW lay,
           Has(g, image, F, L, lay), Like(g, h, image), image \in h.handles
    PROVE  Has(h, image, F, L, lay)
  BY DEF Has, Like

LEMMA ExtendedTwice ==
    ASSUME NEW g, NEW h, NEW i, NEW image, Extended(g, h, image), Extended(h, i, image)
    PROVE  Extended(g, i, image)
  <1>1. ASSUME NEW other \in DOMAIN g.layouts, other # image PROVE Like(g, i, other)
    <2>1. Like(g, h, other)
      BY <1>1 DEF Extended
    <2>2. other \in DOMAIN h.layouts
      BY <2>1 DEF Like
    <2>3. Like(h, i, other)
      BY <1>1, <2>2 DEF Extended
    <2> QED
      BY <2>1, <2>3, LikeLike
  <1> QED
    BY <1>1 DEF Extended

(* The layouts before decide those after. *)
LEMMA SameBefore ==
    ASSUME NEW g, NEW h, NEW C, NEW n, NEW image, NEW f, NEW l,
           g.layouts[image][f][l] = h.layouts[image][f][l]
    PROVE  LayoutAfter(g, C, n, image, f, l) = LayoutAfter(h, C, n, image, f, l)
  BY DEF LayoutAfter

LEMMA FindsStill ==
    ASSUME NEW g, NEW h, NEW C, NEW k, Finds(g, C, k), Like(g, h, C[k].image),
           C[k].image \in h.handles
    PROVE  Finds(h, C, k)
  <1> DEFINE c == C[k]
  <1>1. ASSUME NEW f \in c.faces, NEW l \in c.levels
        PROVE  /\ f \in DOMAIN h.layouts[c.image] /\ l \in DOMAIN h.layouts[c.image][f]
               /\ c.old \in {Undefined, LayoutAfter(h, C, k - 1, c.image, f, l)}
    <2>1. /\ f \in DOMAIN g.layouts[c.image] /\ l \in DOMAIN g.layouts[c.image][f]
          /\ c.old \in {Undefined, LayoutAfter(g, C, k - 1, c.image, f, l)}
      BY DEF Finds
    <2>2. /\ DOMAIN h.layouts[c.image] = DOMAIN g.layouts[c.image]
          /\ DOMAIN h.layouts[c.image][f] = DOMAIN g.layouts[c.image][f]
          /\ h.layouts[c.image][f][l] = g.layouts[c.image][f][l]
      BY <2>1 DEF Like
    <2>3. LayoutAfter(g, C, k - 1, c.image, f, l) = LayoutAfter(h, C, k - 1, c.image, f, l)
      BY <2>2, SameBefore
    <2> QED
      BY <2>1, <2>2, <2>3
  <1> QED
    BY <1>1 DEF Finds

LEMMA LikeAfter ==
    ASSUME NEW g, NEW h, NEW C, NEW image, Like(g, h, image)
    PROVE  Like(ExecuteAll(g, C), ExecuteAll(h, C), image)
  <1> DEFINE a == ExecuteAll(g, C)
             b == ExecuteAll(h, C)
             n == Len(C)
  <1>1. image \in DOMAIN g.layouts /\ image \in DOMAIN h.layouts
    BY DEF Like
  <1>2. /\ DOMAIN a.layouts = DOMAIN g.layouts
        /\ DOMAIN a.layouts[image] = DOMAIN g.layouts[image]
        /\ \A f \in DOMAIN g.layouts[image] :
              /\ DOMAIN a.layouts[image][f] = DOMAIN g.layouts[image][f]
              /\ \A l \in DOMAIN g.layouts[image][f] :
                    a.layouts[image][f][l] = LayoutAfter(g, C, n, image, f, l)
    BY <1>1, ExecutedAre
  <1>3. /\ DOMAIN b.layouts = DOMAIN h.layouts
        /\ DOMAIN b.layouts[image] = DOMAIN h.layouts[image]
        /\ \A f \in DOMAIN h.layouts[image] :
              /\ DOMAIN b.layouts[image][f] = DOMAIN h.layouts[image][f]
              /\ \A l \in DOMAIN h.layouts[image][f] :
                    b.layouts[image][f][l] = LayoutAfter(h, C, n, image, f, l)
    BY <1>1, ExecutedAre
  <1> HIDE DEF a, b
  <1>4. ASSUME NEW f \in DOMAIN g.layouts[image], NEW l \in DOMAIN g.layouts[image][f]
        PROVE  LayoutAfter(g, C, n, image, f, l) = LayoutAfter(h, C, n, image, f, l)
    <2>1. h.layouts[image][f][l] = g.layouts[image][f][l]
      BY DEF Like
    <2> QED
      BY <2>1, SameBefore
  <1>5. Like(a, b, image)
    BY <1>1, <1>2, <1>3, <1>4 DEF Like
  <1> QED
    BY <1>5 DEF a, b

(* What is recorded stays right when a device gets more. *)
LEMMA RightStill ==
    ASSUME NEW g, NEW h, NEW image, NEW C \in Seq(Commands), Right(g, C), ImagesLaidOut(g),
           Extended(g, h, image), image \notin g.handles
    PROVE  Right(h, C)
  <1> SUFFICES ASSUME NEW k \in 1 .. Len(C), C[k].image # None PROVE Finds(h, C, k)
    BY DEF Right
  <1>1. Finds(g, C, k)
    BY DEF Right
  <1>2. C[k].image \in g.handles
    BY <1>1 DEF Finds
  <1>3. C[k].image \in Images
    <2>1. C[k] \in Commands
      BY ElementOfSeq
    <2> QED
      BY <2>1 DEF Commands
  <1>4. C[k].image \in DOMAIN g.layouts /\ C[k].image # image /\ C[k].image \in h.handles
    BY <1>2, <1>3 DEF ImagesLaidOut, Extended
  <1>5. Like(g, h, C[k].image)
    BY <1>4 DEF Extended
  <1> QED
    BY <1>1, <1>4, <1>5, FindsStill

(* Commands leave an image alone that they are not about. *)
LEMMA OthersStay ==
    ASSUME NEW g, NEW C, NEW image \in DOMAIN g.layouts, Len(C) \in Nat,
           \A k \in 1 .. Len(C) : C[k].image # image
    PROVE  Like(g, ExecuteAll(g, C), image)
  <1> DEFINE h == ExecuteAll(g, C)
             n == Len(C)
  <1>1. /\ DOMAIN h.layouts = DOMAIN g.layouts
        /\ DOMAIN h.layouts[image] = DOMAIN g.layouts[image]
        /\ \A f \in DOMAIN g.layouts[image] :
              /\ DOMAIN h.layouts[image][f] = DOMAIN g.layouts[image][f]
              /\ \A l \in DOMAIN g.layouts[image][f] :
                    h.layouts[image][f][l] = LayoutAfter(g, C, n, image, f, l)
    BY ExecutedAre
  <1> HIDE DEF h
  <1>2. ASSUME NEW f, NEW l PROVE LayoutAfter(g, C, n, image, f, l) = g.layouts[image][f][l]
    <2>1. Untouched(C, n, image, f, l)
      BY DEF Untouched, Touching
    <2> QED
      BY <2>1, NoTouch
  <1>3. Like(g, h, image)
    BY <1>1, <1>2 DEF Like
  <1> QED
    BY <1>3 DEF h

(* Commands that take an image from one arrangement to another, executed.  *)
LEMMA TakenExtends ==
    ASSUME NEW g, NEW C, NEW image, NEW F, NEW L, NEW from, NEW to,
           Has(g, image, F, L, from), Takes(C, image, F, L, from, to)
    PROVE  Extended(g, ExecuteAll(g, C), image)
  <1> DEFINE h == ExecuteAll(g, C)
  <1>1. C \in Seq(Commands) /\ Len(C) \in Nat /\ DOMAIN C = 1 .. Len(C)
    BY LenProperties DEF Takes
  <1>2. \A k \in 1 .. Len(C) : Finds(g, C, k) /\ C[k].image = image
    BY DEF Takes
  <1>3. h.handles = g.handles
    BY DEF ExecuteAll
  <1>4. h.faults = g.faults
    <2>1. {k \in DOMAIN C : ~Finds(g, C, k)} = {}
      BY <1>1, <1>2
    <2>2. h.faults = g.faults \cup {C[i].image : i \in {k \in DOMAIN C : ~Finds(g, C, k)}}
      BY DEF ExecuteAll
    <2> HIDE DEF h
    <2> QED
      BY <2>1, <2>2
  <1>5. ASSUME NEW other \in DOMAIN g.layouts, other # image PROVE Like(g, h, other)
    <2>1. \A k \in 1 .. Len(C) : C[k].image # other
      BY <1>2, <1>5
    <2> QED
      BY <1>1, <2>1, OthersStay
  <1> HIDE DEF h
  <1>6. Extended(g, h, image)
    BY <1>3, <1>4, <1>5 DEF Extended
  <1> QED
    BY <1>6 DEF h

-----------------------------------------------------------------------------
(***************************************************************************)
(* Recording.                                                              *)
(***************************************************************************)
LEMMA RecordedRight ==
    ASSUME NEW g, NEW C \in Seq(Commands), NEW b \in Seq(Commands), Right(g, C), ImagesLaidOut(g),
           Right(ExecuteAll(g, C), b)
    PROVE  C \o b \in Seq(Commands) /\ Right(g, C \o b)
  <1> DEFINE all == C \o b
             h == ExecuteAll(g, C)
             p == Len(C)
  <1>1. /\ p \in Nat /\ Len(b) \in Nat /\ all \in Seq(Commands) /\ Len(all) = p + Len(b)
        /\ \A i \in 1 .. p + Len(b) : all[i] = IF i <= p THEN C[i] ELSE b[i - p]
    BY ConcatProperties, LenProperties
  <1>2. ASSUME NEW k \in 1 .. Len(all) PROVE Finds(g, all, k) \/ all[k].image = None
    <2>1. CASE k <= p
      <3>1. k \in 1 .. p
        BY <1>1, <2>1
      <3> HIDE DEF all
      <3>2. all[k] = C[k]
        BY <1>1, <2>1
      <3>3. CASE Finds(g, C, k)
        BY <3>1, <3>3, FindsFirst DEF all
      <3> QED
        BY <3>1, <3>2, <3>3 DEF Right
    <2>2. CASE k > p
      <3> DEFINE j == k - p
      <3>1. j \in 1 .. Len(b) /\ k = p + j
        BY <1>1, <2>2
      <3> HIDE DEF all
      <3>2. all[k] = b[j]
        BY <1>1, <2>2
      <3> HIDE DEF j
      <3>3. CASE b[j].image = None
        BY <3>2, <3>3
      <3>4. CASE b[j].image # None
        <4>1. Finds(h, b, j)
          BY <3>1, <3>4 DEF Right
        <4>2. b[j].image \in Images /\ b[j].image \in h.handles
          <5>1. b[j] \in Commands
            BY <3>1, ElementOfSeq
          <5> QED
            BY <3>4, <4>1, <5>1 DEF Commands, Finds
        <4>3. b[j].image \in DOMAIN g.layouts
          BY <4>2 DEF ExecuteAll, ImagesLaidOut
        <4>4. Finds(g, all, Len(C) + j)
          BY <3>1, <4>1, <4>3, FindsSecond DEF all
        <4> QED
          BY <3>1, <4>4
      <3> QED
        BY <3>3, <3>4
    <2> QED
      BY <1>1, <2>1, <2>2
  <1> QED
    BY <1>1, <1>2 DEF Right

LEMMA RecordedAfter ==
    ASSUME NEW g, NEW C \in Seq(Commands), NEW b \in Seq(Commands), NEW image \in DOMAIN g.layouts
    PROVE  Like(ExecuteAll(ExecuteAll(g, C), b), ExecuteAll(g, C \o b), image)
  <1> DEFINE h == ExecuteAll(g, C)
             i == ExecuteAll(h, b)
             all == C \o b
             j == ExecuteAll(g, all)
  <1>1. /\ DOMAIN h.layouts = DOMAIN g.layouts
        /\ DOMAIN h.layouts[image] = DOMAIN g.layouts[image]
        /\ \A f \in DOMAIN g.layouts[image] : DOMAIN h.layouts[image][f] = DOMAIN g.layouts[image][f]
    BY ExecutedAre
  <1>2. /\ DOMAIN j.layouts = DOMAIN g.layouts
        /\ DOMAIN j.layouts[image] = DOMAIN g.layouts[image]
        /\ \A f \in DOMAIN g.layouts[image] :
              /\ DOMAIN j.layouts[image][f] = DOMAIN g.layouts[image][f]
              /\ \A l \in DOMAIN g.layouts[image][f] :
                    j.layouts[image][f][l] = LayoutAfter(g, all, Len(all), image, f, l)
    <2> HIDE DEF all
    <2> QED
      BY DEF ExecuteAll
  <1>3. /\ DOMAIN i.layouts = DOMAIN h.layouts
        /\ DOMAIN i.layouts[image] = DOMAIN h.layouts[image]
        /\ \A f \in DOMAIN h.layouts[image] :
              /\ DOMAIN i.layouts[image][f] = DOMAIN h.layouts[image][f]
              /\ \A l \in DOMAIN h.layouts[image][f] :
                    i.layouts[image][f][l] = LayoutAfter(h, b, Len(b), image, f, l)
    <2>1. image \in DOMAIN h.layouts
      BY <1>1
    <2> HIDE DEF h
    <2> QED
      BY <2>1, ExecutedAre
  <1>4. \A f \in DOMAIN g.layouts[image] : \A l \in DOMAIN g.layouts[image][f] :
           LayoutAfter(g, all, Len(all), image, f, l) = LayoutAfter(h, b, Len(b), image, f, l)
    BY LayoutSecond
  <1> HIDE DEF h, i, j, all
  <1>5. Like(i, j, image)
    BY <1>1, <1>2, <1>3, <1>4 DEF Like
  <1> QED
    BY <1>5 DEF h, i, j, all

(* Commands that take an image from where it will be. *)
LEMMA RecordTakes ==
    ASSUME NEW g, NEW C \in Seq(Commands), Right(g, C), ImagesLaidOut(g),
           NEW b, NEW image, NEW F, NEW L, NEW from, NEW to,
           Has(ExecuteAll(g, C), image, F, L, from), Takes(b, image, F, L, from, to)
    PROVE  /\ C \o b \in Seq(Commands) /\ Right(g, C \o b)
           /\ Has(ExecuteAll(g, C \o b), image, F, L, to)
           /\ \A other \in DOMAIN g.layouts :
                 other # image => Like(ExecuteAll(g, C), ExecuteAll(g, C \o b), other)
  <1> DEFINE h == ExecuteAll(g, C)
             i == ExecuteAll(h, b)
             j == ExecuteAll(g, C \o b)
  <1>1. b \in Seq(Commands) /\ \A k \in 1 .. Len(b) : Finds(h, b, k)
    BY DEF Takes
  <1>2. Right(h, b)
    BY <1>1 DEF Right
  <1>3. C \o b \in Seq(Commands) /\ Right(g, C \o b)
    BY <1>1, <1>2, RecordedRight
  <1>4. /\ DOMAIN h.layouts = DOMAIN g.layouts /\ h.handles = g.handles
        /\ j.handles = g.handles /\ i.handles = g.handles
    BY DEF ExecuteAll
  <1>5. \A other \in DOMAIN g.layouts : Like(i, j, other)
    BY <1>1, RecordedAfter
  <1>6. Has(i, image, F, L, to)
    BY TakenIs
  <1>7. Extended(h, i, image)
    BY TakenExtends
  <1> HIDE DEF h, i, j
  <1>8. Has(j, image, F, L, to)
    <2>1. image \in DOMAIN g.layouts /\ image \in j.handles
      BY <1>4 DEF Has, h
    <2> QED
      BY <1>5, <1>6, <2>1, HasLike
  <1>9. ASSUME NEW other \in DOMAIN g.layouts, other # image PROVE Like(h, j, other)
    <2>1. Like(h, i, other)
      BY <1>4, <1>7, <1>9 DEF Extended
    <2> QED
      BY <1>5, <2>1, LikeLike
  <1> QED
    BY <1>3, <1>8, <1>9 DEF h, j

(* Commands about nothing. *)
LEMMA RecordNone ==
    ASSUME NEW g, NEW C \in Seq(Commands), Right(g, C), ImagesLaidOut(g),
           NEW b \in Seq(Commands), \A k \in 1 .. Len(b) : b[k].image = None
    PROVE  /\ C \o b \in Seq(Commands) /\ Right(g, C \o b)
           /\ \A other \in DOMAIN g.layouts : Like(ExecuteAll(g, C), ExecuteAll(g, C \o b), other)
  <1> DEFINE h == ExecuteAll(g, C)
             i == ExecuteAll(h, b)
             j == ExecuteAll(g, C \o b)
  <1>1. Right(h, b)
    BY DEF Right
  <1>2. C \o b \in Seq(Commands) /\ Right(g, C \o b)
    BY <1>1, RecordedRight
  <1>3. DOMAIN h.layouts = DOMAIN g.layouts
    BY DEF ExecuteAll
  <1>4. \A other \in DOMAIN g.layouts : Like(i, j, other)
    BY RecordedAfter
  <1>5. ASSUME NEW other \in DOMAIN g.layouts PROVE Like(h, i, other)
    <2>1. other # None /\ Len(b) \in Nat
      BY LenProperties, ImagesAre DEF ImagesLaidOut
    <2>2. \A k \in 1 .. Len(b) : b[k].image # other
      BY <2>1
    <2>3. other \in DOMAIN h.layouts
      BY <1>3
    <2> HIDE DEF h
    <2> QED
      BY <2>1, <2>2, <2>3, OthersStay
  <1> HIDE DEF h, i, j
  <1>6. \A other \in DOMAIN g.layouts : Like(h, j, other)
    BY <1>4, <1>5, LikeLike
  <1> QED
    BY <1>2, <1>6 DEF h, j

-----------------------------------------------------------------------------
(***************************************************************************)
(* Work on a texture and a device, and what it has made so far.            *)
(***************************************************************************)
PartOf(h) == IF h.type = "view" THEN h.shows ELSE h.type

Growing(w, t, g, parts, layout, lay) ==
    /\ w.t \in Texture /\ w.t.kind = t.kind /\ w.t.levels = t.levels /\ w.t.layout = layout
    /\ DOMAIN w.t.mipViews \subseteq Nat
    /\ w.t.image \in Images /\ w.t.image.n \notin Numbers(g.handles)
    /\ Extended(g, w.g, w.t.image)
    /\ \A h \in w.g.handles : h \in g.handles \/ (h.n = w.t.image.n /\ PartOf(h) \in parts)
    /\ DOMAIN w.g.layouts = DOMAIN g.layouts \cup {w.t.image}
    /\ Has(w.g, w.t.image, AllLayers(t), AllLevels(t), lay)

Laid(g, t) ==
    /\ Has(g, t.image, AllLayers(t), AllLevels(t), Everywhere(AllLayers(t), AllLevels(t), t.layout))
    /\ 0 \in AllLevels(t) /\ (t.kind \in {"depth", "array"} => AllLevels(t) = {0})

(* A texture whose image is in the layout it keeps, on a device that has   *)
(* nothing else it had not before.                                         *)
Settled(w, g) ==
    /\ w.t \in Texture /\ w.t.image \in Images /\ w.t.image.n \notin Numbers(g.handles)
    /\ Extended(g, w.g, w.t.image)
    /\ \A h \in w.g.handles : h \in g.handles \/ h.n = w.t.image.n
    /\ DOMAIN w.g.layouts = DOMAIN g.layouts \cup {w.t.image}
    /\ Laid(w.g, w.t)

LEMMA ApartNew ==
    ASSUME NEW g, NEW h, h.n \notin Numbers(g.handles)
    PROVE  h \notin g.handles
  BY DEF Numbers

LEMMA MakesImage ==
    ASSUME NEW t \in Texture, NEW g, IsFiniteSet(g.handles), DOMAIN t.mipViews \subseteq Nat
    PROVE  Growing(WithImage(Work(t, g)), t, g, {"image"}, t.layout,
                   Everywhere(AllLayers(t), AllLevels(t), Undefined))
  <1> DEFINE w == WithImage(Work(t, g))
             image == FreshImage(g)
             F == AllLayers(t)
             L == AllLevels(t)
             lay == Everywhere(F, L, Undefined)
  <1>1. /\ w.t \in Texture /\ w.t = [t EXCEPT !.image = w.t.image]
        /\ w.t.image \in Images /\ w.t.image.n \notin Numbers(g.handles)
        /\ w.g.handles = g.handles \cup {w.t.image}
    BY WithImageIs
  <1>2. w.t = [t EXCEPT !.image = image] /\ w.g = CreateImage(g, image, Layers(t), t.levels)
    BY DEF WithImage, Work
  <1>3. w.g.handles = g.handles \cup {image} /\ w.g.faults = g.faults \cup ({image} \cap g.handles)
        /\ w.g.layouts = [other \in DOMAIN g.layouts \cup {image} |->
                            IF other = image THEN [f \in F |-> [l \in L |-> Undefined]]
                            ELSE g.layouts[other]]
    BY <1>2 DEF CreateImage, Make, AllLayers, AllLevels
  <1> HIDE DEF w, F, L
  <1>4. image = w.t.image
    BY <1>2 DEF Texture
  <1> HIDE DEF image
  <1>5. /\ w.t.kind = t.kind /\ w.t.levels = t.levels /\ w.t.layout = t.layout
        /\ w.t.mipViews = t.mipViews
    BY <1>2 DEF Texture
  <1>6. image \notin g.handles
    BY <1>1, <1>4, ApartNew
  <1>7. w.g.faults = g.faults
    BY <1>3, <1>6
  <1>8. DOMAIN w.g.layouts = DOMAIN g.layouts \cup {image}
        /\ w.g.layouts[image] = [f \in F |-> [l \in L |-> Undefined]]
        /\ \A other \in DOMAIN g.layouts : other # image => w.g.layouts[other] = g.layouts[other]
    BY <1>3
  <1>9. Extended(g, w.g, image)
    <2>1. \A other \in DOMAIN g.layouts : other # image => Like(g, w.g, other)
      BY <1>8 DEF Like
    <2> QED
      BY <1>3, <1>7, <2>1 DEF Extended
  <1>10. Has(w.g, image, F, L, lay)
    BY <1>3, <1>8 DEF Has, Everywhere
  <1>11. \A h \in w.g.handles : h \in g.handles \/ (h.n = image.n /\ PartOf(h) \in {"image"})
    BY <1>1, <1>3, <1>4, ImagesAre DEF PartOf
  <1>12. Growing(w, t, g, {"image"}, t.layout, lay)
    <2> HIDE DEF lay
    <2> QED
      BY <1>1, <1>4, <1>5, <1>8, <1>9, <1>10, <1>11 DEF Growing, F, L
  <1> QED
    BY <1>12 DEF w, F, L

(* Views and samplers, ... *)
MoreParts(w, u, made, part) ==
    /\ u.t \in Texture /\ u.t.kind = w.t.kind /\ u.t.levels = w.t.levels /\ u.t.layout = w.t.layout
    /\ DOMAIN u.t.mipViews \subseteq Nat /\ u.t.image = w.t.image
    /\ u.g = Make(w.g, made)
    /\ \A h \in made : h.n = w.t.image.n /\ PartOf(h) = part

LEMMA MakesMore ==
    ASSUME NEW w, NEW t, NEW g, NEW parts, NEW layout, NEW lay,
           Growing(w, t, g, parts, layout, lay),
           NEW u, NEW made, NEW part, part \notin parts, MoreParts(w, u, made, part)
    PROVE  Growing(u, t, g, parts \cup {part}, layout, lay)
  <1> DEFINE image == w.t.image
  <1>1. /\ u.g.handles = w.g.handles \cup made /\ u.g.layouts = w.g.layouts
        /\ u.g.faults = w.g.faults \cup (made \cap w.g.handles)
    BY DEF MoreParts, Make
  <1>2. made \cap w.g.handles = {}
    <2> SUFFICES ASSUME NEW h \in made, h \in w.g.handles PROVE FALSE
      OBVIOUS
    <2>1. h.n = image.n /\ PartOf(h) = part
      BY DEF MoreParts
    <2>2. h \notin g.handles
      BY <2>1, ApartNew DEF Growing
    <2> QED
      BY <2>1, <2>2 DEF Growing
  <1>3. u.g.faults = w.g.faults
    BY <1>1, <1>2
  <1>4. Extended(w.g, u.g, image)
    BY <1>1, <1>3 DEF Extended, Like
  <1>5. Extended(g, u.g, image)
    BY <1>4, ExtendedTwice DEF Growing
  <1>6. Has(u.g, image, AllLayers(t), AllLevels(t), lay)
    <2>1. Has(w.g, image, AllLayers(t), AllLevels(t), lay)
      BY DEF Growing
    <2> QED
      BY <1>1, <2>1 DEF Has
  <1>7. \A h \in u.g.handles : h \in g.handles \/ (h.n = image.n /\ PartOf(h) \in parts \cup {part})
    BY <1>1 DEF Growing, MoreParts
  <1> QED
    BY <1>1, <1>5, <1>6, <1>7 DEF Growing, MoreParts

LEMMA MakesView ==
    ASSUME NEW w, NEW t, NEW g, NEW parts, NEW layout, NEW lay,
           Growing(w, t, g, parts, layout, lay), "all" \notin parts
    PROVE  Growing(WithView(w), t, g, parts \cup {"all"}, layout, lay)
  <1> DEFINE u == WithView(w)
             v == View(w.t.image, "all", AllLayers(w.t), AllLevels(w.t))
  <1>1. w.t \in Texture /\ w.t.image \in Images /\ DOMAIN w.t.mipViews \subseteq Nat
    BY DEF Growing
  <1>2. u.t \in Texture /\ u.t = [w.t EXCEPT !.view = WholeView(w.t)]
    BY <1>1, WithViewIs
  <1>3. u.g = Make(w.g, {v})
    BY DEF WithView, Work
  <1>4. v.n = w.t.image.n /\ PartOf(v) = "all"
    <2>1. AllLayers(w.t) \in SUBSET Nat /\ AllLevels(w.t) \in SUBSET Nat
      BY <1>1, LayersAreNat DEF Texture
    <2>2. v.type = "view" /\ v.n = w.t.image.n /\ v.shows = "all"
      BY <1>1, <2>1, ViewsAre
    <2> HIDE DEF v
    <2> QED
      BY <2>2 DEF PartOf
  <1> HIDE DEF u, v
  <1>5. MoreParts(w, u, {v}, "all")
    <2>1. /\ u.t.kind = w.t.kind /\ u.t.levels = w.t.levels /\ u.t.layout = w.t.layout
          /\ u.t.mipViews = w.t.mipViews /\ u.t.image = w.t.image
      BY <1>1, <1>2 DEF Texture
    <2> QED
      BY <1>1, <1>2, <1>3, <1>4, <2>1 DEF MoreParts
  <1> QED
    BY <1>5, MakesMore DEF u

LEMMA MakesSampler ==
    ASSUME NEW w, NEW t, NEW g, NEW parts, NEW layout, NEW lay,
           Growing(w, t, g, parts, layout, lay), "sampler" \notin parts
    PROVE  Growing(WithSampler(w), t, g, parts \cup {"sampler"}, layout, lay)
  <1> DEFINE u == WithSampler(w)
             v == Sampler(w.t.image)
  <1>1. w.t \in Texture /\ w.t.image \in Images /\ DOMAIN w.t.mipViews \subseteq Nat
    BY DEF Growing
  <1>2. u.t \in Texture /\ u.t = [w.t EXCEPT !.sampler = v]
    BY <1>1, WithSamplerIs
  <1>3. u.g = Make(w.g, {v})
    BY DEF WithSampler, Work
  <1>4. v.n = w.t.image.n /\ PartOf(v) = "sampler"
    <2>1. v.type = "sampler" /\ v.n = w.t.image.n
      BY <1>1, ImagesAre
    <2> HIDE DEF v
    <2> QED
      BY <2>1 DEF PartOf
  <1> HIDE DEF u, v
  <1>5. MoreParts(w, u, {v}, "sampler")
    <2>1. /\ u.t.kind = w.t.kind /\ u.t.levels = w.t.levels /\ u.t.layout = w.t.layout
          /\ u.t.mipViews = w.t.mipViews /\ u.t.image = w.t.image
      BY <1>1, <1>2 DEF Texture
    <2> QED
      BY <1>1, <1>2, <1>3, <1>4, <2>1 DEF MoreParts
  <1> QED
    BY <1>5, MakesMore DEF u

LEMMA MakesLayerViews ==
    ASSUME NEW w, NEW t, NEW g, NEW parts, NEW layout, NEW lay,
           Growing(w, t, g, parts, layout, lay), "layer" \notin parts, t.kind \in {"cube", "array"}
    PROVE  Growing(WithLayerViews(w), t, g, parts \cup {"layer"}, layout, lay)
  <1> DEFINE u == WithLayerViews(w)
             V == LayerViewsOf(w.t)
  <1>1. /\ w.t \in Texture /\ w.t.image \in Images /\ DOMAIN w.t.mipViews \subseteq Nat
        /\ w.t.kind \in {"cube", "array"}
    BY DEF Growing
  <1>2. u.t \in Texture /\ u.t = [w.t EXCEPT !.layerViews = V]
    BY <1>1, WithLayerViewsIs
  <1>3. u.g = Make(w.g, Elements(V))
    BY <1>1 DEF WithLayerViews, Work, LayerViewsOf
  <1>4. \A h \in Elements(V) : h.n = w.t.image.n /\ PartOf(h) = "layer"
    <2>1. \A h \in Elements(V) : h.type = "view" /\ h.n = w.t.image.n /\ h.shows = "layer"
      BY <1>1, LayerViewsAre
    <2> HIDE DEF V
    <2> QED
      BY <2>1 DEF PartOf
  <1> HIDE DEF u, V
  <1>5. MoreParts(w, u, Elements(V), "layer")
    <2>1. /\ u.t.kind = w.t.kind /\ u.t.levels = w.t.levels /\ u.t.layout = w.t.layout
          /\ u.t.mipViews = w.t.mipViews /\ u.t.image = w.t.image
      BY <1>1, <1>2 DEF Texture
    <2> QED
      BY <1>1, <1>2, <1>3, <1>4, <2>1 DEF MoreParts
  <1> QED
    BY <1>5, MakesMore DEF u

LEMMA MakesMipViews ==
    ASSUME NEW w, NEW t, NEW g, NEW parts, NEW layout, NEW lay,
           Growing(w, t, g, parts, layout, lay), "level" \notin parts, NEW L \in SUBSET Nat
    PROVE  Growing(MipViews(w, L), t, g, parts \cup {"level"}, layout, lay)
  <1> DEFINE u == MipViews(w, L)
             new == L \ DOMAIN w.t.mipViews
             V == {LevelView(w.t.image, l) : l \in new}
  <1>1. w.t \in Texture /\ w.t.image \in Images /\ DOMAIN w.t.mipViews \subseteq Nat
    BY DEF Growing
  <1>2. /\ u.t \in Texture /\ u.t = [w.t EXCEPT !.mipViews = u.t.mipViews]
        /\ DOMAIN u.t.mipViews = DOMAIN w.t.mipViews \cup L
    BY <1>1, MipViewsAre
  <1>3. u.g = Make(w.g, V)
    BY DEF MipViews, Work, LevelView
  <1>4. \A h \in V : h.n = w.t.image.n /\ PartOf(h) = "level"
    <2>1. ASSUME NEW l \in new
          PROVE  LevelView(w.t.image, l).n = w.t.image.n /\ PartOf(LevelView(w.t.image, l)) = "level"
      <3>0. l \in Nat
        OBVIOUS
      <3>1. {0} \in SUBSET Nat /\ {l} \in SUBSET Nat
        BY <3>0
      <3> DEFINE v == View(w.t.image, "level", {0}, {l})
      <3>2. v.type = "view" /\ v.n = w.t.image.n /\ v.shows = "level"
        BY <1>1, <3>1, ViewsAre
      <3>3. LevelView(w.t.image, l) = v
        BY DEF LevelView
      <3> HIDE DEF v
      <3> QED
        BY <3>2, <3>3 DEF PartOf
    <2> HIDE DEF new
    <2> QED
      BY <2>1
  <1> HIDE DEF u, V
  <1>5. MoreParts(w, u, V, "level")
    <2>1. /\ u.t.kind = w.t.kind /\ u.t.levels = w.t.levels /\ u.t.layout = w.t.layout
          /\ u.t.image = w.t.image
      BY <1>1, <1>2 DEF Texture
    <2> QED
      BY <1>1, <1>2, <1>3, <1>4, <2>1 DEF MoreParts
  <1> QED
    BY <1>5, MakesMore DEF u

(* ... commands that are executed at once, and the texture's own layout.   *)
LEMMA Executes ==
    ASSUME NEW w, NEW t, NEW g, NEW parts, NEW layout, NEW lay,
           Growing(w, t, g, parts, layout, lay),
           NEW C, NEW lay2, Takes(C, w.t.image, AllLayers(t), AllLevels(t), lay, lay2)
    PROVE  Growing(Executed(w, C), t, g, parts, layout, lay2)
  <1> DEFINE u == Executed(w, C)
             image == w.t.image
  <1>1. u.t = w.t /\ u.g = ExecuteAll(w.g, C)
    BY DEF Executed, Work
  <1>2. u.g.handles = w.g.handles /\ DOMAIN u.g.layouts = DOMAIN w.g.layouts
    BY <1>1 DEF ExecuteAll
  <1>3. Has(w.g, image, AllLayers(t), AllLevels(t), lay)
    BY DEF Growing
  <1>4. Has(u.g, image, AllLayers(t), AllLevels(t), lay2)
    BY <1>1, <1>3, TakenIs
  <1>5. Extended(w.g, u.g, image)
    BY <1>1, <1>3, TakenExtends
  <1> HIDE DEF u
  <1>6. Extended(g, u.g, image)
    BY <1>5, ExtendedTwice DEF Growing
  <1>7. Growing(u, t, g, parts, layout, lay2)
    BY <1>1, <1>2, <1>4, <1>6 DEF Growing
  <1> QED
    BY <1>7 DEF u

LEMMA Relabels ==
    ASSUME NEW w, NEW t, NEW g, NEW parts, NEW layout, NEW lay,
           Growing(w, t, g, parts, layout, lay),
           NEW u, u.t \in Texture, u.t.kind = w.t.kind, u.t.levels = w.t.levels,
           u.t.mipViews = w.t.mipViews, u.t.image = w.t.image, u.g = w.g
    PROVE  Growing(u, t, g, parts, u.t.layout, lay)
  BY DEF Growing

LEMMA Settles ==
    ASSUME NEW w, NEW t, NEW g, NEW parts, NEW layout, NEW lay,
           Growing(w, t, g, parts, layout, lay),
           0 \in AllLevels(t), t.kind \in {"depth", "array"} => AllLevels(t) = {0},
           SamePlaces(AllLayers(t), AllLevels(t), lay, Everywhere(AllLayers(t), AllLevels(t), layout))
    PROVE  Settled(w, g)
  <1> DEFINE F == AllLayers(t)
             L == AllLevels(t)
  <1>1. w.t.kind = t.kind /\ w.t.levels = t.levels /\ w.t.layout = layout
    BY DEF Growing
  <1>2. AllLayers(w.t) = F /\ AllLevels(w.t) = L
    BY <1>1 DEF AllLayers, AllLevels, Layers
  <1>3. Has(w.g, w.t.image, F, L, lay)
    BY DEF Growing
  <1>4. Has(w.g, w.t.image, F, L, Everywhere(F, L, layout))
    <2> HIDE DEF F, L
    <2> QED
      BY <1>3 DEF Has, SamePlaces, F, L
  <1>5. Laid(w.g, w.t)
    BY <1>1, <1>2, <1>4 DEF Laid
  <1> QED
    BY <1>5 DEF Growing, Settled

LEMMA SomeLayouts ==
    /\ Undefined \in ImageLayouts /\ Colour \in ImageLayouts /\ DepthDrawn \in ImageLayouts
    /\ DepthRead \in ImageLayouts /\ ShaderRead \in ImageLayouts /\ Dst \in ImageLayouts
    /\ Src \in ImageLayouts /\ General \in ImageLayouts /\ Present \in ImageLayouts
  BY DEF ImageLayouts

LEMMA EverywhereIs ==
    ASSUME NEW F, NEW L, NEW layout, NEW f \in F, NEW l \in L
    PROVE  Everywhere(F, L, layout)[f][l] = layout
  BY DEF Everywhere

(* A transition moves an image that is where the texture takes it to be,   *)
(* or of which the texture takes nothing to be known.                      *)
Movable(t, new, from) ==
    \/ t.layout = Undefined /\ new # Undefined
    \/ \A f \in AllLayers(t), l \in AllLevels(t) : from[f][l] = t.layout

LEMMA BarriersTake ==
    ASSUME NEW t \in Texture, t.image \in Images, NEW new \in ImageLayouts, NEW from,
           Movable(t, new, from)
    PROVE  Takes(Barriers(t, new), t.image, AllLayers(t), AllLevels(t), from,
                 Everywhere(AllLayers(t), AllLevels(t), new))
  <1> DEFINE F == AllLayers(t)
             L == AllLevels(t)
             to == Everywhere(F, L, new)
  <1>1. F \in SUBSET Nat /\ L \in SUBSET Nat /\ t.layout \in ImageLayouts
    BY LayersAreNat DEF Texture
  <1>2. \A f \in F, l \in L : to[f][l] = new
    BY EverywhereIs
  <1>3. CASE new = t.layout
    <2>1. Barriers(t, new) = <<>>
      BY <1>3 DEF Barriers
    <2>2. SamePlaces(F, L, from, to)
      <3>1. \A f \in F, l \in L : from[f][l] = t.layout
        BY <1>3 DEF Movable
      <3> HIDE DEF F, L, to
      <3> QED
        BY <1>2, <1>3, <3>1 DEF SamePlaces
    <2>3. SamePlaces(F, L, from, from)
      BY DEF SamePlaces
    <2>4. Takes(<<>>, t.image, F, L, from, from)
      BY TakesNone
    <2> HIDE DEF F, L, to
    <2>5. Takes(<<>>, t.image, F, L, from, to)
      BY <2>2, <2>3, <2>4, TakesAlike
    <2> QED
      BY <2>1, <2>5 DEF F, L, to
  <1>4. CASE new # t.layout
    <2>1. Barriers(t, new) = <<Command(t.image, F, L, t.layout, new)>>
      BY <1>4 DEF Barriers
    <2>2. t.layout = Undefined \/ \A f \in F, l \in L : from[f][l] = t.layout
      BY DEF Movable
    <2> HIDE DEF F, L, to
    <2>3. Takes(<<Command(t.image, F, L, t.layout, new)>>, t.image, F, L, from, to)
      BY <1>1, <1>2, <2>2, TakesThis
    <2> QED
      BY <2>1, <2>3 DEF F, L, to
  <1> QED
    BY <1>3, <1>4

LEMMA Transitions ==
    ASSUME NEW w, NEW t, NEW g, NEW parts, NEW layout, NEW lay,
           Growing(w, t, g, parts, layout, lay),
           NEW new \in ImageLayouts, Movable(w.t, new, lay)
    PROVE  Growing(Transition(w, new), t, g, parts, new, Everywhere(AllLayers(t), AllLevels(t), new))
  <1> DEFINE F == AllLayers(t)
             L == AllLevels(t)
             C == Barriers(w.t, new)
             v == Executed(w, C)
             u == Transition(w, new)
             x == InLayout(w.t, new)
  <1>1. w.t \in Texture /\ w.t.image \in Images /\ w.t.kind = t.kind /\ w.t.levels = t.levels
    BY DEF Growing
  <1>2. AllLayers(w.t) = F /\ AllLevels(w.t) = L
    BY <1>1 DEF AllLayers, AllLevels, Layers
  <1>3. Takes(C, w.t.image, AllLayers(w.t), AllLevels(w.t), lay,
              Everywhere(AllLayers(w.t), AllLevels(w.t), new))
    BY <1>1, BarriersTake
  <1>4. Takes(C, w.t.image, F, L, lay, Everywhere(F, L, new))
    BY <1>2, <1>3
  <1>5. Growing(v, t, g, parts, layout, Everywhere(F, L, new))
    BY <1>4, Executes
  <1>6. /\ x \in Texture /\ x.layout = new /\ x.kind = w.t.kind /\ x.image = w.t.image
        /\ x.mipViews = w.t.mipViews /\ x.levels = w.t.levels
    BY <1>1, InLayoutIs
  <1>7. v.t = w.t /\ v.g = ExecuteAll(w.g, C)
    BY DEF Executed, Work
  <1>8. u.t = x /\ u.g = ExecuteAll(w.g, C)
    BY DEF Transition, Work
  <1> HIDE DEF F, L, C, v, u, x
  <1>9. Growing(u, t, g, parts, u.t.layout, Everywhere(F, L, new))
    BY <1>5, <1>6, <1>7, <1>8, Relabels
  <1> QED
    BY <1>6, <1>8, <1>9 DEF u, F, L

LEMMA BuildTextureSettles ==
    ASSUME NEW t \in Texture, NEW g, IsFiniteSet(g.handles), t.kind = "2d",
           DOMAIN t.mipViews = {}, t.levels > 0, t.size > 0
    PROVE  Settled(BuildTexture(t, g), g)
  <1> DEFINE levels == IF t.createMips THEN MipCount(t.size) ELSE t.levels
             t0 == [t EXCEPT !.levels = levels]
             w1 == WithImage(Work(t0, g))
             w2 == WithView(w1)
             w3 == WithSampler(w2)
             w4 == Work([w3.t EXCEPT !.layout = Undefined], w3.g)
             w5 == Transition(w4, Colour)
             w6 == MipViews(w5, Range0(levels))
             w == IF t.keepMipViews THEN w6 ELSE w5
             F == AllLayers(t0)
             L == AllLevels(t0)
             none == Everywhere(F, L, Undefined)
             lay == Everywhere(F, L, Colour)
  <1>1. levels \in Nat /\ levels > 0
    BY MipCountIsNat DEF Texture
  <1>2. BuildTexture(t, g) = w
    BY DEF BuildTexture
  <1> HIDE DEF levels
  <1>3. t0 \in Texture /\ t0.kind = "2d" /\ DOMAIN t0.mipViews = {} /\ t0.levels = levels
    BY <1>1 DEF Texture
  <1> HIDE DEF t0
  <1>4. Growing(w1, t0, g, {"image"}, t0.layout, none)
    BY <1>3, MakesImage
  <1> HIDE DEF w1, none
  <1>5. Growing(w2, t0, g, {"image"} \cup {"all"}, t0.layout, none)
    BY <1>4, MakesView
  <1> HIDE DEF w2
  <1> DEFINE parts == {"image"} \cup {"all"} \cup {"sampler"}
  <1>6. Growing(w3, t0, g, parts, t0.layout, none)
    BY <1>5, MakesSampler
  <1>7. w4.t = [w3.t EXCEPT !.layout = Undefined] /\ w4.g = w3.g
    BY DEF Work
  <1> HIDE DEF w3, w4
  <1>8. Growing(w4, t0, g, parts, Undefined, none) /\ w4.t.layout = Undefined
    <2>1. w3.t \in Texture
      BY <1>6 DEF Growing
    <2>2. /\ w4.t \in Texture /\ w4.t.kind = w3.t.kind /\ w4.t.levels = w3.t.levels
          /\ w4.t.mipViews = w3.t.mipViews /\ w4.t.image = w3.t.image /\ w4.t.layout = Undefined
      BY <1>7, <2>1, SomeLayouts DEF Texture
    <2> HIDE DEF parts
    <2>3. Growing(w4, t0, g, parts, w4.t.layout, none)
      BY <1>6, <1>7, <2>2, Relabels
    <2> QED
      BY <2>2, <2>3
  <1>9. Growing(w5, t0, g, parts, Colour, lay)
    <2>1. Movable(w4.t, Colour, none)
      BY <1>8 DEF Movable, Colour, Undefined
    <2> HIDE DEF parts
    <2> QED
      BY <1>8, <2>1, SomeLayouts, Transitions
  <1> HIDE DEF w5
  <1>10. Growing(w6, t0, g, parts \cup {"level"}, Colour, lay)
    <2>1. Range0(levels) \in SUBSET Nat /\ "level" \notin parts
      BY <1>1 DEF Range0
    <2> HIDE DEF parts
    <2> QED
      BY <1>9, <2>1, MakesMipViews
  <1>11. 0 \in AllLevels(t0) /\ (t0.kind \in {"depth", "array"} => AllLevels(t0) = {0})
    BY <1>1, <1>3 DEF AllLevels, Range0
  <1>12. SamePlaces(F, L, lay, Everywhere(F, L, Colour))
    BY DEF SamePlaces
  <1> HIDE DEF w6, parts, lay
  <1>13. Settled(w6, g) /\ Settled(w5, g)
    BY <1>9, <1>10, <1>11, <1>12, Settles
  <1> QED
    BY <1>2, <1>13

(* Commands of the whole image, one after the other. *)
LEMMA TakesWhole ==
    ASSUME NEW image \in Images, NEW F \in SUBSET Nat, NEW L \in SUBSET Nat,
           NEW old \in ImageLayouts, NEW new \in ImageLayouts, NEW from,
           old = Undefined \/ \A f \in F, l \in L : from[f][l] = old
    PROVE  Takes(<<Command(image, F, L, old, new)>>, image, F, L, from, Everywhere(F, L, new))
  <1> DEFINE to == Everywhere(F, L, new)
  <1>1. \A f \in F, l \in L : to[f][l] = IF f \in F /\ l \in L THEN new ELSE from[f][l]
    BY EverywhereIs
  <1> HIDE DEF to
  <1>2. Takes(<<Command(image, F, L, old, new)>>, image, F, L, from, to)
    BY <1>1, TakesThis
  <1> QED
    BY <1>2 DEF to

LEMMA TakesFrom ==
    ASSUME NEW image \in Images, NEW F \in SUBSET Nat, NEW L \in SUBSET Nat,
           NEW old \in ImageLayouts, NEW new \in ImageLayouts
    PROVE  Takes(<<Command(image, F, L, old, new)>>, image, F, L,
                 Everywhere(F, L, old), Everywhere(F, L, new))
  <1> DEFINE from == Everywhere(F, L, old)
  <1>1. \A f \in F, l \in L : from[f][l] = old
    BY EverywhereIs
  <1> HIDE DEF from
  <1>2. Takes(<<Command(image, F, L, old, new)>>, image, F, L, from, Everywhere(F, L, new))
    BY <1>1, TakesWhole
  <1> QED
    BY <1>2 DEF from

(* A part of an image that is in one layout is used in it. *)
LEMMA TakesUse ==
    ASSUME NEW image \in Images, NEW F \in SUBSET Nat, NEW L \in SUBSET Nat,
           NEW A \in SUBSET F, NEW B \in SUBSET L, NEW layout \in ImageLayouts
    PROVE  Takes(<<Use(image, A, B, layout)>>, image, F, L,
                 Everywhere(F, L, layout), Everywhere(F, L, layout))
  <1> DEFINE lay == Everywhere(F, L, layout)
  <1>1. \A f \in F, l \in L : lay[f][l] = layout
    BY EverywhereIs
  <1>2. \A f \in A, l \in B : f \in F /\ l \in L
    OBVIOUS
  <1>3. A \in SUBSET Nat /\ B \in SUBSET Nat
    OBVIOUS
  <1>4. \A f \in F, l \in L : lay[f][l] = IF f \in A /\ l \in B THEN layout ELSE lay[f][l]
    BY <1>1
  <1>5. \A f \in A, l \in B : lay[f][l] = layout
    BY <1>1, <1>2
  <1> HIDE DEF lay
  <1>6. Takes(<<Command(image, A, B, layout, layout)>>, image, F, L, lay, lay)
    BY <1>3, <1>4, <1>5, TakesThis
  <1> QED
    BY <1>6 DEF lay, Use

(* What is made from data: it is moved, written and moved again. *)
LEMMA CopyTakes ==
    ASSUME NEW image \in Images, NEW F \in SUBSET Nat, NEW L \in SUBSET Nat, NEW from
    PROVE  Takes(<<Command(image, F, L, Undefined, Dst), Use(image, F, L, Dst),
                   Command(image, F, L, Dst, ShaderRead)>>,
                 image, F, L, from, Everywhere(F, L, ShaderRead))
  <1> DEFINE c1 == Command(image, F, L, Undefined, Dst)
             c2 == Use(image, F, L, Dst)
             c3 == Command(image, F, L, Dst, ShaderRead)
             dst == Everywhere(F, L, Dst)
             read == Everywhere(F, L, ShaderRead)
  <1>1. Takes(<<c1>>, image, F, L, from, dst)
    BY SomeLayouts, TakesWhole
  <1>2. Takes(<<c2>>, image, F, L, dst, dst)
    BY SomeLayouts, TakesFrom DEF Use
  <1>3. Takes(<<c3>>, image, F, L, dst, read)
    BY SomeLayouts, TakesFrom
  <1>4. c1 \in Commands /\ c2 \in Commands /\ c3 \in Commands
    BY SomeLayouts, CommandIs DEF Use
  <1> HIDE DEF c1, c2, c3, dst, read
  <1>5. Takes(<<c1>> \o <<c2>>, image, F, L, from, dst)
    BY <1>1, <1>2, TakesBoth
  <1>6. Takes((<<c1>> \o <<c2>>) \o <<c3>>, image, F, L, from, read)
    BY <1>3, <1>5, TakesBoth
  <1>7. Joins(c1, c2, c3, c3)
    <2>1. {c1, c2, c3, c3} \subseteq Commands
      BY <1>4
    <2> QED
      BY <2>1, Joined
  <1>8. (<<c1>> \o <<c2>>) \o <<c3>> = <<c1, c2, c3>>
    BY <1>7, Zenon DEF Joins
  <1> QED
    BY <1>6, <1>8 DEF c1, c2, c3, read

LEMMA LoadedSettles ==
    ASSUME NEW t \in Texture, NEW g, IsFiniteSet(g.handles), t.kind = "2d",
           DOMAIN t.mipViews = {}, t.layout = Undefined, t.size > 0
    PROVE  Settled(Loaded(t, g), g)
  <1> DEFINE levels == IF t.createMips THEN MipCount(t.size) ELSE 1
             t0 == [t EXCEPT !.levels = levels]
             w1 == WithImage(Work(t0, g))
             image == w1.t.image
             c1 == Command(image, {0}, Range0(levels), Undefined, Dst)
             c2 == Use(image, {0}, {0}, Dst)
             mips == IF t.createMips THEN MipCommands(image, 0, levels) ELSE <<>>
             w2 == Executed(w1, <<c1, c2>> \o mips)
             w3 == Transition(w2, ShaderRead)
             w4 == WithView(w3)
             w5 == WithSampler(w4)
             w == Work(UpdateDescriptor(w5.t), w5.g)
             F == AllLayers(t0)
             L == AllLevels(t0)
             none == Everywhere(F, L, Undefined)
             dst == Everywhere(F, L, Dst)
             read == Everywhere(F, L, ShaderRead)
             lay == IF t.createMips THEN read ELSE dst
  <1>1. levels \in Nat \ {0}
    BY MipCountIsNat DEF Texture
  <1>2. Loaded(t, g) = w
    BY DEF Loaded, Load
  <1> HIDE DEF levels
  <1>3. /\ t0 \in Texture /\ t0.kind = "2d" /\ DOMAIN t0.mipViews = {} /\ t0.levels = levels
        /\ t0.layout = Undefined
    BY <1>1 DEF Texture
  <1> HIDE DEF t0
  <1>4. F = {0} /\ L = Range0(levels) /\ F \in SUBSET Nat /\ L \in SUBSET Nat /\ 0 \in L
    BY <1>1, <1>3 DEF AllLayers, AllLevels, Layers, Range0
  <1>5. Growing(w1, t0, g, {"image"}, Undefined, none)
    BY <1>3, MakesImage
  <1>6. image \in Images
    BY <1>5 DEF Growing
  <1> HIDE DEF w1, image, F, L
  <1>7. Takes(<<c1>>, image, F, L, none, dst)
    BY <1>4, <1>6, SomeLayouts, TakesWhole
  <1>8. Takes(<<c2>>, image, F, L, dst, dst)
    <2>1. {0} \in SUBSET F /\ {0} \in SUBSET L
      BY <1>4
    <2> QED
      BY <1>4, <1>6, <2>1, SomeLayouts, TakesUse
  <1>9. <<c1>> \o <<c2>> = <<c1, c2>>
    <2>1. {c1, c2, c2, c2} \subseteq Commands
      <3>1. {0} \in SUBSET Nat
        OBVIOUS
      <3> QED
        BY <1>4, <1>6, <3>1, SomeLayouts, CommandIs DEF Use
    <2> HIDE DEF c1, c2
    <2>2. Joins(c1, c2, c2, c2)
      BY <2>1, Joined
    <2> QED
      BY <2>2, Zenon DEF Joins
  <1> HIDE DEF c1, c2, none
  <1>10. Takes(<<c1, c2>>, image, F, L, none, dst)
    <2> HIDE DEF dst
    <2>1. Takes(<<c1>> \o <<c2>>, image, F, L, none, dst)
      BY <1>7, <1>8, TakesBoth
    <2> QED
      BY <1>9, <2>1
  <1>11. Takes(mips, image, F, L, dst, lay)
    <2>1. CASE t.createMips
      <3>1. Mipped(dst, read, F, Range0(levels), 0)
        <4>1. \A f \in F, l \in L : dst[f][l] = Dst /\ read[f][l] = ShaderRead
          BY EverywhereIs
        <4> HIDE DEF dst, read
        <4> QED
          BY <1>4, <4>1 DEF Mipped
      <3> HIDE DEF dst, read
      <3>2. Takes(MipCommands(image, 0, levels), image, F, Range0(levels), dst, read)
        BY <1>1, <1>4, <1>6, <3>1, MipsTake
      <3> QED
        BY <1>4, <2>1, <3>2
    <2>2. CASE ~t.createMips
      <3>1. Takes(<<>>, image, F, L, dst, dst)
        BY TakesNone
      <3> QED
        BY <2>2, <3>1
    <2> QED
      BY <2>1, <2>2
  <1>12. Takes(<<c1, c2>> \o mips, image, F, L, none, lay)
    <2> HIDE DEF dst, lay, mips
    <2> QED
      BY <1>10, <1>11, TakesBoth
  <1>13. Growing(w2, t0, g, {"image"}, Undefined, lay) /\ w2.t.layout = Undefined
    <2> DEFINE C == <<c1, c2>> \o mips
    <2>1. Takes(C, w1.t.image, AllLayers(t0), AllLevels(t0), none, lay)
      BY <1>12 DEF F, L, image
    <2> HIDE DEF C, lay
    <2>2. Growing(Executed(w1, C), t0, g, {"image"}, Undefined, lay)
      BY <1>5, <2>1, Executes
    <2>3. w2 = Executed(w1, C)
      BY DEF C
    <2> HIDE DEF w2
    <2> QED
      BY <2>2, <2>3 DEF Growing
  <1> HIDE DEF w2, lay
  <1>14. Growing(w3, t0, g, {"image"}, ShaderRead, read)
    <2>1. Movable(w2.t, ShaderRead, lay)
      BY <1>13 DEF Movable, ShaderRead, Undefined
    <2> QED
      BY <1>13, <2>1, SomeLayouts, Transitions DEF F, L
  <1> HIDE DEF w3
  <1>15. Growing(w4, t0, g, {"image"} \cup {"all"}, ShaderRead, read)
    BY <1>14, MakesView
  <1> HIDE DEF w4
  <1> DEFINE parts == {"image"} \cup {"all"} \cup {"sampler"}
  <1>16. Growing(w5, t0, g, parts, ShaderRead, read)
    BY <1>15, MakesSampler
  <1> HIDE DEF w5, parts
  <1>17. Growing(w, t0, g, parts, ShaderRead, read)
    <2> DEFINE x == UpdateDescriptor(w5.t)
    <2>1. w5.t \in Texture /\ w5.t.layout = ShaderRead
      BY <1>16 DEF Growing
    <2>2. /\ x \in Texture /\ x.kind = w5.t.kind /\ x.image = w5.t.image
          /\ x.mipViews = w5.t.mipViews /\ x.levels = w5.t.levels /\ x.layout = w5.t.layout
      BY <2>1, UpdateDescriptorIs
    <2>3. w.t = x /\ w.g = w5.g
      BY DEF Work
    <2> HIDE DEF w, x, read
    <2>4. Growing(w, t0, g, parts, w.t.layout, read)
      BY <1>16, <2>2, <2>3, Relabels
    <2> QED
      BY <2>1, <2>2, <2>3, <2>4
  <1>18. SamePlaces(AllLayers(t0), AllLevels(t0), read,
                    Everywhere(AllLayers(t0), AllLevels(t0), ShaderRead))
    BY DEF SamePlaces, F, L
  <1>19. 0 \in AllLevels(t0) /\ t0.kind \notin {"depth", "array"}
    BY <1>3, <1>4 DEF L
  <1> HIDE DEF w, read
  <1>20. Settled(w, g)
    BY <1>17, <1>18, <1>19, Settles
  <1> QED
    BY <1>2, <1>20

-----------------------------------------------------------------------------
LEMMA Relabelled ==
    ASSUME NEW w, NEW t, NEW g, NEW parts, NEW layout, NEW lay,
           Growing(w, t, g, parts, layout, lay), NEW new \in ImageLayouts
    PROVE  Growing(Work(InLayout(w.t, new), w.g), t, g, parts, new, lay)
  <1> DEFINE x == InLayout(w.t, new)
             u == Work(x, w.g)
  <1>1. w.t \in Texture
    BY DEF Growing
  <1>2. /\ x \in Texture /\ x.layout = new /\ x.kind = w.t.kind /\ x.image = w.t.image
        /\ x.mipViews = w.t.mipViews /\ x.levels = w.t.levels
    BY <1>1, InLayoutIs
  <1>3. u.t = x /\ u.g = w.g
    BY DEF Work
  <1> HIDE DEF x, u
  <1>4. Growing(u, t, g, parts, u.t.layout, lay)
    BY <1>2, <1>3, Relabels
  <1> QED
    BY <1>2, <1>3, <1>4 DEF u, x

(* One layout everywhere is what a texture keeps. *)
LEMMA SettlesEverywhere ==
    ASSUME NEW w, NEW t, NEW g, NEW parts, NEW layout,
           Growing(w, t, g, parts, layout, Everywhere(AllLayers(t), AllLevels(t), layout)),
           0 \in AllLevels(t), t.kind \in {"depth", "array"} => AllLevels(t) = {0}
    PROVE  Settled(w, g)
  <1> DEFINE lay == Everywhere(AllLayers(t), AllLevels(t), layout)
  <1>1. SamePlaces(AllLayers(t), AllLevels(t), lay, Everywhere(AllLayers(t), AllLevels(t), layout))
    BY DEF SamePlaces
  <1> HIDE DEF lay
  <1>2. Growing(w, t, g, parts, layout, lay)
    BY DEF lay
  <1> QED
    BY <1>1, <1>2, Settles

LEMMA WrappedSettles ==
    ASSUME NEW t \in Texture, NEW g, IsFiniteSet(g.handles), t.kind = "2d",
           DOMAIN t.mipViews = {}, t.layout = Undefined, t.levels = 1
    PROVE  Settled(Wrapped(t, g), g)
  <1> DEFINE w1 == WithImage(Work(t, g))
             w2 == WithView(w1)
             w3 == Work([w2.t EXCEPT !.deleteImage = FALSE], w2.g)
             w == Transition(w3, Present)
             F == AllLayers(t)
             L == AllLevels(t)
             none == Everywhere(F, L, Undefined)
             parts == {"image"} \cup {"all"}
  <1>1. Wrapped(t, g) = w
    BY DEF Wrapped
  <1>2. Growing(w1, t, g, {"image"}, Undefined, none)
    BY MakesImage
  <1> HIDE DEF w1, none
  <1>3. Growing(w2, t, g, parts, Undefined, none)
    BY <1>2, MakesView
  <1>4. w3.t = [w2.t EXCEPT !.deleteImage = FALSE] /\ w3.g = w2.g
    BY DEF Work
  <1> HIDE DEF w2, w3, parts
  <1>5. Growing(w3, t, g, parts, Undefined, none) /\ w3.t.layout = Undefined
    <2>1. w2.t \in Texture /\ w2.t.layout = Undefined
      BY <1>3 DEF Growing
    <2>2. /\ w3.t \in Texture /\ w3.t.kind = w2.t.kind /\ w3.t.levels = w2.t.levels
          /\ w3.t.mipViews = w2.t.mipViews /\ w3.t.image = w2.t.image /\ w3.t.layout = Undefined
      BY <1>4, <2>1 DEF Texture
    <2>3. Growing(w3, t, g, parts, w3.t.layout, none)
      BY <1>3, <1>4, <2>2, Relabels
    <2> QED
      BY <2>2, <2>3
  <1>6. Growing(w, t, g, parts, Present, Everywhere(F, L, Present))
    <2>1. Movable(w3.t, Present, none)
      BY <1>5 DEF Movable, Present, Undefined
    <2> QED
      BY <1>5, <2>1, SomeLayouts, Transitions
  <1>7. 0 \in AllLevels(t) /\ t.kind \notin {"depth", "array"}
    BY DEF AllLevels, Range0
  <1> HIDE DEF w
  <1>8. Settled(w, g)
    BY <1>6, <1>7, SettlesEverywhere
  <1> QED
    BY <1>1, <1>8

LEMMA DepthInitSettles ==
    ASSUME NEW t \in Texture, NEW g, IsFiniteSet(g.handles), t.kind = "depth",
           DOMAIN t.mipViews = {}, AllLevels(t) = {0}
    PROVE  Settled(DepthInit(t, g), g)
  <1> DEFINE w1 == WithImage(Work(t, g))
             w2 == WithView(w1)
             cmd == Command(w2.t.image, {0}, {0}, Undefined, DepthDrawn)
             w3 == Executed(w2, <<cmd>>)
             w4 == WithSampler(w3)
             w == Work(InLayout(w4.t, DepthDrawn), w4.g)
             F == AllLayers(t)
             L == AllLevels(t)
             none == Everywhere(F, L, Undefined)
             lay == Everywhere(F, L, DepthDrawn)
             parts == {"image"} \cup {"all"}
  <1>1. DepthInit(t, g) = w
    BY DEF DepthInit
  <1>2. Growing(w1, t, g, {"image"}, t.layout, none)
    BY MakesImage
  <1> HIDE DEF w1, none
  <1>3. Growing(w2, t, g, parts, t.layout, none)
    BY <1>2, MakesView
  <1>4. F = {0} /\ L = {0} /\ w2.t.image \in Images
    BY <1>3 DEF AllLayers, Layers, Range0, Growing
  <1> HIDE DEF w2, parts
  <1>5. Takes(<<cmd>>, w2.t.image, F, L, none, lay)
    <2>1. F \in SUBSET Nat /\ L \in SUBSET Nat /\ cmd = Command(w2.t.image, F, L, Undefined, DepthDrawn)
      BY <1>4
    <2> HIDE DEF F, L, cmd, lay
    <2> QED
      BY <1>4, <2>1, SomeLayouts, TakesWhole DEF lay
  <1> HIDE DEF cmd, lay
  <1>6. Growing(w3, t, g, parts, t.layout, lay)
    BY <1>3, <1>5, Executes
  <1> HIDE DEF w3
  <1>7. "sampler" \notin parts
    BY DEF parts
  <1>8. Growing(w4, t, g, parts \cup {"sampler"}, t.layout, lay)
    BY <1>6, <1>7, MakesSampler
  <1> HIDE DEF w4
  <1>9. Growing(w, t, g, parts \cup {"sampler"}, DepthDrawn, lay)
    BY <1>8, SomeLayouts, Relabelled
  <1> HIDE DEF w
  <1>10. Settled(w, g)
    BY <1>4, <1>9, SettlesEverywhere DEF lay
  <1> QED
    BY <1>1, <1>10

LEMMA DepthArrayInitSettles ==
    ASSUME NEW t \in Texture, NEW g, IsFiniteSet(g.handles), t.kind = "array",
           DOMAIN t.mipViews = {}, AllLevels(t) = {0}
    PROVE  Settled(DepthArrayInit(t, g), g)
  <1> DEFINE w1 == WithImage(Work(t, g))
             w2 == WithView(w1)
             w3 == WithLayerViews(w2)
             F == AllLayers(t)
             L == AllLevels(t)
             cmd == Command(w3.t.image, F, {0}, Undefined, DepthDrawn)
             w4 == Executed(w3, <<cmd>>)
             w5 == WithSampler(w4)
             w == Work(InLayout(w5.t, DepthDrawn), w5.g)
             none == Everywhere(F, L, Undefined)
             lay == Everywhere(F, L, DepthDrawn)
             parts == {"image"} \cup {"all"} \cup {"layer"}
  <1>1. DepthArrayInit(t, g) = w
    BY DEF DepthArrayInit
  <1>2. Growing(w1, t, g, {"image"}, t.layout, none)
    BY MakesImage
  <1> HIDE DEF w1, none
  <1>3. Growing(w2, t, g, {"image"} \cup {"all"}, t.layout, none)
    BY <1>2, MakesView
  <1> HIDE DEF w2
  <1>4. Growing(w3, t, g, parts, t.layout, none)
    BY <1>3, MakesLayerViews
  <1>5. L = {0} /\ w3.t.image \in Images /\ F \in SUBSET Nat /\ L \in SUBSET Nat
    BY <1>4, LayersAreNat DEF Growing
  <1> HIDE DEF w3, parts
  <1>6. Takes(<<cmd>>, w3.t.image, F, L, none, lay)
    <2>1. cmd = Command(w3.t.image, F, L, Undefined, DepthDrawn)
      BY <1>5
    <2> HIDE DEF F, L, cmd, lay
    <2> QED
      BY <1>5, <2>1, SomeLayouts, TakesWhole DEF lay
  <1> HIDE DEF cmd, lay
  <1>7. Growing(w4, t, g, parts, t.layout, lay)
    BY <1>4, <1>6, Executes
  <1> HIDE DEF w4
  <1>8. "sampler" \notin parts
    BY DEF parts
  <1>9. Growing(w5, t, g, parts \cup {"sampler"}, t.layout, lay)
    BY <1>7, <1>8, MakesSampler
  <1> HIDE DEF w5
  <1>10. Growing(w, t, g, parts \cup {"sampler"}, DepthDrawn, lay)
    BY <1>9, SomeLayouts, Relabelled
  <1> HIDE DEF w
  <1>11. Settled(w, g)
    BY <1>5, <1>10, SettlesEverywhere DEF lay
  <1> QED
    BY <1>1, <1>11

(* A cube to draw to, which grows from the texture with all its levels. *)
LEMMA CubeFromDataGrows ==
    ASSUME NEW t \in Texture, NEW g, NEW data \in BOOLEAN, IsFiniteSet(g.handles), t.kind = "cube",
           DOMAIN t.mipViews = {}, t.size > 0
    PROVE  LET t0 == [t EXCEPT !.levels = MipCount(t.size)]
           IN  \E parts : Growing(CubeFromData(t, g, data), t0, g, parts, Colour,
                                  Everywhere(AllLayers(t0), AllLevels(t0), Colour))
  <1> DEFINE levels == MipCount(t.size)
             t0 == [t EXCEPT !.levels = levels]
             w1 == WithImage(Work(t0, g))
             w2 == WithSampler(w1)
             w3 == WithView(w2)
             image == w3.t.image
             all == AllLayers(t)
             some == AllLevels(w3.t)
             copy == << Command(image, all, some, Undefined, Dst), Use(image, all, some, Dst),
                        Command(image, all, some, Dst, ShaderRead) >>
             cmd == Command(w3.t.image, all, some, Undefined, Colour)
             w4 == IF data THEN Executed(w3, copy) ELSE w3
             w5 == WithLayerViews(w4)
             w6 == Executed(w5, <<cmd>>)
             w == Work(InLayout(w5.t, Colour), ExecuteAll(w5.g, <<cmd>>))
             F == AllLayers(t0)
             L == AllLevels(t0)
             none == Everywhere(F, L, Undefined)
             read == Everywhere(F, L, ShaderRead)
             lay == IF data THEN read ELSE none
             colour == Everywhere(F, L, Colour)
             parts == {"image"} \cup {"sampler"} \cup {"all"}
  <1>1. CubeFromData(t, g, data) = w
    BY DEF CubeFromData
  <1>2. levels \in Nat \ {0}
    BY MipCountIsNat DEF Texture
  <1> HIDE DEF levels
  <1>3. t0 \in Texture /\ t0.kind = "cube" /\ DOMAIN t0.mipViews = {} /\ all = F
    BY <1>2 DEF Texture, AllLayers, Layers
  <1> HIDE DEF t0
  <1>4. Growing(w1, t0, g, {"image"}, t0.layout, none)
    BY <1>3, MakesImage
  <1> HIDE DEF w1, none
  <1>5. Growing(w2, t0, g, {"image"} \cup {"sampler"}, t0.layout, none)
    BY <1>4, MakesSampler
  <1> HIDE DEF w2
  <1>6. Growing(w3, t0, g, parts, t0.layout, none)
    BY <1>5, MakesView
  <1>7. image \in Images /\ F \in SUBSET Nat /\ L \in SUBSET Nat /\ some = L
    BY <1>3, <1>6, LayersAreNat DEF Growing, Texture, AllLevels
  <1> HIDE DEF w3, parts, all, some, F, L
  <1>8. Growing(w4, t0, g, parts, t0.layout, lay) /\ w4.t.image = image
    <2>1. CASE data
      <3>1. Takes(copy, image, F, L, none, read)
        BY <1>3, <1>7, CopyTakes
      <3> HIDE DEF copy, read
      <3>2. Growing(Executed(w3, copy), t0, g, parts, t0.layout, read)
        BY <1>6, <3>1, Executes DEF F, L
      <3>3. Executed(w3, copy).t = w3.t
        BY DEF Executed, Work
      <3> QED
        BY <2>1, <3>2, <3>3
    <2>2. CASE ~data
      BY <1>6, <2>2
    <2> QED
      BY <2>1, <2>2
  <1> HIDE DEF w4, lay
  <1>9. "layer" \notin parts /\ "layer" \notin {"image"}
    BY DEF parts
  <1> DEFINE more == parts \cup {"layer"}
  <1>10. Growing(w5, t0, g, more, t0.layout, lay) /\ w5.t.image = image
    <2>1. Growing(w5, t0, g, more, t0.layout, lay)
      BY <1>3, <1>8, <1>9, MakesLayerViews
    <2>2. w4.t \in Texture
      BY <1>8 DEF Growing
    <2>3. w5.t = [w4.t EXCEPT !.layerViews = w5.t.layerViews]
      BY <2>2 DEF WithLayerViews, Work, Texture
    <2> HIDE DEF w5
    <2>4. w5.t.image = w4.t.image
      BY <2>2, <2>3 DEF Texture
    <2> QED
      BY <1>8, <2>1, <2>4
  <1> HIDE DEF w5, image, more
  <1>11. Takes(<<cmd>>, image, F, L, lay, colour)
    <2>1. cmd = Command(image, F, L, Undefined, Colour)
      BY <1>3, <1>7 DEF image
    <2> HIDE DEF cmd, colour
    <2> QED
      BY <1>7, <2>1, SomeLayouts, TakesWhole DEF colour
  <1> HIDE DEF cmd, colour
  <1>12. Growing(w6, t0, g, more, t0.layout, colour)
    BY <1>10, <1>11, Executes DEF F, L
  <1>13. w6.t = w5.t /\ w6.g = ExecuteAll(w5.g, <<cmd>>)
    BY DEF Executed, Work
  <1> HIDE DEF w6
  <1>14. Growing(Work(InLayout(w6.t, Colour), w6.g), t0, g, more, Colour, colour)
    BY <1>12, SomeLayouts, Relabelled
  <1>15. Growing(w, t0, g, more, Colour, colour)
    BY <1>13, <1>14
  <1> HIDE DEF w
  <1> QED
    BY <1>1, <1>15 DEF t0, levels, colour, F, L

LEMMA CubeFromDataSettles ==
    ASSUME NEW t \in Texture, NEW g, NEW data \in BOOLEAN, IsFiniteSet(g.handles), t.kind = "cube",
           DOMAIN t.mipViews = {}, t.size > 0
    PROVE  Settled(CubeFromData(t, g, data), g)
  <1> DEFINE t0 == [t EXCEPT !.levels = MipCount(t.size)]
             w == CubeFromData(t, g, data)
  <1>1. PICK parts : Growing(w, t0, g, parts, Colour, Everywhere(AllLayers(t0), AllLevels(t0), Colour))
    BY CubeFromDataGrows
  <1>2. 0 \in AllLevels(t0) /\ t0.kind \notin {"depth", "array"}
    <2>1. MipCount(t.size) \in Nat /\ MipCount(t.size) > 0
      BY MipCountIsNat DEF Texture
    <2> QED
      BY <2>1 DEF AllLevels, Range0, Texture
  <1> HIDE DEF t0, w
  <1>3. Settled(w, g)
    BY <1>1, <1>2, SettlesEverywhere
  <1> QED
    BY <1>3 DEF w

LEMMA CubeFromFilesSettles ==
    ASSUME NEW t \in Texture, NEW g, NEW mips \in Nat \ {0}, IsFiniteSet(g.handles), t.kind = "cube",
           DOMAIN t.mipViews = {}
    PROVE  Settled(CubeFromFiles(t, g, mips), g)
  <1> DEFINE t0 == [t EXCEPT !.levels = mips]
             w1 == WithImage(Work(t0, g))
             image == w1.t.image
             all == AllLayers(t)
             some == Range0(mips)
             copy == << Command(image, all, some, Undefined, Dst), Use(image, all, some, Dst),
                        Command(image, all, some, Dst, ShaderRead) >>
             w2 == Executed(w1, copy)
             w3 == WithSampler(w2)
             w4 == WithView(w3)
             w5 == WithLayerViews(w4)
             w == Work(InLayout(w5.t, ShaderRead), w5.g)
             F == AllLayers(t0)
             L == AllLevels(t0)
             none == Everywhere(F, L, Undefined)
             read == Everywhere(F, L, ShaderRead)
             parts == {"image"} \cup {"sampler"} \cup {"all"}
  <1>1. CubeFromFiles(t, g, mips) = w
    BY DEF CubeFromFiles
  <1>2. /\ t0 \in Texture /\ t0.kind = "cube" /\ DOMAIN t0.mipViews = {} /\ all = F /\ some = L /\ 0 \in L
        /\ F \in SUBSET Nat /\ L \in SUBSET Nat
    <2>1. t0 \in Texture /\ t0.kind = t.kind /\ t0.mipViews = t.mipViews /\ t0.levels = mips
      BY DEF Texture
    <2> HIDE DEF t0
    <2> QED
      BY <2>1, LayersAreNat DEF AllLayers, AllLevels, Layers, Range0
  <1> HIDE DEF t0
  <1>3. Growing(w1, t0, g, {"image"}, t0.layout, none)
    BY <1>2, MakesImage
  <1>4. image \in Images
    BY <1>3 DEF Growing
  <1> HIDE DEF w1, none, all, some, F, L
  <1>5. Takes(copy, image, F, L, none, read)
    BY <1>2, <1>4, CopyTakes
  <1> HIDE DEF copy, read
  <1>6. Growing(w2, t0, g, {"image"}, t0.layout, read)
    BY <1>3, <1>5, Executes DEF F, L
  <1> HIDE DEF w2
  <1>7. Growing(w3, t0, g, {"image"} \cup {"sampler"}, t0.layout, read)
    BY <1>6, MakesSampler
  <1> HIDE DEF w3
  <1>8. Growing(w4, t0, g, parts, t0.layout, read)
    BY <1>7, MakesView
  <1>9. "layer" \notin parts
    OBVIOUS
  <1> HIDE DEF w4, parts
  <1>10. Growing(w5, t0, g, parts \cup {"layer"}, t0.layout, read)
    BY <1>2, <1>8, <1>9, MakesLayerViews
  <1> HIDE DEF w5
  <1>11. Growing(w, t0, g, parts \cup {"layer"}, ShaderRead, read)
    BY <1>10, SomeLayouts, Relabelled
  <1> HIDE DEF w
  <1>12. Settled(w, g)
    BY <1>2, <1>11, SettlesEverywhere DEF read, F, L
  <1> QED
    BY <1>1, <1>12

LEMMA CubeFromHdriSettles ==
    ASSUME NEW t \in Texture, NEW g, IsFiniteSet(g.handles), t.kind = "cube",
           DOMAIN t.mipViews = {}, t.size > 0
    PROVE  Settled(CubeFromHdri(t, g), g)
  <1> DEFINE levels == MipCount(t.size)
             t0 == [t EXCEPT !.levels = levels]
             cube == CubeFromData(t, g, FALSE)
             image == cube.t.image
             draws == [i \in 1 .. CubeFaces |-> Use(cube.t.image, {i - 1}, {0}, cube.t.layout)]
             drawn == Executed(cube, draws)
             w == GenerateMipMaps(drawn)
             F == AllLayers(t0)
             L == AllLevels(t0)
             colour == Everywhere(F, L, Colour)
             dst == Everywhere(F, L, Dst)
             read == Everywhere(F, L, ShaderRead)
  <1>1. CubeFromHdri(t, g) = w
    BY DEF CubeFromHdri
  <1>2. levels \in Nat \ {0}
    BY MipCountIsNat DEF Texture
  <1>3. PICK parts : Growing(cube, t0, g, parts, Colour, colour)
    BY CubeFromDataGrows
  <1> HIDE DEF levels
  <1>4. t0 \in Texture /\ t0.kind = "cube" /\ t0.levels = levels
    BY <1>2 DEF Texture
  <1> HIDE DEF t0
  <1>5. /\ F = Range0(CubeFaces) /\ L = Range0(levels) /\ 0 \in L
        /\ F \in SUBSET Nat /\ L \in SUBSET Nat
    BY <1>2, <1>4, LayersAreNat DEF AllLayers, AllLevels, Layers, Range0
  <1>6. /\ image \in Images /\ cube.t.layout = Colour /\ cube.t.levels = levels /\ cube.t.kind = "cube"
        /\ cube.t \in Texture
    BY <1>3, <1>4 DEF Growing
  <1> HIDE DEF cube, F, L
  <1>7. Takes(draws, image, F, L, colour, colour)
    <2>1. ASSUME NEW i \in 1 .. CubeFaces
          PROVE  /\ draws[i] \in Commands /\ draws[i].image = image
                 /\ draws[i].faces \subseteq F /\ draws[i].levels \subseteq L
                 /\ draws[i].old = Colour /\ draws[i].new = Colour
      <3>1. i - 1 \in Nat /\ i - 1 \in F
        BY <1>5, TexturesAssumption DEF Range0
      <3>2. {i - 1} \in SUBSET Nat /\ {0} \in SUBSET Nat
        BY <3>1
      <3> DEFINE c == Command(image, {i - 1}, {0}, Colour, Colour)
      <3>3. c \in Commands
        BY <1>6, <3>2, SomeLayouts, CommandIs
      <3>4. c.image = image /\ c.faces = {i - 1} /\ c.levels = {0} /\ c.old = Colour /\ c.new = Colour
        BY DEF Command
      <3>5. draws[i] = c
        BY <1>6 DEF Use
      <3> HIDE DEF c, draws
      <3> QED
        BY <1>5, <3>1, <3>3, <3>4, <3>5
    <2>2. draws \in Seq(Commands) /\ Len(draws) = CubeFaces
      <3>1. draws \in [1 .. CubeFaces -> Commands]
        BY <2>1
      <3>2. CubeFaces \in Nat
        BY TexturesAssumption
      <3> HIDE DEF draws
      <3> QED
        BY <3>1, <3>2
    <2>3. \A f \in F, l \in L : colour[f][l] = Colour
      BY EverywhereIs
    <2> HIDE DEF draws, colour
    <2> QED
      BY <2>1, <2>2, <2>3, TakesUses
  <1>8. drawn.t = cube.t
    BY DEF Executed, Work
  <1> HIDE DEF draws, colour
  <1>9. Growing(drawn, t0, g, parts, Colour, colour)
    BY <1>3, <1>7, Executes DEF F, L, image
  <1> HIDE DEF drawn
  <1> DEFINE down == Command(image, F, L, Colour, Dst)
             faces == InTurn([i \in 1 .. CubeFaces |-> MipCommands(image, i - 1, levels)], 4 * levels - 3)
             up == Command(image, F, L, ShaderRead, Colour)
             C == <<down>> \o faces \o <<up>>
  <1>10. w = Executed(drawn, C)
    <2>1. AllLayers(cube.t) = F /\ AllLevels(cube.t) = L
      BY <1>4, <1>6 DEF AllLayers, AllLevels, Layers, F, L
    <2> QED
      BY <1>6, <1>8, <2>1 DEF GenerateMipMaps
  <1>11. Takes(<<down>>, image, F, L, colour, dst)
    BY <1>5, <1>6, SomeLayouts, TakesFrom DEF colour
  <1>12. Takes(faces, image, F, L, dst, read)
    <2>1. \A f \in F, l \in L : dst[f][l] = Dst /\ read[f][l] = ShaderRead
      BY EverywhereIs
    <2> HIDE DEF dst, read
    <2>2. \A f \in Range0(CubeFaces), l \in Range0(levels) : dst[f][l] = Dst /\ read[f][l] = ShaderRead
      BY <1>5, <2>1
    <2>3. Takes(faces, image, Range0(CubeFaces), Range0(levels), dst, read)
      BY <1>2, <1>6, <2>2, FacesTake
    <2> HIDE DEF faces
    <2> QED
      BY <1>5, <2>3
  <1>13. Takes(<<up>>, image, F, L, read, colour)
    BY <1>5, <1>6, SomeLayouts, TakesFrom DEF colour
  <1> HIDE DEF down, up, faces, dst, read
  <1>14. Takes(<<down>> \o faces, image, F, L, colour, read)
    BY <1>11, <1>12, TakesBoth
  <1>15. Takes(C, image, F, L, colour, colour)
    BY <1>13, <1>14, TakesBoth
  <1> HIDE DEF C
  <1>16. Takes(C, drawn.t.image, AllLayers(t0), AllLevels(t0), colour, colour)
    BY <1>8, <1>15 DEF image, F, L
  <1>17. Growing(w, t0, g, parts, Colour, colour)
    BY <1>9, <1>10, <1>16, Executes
  <1> HIDE DEF w
  <1>18. Settled(w, g)
    BY <1>4, <1>5, <1>17, SettlesEverywhere DEF colour, F, L
  <1> QED
    BY <1>1, <1>18

-----------------------------------------------------------------------------
(***************************************************************************)
(* The textures tx, a device and the commands that are recorded for it.    *)
(***************************************************************************)
Agreed(tx, g, C) ==
    /\ C \in Seq(Commands) /\ Right(g, C)
    /\ g.faults \subseteq {None} /\ ImagesLaidOut(g)
    /\ \A s \in Here(tx) : tx[s].image # None => Laid(ExecuteAll(g, C), tx[s])

LEMMA LaidLike ==
    ASSUME NEW g, NEW h, NEW t, Laid(g, t), Like(g, h, t.image), t.image \in h.handles
    PROVE  Laid(h, t)
  BY HasLike DEF Laid

(* A texture of the same image that is in another layout. *)
LEMMA LaidAs ==
    ASSUME NEW g, NEW h, NEW t, NEW u, Laid(g, t), u.image = t.image, u.kind = t.kind, u.levels = t.levels,
           Has(h, t.image, AllLayers(t), AllLevels(t), Everywhere(AllLayers(t), AllLevels(t), u.layout))
    PROVE  Laid(h, u)
  <1>1. AllLayers(u) = AllLayers(t) /\ AllLevels(u) = AllLevels(t)
    BY DEF AllLayers, AllLevels, Layers
  <1> QED
    BY <1>1 DEF Laid

LEMMA LaidImage ==
    ASSUME NEW g, NEW C, NEW t, Laid(ExecuteAll(g, C), t)
    PROVE  t.image \in g.handles /\ t.image \in DOMAIN g.layouts
  BY DEF Laid, Has, ExecuteAll

(* A new texture, or one that is made anew. *)
LEMMA AgreedNew ==
    ASSUME NEW S, NEW tx \in [Slots -> S], NEW g, NEW C, Agreed(tx, g, C), NEW s \in Slots,
           NEW w, Settled(w, g)
    PROVE  Agreed([tx EXCEPT ![s] = w.t], w.g, C)
  <1> DEFINE ty == [tx EXCEPT ![s] = w.t]
             image == w.t.image
             h == w.g
  <1>1. /\ image \in Images /\ image \notin g.handles /\ image # None
        /\ Extended(g, h, image) /\ DOMAIN h.layouts = DOMAIN g.layouts \cup {image}
        /\ Laid(h, w.t) /\ image \in h.handles /\ image \in DOMAIN h.layouts
    BY ApartNew, ImagesAre DEF Settled, Laid, Has
  <1>2. C \in Seq(Commands) /\ Len(C) \in Nat /\ Right(g, C) /\ ImagesLaidOut(g)
    BY LenProperties DEF Agreed
  <1>3. Right(h, C)
    BY <1>1, <1>2, RightStill
  <1>4. h.faults \subseteq {None} /\ g.handles \subseteq h.handles
    BY <1>1 DEF Agreed, Extended
  <1>5. ImagesLaidOut(h)
    <2>1. ASSUME NEW i \in h.handles \cap Images PROVE i \in DOMAIN h.layouts
      <3>1. CASE i \in g.handles
        BY <1>1, <1>2, <3>1 DEF ImagesLaidOut
      <3>2. CASE i.n = image.n
        <4>1. i = Image(i.n) /\ image = Image(image.n)
          BY <1>1, ImagesAre
        <4> QED
          BY <1>1, <3>2, <4>1
      <3> QED
        BY <3>1, <3>2 DEF Settled
    <2> QED
      BY <1>1, <1>2, <2>1 DEF ImagesLaidOut
  <1>6. Laid(ExecuteAll(h, C), w.t)
    <2>1. ASSUME NEW k \in 1 .. Len(C) PROVE C[k].image # image
      <3>1. C[k].image = None \/ C[k].image \in g.handles
        BY <1>2 DEF Right, Finds
      <3> QED
        BY <1>1, <3>1
    <2>2. Like(h, ExecuteAll(h, C), image)
      BY <1>1, <1>2, <2>1, OthersStay
    <2>3. image \in ExecuteAll(h, C).handles
      BY <1>1 DEF ExecuteAll
    <2> QED
      BY <1>1, <2>2, <2>3, LaidLike
  <1>7. ASSUME NEW r \in Here(ty), ty[r].image # None PROVE Laid(ExecuteAll(h, C), ty[r])
    <2>1. CASE r = s /\ ty[r] = w.t
      BY <1>6, <2>1
    <2>2. CASE r # s /\ r \in Here(tx) /\ ty[r] = tx[r]
      <3> DEFINE t == tx[r]
      <3>1. Laid(ExecuteAll(g, C), t)
        BY <1>7, <2>2 DEF Agreed
      <3>2. t.image \in g.handles /\ t.image \in DOMAIN g.layouts
        BY <3>1, LaidImage
      <3>3. Like(g, h, t.image)
        BY <1>1, <3>2 DEF Extended
      <3>4. Like(ExecuteAll(g, C), ExecuteAll(h, C), t.image)
        BY <3>3, LikeAfter
      <3>5. t.image \in ExecuteAll(h, C).handles
        BY <1>4, <3>2 DEF ExecuteAll
      <3> QED
        BY <2>2, <3>1, <3>4, <3>5, LaidLike
    <2>3. (r = s /\ ty[r] = w.t) \/ (r # s /\ r \in Here(tx) /\ ty[r] = tx[r])
      <3>1. r \in Slots /\ ty[r] # NoTexture
        BY DEF Here
      <3>2. ty[r] = IF r = s THEN w.t ELSE tx[r]
        BY <3>1
      <3> HIDE DEF ty
      <3> QED
        BY <3>1, <3>2 DEF Here
    <2> HIDE DEF ty, h
    <2> QED
      BY <2>1, <2>2, <2>3
  <1> HIDE DEF ty, h
  <1>8. Agreed(ty, h, C)
    BY <1>2, <1>3, <1>4, <1>5, <1>7 DEF Agreed
  <1> QED
    BY <1>8 DEF ty, h

(* A texture that goes, or has no image. *)
LEMMA AgreedWithout ==
    ASSUME NEW S, NEW tx \in [Slots -> S], NEW g, NEW C, Agreed(tx, g, C), NEW s \in Slots,
           NEW u, u = NoTexture \/ u.image = None
    PROVE  Agreed([tx EXCEPT ![s] = u], g, C)
  <1> DEFINE ty == [tx EXCEPT ![s] = u]
  <1>1. ASSUME NEW r \in Here(ty), ty[r].image # None PROVE Laid(ExecuteAll(g, C), ty[r])
    <2>1. r \in Here(tx) /\ ty[r] = tx[r]
      BY <1>1 DEF Here
    <2> QED
      BY <1>1, <2>1 DEF Agreed
  <1> HIDE DEF ty
  <1>2. Agreed(ty, g, C)
    BY <1>1 DEF Agreed
  <1> QED
    BY <1>2 DEF ty

(* A device that has more handles, but no other images. *)
Richer(g, h) ==
    /\ g.handles \subseteq h.handles /\ h.handles \cap Images \subseteq g.handles
    /\ h.faults = g.faults /\ DOMAIN h.layouts = DOMAIN g.layouts
    /\ \A image \in DOMAIN g.layouts : Like(g, h, image)

LEMMA AgreedRicher ==
    ASSUME NEW tx, NEW g, NEW h, NEW C, Agreed(tx, g, C), Richer(g, h)
    PROVE  Agreed(tx, h, C)
  <1>1. C \in Seq(Commands) /\ Right(g, C) /\ ImagesLaidOut(g)
    BY DEF Agreed
  <1>2. ImagesLaidOut(h)
    BY <1>1 DEF ImagesLaidOut, Richer
  <1>3. Right(h, C)
    <2> SUFFICES ASSUME NEW k \in 1 .. Len(C), C[k].image # None PROVE Finds(h, C, k)
      BY DEF Right
    <2>1. Finds(g, C, k) /\ C[k].image \in g.handles
      BY <1>1 DEF Right, Finds
    <2>2. C[k].image \in Images
      <3>1. C[k] \in Commands
        BY <1>1, ElementOfSeq
      <3> QED
        BY <3>1 DEF Commands
    <2>3. Like(g, h, C[k].image) /\ C[k].image \in h.handles
      BY <1>1, <2>1, <2>2 DEF ImagesLaidOut, Richer
    <2> QED
      BY <2>1, <2>3, FindsStill
  <1>4. ASSUME NEW s \in Here(tx), tx[s].image # None PROVE Laid(ExecuteAll(h, C), tx[s])
    <2>1. Laid(ExecuteAll(g, C), tx[s])
      BY <1>4 DEF Agreed
    <2>2. tx[s].image \in g.handles /\ tx[s].image \in DOMAIN g.layouts
      BY <2>1, LaidImage
    <2>3. Like(ExecuteAll(g, C), ExecuteAll(h, C), tx[s].image)
      BY <2>2, LikeAfter DEF Richer
    <2>4. tx[s].image \in ExecuteAll(h, C).handles
      BY <2>2 DEF Richer, ExecuteAll
    <2> QED
      BY <2>1, <2>3, <2>4, LaidLike
  <1> QED
    BY <1>1, <1>2, <1>3, <1>4 DEF Agreed, Richer

(* The texture in slot s does not share its image. *)
Alone(tx, s) == \A r \in Here(tx) \ {s} : tx[r].image # None => tx[r].image # tx[s].image

(* What is recorded for a texture takes its image to where it now keeps it *)
(* to be.                                                                  *)
LEMMA AgreedMoved ==
    ASSUME NEW S, NEW tx \in [Slots -> S], NEW g, NEW C, Agreed(tx, g, C),
           NEW s \in Here(tx), tx[s].image \in Images, Alone(tx, s),
           NEW u, u.image = tx[s].image, u.kind = tx[s].kind, u.levels = tx[s].levels,
           NEW b, Takes(b, tx[s].image, AllLayers(tx[s]), AllLevels(tx[s]),
                        Everywhere(AllLayers(tx[s]), AllLevels(tx[s]), tx[s].layout),
                        Everywhere(AllLayers(tx[s]), AllLevels(tx[s]), u.layout))
    PROVE  Agreed([tx EXCEPT ![s] = u], g, C \o b)
  <1> DEFINE t == tx[s]
             F == AllLayers(t)
             L == AllLevels(t)
             from == Everywhere(F, L, t.layout)
             to == Everywhere(F, L, u.layout)
             all == C \o b
             ty == [tx EXCEPT ![s] = u]
  <1>1. /\ C \in Seq(Commands) /\ Right(g, C) /\ ImagesLaidOut(g) /\ g.faults \subseteq {None}
        /\ Laid(ExecuteAll(g, C), t)
    BY ImagesAre DEF Agreed
  <1>2. Has(ExecuteAll(g, C), t.image, F, L, from)
    BY <1>1 DEF Laid
  <1>3. Takes(b, t.image, F, L, from, to)
    OBVIOUS
  <1>4. ty = [tx EXCEPT ![s] = u] /\ s \in Slots
    BY DEF Here
  <1> HIDE DEF from, to
  <1>5. /\ all \in Seq(Commands) /\ Right(g, all)
        /\ Has(ExecuteAll(g, all), t.image, F, L, to)
        /\ \A other \in DOMAIN g.layouts :
              other # t.image => Like(ExecuteAll(g, C), ExecuteAll(g, all), other)
    BY <1>1, <1>2, <1>3, RecordTakes
  <1> HIDE DEF all, ty
  <1>6. Laid(ExecuteAll(g, all), u)
    BY <1>1, <1>5, LaidAs DEF to
  <1>7. ASSUME NEW r \in Here(ty), ty[r].image # None PROVE Laid(ExecuteAll(g, all), ty[r])
    <2>1. CASE r = s /\ ty[r] = u
      BY <1>6, <2>1
    <2>2. CASE r # s /\ r \in Here(tx) /\ ty[r] = tx[r]
      <3>1. Laid(ExecuteAll(g, C), tx[r])
        BY <1>7, <2>2 DEF Agreed
      <3>2. tx[r].image \in g.handles /\ tx[r].image \in DOMAIN g.layouts
        BY <3>1, LaidImage
      <3>3. tx[r].image # t.image
        BY <1>7, <2>2 DEF Alone
      <3>4. Like(ExecuteAll(g, C), ExecuteAll(g, all), tx[r].image)
        BY <1>5, <3>2, <3>3
      <3>5. tx[r].image \in ExecuteAll(g, all).handles
        BY <3>2 DEF ExecuteAll
      <3> QED
        BY <2>2, <3>1, <3>4, <3>5, LaidLike
    <2>3. (r = s /\ ty[r] = u) \/ (r # s /\ r \in Here(tx) /\ ty[r] = tx[r])
      <3>1. r \in Slots /\ ty[r] # NoTexture
        BY DEF Here
      <3>2. ty[r] = IF r = s THEN u ELSE tx[r]
        BY <1>4, <3>1
      <3> QED
        BY <3>1, <3>2 DEF Here
    <2> QED
      BY <2>1, <2>2, <2>3
  <1>8. Agreed(ty, g, all)
    BY <1>1, <1>5, <1>7 DEF Agreed
  <1> QED
    BY <1>8 DEF ty, all

(* What is recorded for a texture without an image is about nothing. *)
LEMMA AgreedNothing ==
    ASSUME NEW tx, NEW g, NEW C, Agreed(tx, g, C),
           NEW b \in Seq(Commands), \A k \in 1 .. Len(b) : b[k].image = None
    PROVE  Agreed(tx, g, C \o b)
  <1> DEFINE all == C \o b
  <1>1. /\ C \in Seq(Commands) /\ Right(g, C) /\ ImagesLaidOut(g) /\ g.faults \subseteq {None}
    BY DEF Agreed
  <1>2. /\ all \in Seq(Commands) /\ Right(g, all)
        /\ \A other \in DOMAIN g.layouts : Like(ExecuteAll(g, C), ExecuteAll(g, all), other)
    BY <1>1, RecordNone
  <1> HIDE DEF all
  <1>3. ASSUME NEW r \in Here(tx), tx[r].image # None PROVE Laid(ExecuteAll(g, all), tx[r])
    <2>1. Laid(ExecuteAll(g, C), tx[r])
      BY <1>3 DEF Agreed
    <2>2. tx[r].image \in g.handles /\ tx[r].image \in DOMAIN g.layouts
      BY <2>1, LaidImage
    <2>3. tx[r].image \in ExecuteAll(g, all).handles
      BY <2>2 DEF ExecuteAll
    <2> QED
      BY <1>2, <2>1, <2>2, <2>3, LaidLike
  <1>4. Agreed(tx, g, all)
    BY <1>1, <1>2, <1>3 DEF Agreed
  <1> QED
    BY <1>4 DEF all

(* The frame is executed. *)
LEMMA ExecuteNone ==
    ASSUME NEW g, NEW image \in DOMAIN g.layouts
    PROVE  Like(g, ExecuteAll(g, <<>>), image)
  <1>1. Len(<<>>) = 0 /\ \A k \in 1 .. Len(<<>>) : FALSE
    BY EmptySeq
  <1> QED
    BY <1>1, OthersStay

LEMMA AgreedExecuted ==
    ASSUME NEW tx, NEW g, NEW C, Agreed(tx, g, C)
    PROVE  Agreed(tx, ExecuteAll(g, C), <<>>)
  <1> DEFINE h == ExecuteAll(g, C)
             none == <<>>
  <1>1. none \in Seq(Commands) /\ Len(none) = 0
    BY EmptySeq
  <1>2. h.handles = g.handles /\ DOMAIN h.layouts = DOMAIN g.layouts
        /\ h.faults = g.faults \cup {C[i].image : i \in {k \in DOMAIN C : ~Finds(g, C, k)}}
    BY DEF ExecuteAll
  <1>3. h.faults \subseteq {None}
    <2>1. DOMAIN C = 1 .. Len(C)
      BY LenProperties DEF Agreed
    <2>2. \A k \in DOMAIN C : ~Finds(g, C, k) => C[k].image = None
      BY <2>1 DEF Agreed, Right
    <2> HIDE DEF h
    <2> QED
      BY <1>2, <2>2 DEF Agreed
  <1>4. ImagesLaidOut(h)
    BY <1>2 DEF Agreed, ImagesLaidOut
  <1> HIDE DEF none
  <1>5. ASSUME NEW s \in Here(tx), tx[s].image # None PROVE Laid(ExecuteAll(h, none), tx[s])
    <2>1. Laid(h, tx[s])
      BY <1>5 DEF Agreed
    <2>2. tx[s].image \in g.handles /\ tx[s].image \in DOMAIN g.layouts
      BY <2>1, LaidImage
    <2> HIDE DEF h
    <2>3. Like(h, ExecuteAll(h, none), tx[s].image)
      BY <1>2, <2>2, ExecuteNone DEF none
    <2>4. tx[s].image \in ExecuteAll(h, none).handles
      BY <1>2, <2>2 DEF ExecuteAll
    <2> QED
      BY <2>1, <2>3, <2>4, LaidLike
  <1>6. Right(h, none)
    BY <1>1 DEF Right
  <1> HIDE DEF h
  <1>7. Agreed(tx, h, none)
    BY <1>1, <1>3, <1>4, <1>5, <1>6 DEF Agreed
  <1> QED
    BY <1>7 DEF h, none

(* What no texture has is destroyed. *)
LEMMA AgreedDestroyed ==
    ASSUME NEW tx, NEW g, Agreed(tx, g, <<>>), NEW gone \in Seq(Handle), Distinct(gone),
           Elements(gone) \subseteq g.handles,
           \A s \in Here(tx) : tx[s].image # None => tx[s].image \notin Elements(gone)
    PROVE  Agreed(tx, Destroy(g, gone), <<>>)
  <1> DEFINE h == Destroy(g, gone)
             none == <<>>
  <1>1. none \in Seq(Commands) /\ Len(none) = 0
    BY EmptySeq
  <1>2. /\ h.handles = g.handles \ Elements(gone)
        /\ DOMAIN h.layouts = DOMAIN g.layouts \ Elements(gone)
        /\ \A image \in DOMAIN g.layouts \ Elements(gone) : h.layouts[image] = g.layouts[image]
    BY DEF Destroy
  <1>3. h.faults = g.faults
    <2>1. {i \in DOMAIN gone : \E j \in DOMAIN gone : j < i /\ gone[j] = gone[i]} = {}
      <3> SUFFICES ASSUME NEW i \in DOMAIN gone, NEW j \in DOMAIN gone, j < i, gone[j] = gone[i]
                   PROVE  FALSE
        OBVIOUS
      <3>1. i = j
        BY DEF Distinct
      <3>2. i \in Nat
        BY LenProperties
      <3> QED
        BY <3>1, <3>2
    <2>2. {i \in DOMAIN gone : gone[i] \notin g.handles} = {}
      BY DEF Elements
    <2> QED
      BY <2>1, <2>2 DEF Destroy
  <1>4. ImagesLaidOut(h) /\ h.faults \subseteq {None}
    BY <1>2, <1>3 DEF Agreed, ImagesLaidOut
  <1> HIDE DEF none, h
  <1>5. ASSUME NEW s \in Here(tx), tx[s].image # None PROVE Laid(ExecuteAll(h, none), tx[s])
    <2>1. Laid(ExecuteAll(g, none), tx[s])
      BY <1>5 DEF Agreed, none
    <2>2. tx[s].image \in g.handles /\ tx[s].image \in DOMAIN g.layouts
      BY <2>1, LaidImage
    <2>3. tx[s].image \in h.handles /\ Like(g, h, tx[s].image)
      BY <1>2, <1>5, <2>2 DEF Like
    <2>4. Like(ExecuteAll(g, none), ExecuteAll(h, none), tx[s].image)
      BY <2>3, LikeAfter
    <2>5. tx[s].image \in ExecuteAll(h, none).handles
      BY <2>3 DEF ExecuteAll
    <2> QED
      BY <2>1, <2>4, <2>5, LaidLike
  <1>6. Right(h, none)
    BY <1>1 DEF Right
  <1>7. Agreed(tx, h, none)
    BY <1>1, <1>4, <1>5, <1>6 DEF Agreed
  <1> QED
    BY <1>7 DEF h, none

-----------------------------------------------------------------------------
(***************************************************************************)
(* Every step keeps what is agreed.                                        *)
(***************************************************************************)
Agreement == Agreed(textures, Device, recorded)

LEMMA AgreementNext ==
    ASSUME NEW tx, NEW g, NEW C, Agreed(tx, g, C),
           textures' = tx, SetDevice(g), recorded' = C
    PROVE  Agreement'
  <1> DEFINE h == [handles |-> handles', layouts |-> layouts', faults |-> faults']
  <1>1. h.handles = g.handles /\ h.layouts = g.layouts /\ h.faults = g.faults
    BY DEF SetDevice
  <1>2. Device' = h
    BY DEF Device
  <1> HIDE DEF h
  <1>3. Richer(g, h)
    <2>1. \A image \in DOMAIN g.layouts : Like(g, h, image)
      BY <1>1 DEF Like
    <2> QED
      BY <1>1, <2>1 DEF Richer
  <1>4. Agreed(tx, h, C)
    BY <1>3, AgreedRicher
  <1> QED
    BY <1>2, <1>4 DEF Agreement

LEMMA CreateAgrees ==
    ASSUME Ownership, Agreement, Create
    PROVE  Agreement'
  <1>1. PICK s \in Slots :
            /\ textures[s] = NoTexture
            /\ \/ SwapChainImage(s)
               \/ Texture2DCreate(s) \/ Texture2DFromSource(s) \/ Texture2DFromMissingFile(s)
               \/ CubeCreate(s) \/ CreateCubeFromHDRI(s) \/ CreateFromVCross(s)
               \/ DepthCreate(s) \/ DepthArrayCreate(s)
    BY DEF Create
  <1>2. textures \in [Slots -> Texture \cup {NoTexture}] /\ IsFiniteSet(Device.handles)
    BY DEF Device, Ownership, Owned
  <1>3. Range0(1) = {0}
    BY DEF Range0
  <1>4. ASSUME NEW w, Settled(w, Device), Keep(s, w) PROVE Agreement'
    <2>1. Agreed([textures EXCEPT ![s] = w.t], w.g, recorded)
      BY <1>2, <1>4, AgreedNew DEF Agreement
    <2> QED
      BY <1>4, <2>1, AgreementNext DEF Keep
  <1>5. CASE SwapChainImage(s)
    <2> DEFINE t == Blank("2d", 1)
    <2>1. /\ t \in Texture /\ t.kind = "2d" /\ DOMAIN t.mipViews = {} /\ t.levels = 1
          /\ t.layout = Undefined
      BY BlankIs DEF Kinds
    <2> HIDE DEF t
    <2>2. Settled(Wrapped(t, Device), Device)
      BY <1>2, <2>1, WrappedSettles
    <2> QED
      BY <1>4, <1>5, <2>2 DEF SwapChainImage, t
  <1>6. CASE Texture2DCreate(s)
    <2>1. PICK size \in Sizes, mips \in BOOLEAN, keep \in BOOLEAN :
              Keep(s, BuildTexture([Blank("2d", size) EXCEPT !.target = TRUE, !.createMips = mips,
                                                             !.keepMipViews = keep],
                                   Device))
      BY <1>6 DEF Texture2DCreate
    <2> DEFINE b == Blank("2d", size)
               t == [b EXCEPT !.target = TRUE, !.createMips = mips, !.keepMipViews = keep]
    <2>2. size \in Nat /\ size > 0
      BY SizesAreNat
    <2>3. /\ b \in Texture /\ b.kind = "2d" /\ DOMAIN b.mipViews = {} /\ b.levels = 1
          /\ b.size > 0
      BY <2>2, BlankIs DEF Kinds
    <2> HIDE DEF b
    <2>4. t \in Texture
      BY <2>3 DEF Texture
    <2>5. t.kind = "2d" /\ t.mipViews = b.mipViews /\ t.levels = b.levels /\ t.size = b.size
      BY <2>3 DEF Texture
    <2> HIDE DEF t
    <2>6. Settled(BuildTexture(t, Device), Device)
      BY <1>2, <2>3, <2>4, <2>5, BuildTextureSettles
    <2> QED
      BY <1>4, <2>1, <2>6 DEF t, b
  <1>7. CASE Texture2DFromSource(s)
    <2>1. PICK size \in Sizes, mips \in BOOLEAN :
              Keep(s, Loaded([Blank("2d", size) EXCEPT !.createMips = mips], Device))
      BY <1>7 DEF Texture2DFromSource
    <2> DEFINE b == Blank("2d", size)
               t == [b EXCEPT !.createMips = mips]
    <2>2. size \in Nat /\ size > 0
      BY SizesAreNat
    <2>3. /\ b \in Texture /\ b.kind = "2d" /\ DOMAIN b.mipViews = {} /\ b.layout = Undefined
          /\ b.size > 0
      BY <2>2, BlankIs DEF Kinds
    <2> HIDE DEF b
    <2>4. /\ t \in Texture /\ t.kind = "2d" /\ DOMAIN t.mipViews = {} /\ t.layout = Undefined
          /\ t.size > 0
      BY <2>3 DEF Texture
    <2> HIDE DEF t
    <2>5. Settled(Loaded(t, Device), Device)
      BY <1>2, <2>4, LoadedSettles
    <2> QED
      BY <1>4, <2>1, <2>5 DEF t, b
  <1>8. CASE Texture2DFromMissingFile(s)
    <2> DEFINE b == Blank("2d", 0)
               t == [b EXCEPT !.deleteImage = FALSE]
    <2>1. b \in Texture /\ b.image = None
      BY BlankIs DEF Kinds
    <2>2. textures' = [textures EXCEPT ![s] = t] /\ SetDevice(Device) /\ recorded' = recorded
      BY <1>8 DEF Texture2DFromMissingFile, Keep, Work
    <2> HIDE DEF b
    <2>3. t.image = None
      BY <2>1 DEF Texture
    <2> HIDE DEF t
    <2>4. Agreed([textures EXCEPT ![s] = t], Device, recorded)
      BY <1>2, <2>3, AgreedWithout DEF Agreement
    <2> QED
      BY <2>2, <2>4, AgreementNext
  <1>9. CASE CubeCreate(s)
    <2>1. PICK size \in Sizes, data \in BOOLEAN : Keep(s, CubeFromData(Blank("cube", size), Device, data))
      BY <1>9 DEF CubeCreate
    <2> DEFINE t == Blank("cube", size)
    <2>2. size \in Nat /\ size > 0
      BY SizesAreNat
    <2>3. t \in Texture /\ t.kind = "cube" /\ DOMAIN t.mipViews = {} /\ t.size > 0
      BY <2>2, BlankIs DEF Kinds
    <2> HIDE DEF t
    <2>4. Settled(CubeFromData(t, Device, data), Device)
      BY <1>2, <2>3, CubeFromDataSettles
    <2> QED
      BY <1>4, <2>1, <2>4 DEF t
  <1>10. CASE CreateCubeFromHDRI(s)
    <2>1. PICK size \in Sizes : Keep(s, CubeFromHdri(Blank("cube", size), Device))
      BY <1>10 DEF CreateCubeFromHDRI
    <2> DEFINE t == Blank("cube", size)
    <2>2. size \in Nat /\ size > 0
      BY SizesAreNat
    <2>3. t \in Texture /\ t.kind = "cube" /\ DOMAIN t.mipViews = {} /\ t.size > 0
      BY <2>2, BlankIs DEF Kinds
    <2> HIDE DEF t
    <2>4. Settled(CubeFromHdri(t, Device), Device)
      BY <1>2, <2>3, CubeFromHdriSettles
    <2> QED
      BY <1>4, <2>1, <2>4 DEF t
  <1>11. CASE CreateFromVCross(s)
    <2>1. PICK size \in Sizes : \E mips \in 1 .. MipCount(size) :
              Keep(s, CubeFromFiles(Blank("cube", size), Device, mips))
      BY <1>11 DEF CreateFromVCross
    <2>2. PICK mips \in 1 .. MipCount(size) :
              Keep(s, CubeFromFiles(Blank("cube", size), Device, mips))
      BY <2>1
    <2> DEFINE t == Blank("cube", size)
    <2>3. size \in Nat /\ size > 0
      BY SizesAreNat
    <2>4. t \in Texture /\ t.kind = "cube" /\ DOMAIN t.mipViews = {}
      BY <2>3, BlankIs DEF Kinds
    <2>5. mips \in Nat \ {0}
      BY <2>3, MipCountIsNat
    <2> HIDE DEF t
    <2>6. Settled(CubeFromFiles(t, Device, mips), Device)
      BY <1>2, <2>4, <2>5, CubeFromFilesSettles
    <2> QED
      BY <1>4, <2>2, <2>6 DEF t
  <1>12. CASE DepthCreate(s)
    <2> DEFINE t == Blank("depth", 1)
    <2>1. t \in Texture /\ t.kind = "depth" /\ t.levels = 1 /\ DOMAIN t.mipViews = {}
      BY BlankIs DEF Kinds
    <2>2. AllLevels(t) = {0}
      BY <1>3, <2>1 DEF AllLevels
    <2> HIDE DEF t
    <2>3. Settled(DepthInit(t, Device), Device)
      BY <1>2, <2>1, <2>2, DepthInitSettles
    <2> QED
      BY <1>4, <1>12, <2>3 DEF DepthCreate, t
  <1>13. CASE DepthArrayCreate(s)
    <2> DEFINE t == Blank("array", 1)
    <2>1. t \in Texture /\ t.kind = "array" /\ t.levels = 1 /\ DOMAIN t.mipViews = {}
      BY BlankIs DEF Kinds
    <2>2. AllLevels(t) = {0}
      BY <1>3, <2>1 DEF AllLevels
    <2> HIDE DEF t
    <2>3. Settled(DepthArrayInit(t, Device), Device)
      BY <1>2, <2>1, <2>2, DepthArrayInitSettles
    <2> QED
      BY <1>4, <1>13, <2>3 DEF DepthArrayCreate, t
  <1> QED
    BY <1>1, <1>5, <1>6, <1>7, <1>8, <1>9, <1>10, <1>11, <1>12, <1>13

LEMMA DeleteAgrees ==
    ASSUME Ownership, Agreement, NEW s \in Slots, Delete(s)
    PROVE  Agreement'
  <1>1. textures \in [Slots -> Texture \cup {NoTexture}]
    BY DEF Ownership, Owned
  <1>2. Agreed([textures EXCEPT ![s] = NoTexture], Device, recorded)
    BY <1>1, AgreedWithout DEF Agreement
  <1>3. /\ textures' = [textures EXCEPT ![s] = NoTexture] /\ SetDevice(Device)
        /\ recorded' = recorded
    BY DEF Delete, SetDevice, Device
  <1> QED
    BY <1>2, <1>3, AgreementNext

LEMMA Resize2DAgrees ==
    ASSUME Ownership, Agreement, NEW s \in Slots, Resize2D(s)
    PROVE  Agreement'
  <1> DEFINE t == textures[s]
  <1>1. s \in Here(textures) /\ t.target
    BY DEF Resize2D, Here
  <1>2. t \in Texture /\ Shaped(t) /\ textures \in [Slots -> Texture \cup {NoTexture}]
    BY <1>1 DEF Ownership, Owned, Here
  <1>3. PICK size \in Sizes :
            LET w == BuildTexture(Emptied(t, size), Device)
            IN  textures' = [textures EXCEPT ![s] = w.t] /\ SetDevice(w.g)
    BY DEF Resize2D
  <1> DEFINE u == Emptied(t, size)
             w == BuildTexture(u, Device)
  <1>4. t.kind = "2d" /\ t.image # None
    BY <1>1, <1>2 DEF Shaped
  <1>5. t.levels > 0
    <2>1. Laid(ExecuteAll(Device, recorded), t)
      BY <1>1, <1>4 DEF Agreement, Agreed
    <2> QED
      BY <1>2, <2>1 DEF Laid, AllLevels, Range0, Texture
  <1>6. size \in Nat /\ size > 0
    BY SizesAreNat
  <1>7. NoViews \in LevelViews /\ DOMAIN NoViews = {}
    <2>1. NoViews \in [{} -> Handle] /\ DOMAIN NoViews = {}
      BY EmptySeq DEF NoViews
    <2> QED
      BY <2>1 DEF LevelViews
  <1>8. u = [t EXCEPT !.size = size, !.mipViews = NoViews]
    BY DEF Emptied
  <1> DEFINE v == NoViews
  <1> HIDE DEF t, u, v
  <1>9. u \in Texture /\ u.kind = "2d" /\ DOMAIN u.mipViews = {} /\ u.levels > 0 /\ u.size > 0
    BY <1>2, <1>4, <1>5, <1>6, <1>7, <1>8 DEF Texture
  <1>10. IsFiniteSet(Device.handles)
    BY DEF Device, Ownership, Owned
  <1>11. Settled(w, Device)
    BY <1>9, <1>10, BuildTextureSettles
  <1>12. textures' = [textures EXCEPT ![s] = w.t] /\ SetDevice(w.g) /\ recorded' = recorded
    BY <1>3 DEF Resize2D, t, u
  <1> HIDE DEF w
  <1>13. Agreed([textures EXCEPT ![s] = w.t], w.g, recorded)
    BY <1>2, <1>11, AgreedNew DEF Agreement
  <1> QED
    BY <1>12, <1>13, AgreementNext

LEMMA ResizeDepthAgrees ==
    ASSUME Ownership, Agreement, NEW s \in Slots, ResizeDepth(s)
    PROVE  Agreement'
  <1> DEFINE t == textures[s]
             w == DepthInit(t, Device)
  <1>1. s \in Here(textures) /\ t.kind = "depth"
    BY DEF ResizeDepth, Here
  <1>2. t \in Texture /\ Shaped(t) /\ textures \in [Slots -> Texture \cup {NoTexture}]
    BY <1>1 DEF Ownership, Owned, Here
  <1>3. DOMAIN t.mipViews = {} /\ t.image # None
    BY <1>1, <1>2 DEF Shaped
  <1>4. AllLevels(t) = {0}
    <2>1. Laid(ExecuteAll(Device, recorded), t)
      BY <1>1, <1>3 DEF Agreement, Agreed
    <2> QED
      BY <1>1, <2>1 DEF Laid
  <1>5. IsFiniteSet(Device.handles)
    BY DEF Device, Ownership, Owned
  <1>6. Settled(w, Device)
    BY <1>1, <1>2, <1>3, <1>4, <1>5, DepthInitSettles
  <1>7. textures' = [textures EXCEPT ![s] = w.t] /\ SetDevice(w.g) /\ recorded' = recorded
    BY DEF ResizeDepth
  <1> HIDE DEF w
  <1>8. Agreed([textures EXCEPT ![s] = w.t], w.g, recorded)
    BY <1>2, <1>6, AgreedNew DEF Agreement
  <1> QED
    BY <1>7, <1>8, AgreementNext

LEMMA SubmitAgrees ==
    ASSUME Ownership, Agreement, Submit
    PROVE  Agreement'
  <1>1. Agreed(textures, ExecuteAll(Device, recorded), <<>>)
    BY AgreedExecuted DEF Agreement
  <1> QED
    BY <1>1, AgreementNext DEF Submit

LEMMA FlushAgrees ==
    ASSUME Ownership, Agreement, Flush
    PROVE  Agreement'
  <1>1. queue \in Seq(Handle) /\ Distinct(queue) /\ Elements(queue) \subseteq Device.handles
    BY DEF Ownership, Owned, Device
  <1>2. \A s \in Here(textures) : textures[s].image # None => textures[s].image \notin Elements(queue)
    BY DEF Ownership, Owned, NumbersApart
  <1>3. Agreed(textures, Device, <<>>)
    BY DEF Flush, Agreement
  <1>4. Agreed(textures, Destroy(Device, queue), <<>>)
    BY <1>1, <1>2, <1>3, AgreedDestroyed
  <1>5. recorded' = <<>>
    BY DEF Flush
  <1> QED
    BY <1>4, <1>5, AgreementNext DEF Flush

LEMMA DeleteForeignAgrees ==
    ASSUME Ownership, Agreement, NEW s \in Slots, DeleteForeign(s)
    PROVE  Agreement'
  <1> DEFINE t == textures[s]
             tx == [textures EXCEPT ![s] = NoTexture]
             one == <<t.image>>
  <1>1. s \in Here(textures) /\ recorded = <<>> /\ recorded' = <<>> /\ textures' = tx
    BY DEF DeleteForeign, Here
  <1>2. /\ t \in Texture /\ Shaped(t) /\ HandlesOf(t) \subseteq handles
        /\ textures \in [Slots -> Texture \cup {NoTexture}]
    BY <1>1 DEF Ownership, Owned, Here
  <1>3. Agreed(tx, Device, <<>>)
    BY <1>1, <1>2, AgreedWithout DEF Agreement
  <1>4. CASE t.image = None
    <2>1. SetDevice(Device)
      BY <1>4 DEF DeleteForeign
    <2> HIDE DEF tx
    <2> QED
      BY <1>1, <1>3, <2>1, AgreementNext
  <1>5. CASE t.image # None
    <2>1. SetDevice(Destroy(Device, one))
      BY <1>5 DEF DeleteForeign
    <2>2. t.image \in Images /\ t.image \in Handle /\ t.image \in Device.handles
      BY <1>2, <1>5, ImagesAre, HandlesAre DEF Shaped, Device
    <2>3. /\ one \in Seq(Handle) /\ Distinct(one) /\ Elements(one) = {t.image}
      BY <2>2 DEF Distinct, Elements
    <2>4. ASSUME NEW r \in Here(tx), tx[r].image # None PROVE tx[r].image \notin Elements(one)
      <3>1. r \in Here(textures) \ {s} /\ tx[r] = textures[r]
        BY <1>2 DEF Here
      <3>2. textures[r].image.n # t.image.n
        BY <1>1, <1>5, <2>4, <3>1 DEF Ownership, Owned, NumbersApart
      <3> QED
        BY <2>3, <3>1, <3>2
    <2> HIDE DEF one, tx
    <2>5. Elements(one) \subseteq Device.handles
      BY <2>2, <2>3
    <2>6. Agreed(tx, Destroy(Device, one), <<>>)
      BY <1>3, <2>3, <2>4, <2>5, AgreedDestroyed
    <2> QED
      BY <1>1, <2>1, <2>6, AgreementNext
  <1> QED
    BY <1>4, <1>5

-----------------------------------------------------------------------------
(* What is recorded for a texture. *)
LEMMA AloneThere ==
    ASSUME Ownership, NEW s \in Here(textures), textures[s].image # None
    PROVE  Alone(textures, s)
  BY DEF Ownership, Owned, NumbersApart, Alone

LEMMA MovedAndUsed ==
    ASSUME NEW t \in Texture, t.image \in Images, NEW new \in ImageLayouts,
           NEW A \in SUBSET AllLayers(t), NEW B \in SUBSET AllLevels(t)
    PROVE  Takes(Barriers(t, new) \o <<Use(t.image, A, B, new)>>, t.image, AllLayers(t), AllLevels(t),
                 Everywhere(AllLayers(t), AllLevels(t), t.layout),
                 Everywhere(AllLayers(t), AllLevels(t), new))
  <1> DEFINE F == AllLayers(t)
             L == AllLevels(t)
             from == Everywhere(F, L, t.layout)
             to == Everywhere(F, L, new)
             b == Barriers(t, new)
             c == <<Use(t.image, A, B, new)>>
  <1>1. F \in SUBSET Nat /\ L \in SUBSET Nat
    BY LayersAreNat DEF Texture
  <1>2. Movable(t, new, from)
    <2>1. \A f \in F, l \in L : from[f][l] = t.layout
      BY EverywhereIs
    <2> HIDE DEF from
    <2> QED
      BY <2>1 DEF Movable
  <1> HIDE DEF from
  <1>3. Takes(b, t.image, F, L, from, to)
    BY <1>2, BarriersTake
  <1>4. Takes(c, t.image, F, L, to, to)
    BY <1>1, TakesUse
  <1> HIDE DEF b, c, F, L, to
  <1>5. Takes(b \o c, t.image, F, L, from, to)
    BY <1>3, <1>4, TakesBoth
  <1> QED
    BY <1>5 DEF b, c, F, L, from, to

(* Barriers of a texture that is in its layout. *)
LEMMA MovedAgain ==
    ASSUME NEW t \in Texture, t.image \in Images, NEW new \in ImageLayouts
    PROVE  Takes(Barriers(t, new), t.image, AllLayers(t), AllLevels(t),
                 Everywhere(AllLayers(t), AllLevels(t), t.layout),
                 Everywhere(AllLayers(t), AllLevels(t), new))
  <1> DEFINE from == Everywhere(AllLayers(t), AllLevels(t), t.layout)
  <1>1. \A f \in AllLayers(t), l \in AllLevels(t) : from[f][l] = t.layout
    BY EverywhereIs
  <1> HIDE DEF from
  <1>2. Movable(t, new, from)
    BY <1>1 DEF Movable
  <1>3. Takes(Barriers(t, new), t.image, AllLayers(t), AllLevels(t), from,
              Everywhere(AllLayers(t), AllLevels(t), new))
    BY <1>2, BarriersTake
  <1> QED
    BY <1>3 DEF from

(* What is recorded for a texture without an image is about nothing. *)
LEMMA NothingRecorded ==
    ASSUME NEW t \in Texture, t.image = None, NEW new \in ImageLayouts
    PROVE  LET b == Barriers(t, new)
               c == <<WholeUse(t, new)>>
           IN  /\ b \in Seq(Commands) /\ \A k \in 1 .. Len(b) : b[k].image = None
               /\ c \in Seq(Commands) /\ \A k \in 1 .. Len(c) : c[k].image = None
  <1> DEFINE F == AllLayers(t)
             L == AllLevels(t)
             x == Command(t.image, F, L, t.layout, new)
             y == Command(t.image, F, L, new, new)
  <1>1. F \in SUBSET Nat /\ L \in SUBSET Nat /\ t.layout \in ImageLayouts /\ t.image \in Images \cup {None}
    BY LayersAreNat DEF Texture
  <1>2. x \in Commands /\ x.image = None /\ y \in Commands /\ y.image = None
    BY <1>1, CommandIs
  <1>3. WholeUse(t, new) = y /\ Barriers(t, new) = IF new = t.layout THEN <<>> ELSE <<x>>
    BY DEF WholeUse, Use, Barriers
  <1> HIDE DEF x, y
  <1>4. /\ <<x>> \in Seq(Commands) /\ \A k \in 1 .. Len(<<x>>) : <<x>>[k].image = None
        /\ <<y>> \in Seq(Commands) /\ \A k \in 1 .. Len(<<y>>) : <<y>>[k].image = None
        /\ <<>> \in Seq(Commands) /\ \A k \in 1 .. Len(<<>>) : <<>>[k].image = None
    BY <1>2
  <1> QED
    BY <1>3, <1>4

LEMMA SampledAgrees ==
    ASSUME Ownership, Agreement, NEW s \in Slots, Sampled(s)
    PROVE  Agreement'
  <1> DEFINE t == textures[s]
             read == ReadLayout(t)
             b == Barriers(t, read)
             c == <<WholeUse(t, read)>>
             u == InLayout(t, read)
             tx == [textures EXCEPT ![s] = u]
  <1>1. s \in Here(textures)
    BY DEF Sampled, Here
  <1>2. t \in Texture /\ Shaped(t) /\ textures \in [Slots -> Texture \cup {NoTexture}]
    BY <1>1 DEF Ownership, Owned, Here
  <1>3. read \in ImageLayouts
    BY DEF ReadLayout, ImageLayouts
  <1>4. textures' = tx /\ SetDevice(Device) /\ recorded' = recorded \o (b \o c)
    BY DEF Sampled, Record, SetDevice, Device
  <1> HIDE DEF read
  <1>5. u.image = t.image /\ u.kind = t.kind /\ u.levels = t.levels /\ u.layout = read
    BY <1>2, <1>3, InLayoutIs
  <1> HIDE DEF u
  <1>6. CASE t.image = None
    <2>1. /\ b \in Seq(Commands) /\ \A k \in 1 .. Len(b) : b[k].image = None
          /\ c \in Seq(Commands) /\ \A k \in 1 .. Len(c) : c[k].image = None
      BY <1>2, <1>3, <1>6, NothingRecorded
    <2>2. recorded \in Seq(Commands)
      BY DEF Agreement, Agreed
    <2> HIDE DEF b, c
    <2>3. Agreed(tx, Device, recorded)
      BY <1>2, <1>5, <1>6, AgreedWithout DEF Agreement
    <2> HIDE DEF tx
    <2>4. Agreed(tx, Device, recorded \o b)
      BY <2>1, <2>3, AgreedNothing
    <2>5. Agreed(tx, Device, (recorded \o b) \o c)
      BY <2>1, <2>4, AgreedNothing
    <2>6. (recorded \o b) \o c = recorded \o (b \o c)
      BY <2>1, <2>2, ConcatAssociative
    <2> QED
      BY <1>4, <2>5, <2>6, AgreementNext
  <1>7. CASE t.image # None
    <2>1. t.image \in Images /\ Alone(textures, s)
      BY <1>1, <1>2, <1>7, AloneThere DEF Shaped
    <2> DEFINE F == AllLayers(t)
               L == AllLevels(t)
    <2>2. Takes(b \o c, t.image, F, L, Everywhere(F, L, t.layout), Everywhere(F, L, u.layout))
      BY <1>2, <1>3, <1>5, <2>1, MovedAndUsed DEF WholeUse
    <2> HIDE DEF b, c
    <2>3. Agreed(tx, Device, recorded \o (b \o c))
      BY <1>1, <1>2, <1>5, <2>1, <2>2, AgreedMoved DEF Agreement
    <2> HIDE DEF tx
    <2> QED
      BY <1>4, <2>3, AgreementNext
  <1> QED
    BY <1>6, <1>7

LEMMA ClearRenderTargetAgrees ==
    ASSUME Ownership, Agreement, NEW s \in Slots, ClearRenderTarget(s)
    PROVE  Agreement'
  <1> DEFINE t == textures[s]
             F == AllLayers(t)
             L == AllLevels(t)
             cleared == Barriers(t, Dst) \o <<Use(t.image, {0}, {0}, Dst)>>
             moved == InLayout(t, Dst)
             back == Barriers(moved, t.layout)
             out == UpdateDescriptor(t)
             from == Everywhere(F, L, t.layout)
             dst == Everywhere(F, L, Dst)
  <1>1. s \in Here(textures) /\ t.image # None
    BY DEF ClearRenderTarget, Drawable, Here
  <1>2. t \in Texture /\ Shaped(t) /\ textures \in [Slots -> Texture \cup {NoTexture}]
    BY <1>1 DEF Ownership, Owned, Here
  <1>3. t.image \in Images /\ Alone(textures, s) /\ t.layout \in ImageLayouts
    BY <1>1, <1>2, AloneThere DEF Shaped, Texture
  <1>4. {0} \in SUBSET F /\ {0} \in SUBSET L
    <2>1. Laid(ExecuteAll(Device, recorded), t)
      BY <1>1 DEF Agreement, Agreed
    <2>2. 0 \in F
      BY LayersAreNat DEF AllLayers, Range0
    <2> QED
      BY <2>1, <2>2 DEF Laid
  <1>5. Takes(cleared, t.image, F, L, from, dst)
    BY <1>2, <1>3, <1>4, SomeLayouts, MovedAndUsed
  <1>6. /\ moved \in Texture /\ moved.image = t.image /\ moved.kind = t.kind /\ moved.levels = t.levels
        /\ moved.layout = Dst
    BY <1>2, SomeLayouts, InLayoutIs
  <1>7. out.image = t.image /\ out.kind = t.kind /\ out.levels = t.levels /\ out.layout = t.layout
    BY <1>2, UpdateDescriptorIs
  <1>8. AllLayers(moved) = F /\ AllLevels(moved) = L
    BY <1>6 DEF AllLayers, AllLevels, Layers
  <1>9. Takes(back, t.image, F, L, dst, from)
    <2> HIDE DEF moved
    <2>1. Takes(back, moved.image, AllLayers(moved), AllLevels(moved),
                Everywhere(AllLayers(moved), AllLevels(moved), moved.layout),
                Everywhere(AllLayers(moved), AllLevels(moved), t.layout))
      BY <1>3, <1>6, MovedAgain
    <2> HIDE DEF back, F, L
    <2> QED
      BY <1>6, <1>8, <2>1
  <1>10. \/ /\ recorded' = recorded \o cleared
            /\ textures' = [textures EXCEPT ![s] = moved]
         \/ /\ recorded' = recorded \o (cleared \o back)
            /\ textures' = [textures EXCEPT ![s] = out]
    BY DEF ClearRenderTarget, Record
  <1>11. SetDevice(Device)
    BY DEF ClearRenderTarget, SetDevice, Device
  <1> HIDE DEF cleared, back, moved, out, F, L, from, dst
  <1>12. Takes(cleared \o back, t.image, F, L, from, from)
    BY <1>5, <1>9, TakesBoth
  <1>13. Agreed([textures EXCEPT ![s] = moved], Device, recorded \o cleared)
    BY <1>1, <1>2, <1>3, <1>5, <1>6, AgreedMoved DEF Agreement, F, L, from, dst
  <1>14. Agreed([textures EXCEPT ![s] = out], Device, recorded \o (cleared \o back))
    BY <1>1, <1>2, <1>3, <1>7, <1>12, AgreedMoved DEF Agreement, F, L, from
  <1> QED
    BY <1>10, <1>11, <1>13, <1>14, AgreementNext

-----------------------------------------------------------------------------
(* Views of single levels that are made while a frame is recorded. *)
LEMMA LevelNotThere ==
    ASSUME Ownership, NEW s \in Here(textures), textures[s].image # None,
           NEW l \in Nat, l \notin DOMAIN textures[s].mipViews
    PROVE  LevelView(textures[s].image, l) \notin handles
  <1> DEFINE t == textures[s]
             v == LevelView(t.image, l)
  <1>1. t \in Texture /\ Shaped(t) /\ t.image # None
    BY DEF Ownership, Owned, Here
  <1>2. /\ t.image \in Images /\ t.view = WholeView(t) /\ t.layerViews = LayerViewsOf(t)
        /\ t.sampler \in {None, Sampler(t.image)}
        /\ \A k \in DOMAIN t.mipViews : k \in AllLevels(t) /\ t.mipViews[k] = LevelView(t.image, k)
    BY <1>1 DEF Shaped
  <1>3. v.type = "view" /\ v.n = t.image.n /\ v.shows = "level" /\ v.levels = {l} /\ v # None
    <2>1. {l} \in SUBSET Nat /\ {0} \in SUBSET Nat
      OBVIOUS
    <2> QED
      BY <1>2, <2>1, ViewsAre DEF LevelView
  <1>4. t.view.shows = "all"
    BY <1>2 DEF WholeView, View
  <1>5. t.image.type = "image" /\ Sampler(t.image).type = "sampler"
    BY <1>2, ImagesAre
  <1>6. \A h \in Elements(t.layerViews) : h.shows = "layer"
    BY <1>2, LayerViewsAre
  <1>7. \A k \in DOMAIN t.mipViews : t.mipViews[k].levels = {k}
    BY <1>1, <1>2, LevelViewsAre
  <1> HIDE DEF v
  <1>8. v \notin HandlesOf(t)
    <2>1. v # t.image /\ v # t.view /\ v # t.sampler /\ v \notin Elements(t.layerViews)
      BY <1>2, <1>3, <1>4, <1>5, <1>6
    <2>2. ASSUME NEW k \in DOMAIN t.mipViews, v = t.mipViews[k] PROVE FALSE
      <3>1. {k} = {l}
        BY <1>3, <1>7, <2>2
      <3>2. k \in {l}
        BY <3>1
      <3> QED
        BY <3>2
    <2> QED
      BY <2>1, <2>2 DEF HandlesOf
  <1>9. v \notin Elements(queue)
    BY <1>3 DEF Ownership, Owned, NumbersApart
  <1>10. ASSUME NEW r \in Here(textures), v \in HandlesOf(textures[r]) PROVE FALSE
    <2>1. textures[r] \in Texture /\ Shaped(textures[r]) /\ r # s
      BY <1>8, <1>10 DEF Ownership, Owned, Here
    <2>2. textures[r].image # None /\ v.n = textures[r].image.n
      BY <1>10, <2>1, HandlesAre
    <2>3. textures[r].image.n # t.image.n
      BY <2>1, <2>2 DEF Ownership, Owned, NumbersApart
    <2> QED
      BY <1>3, <2>2, <2>3
  <1>11. v \notin handles
    BY <1>9, <1>10 DEF Ownership, Owned
  <1> QED
    BY <1>11 DEF v

LEMMA RicherTwice ==
    ASSUME NEW g, NEW h, NEW i, Richer(g, h), Richer(h, i)
    PROVE  Richer(g, i)
  <1>1. ASSUME NEW image \in DOMAIN g.layouts PROVE Like(g, i, image)
    <2>1. Like(g, h, image) /\ Like(h, i, image)
      BY DEF Richer
    <2> QED
      BY <2>1, LikeLike
  <1> QED
    BY <1>1 DEF Richer

LEMMA MipViewsRicher ==
    ASSUME NEW w, w.t \in Texture, w.t.image \in Images, DOMAIN w.t.mipViews \subseteq Nat,
           NEW l \in Nat, l \notin DOMAIN w.t.mipViews => LevelView(w.t.image, l) \notin w.g.handles
    PROVE  LET u == MipViews(w, {l})
           IN  /\ Richer(w.g, u.g) /\ u.t.image = w.t.image /\ u.t.kind = w.t.kind
               /\ u.t.levels = w.t.levels /\ u.t.layout = w.t.layout
  <1> DEFINE u == MipViews(w, {l})
             v == LevelView(w.t.image, l)
             V == {LevelView(w.t.image, k) : k \in {l} \ DOMAIN w.t.mipViews}
  <1>1. {l} \in SUBSET Nat /\ {0} \in SUBSET Nat
    OBVIOUS
  <1>2. u.t = [w.t EXCEPT !.mipViews = u.t.mipViews] /\ u.t \in Texture
    BY <1>1, MipViewsAre
  <1>3. u.g = Make(w.g, V)
    BY DEF MipViews, Work, LevelView
  <1>4. v \notin Images
    <2>1. v.type = "view"
      BY <1>1, ViewsAre DEF LevelView
    <2> HIDE DEF v
    <2> QED
      BY <2>1, ImagesAre
  <1>5. V \cap Images = {} /\ V \cap w.g.handles = {}
    BY <1>4
  <1> HIDE DEF u, v, V
  <1>6. /\ u.g.handles = w.g.handles \cup V /\ u.g.layouts = w.g.layouts
        /\ u.g.faults = w.g.faults
    BY <1>3, <1>5 DEF Make
  <1>7. Richer(w.g, u.g)
    <2>1. \A image \in DOMAIN w.g.layouts : Like(w.g, u.g, image)
      BY <1>6 DEF Like
    <2> QED
      BY <1>5, <1>6, <2>1 DEF Richer
  <1>8. /\ u.t.image = w.t.image /\ u.t.kind = w.t.kind
        /\ u.t.levels = w.t.levels /\ u.t.layout = w.t.layout
    BY <1>2 DEF Texture
  <1> QED
    BY <1>7, <1>8 DEF u

LEMMA RicherItself ==
    ASSUME NEW g
    PROVE  Richer(g, g)
  BY LikeItself DEF Richer

(* Nothing is executed. *)
LEMMA RicherNone ==
    ASSUME NEW g
    PROVE  Richer(g, ExecuteAll(g, <<>>))
  <1> DEFINE none == <<>>
             h == ExecuteAll(g, none)
  <1>1. DOMAIN none = {}
    BY EmptySeq
  <1>2. h.handles = g.handles /\ DOMAIN h.layouts = DOMAIN g.layouts
        /\ h.faults = g.faults \cup {none[i].image : i \in {k \in DOMAIN none : ~Finds(g, none, k)}}
    BY DEF ExecuteAll
  <1>3. h.faults = g.faults
    BY <1>1, <1>2
  <1>4. \A image \in DOMAIN g.layouts : Like(g, h, image)
    BY ExecuteNone
  <1> HIDE DEF h
  <1>5. Richer(g, h)
    BY <1>2, <1>3, <1>4 DEF Richer
  <1> QED
    BY <1>5 DEF h

LEMMA StoreAgrees ==
    ASSUME Ownership, Agreement, NEW s \in Slots, Store(s)
    PROVE  Agreement'
  <1> DEFINE t == textures[s]
             F == AllLayers(t)
             L == AllLevels(t)
             b == TransitionImages(t)
             moved == IF b = <<>> THEN t ELSE InLayout(t, General)
             w1 == Work(moved, Device)
             w2 == Transition(w1, General)
  <1>1. s \in Here(textures) /\ t.target
    BY DEF Store, Here
  <1>2. t \in Texture /\ Shaped(t) /\ textures \in [Slots -> Texture \cup {NoTexture}]
    BY <1>1 DEF Ownership, Owned, Here
  <1>3. t.image # None /\ t.image \in Images /\ Alone(textures, s) /\ DOMAIN t.mipViews \subseteq AllLevels(t)
    BY <1>1, <1>2, AloneThere DEF Shaped
  <1>4. PICK level \in AllLevels(t) :
            /\ recorded' = recorded \o (b \o <<Use(t.image, {0}, {level}, General)>>)
            /\ textures' = [textures EXCEPT ![s] = Updated(w1, level).t]
            /\ SetDevice(Updated(w1, level).g)
    BY DEF Store, Record
  <1> DEFINE w == Updated(w1, level)
             u == w.t
             c == <<Use(t.image, {0}, {level}, General)>>
  <1>5. /\ moved \in Texture /\ moved.image = t.image /\ moved.kind = t.kind /\ moved.levels = t.levels
        /\ moved.mipViews = t.mipViews /\ moved.layout = General
    <2>1. CASE b = <<>>
      <3>1. t.layout = General
        BY <2>1 DEF TransitionImages, Barriers
      <3> QED
        BY <1>2, <2>1, <3>1
    <2>2. CASE b # <<>>
      <3> DEFINE x == InLayout(t, General)
      <3>1. General \in ImageLayouts
        BY SomeLayouts
      <3>2. /\ x \in Texture /\ x.image = t.image /\ x.kind = t.kind /\ x.levels = t.levels
            /\ x.mipViews = t.mipViews /\ x.layout = General
        BY <1>2, <3>1, InLayoutIs
      <3>3. moved = x
        BY <2>2
      <3> HIDE DEF x, moved
      <3> QED
        BY <3>2, <3>3
    <2> QED
      BY <2>1, <2>2
  <1>6. w1.t = moved /\ w1.g = Device
    BY DEF Work
  <1> HIDE DEF moved, w1
  <1>7. w2.t = InLayout(moved, General) /\ w2.g = ExecuteAll(Device, <<>>)
    BY <1>5, <1>6 DEF Transition, Work, Barriers
  <1>8. /\ w2.t \in Texture /\ w2.t.image = t.image /\ w2.t.kind = t.kind /\ w2.t.levels = t.levels
        /\ w2.t.mipViews = t.mipViews /\ w2.t.layout = General
    <2> DEFINE x == InLayout(moved, General)
    <2>1. General \in ImageLayouts
      BY SomeLayouts
    <2>2. /\ x \in Texture /\ x.image = moved.image /\ x.kind = moved.kind
          /\ x.levels = moved.levels /\ x.mipViews = moved.mipViews /\ x.layout = General
      BY <1>5, <2>1, InLayoutIs
    <2>3. w2.t = x
      BY <1>7
    <2> HIDE DEF x, w2
    <2> QED
      BY <1>5, <2>2, <2>3
  <1>9. Richer(Device, w2.g)
    BY <1>7, RicherNone
  <1>10. w = IF level > 0 THEN MipViews(w2, {level}) ELSE w2
    BY DEF Updated
  <1>11. level \in Nat /\ L \in SUBSET Nat /\ F \in SUBSET Nat /\ 0 \in F
    BY <1>2, LayersAreNat DEF Texture, AllLayers, Range0
  <1> HIDE DEF w2, w
  <1>12. Richer(Device, w.g) /\ u.image = t.image /\ u.kind = t.kind /\ u.levels = t.levels /\ u.layout = General
    <2>1. CASE level > 0
      <3>1. w = MipViews(w2, {level})
        BY <1>10, <2>1
      <3>2. w2.g.handles = handles
        BY <1>7 DEF ExecuteAll, Device
      <3>3. level \notin DOMAIN w2.t.mipViews => LevelView(w2.t.image, level) \notin w2.g.handles
        BY <1>1, <1>3, <1>8, <1>11, <3>2, LevelNotThere
      <3>4. DOMAIN w2.t.mipViews \subseteq Nat
        BY <1>3, <1>8, <1>11
      <3>5. /\ Richer(w2.g, w.g) /\ u.image = w2.t.image /\ u.kind = w2.t.kind
            /\ u.levels = w2.t.levels /\ u.layout = w2.t.layout
        BY <1>3, <1>8, <1>11, <3>1, <3>3, <3>4, MipViewsRicher
      <3> QED
        BY <1>8, <1>9, <3>5, RicherTwice
    <2>2. CASE ~(level > 0)
      BY <1>8, <1>9, <1>10, <2>2
    <2> QED
      BY <2>1, <2>2
  <1>13. Takes(b \o c, t.image, F, L, Everywhere(F, L, t.layout), Everywhere(F, L, General))
    <2>1. {0} \in SUBSET AllLayers(t) /\ {level} \in SUBSET AllLevels(t)
      BY <1>11
    <2> QED
      BY <1>2, <1>3, <2>1, SomeLayouts, MovedAndUsed DEF TransitionImages
  <1>14. /\ recorded' = recorded \o (b \o c) /\ textures' = [textures EXCEPT ![s] = u]
         /\ SetDevice(w.g)
    BY <1>4 DEF w
  <1> HIDE DEF b, c, u
  <1>15. Agreed([textures EXCEPT ![s] = u], Device, recorded \o (b \o c))
    BY <1>1, <1>2, <1>3, <1>12, <1>13, AgreedMoved DEF Agreement
  <1>16. Agreed([textures EXCEPT ![s] = u], w.g, recorded \o (b \o c))
    BY <1>12, <1>15, AgreedRicher
  <1> QED
    BY <1>14, <1>16, AgreementNext

LEMMA BindAgrees ==
    ASSUME Ownership, Agreement, NEW s \in Slots, Bind(s)
    PROVE  Agreement'
  <1> DEFINE t == textures[s]
             F == AllLayers(t)
             L == AllLevels(t)
             new == DrawnLayout(t)
             w1 == Work(t, Device)
             b == Barriers(t, new)
  <1>1. s \in Here(textures) /\ t.image # None
    BY DEF Bind, Drawable, Here
  <1>2. t \in Texture /\ Shaped(t) /\ textures \in [Slots -> Texture \cup {NoTexture}]
    BY <1>1 DEF Ownership, Owned, Here
  <1>3. t.image \in Images /\ Alone(textures, s) /\ DOMAIN t.mipViews \subseteq AllLevels(t)
    BY <1>1, <1>2, AloneThere DEF Shaped
  <1>4. PICK layer \in AllLayers(t), level \in AllLevels(t) :
            LET w == IF t.target /\ level > 0 THEN MipViews(w1, {level}) ELSE w1
            IN  /\ recorded' = recorded \o (b \o <<Use(t.image, {layer}, {level}, new)>>)
                /\ textures' = [textures EXCEPT ![s] = InLayout(w.t, new)]
                /\ SetDevice(w.g)
    BY DEF Bind, Record
  <1> DEFINE w == IF t.target /\ level > 0 THEN MipViews(w1, {level}) ELSE w1
             u == InLayout(w.t, new)
             c == <<Use(t.image, {layer}, {level}, new)>>
  <1>5. new \in ImageLayouts
    BY DEF DrawnLayout, ImageLayouts
  <1>6. w1.t = t /\ w1.g = Device
    BY DEF Work
  <1>7. level \in Nat /\ L \in SUBSET Nat /\ F \in SUBSET Nat
    BY <1>2, LayersAreNat DEF Texture
  <1> HIDE DEF w1, new
  <1>8. /\ Richer(Device, w.g) /\ w.t \in Texture /\ w.t.image = t.image /\ w.t.kind = t.kind
        /\ w.t.levels = t.levels
    <2>1. CASE t.target /\ level > 0
      <3> DEFINE x == MipViews(w1, {level})
      <3>1. level \notin DOMAIN w1.t.mipViews => LevelView(w1.t.image, level) \notin w1.g.handles
        BY <1>1, <1>6, <1>7, LevelNotThere DEF Device
      <3>2. DOMAIN w1.t.mipViews \subseteq Nat /\ w1.t \in Texture /\ w1.t.image \in Images
        BY <1>2, <1>3, <1>6, <1>7
      <3>3. /\ Richer(w1.g, x.g) /\ x.t.image = w1.t.image /\ x.t.kind = w1.t.kind
            /\ x.t.levels = w1.t.levels
        BY <1>7, <3>1, <3>2, MipViewsRicher
      <3>4. x.t \in Texture
        <4>1. {level} \in SUBSET Nat
          BY <1>7
        <4> QED
          BY <3>2, <4>1, MipViewsAre
      <3> HIDE DEF x
      <3>5. w = x
        BY <2>1 DEF x
      <3> HIDE DEF w
      <3> QED
        BY <1>6, <3>3, <3>4, <3>5
    <2>2. CASE ~(t.target /\ level > 0)
      <3>1. w = w1
        BY <2>2
      <3> HIDE DEF w
      <3> QED
        BY <1>2, <1>6, <3>1, RicherItself
    <2> QED
      BY <2>1, <2>2
  <1>9. recorded' = recorded \o (b \o c) /\ textures' = [textures EXCEPT ![s] = u] /\ SetDevice(w.g)
    BY <1>4
  <1> HIDE DEF w
  <1>10. u.image = t.image /\ u.kind = t.kind /\ u.levels = t.levels /\ u.layout = new
    BY <1>5, <1>8, InLayoutIs
  <1>11. Takes(b \o c, t.image, F, L, Everywhere(F, L, t.layout), Everywhere(F, L, u.layout))
    <2>1. {layer} \in SUBSET AllLayers(t) /\ {level} \in SUBSET AllLevels(t)
      OBVIOUS
    <2> HIDE DEF u
    <2> QED
      BY <1>2, <1>3, <1>5, <1>10, <2>1, MovedAndUsed
  <1> HIDE DEF b, c, u
  <1>12. Agreed([textures EXCEPT ![s] = u], Device, recorded \o (b \o c))
    BY <1>1, <1>2, <1>3, <1>10, <1>11, AgreedMoved DEF Agreement
  <1>13. Agreed([textures EXCEPT ![s] = u], w.g, recorded \o (b \o c))
    BY <1>8, <1>12, AgreedRicher
  <1> QED
    BY <1>9, <1>13, AgreementNext

(* Textures that have an image of their own, while one of them changes. *)
Ready(tx, s) ==
    /\ tx \in [Slots -> Texture \cup {NoTexture}] /\ s \in Here(tx)
    /\ tx[s].image \in Images /\ Alone(tx, s)

LEMMA ReadyStill ==
    ASSUME NEW tx, NEW s, NEW r, Ready(tx, s), Ready(tx, r),
           NEW u \in Texture, u.image = tx[s].image
    PROVE  /\ Ready([tx EXCEPT ![s] = u], r)
           /\ [tx EXCEPT ![s] = u][r] = IF r = s THEN u ELSE tx[r]
  <1> DEFINE ty == [tx EXCEPT ![s] = u]
  <1>1. tx \in [Slots -> Texture \cup {NoTexture}] /\ s \in Slots /\ r \in Slots
    BY DEF Ready, Here
  <1>2. /\ ty \in [Slots -> Texture \cup {NoTexture}]
        /\ \A q \in Slots : ty[q] = IF q = s THEN u ELSE tx[q]
    BY <1>1
  <1>3. u # NoTexture /\ tx[s] # NoTexture
    BY NoTextureIs DEF Ready, Here
  <1> HIDE DEF ty
  <1>4. Here(ty) = Here(tx) /\ \A q \in Here(ty) : ty[q].image = tx[q].image
    BY <1>1, <1>2, <1>3 DEF Here
  <1>5. Ready(ty, r) /\ ty[r] = IF r = s THEN u ELSE tx[r]
    BY <1>1, <1>2, <1>4 DEF Ready, Alone
  <1> QED
    BY <1>5 DEF ty

(* Commands that take the image of a texture to where the texture u, the   *)
(* same image later, keeps it to be.                                       *)
Moves(b, t, u) ==
    /\ u.image = t.image /\ u.kind = t.kind /\ u.levels = t.levels
    /\ Takes(b, t.image, AllLayers(t), AllLevels(t),
             Everywhere(AllLayers(t), AllLevels(t), t.layout),
             Everywhere(AllLayers(t), AllLevels(t), u.layout))

LEMMA ReadyMoves ==
    ASSUME NEW tx, NEW g, NEW C, Agreed(tx, g, C), NEW s, Ready(tx, s),
           NEW b, NEW u, Moves(b, tx[s], u)
    PROVE  Agreed([tx EXCEPT ![s] = u], g, C \o b)
  BY AgreedMoved DEF Ready, Moves

LEMMA MovesOn ==
    ASSUME NEW t, NEW u, NEW v, NEW b, NEW c, Moves(b, t, u), Moves(c, u, v)
    PROVE  Moves(b \o c, t, v)
  <1> DEFINE F == AllLayers(t)
             L == AllLevels(t)
             from == Everywhere(F, L, t.layout)
             between == Everywhere(F, L, u.layout)
             to == Everywhere(F, L, v.layout)
  <1>1. u.image = t.image /\ u.kind = t.kind /\ u.levels = t.levels
    BY DEF Moves
  <1>2. v.image = t.image /\ v.kind = t.kind /\ v.levels = t.levels
    BY <1>1 DEF Moves
  <1>3. AllLayers(u) = F /\ AllLevels(u) = L
    BY <1>1 DEF AllLayers, AllLevels, Layers
  <1>4. Takes(b, t.image, F, L, from, between)
    BY DEF Moves
  <1>5. Takes(c, t.image, F, L, between, to)
    BY <1>1, <1>3 DEF Moves
  <1> HIDE DEF F, L, from, between, to
  <1>6. Takes(b \o c, t.image, F, L, from, to)
    BY <1>4, <1>5, TakesBoth
  <1> QED
    BY <1>2, <1>6 DEF Moves, F, L, from, to

LEMMA MovesThere ==
    ASSUME NEW t \in Texture, t.image \in Images, NEW new \in ImageLayouts
    PROVE  Moves(Barriers(t, new), t, InLayout(t, new))
  <1> DEFINE u == InLayout(t, new)
  <1>1. u.image = t.image /\ u.kind = t.kind /\ u.levels = t.levels /\ u.layout = new
    BY InLayoutIs
  <1> HIDE DEF u
  <1>2. Moves(Barriers(t, new), t, u)
    BY <1>1, MovedAgain DEF Moves
  <1> QED
    BY <1>2 DEF u

(* What is used stays where it is. *)
LEMMA MovesNot ==
    ASSUME NEW t \in Texture, t.image \in Images,
           NEW A \in SUBSET AllLayers(t), NEW B \in SUBSET AllLevels(t)
    PROVE  Moves(<<Use(t.image, A, B, t.layout)>>, t, t)
  <1>1. AllLayers(t) \in SUBSET Nat /\ AllLevels(t) \in SUBSET Nat /\ t.layout \in ImageLayouts
    BY LayersAreNat DEF Texture
  <1>2. Takes(<<Use(t.image, A, B, t.layout)>>, t.image, AllLayers(t), AllLevels(t),
              Everywhere(AllLayers(t), AllLevels(t), t.layout),
              Everywhere(AllLayers(t), AllLevels(t), t.layout))
    BY <1>1, TakesUse
  <1> QED
    BY <1>2 DEF Moves

(* A pass that clears a part leaves it in the layout of the texture. *)
LEMMA MovesCleared ==
    ASSUME NEW t \in Texture, t.image \in Images,
           NEW A \in SUBSET AllLayers(t), NEW B \in SUBSET AllLevels(t)
    PROVE  Moves(<<Command(t.image, A, B, Undefined, t.layout)>>, t, t)
  <1> DEFINE F == AllLayers(t)
             L == AllLevels(t)
             lay == Everywhere(F, L, t.layout)
             b == <<Command(t.image, A, B, Undefined, t.layout)>>
  <1>1. F \in SUBSET Nat /\ L \in SUBSET Nat /\ t.layout \in ImageLayouts /\ Undefined \in ImageLayouts
    BY LayersAreNat, SomeLayouts DEF Texture
  <1>2. A \in SUBSET Nat /\ B \in SUBSET Nat
    BY <1>1
  <1>3. \A f \in F, l \in L : lay[f][l] = IF f \in A /\ l \in B THEN t.layout ELSE lay[f][l]
    BY EverywhereIs
  <1> HIDE DEF lay
  <1>4. Takes(b, t.image, F, L, lay, lay)
    BY <1>1, <1>2, <1>3, TakesThis
  <1> QED
    BY <1>4 DEF Moves, lay

Associative(a, b, c) == (a \o b) \o c = a \o (b \o c)

LEMMA Associates ==
    ASSUME NEW S, NEW a \in Seq(S), NEW b \in Seq(S), NEW c \in Seq(S)
    PROVE  Associative(a, b, c)
  BY ConcatAssociative DEF Associative

Regroups(a, b, c, d, e, f, g) ==
    a \o ((((b \o c) \o d) \o (e \o f)) \o g) = ((((a \o b) \o c) \o d) \o e) \o (f \o g)

LEMMA Regrouped ==
    ASSUME NEW S, NEW a \in Seq(S), NEW b \in Seq(S), NEW c \in Seq(S), NEW d \in Seq(S),
           NEW e \in Seq(S), NEW f \in Seq(S), NEW g \in Seq(S)
    PROVE  Regroups(a, b, c, d, e, f, g)
  <1> DEFINE bc == b \o c
             bcd == bc \o d
             ef == e \o f
             fg == f \o g
             efg == e \o fg
             ab == a \o b
             abc == ab \o c
             abcd == abc \o d
  <1>1. bc \in Seq(S) /\ ef \in Seq(S) /\ fg \in Seq(S) /\ ab \in Seq(S)
    BY ConcatProperties
  <1> HIDE DEF bc, ef, fg, ab
  <1>2. bcd \in Seq(S) /\ efg \in Seq(S) /\ abc \in Seq(S)
    BY <1>1, ConcatProperties
  <1> HIDE DEF bcd, efg, abc
  <1>3. abcd \in Seq(S)
    BY <1>2, ConcatProperties
  <1> HIDE DEF abcd
  <1>4. /\ Associative(a, b, c) /\ Associative(a, bc, d) /\ Associative(e, f, g)
        /\ Associative(bcd, ef, g) /\ Associative(a, bcd, efg) /\ Associative(abcd, e, fg)
    BY <1>1, <1>2, <1>3, Associates
  <1>5. a \o bc = abc
    BY <1>4 DEF Associative, bc, ab, abc
  <1>6. a \o bcd = abcd
    BY <1>4, <1>5 DEF Associative, bcd, abcd
  <1>7. ef \o g = efg
    BY <1>4 DEF Associative, ef, fg, efg
  <1>8. (bcd \o ef) \o g = bcd \o efg
    BY <1>4, <1>7 DEF Associative
  <1>9. a \o (bcd \o efg) = abcd \o efg
    BY <1>4, <1>6 DEF Associative
  <1>10. abcd \o efg = (abcd \o e) \o fg
    BY <1>4 DEF Associative, efg
  <1>11. a \o ((bcd \o ef) \o g) = (abcd \o e) \o fg
    BY <1>8, <1>9, <1>10
  <1> QED
    BY <1>11 DEF Regroups, bc, bcd, ef, fg, ab, abc, abcd

LEMMA DrawSplashScreenAgrees ==
    ASSUME Ownership, Agreement, NEW s \in Slots, NEW screen \in Slots, DrawSplashScreen(s, screen)
    PROVE  Agreement'
  <1> DEFINE t == textures[s]
             image == textures[screen]
             v == InLayout(t, Src)
             m == InLayout(image, Dst)
             out == InLayout(m, image.layout)
             u == UpdateDescriptor(image)
             b1 == <<Command(image.image, {0}, {0}, Undefined, image.layout)>>
             b2 == Barriers(t, Src)
             b3 == Barriers(image, Dst)
             x4 == Use(t.image, {0}, {0}, Src)
             x5 == Use(image.image, {0}, {0}, Dst)
             b4 == <<x4>>
             b5 == <<x5>>
             b45 == <<x4, x5>>
             b6 == Barriers(m, image.layout)
             tx1 == [textures EXCEPT ![s] = v]
             tx2 == [tx1 EXCEPT ![screen] = m]
             tx3 == [tx1 EXCEPT ![screen] = u]
             C == recorded
  <1>1. /\ s # screen /\ s \in Here(textures) /\ screen \in Here(textures)
        /\ t.kind = "2d" /\ t.deleteImage /\ image.kind = "2d" /\ image.image # None
    BY DEF DrawSplashScreen, Here
  <1>2. /\ t \in Texture /\ Shaped(t) /\ image \in Texture /\ Shaped(image)
        /\ textures \in [Slots -> Texture \cup {NoTexture}]
    BY <1>1 DEF Ownership, Owned, Here
  <1>3. Ready(textures, s) /\ Ready(textures, screen)
    BY <1>1, <1>2, AloneThere DEF Shaped, Ready
  <1>4. t.image \in Images /\ image.image \in Images /\ image.layout \in ImageLayouts
    BY <1>1, <1>2 DEF Shaped, Texture
  <1>5. {0} \in SUBSET AllLayers(t) /\ {0} \in SUBSET AllLevels(t)
    <2>1. Laid(ExecuteAll(Device, recorded), t)
      BY <1>1, <1>2 DEF Agreement, Agreed, Shaped
    <2>2. 0 \in AllLayers(t)
      BY LayersAreNat DEF AllLayers, Range0
    <2> QED
      BY <2>1, <2>2 DEF Laid
  <1>6. {0} \in SUBSET AllLayers(image) /\ {0} \in SUBSET AllLevels(image)
    <2>1. Laid(ExecuteAll(Device, recorded), image)
      BY <1>1 DEF Agreement, Agreed
    <2>2. 0 \in AllLayers(image)
      BY LayersAreNat DEF AllLayers, Range0
    <2> QED
      BY <2>1, <2>2 DEF Laid
  <1>7. Moves(b1, image, image)
    BY <1>2, <1>4, <1>6, MovesCleared
  <1>8. Moves(b2, t, v)
    BY <1>2, <1>4, SomeLayouts, MovesThere
  <1>9. Moves(b3, image, m)
    BY <1>2, <1>4, SomeLayouts, MovesThere
  <1>10. /\ v \in Texture /\ v.image = t.image /\ v.layout = Src /\ v.kind = t.kind /\ v.levels = t.levels
    <2>1. Src \in ImageLayouts
      BY SomeLayouts
    <2> QED
      BY <1>2, <2>1, InLayoutIs
  <1>11. /\ m \in Texture /\ m.image = image.image /\ m.layout = Dst /\ m.kind = image.kind
         /\ m.levels = image.levels
    <2>1. Dst \in ImageLayouts
      BY SomeLayouts
    <2> QED
      BY <1>2, <2>1, InLayoutIs
  <1> HIDE DEF v, m, b1, b2, b3
  <1>12. Moves(b4, v, v)
    <2>1. AllLayers(v) = AllLayers(t) /\ AllLevels(v) = AllLevels(t)
      BY <1>10 DEF AllLayers, AllLevels, Layers
    <2>2. Moves(<<Use(v.image, {0}, {0}, v.layout)>>, v, v)
      BY <1>4, <1>5, <1>10, <2>1, MovesNot
    <2> QED
      BY <1>10, <2>2
  <1>13. Moves(b5, m, m)
    <2>1. AllLayers(m) = AllLayers(image) /\ AllLevels(m) = AllLevels(image)
      BY <1>11 DEF AllLayers, AllLevels, Layers
    <2>2. Moves(<<Use(m.image, {0}, {0}, m.layout)>>, m, m)
      BY <1>4, <1>6, <1>11, <2>1, MovesNot
    <2> QED
      BY <1>11, <2>2
  <1>14. Moves(b6, m, u)
    <2>1. Moves(b6, m, out)
      BY <1>4, <1>11, MovesThere
    <2>2. out.image = m.image /\ out.kind = m.kind /\ out.levels = m.levels /\ out.layout = image.layout
      BY <1>4, <1>11, InLayoutIs
    <2>3. u.image = m.image /\ u.kind = m.kind /\ u.levels = m.levels /\ u.layout = image.layout
      BY <1>2, <1>11, UpdateDescriptorIs
    <2> HIDE DEF out, u, b6
    <2> QED
      BY <2>1, <2>2, <2>3 DEF Moves
  <1>15. /\ {b1, b2, b3, b4, b5, b6} \subseteq Seq(Commands) /\ C \in Seq(Commands)
         /\ b4 \o b5 = b45
    <2>1. x4 \in Commands /\ x5 \in Commands
      <3>1. {0} \in SUBSET Nat
        OBVIOUS
      <3> QED
        BY <1>4, <3>1, SomeLayouts, CommandIs DEF Use
    <2> HIDE DEF x4, x5, b6, u
    <2>2. Joins(x4, x5, x5, x5)
      <3>1. {x4, x5, x5, x5} \subseteq Commands
        BY <2>1
      <3> QED
        BY <3>1, Joined
    <2>3. b4 \o b5 = b45
      BY <2>2, Zenon DEF Joins
    <2> HIDE DEF b4, b5, b45
    <2> QED
      BY <1>7, <1>8, <1>9, <1>12, <1>13, <1>14, <2>3 DEF Moves, Takes, Agreement, Agreed
  <1>16. /\ textures' = tx3 /\ SetDevice(Device)
         /\ recorded' = C \o ((((b1 \o b2) \o b3) \o b45) \o b6)
    BY DEF DrawSplashScreen, Record, SetDevice, Device, v, m, b1, b2, b3
  <1> HIDE DEF x4, x5, b4, b5, b45, b6, out, u, C, t, image
  <1>17. recorded' = ((((C \o b1) \o b2) \o b3) \o b4) \o (b5 \o b6)
    <2>1. /\ C \in Seq(Commands) /\ b1 \in Seq(Commands) /\ b2 \in Seq(Commands)
          /\ b3 \in Seq(Commands) /\ b4 \in Seq(Commands) /\ b5 \in Seq(Commands)
          /\ b6 \in Seq(Commands)
      BY <1>15
    <2>2. Regroups(C, b1, b2, b3, b4, b5, b6)
      BY <2>1, Regrouped
    <2> QED
      BY <1>15, <1>16, <2>2 DEF Regroups
  <1>18. Agreed(textures, Device, C \o b1)
    <2>1. Agreed(textures, Device, C)
      BY DEF Agreement, C
    <2>2. Moves(b1, textures[screen], image)
      BY <1>7 DEF image
    <2>3. Agreed([textures EXCEPT ![screen] = image], Device, C \o b1)
      BY <1>3, <2>1, <2>2, ReadyMoves
    <2>4. [textures EXCEPT ![screen] = image] = textures
      BY <1>2 DEF image
    <2> QED
      BY <2>3, <2>4
  <1>19. Agreed(tx1, Device, (C \o b1) \o b2)
    <2>1. Moves(b2, textures[s], v)
      BY <1>8 DEF t
    <2> QED
      BY <1>3, <1>18, <2>1, ReadyMoves
  <1>20. Ready(tx1, s) /\ Ready(tx1, screen) /\ tx1[s] = v /\ tx1[screen] = image
    <2>1. v.image = textures[s].image
      BY <1>10 DEF t
    <2>2. Ready(tx1, s) /\ tx1[s] = IF s = s THEN v ELSE textures[s]
      BY <1>3, <1>10, <2>1, ReadyStill
    <2>3. Ready(tx1, screen) /\ tx1[screen] = IF screen = s THEN v ELSE textures[screen]
      BY <1>3, <1>10, <2>1, ReadyStill
    <2> HIDE DEF tx1
    <2> QED
      BY <1>1, <2>2, <2>3 DEF image
  <1> HIDE DEF tx1
  <1>21. Agreed(tx2, Device, ((C \o b1) \o b2) \o b3)
    <2>1. Moves(b3, tx1[screen], m)
      BY <1>9, <1>20
    <2> QED
      BY <1>19, <1>20, <2>1, ReadyMoves
  <1>22. Ready(tx2, s) /\ Ready(tx2, screen) /\ tx2[s] = v /\ tx2[screen] = m
    <2>1. m.image = tx1[screen].image
      BY <1>11, <1>20
    <2>2. Ready(tx2, s) /\ tx2[s] = IF s = screen THEN m ELSE tx1[s]
      BY <1>11, <1>20, <2>1, ReadyStill
    <2>3. Ready(tx2, screen) /\ tx2[screen] = IF screen = screen THEN m ELSE tx1[screen]
      BY <1>11, <1>20, <2>1, ReadyStill
    <2> HIDE DEF tx2
    <2> QED
      BY <1>1, <1>20, <2>2, <2>3
  <1>23. tx3 = [tx2 EXCEPT ![screen] = u]
    <2>1. tx1 \in [Slots -> Texture \cup {NoTexture}]
      BY <1>20 DEF Ready
    <2> QED
      BY <2>1
  <1> HIDE DEF tx2, tx3
  <1>24. Agreed(tx2, Device, (((C \o b1) \o b2) \o b3) \o b4)
    <2>1. Moves(b4, tx2[s], v)
      BY <1>12, <1>22
    <2>2. Agreed([tx2 EXCEPT ![s] = v], Device, (((C \o b1) \o b2) \o b3) \o b4)
      BY <1>21, <1>22, <2>1, ReadyMoves
    <2>3. [tx2 EXCEPT ![s] = v] = tx2
      BY <1>22 DEF Ready
    <2> QED
      BY <2>2, <2>3
  <1>25. Agreed(tx3, Device, ((((C \o b1) \o b2) \o b3) \o b4) \o (b5 \o b6))
    <2>1. Moves(b5 \o b6, tx2[screen], u)
      BY <1>13, <1>14, <1>22, MovesOn
    <2> QED
      BY <1>22, <1>23, <1>24, <2>1, ReadyMoves
  <1> QED
    BY <1>16, <1>17, <1>25, AgreementNext

LEMMA AgreementKept ==
    ASSUME Ownership, Agreement, [Next]_vars
    PROVE  Agreement'
  <1>1. CASE Create
    BY <1>1, CreateAgrees
  <1>2. ASSUME NEW s \in Slots, Delete(s) PROVE Agreement'
    BY <1>2, DeleteAgrees
  <1>3. ASSUME NEW s \in Slots, DeleteForeign(s) PROVE Agreement'
    BY <1>3, DeleteForeignAgrees
  <1>4. ASSUME NEW s \in Slots, Resize2D(s) PROVE Agreement'
    BY <1>4, Resize2DAgrees
  <1>5. ASSUME NEW s \in Slots, ResizeDepth(s) PROVE Agreement'
    BY <1>5, ResizeDepthAgrees
  <1>6. ASSUME NEW s \in Slots, Sample(s) \/ FrameRender(s) PROVE Agreement'
    BY <1>6, SampledAgrees DEF Sample, FrameRender
  <1>7. ASSUME NEW s \in Slots, Store(s) PROVE Agreement'
    BY <1>7, StoreAgrees
  <1>8. ASSUME NEW s \in Slots, Bind(s) PROVE Agreement'
    BY <1>8, BindAgrees
  <1>9. ASSUME NEW s \in Slots, ClearRenderTarget(s) PROVE Agreement'
    BY <1>9, ClearRenderTargetAgrees
  <1>10. ASSUME NEW s \in Slots, NEW screen \in Slots, DrawSplashScreen(s, screen) PROVE Agreement'
    BY <1>10, DrawSplashScreenAgrees
  <1>11. CASE Submit
    BY <1>11, SubmitAgrees
  <1>12. CASE Flush
    BY <1>12, FlushAgrees
  <1>13. CASE UNCHANGED vars
    BY <1>13 DEF vars, Agreement, Device
  <1> QED
    BY <1>1, <1>2, <1>3, <1>4, <1>5, <1>6, <1>7, <1>8, <1>9, <1>10, <1>11, <1>12, <1>13 DEF Next

LEMMA AgreementAlways == Spec => []Agreement
  <1>1. Init => Agreement
    <2> SUFFICES ASSUME Init PROVE Agreement
      OBVIOUS
    <2> DEFINE none == <<>>
    <2>1. Here(textures) = {}
      BY DEF Init, Here
    <2>2. none \in Seq(Commands) /\ Len(none) = 0 /\ DOMAIN none = {}
      BY EmptySeq
    <2>3. recorded = none /\ Device.handles = {} /\ Device.layouts = none /\ Device.faults = {}
      BY DEF Init, Device
    <2> HIDE DEF none
    <2>4. Right(Device, none)
      BY <2>2 DEF Right
    <2>5. ImagesLaidOut(Device)
      BY <2>2, <2>3 DEF ImagesLaidOut
    <2> QED
      BY <2>1, <2>2, <2>3, <2>4, <2>5 DEF Agreement, Agreed
  <1> QED
    BY <1>1, AgreementKept, OwnershipAlways, PTL DEF Spec

(***************************************************************************)
(* The layout a texture keeps is that of every level of every layer of its *)
(* image once the frame's commands are executed, and every command finds   *)
(* the image in the layout it was told, for any slots, sizes and counts of *)
(* layers, and for frames of any length (TransitionImage, Load,            *)
(* GenerateMipmaps, Init, TransitionAttachments).                          *)
(***************************************************************************)
THEOREM LayoutsAlwaysAgree == Spec => []LayoutsAgree
  <1>1. Agreement => LayoutsAgree
    <2> SUFFICES ASSUME Agreement PROVE LayoutsAgree
      OBVIOUS
    <2> DEFINE after == ExecuteAll(Device, recorded)
    <2>1. after.faults \subseteq {None}
      <3>1. DOMAIN recorded = 1 .. Len(recorded)
        BY LenProperties DEF Agreement, Agreed
      <3>2. \A k \in DOMAIN recorded : ~Finds(Device, recorded, k) => recorded[k].image = None
        BY <3>1 DEF Agreement, Agreed, Right
      <3>3. after.faults = Device.faults
              \cup {recorded[i].image : i \in {k \in DOMAIN recorded : ~Finds(Device, recorded, k)}}
        BY DEF ExecuteAll
      <3> HIDE DEF after
      <3> QED
        BY <3>2, <3>3 DEF Agreement, Agreed
    <2>2. ASSUME NEW s \in Live, textures[s].image # None
          PROVE  LET t == textures[s]
                 IN  after.layouts[t.image] = [f \in AllLayers(t) |-> [l \in AllLevels(t) |-> t.layout]]
      <3> DEFINE t == textures[s]
                 F == AllLayers(t)
                 L == AllLevels(t)
                 lay == Everywhere(F, L, t.layout)
                 now == after.layouts[t.image]
                 at(f, l) == LayoutAfter(Device, recorded, Len(recorded), t.image, f, l)
      <3>1. Has(after, t.image, F, L, lay)
        BY <2>2 DEF Agreement, Agreed, Laid, Live, Here
      <3>2. /\ t.image \in DOMAIN after.layouts /\ DOMAIN now = F
            /\ \A f \in F : DOMAIN now[f] = L /\ \A l \in L : now[f][l] = t.layout
        BY <3>1, EverywhereIs DEF Has
      <3>3. now = [f \in DOMAIN Device.layouts[t.image] |->
                      [l \in DOMAIN Device.layouts[t.image][f] |-> at(f, l)]]
        BY <3>2 DEF ExecuteAll
      <3> HIDE DEF after, at
      <3> DEFINE D == DOMAIN Device.layouts[t.image]
                 E(f) == DOMAIN Device.layouts[t.image][f]
      <3>4. D = F /\ \A f \in F : E(f) = L /\ now[f] = [l \in E(f) |-> at(f, l)]
        BY <3>2, <3>3
      <3> HIDE DEF F, L, D, E, now
      <3>5. ASSUME NEW f \in F PROVE now[f] = [l \in L |-> t.layout]
        BY <3>2, <3>4
      <3>6. now = [f \in F |-> now[f]]
        <4>1. now = [f \in D |-> [l \in E(f) |-> at(f, l)]]
          BY <3>3 DEF D, E
        <4> QED
          BY <3>4, <4>1
      <3>7. now = [f \in F |-> [l \in L |-> t.layout]]
        BY <3>5, <3>6
      <3> QED
        BY <3>7 DEF F, L, now
    <2> QED
      BY <2>1, <2>2 DEF LayoutsAgree
  <1> QED
    BY <1>1, AgreementAlways, PTL
=============================================================================
