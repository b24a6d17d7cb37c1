------------------------- MODULE RenderGraphProofs -------------------------
(***************************************************************************)
(* What every frame shows, for any scenes, settings and sizes: proofs      *)
(* about RenderGraph.                                                      *)
(***************************************************************************)
EXTENDS RenderGraph, SequenceTheorems, TLAPS

(***************************************************************************)
(* What the helpers do to the images.                                      *)
(***************************************************************************)
LEMMA ReadLayouts == \A i \in Images : ReadLayout(i) \in Layouts /\ DrawnLayout(i) \in Layouts
  BY DEF ReadLayout, DrawnLayout, Layouts

LEMMA SampledIs ==
    ASSUME NEW g \in GPU, NEW S \in SUBSET Images
    PROVE  /\ Sampled(g, S) \in GPU
           /\ Sampled(g, S).holds = g.holds /\ Sampled(g, S).level = g.level
           /\ \A i \in S : Sampled(g, S).layout[i] = ReadLayout(i)
  BY ReadLayouts DEF Sampled, Relaid, GPU

LEMMA BoundIs ==
    ASSUME NEW g \in GPU, NEW S \in SUBSET Images
    PROVE  /\ Bound(g, S) \in GPU
           /\ Bound(g, S).holds = g.holds /\ Bound(g, S).level = g.level
           /\ \A i \in Images :
                Bound(g, S).layout[i] = IF i \in S THEN DrawnLayout(i) ELSE g.layout[i]
  BY ReadLayouts DEF Bound, Relaid, GPU

LEMMA StoredIs ==
    ASSUME NEW g \in GPU, NEW S \in SUBSET Images
    PROVE  /\ Stored(g, S) \in GPU
           /\ Stored(g, S).holds = g.holds /\ Stored(g, S).level = g.level
           /\ \A i \in Images :
                Stored(g, S).layout[i] = IF i \in S THEN "GENERAL" ELSE g.layout[i]
  BY DEF Stored, Relaid, GPU, Layouts

Legal(g) ==
    /\ g.draw.reads \cap g.draw.writes = {}
    /\ \A i \in g.draw.reads : g.layout[i] = ReadLayout(i)
    /\ \A i \in g.draw.writes : g.layout[i] \in {DrawnLayout(i), "GENERAL"}

LEMMA CallIs ==
    ASSUME NEW g \in GPU, NEW R \in SUBSET Images, NEW W \in SUBSET Images
    PROVE  /\ Call(g, R, W) \in GPU
           /\ Call(g, R, W).holds = g.holds /\ Call(g, R, W).level = g.level
           /\ Call(g, R, W).layout = g.layout
           /\ Call(g, R, W).draw = [reads |-> R, writes |-> W]
  BY DEF Call, GPU

(* Nothing is drawn. *)
LEMMA NoDrawIs ==
    ASSUME NEW g \in GPU
    PROVE  /\ NoDraw(g) \in GPU /\ Legal(NoDraw(g))
           /\ NoDraw(g).holds = g.holds /\ NoDraw(g).level = g.level
           /\ NoDraw(g).layout = g.layout
  <1>1. NoDraw(g) = Call(g, {}, {})
    BY DEF NoDraw, Call
  <1>2. /\ Call(g, {}, {}) \in GPU
        /\ Call(g, {}, {}).holds = g.holds /\ Call(g, {}, {}).level = g.level
        /\ Call(g, {}, {}).layout = g.layout
        /\ Call(g, {}, {}).draw = [reads |-> {}, writes |-> {}]
    BY CallIs
  <1>3. Legal(Call(g, {}, {}))
    BY <1>2 DEF Legal
  <1> QED
    BY <1>1, <1>2, <1>3

(* A graphics pipeline is bound over images that are readable already. *)
LEMMA DrawnIs ==
    ASSUME NEW g \in GPU, NEW R \in SUBSET Images, NEW W \in SUBSET Images, R \cap W = {},
           \A i \in R : g.layout[i] = ReadLayout(i)
    PROVE  LET h == Call(Bound(g, W), R, W)
           IN  h \in GPU /\ Legal(h) /\ h.holds = g.holds /\ h.level = g.level
  <1> DEFINE b == Bound(g, W)
             h == Call(b, R, W)
  <1>1. /\ b \in GPU /\ b.holds = g.holds /\ b.level = g.level
        /\ \A i \in Images : b.layout[i] = IF i \in W THEN DrawnLayout(i) ELSE g.layout[i]
    BY BoundIs
  <1> HIDE DEF b
  <1>2. /\ h \in GPU /\ h.holds = b.holds /\ h.level = b.level
        /\ h.layout = b.layout /\ h.draw = [reads |-> R, writes |-> W]
    BY <1>1, CallIs
  <1>3. Legal(h)
    BY <1>1, <1>2 DEF Legal
  <1> QED
    BY <1>1, <1>2, <1>3 DEF b

(* The same, with the images made readable and either kind of pipeline. *)
LEMMA WrittenIs ==
    ASSUME NEW g \in GPU, NEW R \in SUBSET Images, NEW x \in Images \ R, NEW byCompute
    PROVE  LET h == Call(Written(Sampled(g, R), x, byCompute), R, {x})
           IN  h \in GPU /\ Legal(h) /\ h.holds = g.holds /\ h.level = g.level
  <1> DEFINE s == Sampled(g, R)
             w == Written(s, x, byCompute)
             h == Call(w, R, {x})
  <1>1. /\ s \in GPU /\ s.holds = g.holds /\ s.level = g.level
        /\ \A i \in R : s.layout[i] = ReadLayout(i)
    BY SampledIs
  <1> HIDE DEF s
  <1>2. /\ w \in GPU /\ w.holds = s.holds /\ w.level = s.level
        /\ \A i \in R : w.layout[i] = s.layout[i]
        /\ w.layout[x] \in {DrawnLayout(x), "GENERAL"}
    BY <1>1, BoundIs, StoredIs DEF Written
  <1> HIDE DEF w
  <1>3. /\ h \in GPU /\ h.holds = w.holds /\ h.level = w.level
        /\ h.layout = w.layout /\ h.draw = [reads |-> R, writes |-> {x}]
    BY <1>2, CallIs
  <1>4. Legal(h)
    BY <1>1, <1>2, <1>3, SMTT(30) DEF Legal
  <1> QED
    BY <1>1, <1>2, <1>3, <1>4 DEF s, w

(* A pass is added to what an image shows. *)
LEMMA HoldsIs ==
    ASSUME NEW g \in GPU, NEW x \in Images, NEW shows \in Seq(Passes)
    PROVE  LET h == [g EXCEPT !.holds[x] = shows]
           IN  /\ h \in GPU /\ h.layout = g.layout /\ h.level = g.level /\ h.draw = g.draw
               /\ \A i \in Images : h.holds[i] = IF i = x THEN shows ELSE g.holds[i]
  BY DEF GPU

LEMMA FromIs ==
    ASSUME NEW g \in GPU, Legal(g), NEW from \in Images, NEW x \in Images, NEW pass \in Passes
    PROVE  LET h == From(g, from, x, pass)
           IN  /\ h \in GPU /\ Legal(h) /\ h.level = g.level
               /\ \A i \in Images :
                    h.holds[i] = IF i = x THEN Append(g.holds[from], pass) ELSE g.holds[i]
  <1> DEFINE shows == Append(g.holds[from], pass)
             h == From(g, from, x, pass)
  <1>1. shows \in Seq(Passes)
    BY AppendProperties DEF GPU
  <1>2. h = [g EXCEPT !.holds[x] = shows]
    BY DEF From
  <1> HIDE DEF h, shows
  <1>3. /\ h \in GPU /\ h.layout = g.layout /\ h.level = g.level /\ h.draw = g.draw
        /\ \A i \in Images : h.holds[i] = IF i = x THEN shows ELSE g.holds[i]
    BY <1>1, <1>2, HoldsIs
  <1>4. Legal(h)
    BY <1>3 DEF Legal
  <1> QED
    BY <1>3, <1>4 DEF h, shows

LEMMA OntoIs ==
    ASSUME NEW g \in GPU, Legal(g), NEW x \in Images, NEW pass \in Passes
    PROVE  LET h == Onto(g, x, pass)
           IN  /\ h \in GPU /\ Legal(h) /\ h.level = g.level
               /\ \A i \in Images :
                    h.holds[i] = IF i = x THEN Append(g.holds[x], pass) ELSE g.holds[i]
  BY FromIs DEF Onto

(* A pass over the scene, and a full screen effect. *)
LEMMA ScenePassIs ==
    ASSUME gpu \in GPU, main \in Mains, NEW pass \in Passes,
           NEW R \in SUBSET {"cube"}, ScenePass(pass, R)
    PROVE  /\ gpu' \in GPU /\ Legal(gpu') /\ gpu'.level = gpu.level
           /\ gpu'.holds[main] = Append(gpu.holds[main], pass)
  <1> DEFINE s == Sampled(gpu, R)
             W == {main, "depth"}
             c == Call(Bound(s, W), R, W)
  <1>1. main \in Images /\ R \in SUBSET Images /\ W \in SUBSET Images /\ R \cap W = {}
    BY DEF Images, Mains
  <1>2. /\ s \in GPU /\ s.holds = gpu.holds /\ s.level = gpu.level
        /\ \A i \in R : s.layout[i] = ReadLayout(i)
    BY <1>1, SampledIs
  <1>3. c \in GPU /\ Legal(c) /\ c.holds = s.holds /\ c.level = s.level
    BY <1>1, <1>2, DrawnIs
  <1>4. gpu' = Onto(c, main, pass)
    BY DEF ScenePass
  <1> HIDE DEF c
  <1> DEFINE h == Onto(c, main, pass)
  <1>5. /\ h \in GPU /\ Legal(h) /\ h.level = c.level
        /\ \A i \in Images :
             h.holds[i] = IF i = main THEN Append(c.holds[main], pass) ELSE c.holds[i]
    BY <1>1, <1>3, OntoIs
  <1> HIDE DEF h
  <1>6. h.holds[main] = Append(c.holds[main], pass)
    BY <1>1, <1>5
  <1> QED
    BY <1>2, <1>3, <1>4, <1>5, <1>6 DEF h

LEMMA EffectIs ==
    ASSUME gpu \in GPU, {main, post} = Mains, NEW pass \in Passes, NEW byCompute,
           NEW R \in SUBSET ({main, "white"} \cup Blooms), Effect(pass, R, byCompute)
    PROVE  /\ gpu' \in GPU /\ Legal(gpu') /\ gpu'.level = gpu.level
           /\ gpu'.holds[post] = Append(gpu.holds[main], pass)
  <1> DEFINE c == Call(Written(Sampled(gpu, R), post, byCompute), R, {post})
  <1>1. /\ main \in Images /\ post \in Images \ R /\ R \in SUBSET Images
    BY DEF Images, Mains, Blooms
  <1>2. c \in GPU /\ Legal(c) /\ c.holds = gpu.holds /\ c.level = gpu.level
    BY <1>1, WrittenIs
  <1>3. gpu' = From(c, main, post, pass)
    BY DEF Effect
  <1> HIDE DEF c
  <1>4. LET h == From(c, main, post, pass)
        IN  /\ h \in GPU /\ Legal(h) /\ h.level = c.level
            /\ h.holds[post] = Append(c.holds[main], pass)
    <2> DEFINE h == From(c, main, post, pass)
    <2>1. post \in Images /\ main \in Images
      BY <1>1
    <2>2. h \in GPU /\ Legal(h) /\ h.level = c.level
      BY <1>2, <2>1, FromIs
    <2>3. \A i \in Images :
            h.holds[i] = IF i = post THEN Append(c.holds[main], pass) ELSE c.holds[i]
      BY <1>2, <2>1, FromIs
    <2> HIDE DEF h
    <2>4. h.holds[post] = Append(c.holds[main], pass)
      BY <2>1, <2>3
    <2> QED
      BY <2>2, <2>4 DEF h
  <1>5. gpu' \in GPU /\ Legal(gpu') /\ gpu'.level = c.level
        /\ gpu'.holds[post] = Append(c.holds[main], pass)
    BY <1>3, <1>4
  <1> QED
    BY <1>2, <1>5

(* A call of the bloom chain changes one level of one image. *)
BloomStep(image, n, adds) ==
    \A i \in Blooms, k \in 0 .. 15 :
        gpu'.level[i][k] = IF i = image /\ k = n THEN adds ELSE gpu.level[i][k]

LEMMA BloomCallIs ==
    ASSUME gpu \in GPU, NEW R \in SUBSET (Mains \cup Blooms), NEW x \in Blooms \ R,
           NEW n \in 0 .. 15, NEW adds \in SUBSET Nat, BloomCall(R, x, n, adds)
    PROVE  /\ gpu' \in GPU /\ Legal(gpu') /\ gpu'.holds = gpu.holds
           /\ BloomStep(x, n, adds)
  <1> DEFINE c == Call(Written(Sampled(gpu, R), x, compute), R, {x})
  <1>1. x \in Images \ R /\ R \in SUBSET Images
    BY DEF Images
  <1>2. c \in GPU /\ Legal(c) /\ c.holds = gpu.holds /\ c.level = gpu.level
    BY <1>1, WrittenIs
  <1>3. gpu' = [c EXCEPT !.level[x][n] = adds]
    BY DEF BloomCall
  <1> HIDE DEF c
  <1> QED
    BY <1>2, <1>3 DEF GPU, Legal, BloomStep

LEMMA ForwardPassIs ==
    ASSUME gpu \in GPU, main \in Mains, target = main, "3d" \in scene.on => marked, ForwardPass
    PROVE  /\ gpu' \in GPU /\ Legal(gpu') /\ gpu'.level = gpu.level
           /\ gpu'.holds[main] = IF "3d" \in scene.on /\ scene.meshes
                                 THEN Append(gpu.holds[main], "forward") ELSE gpu.holds[main]
           /\ marked' \in {marked, FALSE}
  <1>1. CASE "3d" \in scene.on /\ scene.meshes
    <2> DEFINE s == Sampled(gpu, ForwardReads)
               W == {main, "depth"}
               c == Call(Bound(s, W), ForwardReads, W)
    <2>1. main \in Images /\ ForwardReads \in SUBSET Images /\ W \in SUBSET Images
          /\ ForwardReads \cap W = {}
      BY DEF Images, Mains, ForwardReads
    <2>2. /\ s \in GPU /\ s.holds = gpu.holds /\ s.level = gpu.level
          /\ \A i \in ForwardReads : s.layout[i] = ReadLayout(i)
      BY <2>1, SampledIs
    <2>3. c \in GPU /\ Legal(c) /\ c.holds = s.holds /\ c.level = s.level
      BY <2>1, <2>2, DrawnIs
    <2>4. gpu' = Onto(c, main, "forward") /\ marked' = FALSE
      BY <1>1 DEF ForwardPass, ForwardDrawn
    <2> HIDE DEF c
    <2> DEFINE h == Onto(c, main, "forward")
    <2>0. "forward" \in Passes
      BY DEF Passes
    <2>5. h \in GPU /\ Legal(h) /\ h.level = c.level
      BY <2>0, <2>1, <2>3, OntoIs
    <2>6. \A i \in Images :
            h.holds[i] = IF i = main THEN Append(c.holds[main], "forward") ELSE c.holds[i]
      BY <2>0, <2>1, <2>3, OntoIs
    <2> HIDE DEF h
    <2>7. h.holds[main] = Append(c.holds[main], "forward")
      BY <2>1, <2>6
    <2>8. gpu' = h
      BY <2>4 DEF h
    <2> QED
      BY <1>1, <2>2, <2>3, <2>4, <2>5, <2>7, <2>8
  <1>2. CASE ~("3d" \in scene.on /\ scene.meshes)
    <2>1. gpu' = NoDraw(gpu) /\ marked' = marked
      BY <1>2 DEF ForwardPass
    <2> QED
      BY <1>2, <2>1, NoDrawIs
  <1> QED
    BY <1>1, <1>2

LEMMA OptionalIs ==
    ASSUME gpu \in GPU, {main, post} = Mains, last \in Mains,
           NEW feature \in Passes, NEW next, NEW byCompute, Optional(feature, next, byCompute)
    PROVE  /\ gpu' \in GPU /\ Legal(gpu') /\ gpu'.level = gpu.level
           /\ stage = feature /\ stage' = next
           /\ {main', post'} = Mains /\ last' \in Mains /\ (last = main => last' = main')
           /\ gpu'.holds[main'] = IF feature \in scene.on THEN Append(gpu.holds[main], feature)
                                  ELSE gpu.holds[main]
           /\ UNCHANGED <<scene, compute, levels, bloomLast, target, envMap, cubeMap, marked, lut,
                          mip, even, batchVars, debugVars>>
  <1>1. CASE feature \in scene.on
    <2>1. /\ Effect(feature, {main}, byCompute)
          /\ stage = feature /\ stage' = next
          /\ main' = post /\ post' = main /\ last' = post
          /\ UNCHANGED <<scene, compute, levels, bloomLast, target, envMap, cubeMap, marked, lut,
                         mip, even, batchVars, debugVars>>
      BY <1>1 DEF Optional, Effect
    <2>2. /\ gpu' \in GPU /\ Legal(gpu') /\ gpu'.level = gpu.level
          /\ gpu'.holds[post] = Append(gpu.holds[main], feature)
      BY <2>1, EffectIs
    <2> QED
      BY <1>1, <2>1, <2>2
  <1>2. CASE feature \notin scene.on
    BY <1>2, NoDrawIs DEF Optional
  <1> QED
    BY <1>1, <1>2
(* The passes before the meshes write nothing that is shown. *)
LEMMA OpeningIs ==
    ASSUME gpu \in GPU, lut \in BOOLEAN, GenerateBRDFLUTPass \/ DepthPrePass \/ ShadowPass
    PROVE  /\ gpu' \in GPU /\ Legal(gpu') /\ gpu'.holds = gpu.holds /\ gpu'.level = gpu.level
           /\ \/ stage = "lut" /\ stage' = "prepass"
              \/ stage = "prepass" /\ stage' = "shadow"
              \/ stage = "shadow" /\ stage' = "forward"
           /\ lut' \in BOOLEAN
           /\ UNCHANGED <<scene, compute, levels, main, post, last, bloomLast, target, envMap,
                          cubeMap, marked, mip, even, batchVars, debugVars>>
  <1>1. ASSUME NEW x \in {"lut", "depth", "shadow"}
        PROVE  LET h == Call(Bound(gpu, {x}), {}, {x})
               IN  h \in GPU /\ Legal(h) /\ h.holds = gpu.holds /\ h.level = gpu.level
    <2>1. {x} \in SUBSET Images /\ {} \in SUBSET Images
      BY DEF Images
    <2> QED
      BY <2>1, DrawnIs
  <1>2. \/ gpu' = NoDraw(gpu)
        \/ \E x \in {"lut", "depth", "shadow"} : gpu' = Call(Bound(gpu, {x}), {}, {x})
    BY DEF GenerateBRDFLUTPass, DepthPrePass, ShadowPass
  <1>3. gpu' \in GPU /\ Legal(gpu') /\ gpu'.holds = gpu.holds /\ gpu'.level = gpu.level
    <2>1. CASE gpu' = NoDraw(gpu)
      BY <2>1, NoDrawIs
    <2>2. CASE \E x \in {"lut", "depth", "shadow"} : gpu' = Call(Bound(gpu, {x}), {}, {x})
      <3>1. PICK x \in {"lut", "depth", "shadow"} : gpu' = Call(Bound(gpu, {x}), {}, {x})
        BY <2>2
      <3> QED
        BY <1>1, <3>1
    <2> QED
      BY <1>2, <2>1, <2>2
  <1> QED
    BY <1>3 DEF GenerateBRDFLUTPass, DepthPrePass, ShadowPass

LEMMA SkyboxPassIs ==
    ASSUME gpu \in GPU, main \in Mains, SkyboxPass
    PROVE  /\ gpu' \in GPU /\ Legal(gpu') /\ gpu'.level = gpu.level
           /\ gpu'.holds[main] = IF "sky" \in scene.on /\ cubeMap
                                 THEN Append(gpu.holds[main], "sky") ELSE gpu.holds[main]
           /\ stage = "sky" /\ stage' = "sprites"
           /\ UNCHANGED <<scene, compute, levels, main, post, last, bloomLast, target, envMap,
                          cubeMap, marked, lut, mip, even, debugVars>>
  <1>1. /\ stage = "sky" /\ stage' = "sprites"
        /\ UNCHANGED <<scene, compute, levels, main, post, last, bloomLast, target, envMap,
                       cubeMap, marked, lut, mip, even, debugVars>>
        /\ IF "sky" \in scene.on /\ cubeMap THEN ScenePass("sky", {"cube"}) ELSE gpu' = NoDraw(gpu)
    BY DEF SkyboxPass
  <1>2. "sky" \in Passes /\ {"cube"} \in SUBSET {"cube"}
    BY DEF Passes
  <1>3. CASE "sky" \in scene.on /\ cubeMap
    BY <1>1, <1>2, <1>3, ScenePassIs
  <1>4. CASE ~("sky" \in scene.on /\ cubeMap)
    BY <1>1, <1>4, NoDrawIs
  <1> QED
    BY <1>1, <1>3, <1>4

LEMMA Render2DPassIs ==
    ASSUME gpu \in GPU, main \in Mains, Render2DPass
    PROVE  /\ gpu' \in GPU /\ Legal(gpu') /\ gpu'.level = gpu.level
           /\ gpu'.holds[main] = IF Sprites2D THEN Append(gpu.holds[main], "sprites")
                                 ELSE gpu.holds[main]
           /\ stage = "sprites" /\ stage' = "shown2d"
           /\ UNCHANGED <<scene, compute, levels, main, post, last, bloomLast, target, envMap,
                          cubeMap, marked, lut, mip, even, debugVars>>
  <1>1. /\ stage = "sprites" /\ stage' = "shown2d"
        /\ UNCHANGED <<scene, compute, levels, main, post, last, bloomLast, target, envMap,
                       cubeMap, marked, lut, mip, even, debugVars>>
        /\ IF Sprites2D THEN ScenePass("sprites", {}) ELSE gpu' = NoDraw(gpu)
    BY DEF Render2DPass
  <1>2. "sprites" \in Passes /\ {} \in SUBSET {"cube"}
    BY DEF Passes
  <1>3. CASE Sprites2D
    BY <1>1, <1>2, <1>3, ScenePassIs
  <1>4. CASE ~Sprites2D
    BY <1>1, <1>4, NoDrawIs
  <1> QED
    BY <1>1, <1>3, <1>4

LEMMA TextPassIs ==
    ASSUME gpu \in GPU, main \in Mains, TextPass
    PROVE  /\ gpu' \in GPU /\ Legal(gpu') /\ gpu'.level = gpu.level
           /\ gpu'.holds[main] = IF data'.calls = <<>> THEN gpu.holds[main]
                                 ELSE Append(gpu.holds[main], "texts")
           /\ stage = "text" /\ stage' = IF "bloom" \in scene.on THEN "bloom" ELSE "tone"
           /\ last' = main
           /\ UNCHANGED <<scene, compute, levels, main, post, bloomLast, target, envMap,
                          cubeMap, marked, lut, mip, even, debugVars>>
  <1>1. /\ stage = "text" /\ stage' = IF "bloom" \in scene.on THEN "bloom" ELSE "tone"
        /\ last' = main
        /\ UNCHANGED <<scene, compute, levels, main, post, bloomLast, target, envMap,
                       cubeMap, marked, lut, mip, even, debugVars>>
        /\ gpu' = IF data'.calls = <<>> THEN NoDraw(gpu)
                  ELSE Onto(Call(Bound(gpu, {main}), {}, {main}), main, "texts")
    BY DEF TextPass
  <1>2. CASE data'.calls = <<>>
    BY <1>1, <1>2, NoDrawIs
  <1>3. CASE data'.calls # <<>>
    <2> DEFINE c == Call(Bound(gpu, {main}), {}, {main})
    <2>1. "texts" \in Passes /\ main \in Images /\ {main} \in SUBSET Images /\ {} \in SUBSET Images
      BY DEF Passes, Images
    <2>2. c \in GPU /\ Legal(c) /\ c.holds = gpu.holds /\ c.level = gpu.level
      BY <2>1, DrawnIs
    <2>3. gpu' = Onto(c, main, "texts")
      BY <1>1, <1>3
    <2> HIDE DEF c
    <2> DEFINE h == Onto(c, main, "texts")
    <2>4. h \in GPU /\ Legal(h) /\ h.level = c.level
      BY <2>1, <2>2, OntoIs
    <2>5. \A i \in Images :
            h.holds[i] = IF i = main THEN Append(c.holds[main], "texts") ELSE c.holds[i]
      BY <2>1, <2>2, OntoIs
    <2>6. gpu' = h
      BY <2>3
    <2> HIDE DEF h
    <2> QED
      BY <1>1, <1>3, <2>1, <2>2, <2>4, <2>5, <2>6
  <1> QED
    BY <1>1, <1>2, <1>3

LEMMA ToneMappingPassIs ==
    ASSUME gpu \in GPU, {main, post} = Mains, bloomLast \in Blooms \cup {"white"}, ToneMappingPass
    PROVE  /\ gpu' \in GPU /\ Legal(gpu') /\ gpu'.level = gpu.level
           /\ gpu'.holds[main'] = Append(gpu.holds[main], "tone")
           /\ stage = "tone" /\ stage' = "deband"
           /\ main' = post /\ post' = main /\ last' = main'
           /\ UNCHANGED <<scene, compute, levels, bloomLast, target, envMap, cubeMap, marked, lut,
                          mip, even, batchVars, debugVars>>
  <1>1. /\ Effect("tone", {main, bloomLast}, FALSE) /\ stage = "tone" /\ stage' = "deband"
    BY DEF ToneMappingPass
  <1>2. "tone" \in Passes /\ {main, bloomLast} \in SUBSET ({main, "white"} \cup Blooms)
    BY DEF Passes
  <1>3. /\ gpu' \in GPU /\ Legal(gpu') /\ gpu'.level = gpu.level
        /\ gpu'.holds[post] = Append(gpu.holds[main], "tone")
    BY <1>1, <1>2, EffectIs
  <1> QED
    BY <1>1, <1>3 DEF Effect

LEMMA DebugIs ==
    ASSUME gpu \in GPU, main \in Mains, Debug
    PROVE  /\ gpu' \in GPU /\ Legal(gpu') /\ gpu'.level = gpu.level
           /\ gpu'.holds[main] = IF "debug" \in scene.on /\ shown' # <<>>
                                 THEN Append(gpu.holds[main], "debug") ELSE gpu.holds[main]
           /\ "debug" \in scene.on => DebugPass
           /\ stage = "debug" /\ stage' = "final"
           /\ UNCHANGED <<scene, compute, levels, main, post, last, bloomLast, target, envMap,
                          cubeMap, marked, lut, mip, even, batchVars, lists, submitted>>
  <1>1. /\ stage = "debug" /\ stage' = "final"
        /\ UNCHANGED <<scene, compute, levels, main, post, last, bloomLast, target, envMap,
                       cubeMap, marked, lut, mip, even, batchVars, lists, submitted>>
        /\ "debug" \in scene.on => DebugPass
        /\ IF "debug" \in scene.on /\ shown' # <<>> THEN ScenePass("debug", {})
           ELSE gpu' = NoDraw(gpu)
    BY DEF Debug, DebugPass, debugVars
  <1>2. "debug" \in Passes /\ {} \in SUBSET {"cube"}
    BY DEF Passes
  <1>3. CASE "debug" \in scene.on /\ shown' # <<>>
    BY <1>1, <1>2, <1>3, ScenePassIs
  <1>4. CASE ~("debug" \in scene.on /\ shown' # <<>>)
    BY <1>1, <1>4, NoDrawIs
  <1> QED
    BY <1>1, <1>3, <1>4

LEMMA FinalPassIs ==
    ASSUME gpu \in GPU, last \in Mains, FinalPass
    PROVE  /\ gpu' \in GPU /\ Legal(gpu') /\ gpu'.level = gpu.level
           /\ gpu'.holds["out"] = Append(gpu.holds[last], "final")
           /\ stage = "final" /\ stage' = "rendered"
           /\ UNCHANGED <<scene, compute, levels, main, post, last, bloomLast, target, envMap,
                          cubeMap, marked, lut, mip, even, batchVars, debugVars>>
  <1> DEFINE s == Sampled(gpu, {last})
             c == Call(Bound(s, {"out"}), {last}, {"out"})
  <1>1. /\ "final" \in Passes /\ last \in Images /\ "out" \in Images
        /\ {last} \in SUBSET Images /\ {"out"} \in SUBSET Images /\ {last} \cap {"out"} = {}
    BY DEF Passes, Images, Mains
  <1>2. /\ s \in GPU /\ s.holds = gpu.holds /\ s.level = gpu.level
        /\ \A i \in {last} : s.layout[i] = ReadLayout(i)
    BY <1>1, SampledIs
  <1>3. c \in GPU /\ Legal(c) /\ c.holds = s.holds /\ c.level = s.level
    BY <1>1, <1>2, DrawnIs
  <1>4. gpu' = From(c, last, "out", "final")
    BY DEF FinalPass
  <1> HIDE DEF c
  <1> DEFINE h == From(c, last, "out", "final")
  <1>5. h \in GPU /\ Legal(h) /\ h.level = c.level
    BY <1>1, <1>3, FromIs
  <1>6. \A i \in Images :
          h.holds[i] = IF i = "out" THEN Append(c.holds[last], "final") ELSE c.holds[i]
    BY <1>1, <1>3, FromIs
  <1>7. gpu' = h
    BY <1>4
  <1> HIDE DEF h
  <1>8. /\ gpu' \in GPU /\ Legal(gpu') /\ gpu'.level = gpu.level
        /\ gpu'.holds["out"] = Append(gpu.holds[last], "final")
    BY <1>1, <1>2, <1>3, <1>5, <1>6, <1>7
  <1> QED
    BY <1>8 DEF FinalPass
-----------------------------------------------------------------------------
(***************************************************************************)
(* Type correctness, and what a frame has decided before it draws meshes   *)
(* and sky.                                                                *)
(***************************************************************************)
Opening == {"clear", "lut", "prepass", "shadow", "forward"}

Handed ==
    /\ cubeMap = envMap
    /\ stage \in Opening => target = main /\ ("3d" \in scene.on => marked)
    /\ stage \in Opening \cup {"sky"} /\ "sky" \in scene.on => cubeMap = scene.env
    /\ stage = "down" => mip \in 1 .. Mips
    /\ stage = "back" => mip \in 1 .. Mips - 1
    /\ stage = "up" => mip \in -1 .. Mips - 3
    /\ stage \notin {"down", "back", "up"} => mip \in {-1, 0}

Typed == TypeOK /\ Handed /\ Legal(gpu)

LEMMA MipsIs == levels \in Levels => Mips \in 3 .. 14
  BY GraphAssumption DEF Mips

LEMMA EmptyIs ==
    /\ NoHolds \in [Images -> Seq(Passes)] /\ \A i \in Images : NoHolds[i] = <<>>
    /\ NoLevel \in [Blooms -> [0 .. 15 -> SUBSET Nat]]
  BY DEF NoHolds, NoLevel

LEMMA TypedInit == Init => Typed
  <1> SUFFICES ASSUME Init
               PROVE  Typed
    OBVIOUS
  <1>1. Mips \in 3 .. 14
    BY MipsIs DEF Init
  <1>2. gpu \in GPU /\ Legal(gpu)
    BY EmptyIs DEF Init, GPU, Legal, Layouts, DrawnLayout
  <1>3. SceneShape(scene) /\ compute \in Compute /\ levels \in Levels
    BY GraphAssumption DEF Init
  <1>4. TypeOK
    <2>1. {main, post} = Mains /\ {last, target} \subseteq Mains
      BY DEF Init, Mains
    <2>2. stage \in Stages /\ bloomLast \in Blooms \cup {"white"}
      BY DEF Init, Stages
    <2>3. {envMap, cubeMap, marked, lut, even} \subseteq BOOLEAN
      BY DEF Init
    <2> QED
      BY <1>1, <1>2, <1>3, <2>1, <2>2, <2>3 DEF Init, TypeOK
  <1>5. Handed
    BY DEF Init, Handed, Opening
  <1> QED
    BY <1>2, <1>4, <1>5 DEF Typed

(* The passes of the bloom chain show nothing in the main image. *)
LEMMA BloomPassIs ==
    ASSUME Typed,
           Prefilter \/ Downsample \/ DownsampleBack \/ FirstUpsample \/ Upsample \/ EndBloom
    PROVE  /\ gpu' \in GPU /\ Legal(gpu') /\ gpu'.holds = gpu.holds
           /\ \/ stage = "bloom" /\ stage' = "down" /\ mip' = 1
              \/ stage = "down" /\ mip < Mips /\ stage' = "back" /\ mip' = mip
              \/ stage = "back" /\ stage' = "down" /\ mip' = mip + 1
              \/ stage = "down" /\ stage' = "up" /\ mip' = Mips - 3
              \/ stage = "up" /\ mip >= 0 /\ stage' = "up" /\ mip' = mip - 1
              \/ stage = "up" /\ mip < 0 /\ stage' = "tone" /\ mip' = mip
           /\ even' \in BOOLEAN /\ bloomLast' \in Blooms \cup {"white"}
           /\ UNCHANGED <<scene, compute, levels, main, post, last, target, envMap, cubeMap,
                          marked, lut, batchVars, debugVars>>
  <1>1. /\ gpu \in GPU /\ main \in Mains /\ Mips \in 3 .. 14 /\ even \in BOOLEAN
        /\ bloomLast \in Blooms \cup {"white"}
        /\ stage = "down" => mip \in 1 .. Mips
        /\ stage = "back" => mip \in 1 .. Mips - 1
        /\ stage = "up" => mip \in -1 .. Mips - 3
    BY MipsIs DEF Typed, TypeOK, Handed
  <1>2. /\ \A i \in Blooms, k \in 0 .. 15 : gpu.level[i][k] \in SUBSET Nat
        /\ "bloom" \in Blooms /\ "bloom1" \in Blooms /\ "bloom2" \in Blooms
    BY <1>1 DEF GPU, Blooms
  <1>3. CASE Prefilter
    <2>1. BloomCall({main}, "bloom", 0, {0})
      BY <1>3 DEF Prefilter
    <2>2. /\ {main} \in SUBSET (Mains \cup Blooms) /\ "bloom" \in Blooms \ {main}
          /\ 0 \in 0 .. 15 /\ {0} \in SUBSET Nat
      BY <1>1 DEF Mains, Blooms
    <2>3. gpu' \in GPU /\ Legal(gpu') /\ gpu'.holds = gpu.holds
      BY <1>1, <2>1, <2>2, BloomCallIs
    <2> QED
      BY <1>1, <1>3, <2>3 DEF Prefilter
  <1>4. CASE Downsample
    <2> DEFINE adds == Below(gpu.level["bloom"][mip - 1])
    <2>1. BloomCall({"bloom", main}, "bloom1", mip, adds) /\ stage = "down" /\ mip < Mips
      BY <1>4 DEF Downsample
    <2>2. /\ {"bloom", main} \in SUBSET (Mains \cup Blooms) /\ "bloom1" \in Blooms \ {"bloom", main}
          /\ mip \in 0 .. 15 /\ mip - 1 \in 0 .. 15
      BY <1>1, <2>1 DEF Mains, Blooms
    <2>3. adds \in SUBSET Nat
      BY <1>2, <2>2 DEF Below
    <2> HIDE DEF adds
    <2>4. gpu' \in GPU /\ Legal(gpu') /\ gpu'.holds = gpu.holds
      BY <1>1, <2>1, <2>2, <2>3, BloomCallIs
    <2> QED
      BY <1>1, <1>4, <2>4 DEF Downsample
  <1>5. CASE DownsampleBack
    <2> DEFINE adds == gpu.level["bloom1"][mip]
    <2>1. BloomCall({"bloom1", main}, "bloom", mip, adds) /\ stage = "back"
      BY <1>5 DEF DownsampleBack
    <2>2. /\ {"bloom1", main} \in SUBSET (Mains \cup Blooms) /\ "bloom" \in Blooms \ {"bloom1", main}
          /\ mip \in 0 .. 15
      BY <1>1, <2>1 DEF Mains, Blooms
    <2>3. adds \in SUBSET Nat
      BY <1>2, <2>2
    <2> HIDE DEF adds
    <2>4. gpu' \in GPU /\ Legal(gpu') /\ gpu'.holds = gpu.holds
      BY <1>1, <2>1, <2>2, <2>3, BloomCallIs
    <2> QED
      BY <1>1, <1>5, <2>4 DEF DownsampleBack
  <1>6. CASE FirstUpsample
    <2> DEFINE adds == gpu.level["bloom"][Mips - 1] \cup gpu.level["bloom"][Mips - 2]
    <2>1. BloomCall({"bloom", main}, "bloom2", Mips - 2, adds)
      BY <1>6 DEF FirstUpsample
    <2>2. /\ {"bloom", main} \in SUBSET (Mains \cup Blooms) /\ "bloom2" \in Blooms \ {"bloom", main}
          /\ Mips - 2 \in 0 .. 15 /\ Mips - 1 \in 0 .. 15
      BY <1>1 DEF Mains, Blooms
    <2>3. adds \in SUBSET Nat
      BY <1>2, <2>2
    <2> HIDE DEF adds
    <2>4. gpu' \in GPU /\ Legal(gpu') /\ gpu'.holds = gpu.holds
      BY <1>1, <2>1, <2>2, <2>3, BloomCallIs
    <2> QED
      BY <1>1, <1>6, <2>4 DEF FirstUpsample
  <1>7. ASSUME NEW source \in {"bloom1", "bloom2"}, NEW image \in {"bloom1", "bloom2"},
               source # image, UpsampleFrom(source, image)
        PROVE  gpu' \in GPU /\ Legal(gpu') /\ gpu'.holds = gpu.holds
    <2> DEFINE adds == gpu.level["bloom"][mip] \cup gpu.level[source][mip + 1]
    <2>1. BloomCall({"bloom", source}, image, mip, adds) /\ stage = "up" /\ mip >= 0
      BY <1>7 DEF UpsampleFrom
    <2>2. /\ {"bloom", source} \in SUBSET (Mains \cup Blooms) /\ image \in Blooms \ {"bloom", source}
          /\ mip \in 0 .. 15 /\ mip + 1 \in 0 .. 15
      BY <1>1, <1>7, <2>1 DEF Mains, Blooms
    <2>3. adds \in SUBSET Nat
      BY <1>2, <2>2
    <2> HIDE DEF adds
    <2> QED
      BY <1>1, <2>1, <2>2, <2>3, BloomCallIs
  <1>8. CASE Upsample
    <2>1. PICK source \in {"bloom1", "bloom2"}, image \in {"bloom1", "bloom2"} :
            source # image /\ UpsampleFrom(source, image)
      BY <1>8 DEF Upsample
    <2>2. gpu' \in GPU /\ Legal(gpu') /\ gpu'.holds = gpu.holds
      BY <1>7, <2>1
    <2> QED
      BY <1>1, <2>1, <2>2 DEF UpsampleFrom, Blooms
  <1>9. CASE EndBloom
    BY <1>1, <1>9, NoDrawIs DEF EndBloom, Skip
  <1> QED
    BY <1>3, <1>4, <1>5, <1>6, <1>8, <1>9

(* What is left alone by every pass. *)
kept == <<scene, compute, levels>>

LEMMA TypedStep ==
    ASSUME Typed, [Next]_vars
    PROVE  Typed'
  <1>1. /\ SceneShape(scene) /\ compute \in Compute /\ levels \in Levels /\ stage \in Stages
        /\ {main, post} = Mains /\ {last, target} \subseteq Mains
        /\ bloomLast \in Blooms \cup {"white"}
        /\ {envMap, cubeMap, marked, lut, even} \subseteq BOOLEAN
        /\ mip \in -1 .. Mips /\ gpu \in GPU /\ Legal(gpu) /\ main \in Mains /\ Mips \in 3 .. 14
    BY MipsIs DEF Typed, TypeOK
  <1>2. CASE OnResize
    <2> DEFINE W == Mains \cup Blooms \cup {"depth"}
               b == NoDraw(Bound(gpu, W))
    <2>1. b \in GPU /\ Legal(b)
      BY <1>1, BoundIs, NoDrawIs DEF Images
    <2>2. gpu' = [b EXCEPT !.level = NoLevel]
      BY <1>2 DEF OnResize
    <2> HIDE DEF b
    <2>3. gpu' \in GPU /\ Legal(gpu')
      BY <2>1, <2>2, EmptyIs DEF GPU, Legal
    <2>4. /\ stage = "idle" /\ levels' \in Levels
          /\ UNCHANGED <<scene, compute, stage, main, post, last, bloomLast, target, envMap,
                         cubeMap, marked, lut, mip, even>>
      BY <1>2 DEF OnResize
    <2>5. mip' \in {-1, 0} /\ Mips' \in 3 .. 14
      BY <2>4, GraphAssumption DEF Typed, Handed, Mips
    <2>6. TypeOK'
      BY <1>1, <2>3, <2>4, <2>5 DEF TypeOK
    <2>7. Handed'
      BY <2>4, <2>5 DEF Typed, Handed, Opening
    <2> QED
      BY <2>3, <2>6, <2>7 DEF Typed
  <1>3. CASE OnNewScene
    <2>1. /\ stage = "idle" /\ envMap' = FALSE /\ cubeMap' = FALSE /\ marked' = FALSE
          /\ UNCHANGED <<kept, stage, main, post, last, bloomLast, target, lut, mip, even, gpu>>
      BY <1>3 DEF OnNewScene, kept
    <2>2. TypeOK'
      BY <1>1, <2>1 DEF TypeOK, kept, Mips
    <2>3. Handed'
      BY <2>1 DEF Typed, Handed, Opening, kept, Mips
    <2> QED
      BY <1>1, <2>1, <2>2, <2>3 DEF Typed
  <1>4. CASE UNCHANGED graphVars
    BY <1>4 DEF Typed, TypeOK, Handed, graphVars, Mips
  <1>5. ASSUME NEW s \in Scenes, BeginScene(s)
        PROVE  Typed'
    <2>1. /\ scene' = s /\ marked' = (marked \/ "3d" \in s.on) /\ target' = main
          /\ stage = "idle" /\ stage' = "clear"
          /\ UNCHANGED <<compute, levels, main, post, last, bloomLast, lut, mip, even, gpu>>
      BY <1>5 DEF BeginScene
    <2>2. SceneShape(s) /\ s.env \in BOOLEAN
      BY <1>5, GraphAssumption DEF SceneShape
    <2>3. /\ envMap' \in BOOLEAN /\ cubeMap' = envMap'
          /\ "sky" \in s.on => cubeMap' = s.env
      BY <1>1, <1>5, <2>2 DEF BeginScene, FirstEnvironment, Typed, Handed
    <2>4. TypeOK'
      BY <1>1, <2>1, <2>2, <2>3 DEF TypeOK, Stages, Mips
    <2>5. Handed'
      BY <2>1, <2>3 DEF Typed, Handed, Opening
    <2> QED
      BY <1>1, <2>1, <2>4, <2>5 DEF Typed
  <1>6. CASE Clear
    <2> DEFINE b == NoDraw(gpu)
    <2>1. b \in GPU /\ b.draw = [reads |-> {}, writes |-> {}]
      BY <1>1 DEF NoDraw, GPU
    <2>2. gpu' = [b EXCEPT !.holds = NoHolds, !.level = NoLevel, !.layout["depth"] = "TRANSFER_DST"]
      BY <1>6 DEF Clear
    <2> HIDE DEF b
    <2>3. gpu' \in GPU /\ Legal(gpu')
      <3>1. /\ gpu'.draw = b.draw /\ gpu'.holds = NoHolds /\ gpu'.level = NoLevel
            /\ gpu'.layout \in [Images -> Layouts]
            /\ gpu' = [layout |-> gpu'.layout, holds |-> gpu'.holds, level |-> gpu'.level,
                       draw |-> gpu'.draw]
        BY <2>1, <2>2 DEF GPU, Layouts
      <3> QED
        BY <2>1, <3>1, EmptyIs, SMTT(30) DEF GPU, Legal
    <2>4. /\ stage = "clear" /\ stage' = "lut" /\ bloomLast' = "white"
          /\ UNCHANGED <<kept, main, post, last, target, envMap, cubeMap, marked, lut, mip, even>>
      BY <1>6 DEF Clear, kept
    <2>5. TypeOK'
      BY <1>1, <2>3, <2>4 DEF TypeOK, Stages, kept, Mips
    <2>6. Handed'
      BY <2>4 DEF Typed, Handed, Opening, kept, Mips
    <2> QED
      BY <2>3, <2>5, <2>6 DEF Typed
  <1>7. CASE GenerateBRDFLUTPass \/ DepthPrePass \/ ShadowPass
    BY <1>1, <1>7, OpeningIs DEF Typed, TypeOK, Handed, Opening, Stages, Mips
  <1>8. CASE ForwardPass
    <2>1. /\ stage = "forward" /\ stage' = "sky"
          /\ UNCHANGED <<kept, main, post, last, bloomLast, target, envMap, cubeMap, lut, mip, even>>
      BY <1>8 DEF ForwardPass, kept
    <2>2. target = main /\ ("3d" \in scene.on => marked)
      BY <2>1 DEF Typed, Handed, Opening
    <2>3. gpu' \in GPU /\ Legal(gpu') /\ marked' \in {marked, FALSE}
      BY <1>1, <1>8, <2>2, ForwardPassIs
    <2> QED
      BY <1>1, <2>1, <2>3 DEF Typed, TypeOK, Handed, Opening, Stages, kept, Mips
  <1>9. CASE SkyboxPass
    BY <1>1, <1>9, SkyboxPassIs DEF Typed, TypeOK, Handed, Opening, Stages, Mips
  <1>10. CASE Render2DPass
    BY <1>1, <1>10, Render2DPassIs DEF Typed, TypeOK, Handed, Opening, Stages, Mips
  <1>11. CASE BeginText \/ EndFrame
    <2>1. /\ gpu' = NoDraw(gpu)
          /\ \/ stage = "shown2d" /\ stage' = "text"
             \/ stage = "rendered" /\ stage' = "idle"
          /\ UNCHANGED <<kept, main, post, last, bloomLast, target, envMap, cubeMap, marked, lut,
                         mip, even>>
      BY <1>11 DEF BeginText, EndFrame, Skip, kept
    <2> QED
      BY <1>1, <2>1, NoDrawIs DEF Typed, TypeOK, Handed, Opening, Stages, kept, Mips
  <1>12. CASE TextPass
    BY <1>1, <1>12, TextPassIs DEF Typed, TypeOK, Handed, Opening, Stages, Mips
  <1>13. CASE Prefilter \/ Downsample \/ DownsampleBack \/ FirstUpsample \/ Upsample \/ EndBloom
    <2>1. /\ gpu' \in GPU /\ Legal(gpu')
          /\ even' \in BOOLEAN /\ bloomLast' \in Blooms \cup {"white"}
          /\ UNCHANGED <<kept, main, post, last, target, envMap, cubeMap, marked, lut>>
          /\ \/ stage = "bloom" /\ stage' = "down" /\ mip' = 1
             \/ stage = "down" /\ mip < Mips /\ stage' = "back" /\ mip' = mip
             \/ stage = "back" /\ stage' = "down" /\ mip' = mip + 1
             \/ stage = "down" /\ stage' = "up" /\ mip' = Mips - 3
             \/ stage = "up" /\ mip >= 0 /\ stage' = "up" /\ mip' = mip - 1
             \/ stage = "up" /\ mip < 0 /\ stage' = "tone" /\ mip' = mip
      BY <1>13, BloomPassIs DEF kept
    <2>2. Mips' = Mips
      BY <2>1 DEF kept, Mips
    <2>3. /\ stage' \in {"down", "back", "up", "tone"} /\ mip' \in -1 .. Mips
          /\ stage' = "down" => mip' \in 1 .. Mips
          /\ stage' = "back" => mip' \in 1 .. Mips - 1
          /\ stage' = "up" => mip' \in -1 .. Mips - 3
          /\ stage' = "tone" => mip' = -1
      BY <1>1, <2>1 DEF Typed, Handed
    <2>4. TypeOK'
      BY <1>1, <2>1, <2>2, <2>3 DEF TypeOK, Stages, kept
    <2>5. Handed'
      BY <2>1, <2>2, <2>3 DEF Typed, Handed, Opening, kept
    <2> QED
      BY <2>1, <2>4, <2>5 DEF Typed
  <1>14. CASE ToneMappingPass
    BY <1>1, <1>14, ToneMappingPassIs DEF Typed, TypeOK, Handed, Opening, Stages, Mips
  <1>15. CASE DebandingPass \/ FXAAPass \/ ChromaticAberationPass \/ FilmicGrainPass
    <2>1. PICK feature \in {"deband", "fxaa", "chroma", "grain"},
               next \in {"fxaa", "chroma", "grain", "debug"}, byCompute \in BOOLEAN :
            Optional(feature, next, byCompute)
      BY <1>1, <1>15, GraphAssumption
      DEF DebandingPass, FXAAPass, ChromaticAberationPass, FilmicGrainPass
    <2>2. feature \in Passes
      BY DEF Passes
    <2>3. /\ gpu' \in GPU /\ Legal(gpu') /\ stage = feature /\ stage' = next
          /\ {main', post'} = Mains /\ last' \in Mains
          /\ UNCHANGED <<scene, compute, levels, bloomLast, target, envMap, cubeMap, marked, lut,
                         mip, even>>
      BY <1>1, <2>1, <2>2, OptionalIs
    <2> QED
      BY <1>1, <2>3 DEF Typed, TypeOK, Handed, Opening, Stages, Mips
  <1>16. CASE Debug
    BY <1>1, <1>16, DebugIs DEF Typed, TypeOK, Handed, Opening, Stages, Mips
  <1>17. CASE FinalPass
    BY <1>1, <1>17, FinalPassIs DEF Typed, TypeOK, Handed, Opening, Stages, Mips
  <1> QED
    BY <1>2, <1>3, <1>4, <1>5, <1>6, <1>7, <1>8, <1>9, <1>10, <1>11, <1>12, <1>13, <1>14,
       <1>15, <1>16, <1>17
    DEF Next, Ask, Render2DQuad, TextQuad, vars, graphVars

(* Whatever the scenes, settings and sizes, and whatever changed since the *)
(* last frame: each call finds its images in the layout it needs.          *)
THEOREM FrameAlwaysLegal == Spec => []FrameLegal
  <1>1. Typed => FrameLegal
    BY DEF Typed, FrameLegal, DrawsAreLegal, Legal
  <1> QED
    BY TypedInit, TypedStep, <1>1, PTL DEF Spec
-----------------------------------------------------------------------------
(***************************************************************************)
(* The text pass draws something if and only if a text has a glyph.        *)
(***************************************************************************)
BatchCall == [batch : Nat, count : Nat]

DataOK(d) ==
    /\ d = [table |-> d.table, count |-> d.count, batch |-> d.batch, memory |-> d.memory,
            tables |-> d.tables, calls |-> d.calls, room |-> d.room]
    /\ d.count \in Nat /\ d.batch \in Nat /\ d.calls \in Seq(BatchCall)

Drawing(d) == d.count > 0 \/ d.calls # <<>>

HasGlyphs(texts) == \E k \in DOMAIN texts : texts[k].glyphs > 0

Writing ==
    stage = "text" =>
        /\ todo \in Seq(Range(scene.texts)) /\ DataOK(data)
        /\ HasGlyphs(scene.texts) <=> Drawing(data) \/ HasGlyphs(todo)

LEMMA FlushedIs ==
    ASSUME NEW d, DataOK(d)
    PROVE  DataOK(Flushed(d)) /\ Flushed(d).calls # <<>>
  <1> DEFINE call == [batch |-> d.batch, count |-> d.count]
             calls == Append(d.calls, call)
  <1>1. call \in BatchCall /\ d.calls \in Seq(BatchCall)
    BY DEF DataOK, BatchCall
  <1>2. calls \in Seq(BatchCall) /\ calls # <<>>
    BY <1>1, AppendProperties
  <1> HIDE DEF calls
  <1> DEFINE k == FlushedTableKept(d)
             f == [k EXCEPT !.table = <<>>]
  <1>3. k = [table |-> d.table, count |-> 0, batch |-> d.batch + 1,
             memory |-> Append(d.memory, <<>>), tables |-> Append(d.tables, d.table),
             calls |-> calls, room |-> d.room]
    <2>1. d = [table |-> d.table, count |-> d.count, batch |-> d.batch, memory |-> d.memory,
               tables |-> d.tables, calls |-> d.calls, room |-> d.room]
      BY DEF DataOK
    <2>2. k = [d EXCEPT !.count = 0, !.batch = d.batch + 1, !.memory = Append(d.memory, <<>>),
                        !.tables = Append(d.tables, d.table), !.calls = calls]
      BY DEF FlushedTableKept, calls
    <2> HIDE DEF k
    <2> QED
      BY ONLY <2>1, <2>2
  <1> HIDE DEF k
  <1>4. k.count = 0 /\ k.batch = d.batch + 1 /\ k.calls = calls /\ DataOK(k)
    BY <1>2, <1>3 DEF DataOK
  <1>5. f.calls = calls /\ DataOK(f)
    BY <1>2, <1>4 DEF DataOK
  <1>6. Flushed(d) = f
    BY DEF Flushed, k
  <1> HIDE DEF f
  <1> QED
    BY <1>2, <1>5, <1>6

LEMMA WithQuadsIs ==
    ASSUME NEW d, DataOK(d), NEW slot, NEW n \in Nat
    PROVE  /\ DataOK(WithQuads(d, slot, n))
           /\ WithQuads(d, slot, n).count = d.count + n
           /\ WithQuads(d, slot, n).calls = d.calls
  <1> DEFINE quads == d.memory[d.batch + 1] \o [i \in 1 .. n |-> slot]
             m == [d EXCEPT !.memory[d.batch + 1] = quads]
             w == [m EXCEPT !.count = d.count + n]
  <1>1. WithQuads(d, slot, n) = w
    BY DEF WithQuads
  <1> HIDE DEF quads
  <1>2. m.count = d.count /\ m.calls = d.calls /\ DataOK(m)
    BY DEF DataOK
  <1> HIDE DEF m
  <1>3. w.count = d.count + n /\ w.calls = d.calls /\ DataOK(w)
    BY <1>2 DEF DataOK
  <1> HIDE DEF w
  <1> QED
    BY <1>1, <1>3

LEMMA SubmitTextIs ==
    ASSUME NEW d, DataOK(d), NEW text, text.glyphs \in Nat
    PROVE  /\ DataOK(SubmitText(d, text))
           /\ Drawing(SubmitText(d, text)) <=> Drawing(d) \/ text.glyphs > 0
  <1> DEFINE r == IF d.count >= MaxQuads THEN TextFlush(d) ELSE d
             e == IF Contains(r.table, text.font) THEN r
                  ELSE [r EXCEPT !.table = Append(r.table, text.font)]
  <1>1. DataOK(r) /\ (Drawing(r) <=> Drawing(d))
    BY FlushedIs, BatchAssumption DEF TextFlush, Drawing, DataOK
  <1> HIDE DEF r
  <1>2. DataOK(e) /\ e.count = r.count /\ e.calls = r.calls
    BY <1>1 DEF DataOK
  <1>3. SubmitText(d, text) = WithQuads(e, SlotOf(e.table, text.font), text.glyphs)
    BY DEF SubmitText, r
  <1> HIDE DEF e
  <1> DEFINE w == WithQuads(e, SlotOf(e.table, text.font), text.glyphs)
  <1>4. DataOK(w) /\ w.count = e.count + text.glyphs /\ w.calls = e.calls
    BY <1>2, WithQuadsIs
  <1> HIDE DEF w
  <1>5. Drawing(w) <=> Drawing(d) \/ text.glyphs > 0
    BY <1>1, <1>2, <1>4 DEF Drawing, DataOK
  <1> QED
    BY <1>3, <1>4, <1>5 DEF w

LEMMA LastFlushIs ==
    ASSUME NEW d, DataOK(d)
    PROVE  LastFlush(d).calls # <<>> <=> Drawing(d)
  BY FlushedIs DEF LastFlush, Drawing, DataOK

LEMMA WritingStep ==
    ASSUME Typed, Writing, [Next]_vars
    PROVE  Writing'
  <1>1. SceneShape(scene)
    BY DEF Typed, TypeOK
  <1>2. /\ scene.texts \in Seq(Range(scene.texts))
        /\ \A t \in Range(scene.texts) : t.glyphs \in Nat
    BY <1>1 DEF SceneShape
  <1>3. CASE BeginText
    <2>1. todo' = scene.texts /\ data' = [EmptyData EXCEPT !.room = TextQuads] /\ scene' = scene
      BY <1>3 DEF BeginText, BeginBatches
    <2>2. DataOK(data') /\ ~Drawing(data')
      BY <2>1 DEF EmptyData, DataOK, Drawing
    <2> QED
      BY <1>2, <2>1, <2>2 DEF Writing
  <1>4. CASE TextQuad
    <2>1. /\ stage = "text" /\ todo # <<>> /\ scene' = scene
          /\ data' = SubmitText(data, Head(todo)) /\ todo' = Tail(todo)
      BY <1>4 DEF TextQuad, NextText, graphVars
    <2>2. /\ todo \in Seq(Range(scene.texts)) /\ DataOK(data)
          /\ HasGlyphs(scene.texts) <=> Drawing(data) \/ HasGlyphs(todo)
      BY <2>1 DEF Writing
    <2>3. /\ Head(todo) = todo[1] /\ Head(todo) \in Range(scene.texts)
          /\ Tail(todo) \in Seq(Range(scene.texts))
          /\ DOMAIN todo = 1 .. Len(todo) /\ Len(todo) \in Nat /\ Len(todo) > 0
          /\ DOMAIN Tail(todo) = 1 .. Len(todo) - 1
          /\ \A i \in 1 .. Len(todo) - 1 : Tail(todo)[i] = todo[i + 1]
      BY <2>1, <2>2
    <2>4. HasGlyphs(todo) <=> Head(todo).glyphs > 0 \/ HasGlyphs(Tail(todo))
      <3>1. ASSUME NEW k \in DOMAIN todo, todo[k].glyphs > 0, k # 1
            PROVE  HasGlyphs(Tail(todo))
        <4>1. k - 1 \in DOMAIN Tail(todo) /\ Tail(todo)[k - 1] = todo[k]
          BY <2>3, <3>1
        <4> QED
          BY <3>1, <4>1 DEF HasGlyphs
      <3>2. ASSUME NEW k \in DOMAIN Tail(todo), Tail(todo)[k].glyphs > 0
            PROVE  HasGlyphs(todo)
        <4>1. k + 1 \in DOMAIN todo /\ Tail(todo)[k] = todo[k + 1]
          BY <2>3, <3>2
        <4> QED
          BY <3>2, <4>1 DEF HasGlyphs
      <3>3. 1 \in DOMAIN todo
        BY <2>3
      <3> QED
        BY <2>3, <3>1, <3>2, <3>3 DEF HasGlyphs
    <2>5. Head(todo).glyphs \in Nat
      BY <1>2, <2>3
    <2>6. /\ DataOK(data')
          /\ Drawing(data') <=> Drawing(data) \/ Head(todo).glyphs > 0
      BY <2>1, <2>2, <2>5, SubmitTextIs
    <2> QED
      BY <2>1, <2>2, <2>3, <2>4, <2>6 DEF Writing
  <1>5. CASE stage' = "text" /\ ~BeginText /\ ~TextQuad
    <2>1. UNCHANGED <<scene, stage, todo, data>>
      BY <1>5 DEF Next, vars, graphVars, batchVars, OnResize, OnNewScene, Ask, BeginScene, Clear,
         GenerateBRDFLUTPass, DepthPrePass, ShadowPass, ForwardPass, SkyboxPass, Render2DQuad,
         Render2DPass, TextPass, Prefilter, Downsample, DownsampleBack, FirstUpsample, Upsample,
         UpsampleFrom, EndBloom, ToneMappingPass, DebandingPass, FXAAPass,
         ChromaticAberationPass, FilmicGrainPass, Optional, Effect, Debug, FinalPass, EndFrame, Skip
    <2> QED
      BY <1>5, <2>1 DEF Writing
  <1> QED
    BY <1>3, <1>4, <1>5 DEF Writing
-----------------------------------------------------------------------------
(***************************************************************************)
(* The debug pass: what the lists hold, and what recording them in turn    *)
(* makes of it.                                                            *)
(***************************************************************************)
Pools == {"line", "point", "triangle"}

Requests == [kind : Kinds, ndt : BOOLEAN, n : Nat]

Items == [id : Nat, n : Nat]

ListsOK ==
    /\ submitted \in Seq(Requests)
    /\ lists \in [BOOLEAN -> [Kinds -> Seq(Items)]]

(* Each item comes from a shape of its list and kind, and each shape that  *)
(* has primitives is in its list.                                          *)
Listed ==
    /\ \A depth \in BOOLEAN, kind \in Kinds : \A i \in DOMAIN lists[depth][kind] :
         LET it == lists[depth][kind][i]
         IN  /\ it.id \in DOMAIN submitted /\ it.n = submitted[it.id].n
             /\ submitted[it.id].kind = kind /\ submitted[it.id].n > 0
             /\ DepthTested(submitted[it.id]) <=> depth
    /\ \A id \in DOMAIN submitted :
         submitted[id].n > 0 =>
            \E depth \in BOOLEAN :
               /\ depth <=> DepthTested(submitted[id])
               /\ Contains(lists[depth][submitted[id].kind], Item(id, submitted[id].n))

(* The call that draws a list. *)
Entry(depth, kind, n) ==
    [buffer |-> <<Pool(kind), n>>, depth |-> depth, kind |-> kind,
     indices |-> IndicesOf(kind) * Primitives(lists[depth][kind])]

Entries == {Entry(depth, kind, n) : depth \in BOOLEAN, kind \in Kinds, n \in Nat}

Draws(c, depth, kind) == (c.depth <=> depth) /\ c.kind = kind

(* The lists in done have been recorded. *)
Recording(p, done) ==
    /\ p.next \in [Pools -> Nat]
    /\ p.calls \in Seq(Entries)
    /\ \A k \in DOMAIN p.calls :
         LET c == p.calls[k]
         IN  /\ <<c.depth, c.kind>> \in done
             /\ lists[c.depth][c.kind] # <<>>
             /\ c.buffer \in DOMAIN p.memory
             /\ p.memory[c.buffer] = lists[c.depth][c.kind]
             /\ IF c.kind = "triangle" THEN c.buffer[2] = p.next["triangle"]
                ELSE c.buffer[2] < p.next[Pool(c.kind)]
    /\ \A j, k \in DOMAIN p.calls :
         p.calls[j].depth = p.calls[k].depth /\ p.calls[j].kind = p.calls[k].kind => j = k
    /\ \A at \in done :
         lists[at[1]][at[2]] # <<>> =>
            \E k \in DOMAIN p.calls : p.calls[k].depth = at[1] /\ p.calls[k].kind = at[2]

LEMMA EntryIs ==
    ASSUME NEW depth \in BOOLEAN, NEW kind \in Kinds, NEW n \in Nat
    PROVE  LET e == Entry(depth, kind, n)
           IN  /\ e \in Entries /\ e.buffer = <<Pool(kind), n>>
               /\ e.depth = depth /\ e.kind = kind
               /\ e.indices = IndicesOf(kind) * Primitives(lists[depth][kind])
  BY DEF Entries, Entry

LEMMA EntriesAre ==
    ASSUME NEW c \in Entries
    PROVE  /\ c.depth \in BOOLEAN /\ c.kind \in Kinds
           /\ c.buffer[1] = Pool(c.kind) /\ c.buffer[2] \in Nat
           /\ c.buffer = <<c.buffer[1], c.buffer[2]>>
           /\ c.indices = IndicesOf(c.kind) * Primitives(lists[c.depth][c.kind])
  <1>1. PICK depth \in BOOLEAN, kind \in Kinds, n \in Nat : c = Entry(depth, kind, n)
    BY DEF Entries
  <1> QED
    BY <1>1, EntryIs

(* A triangle is always depth tested, so only one list of triangles is drawn. *)
LEMMA TrianglesTested ==
    ASSUME ListsOK, Listed
    PROVE  lists[FALSE]["triangle"] = <<>>
  <1> DEFINE s == lists[FALSE]["triangle"]
  <1>1. s \in Seq(Items)
    BY DEF ListsOK, Kinds
  <1>2. ASSUME s # <<>>
        PROVE  FALSE
    <2> HIDE DEF s
    <2>1. 1 \in DOMAIN s
      BY <1>1, <1>2, EmptySeq, LenProperties
    <2>2. PICK id : submitted[id].kind = "triangle" /\ ~DepthTested(submitted[id])
      BY <2>1 DEF Listed, Kinds, s
    <2> QED
      BY <2>2 DEF DepthTested
  <1> QED
    BY <1>2

LEMMA DrawListIs ==
    ASSUME ListsOK, Listed, NEW p, NEW done, Recording(p, done),
           NEW depth \in BOOLEAN, NEW kind \in Kinds, <<depth, kind>> \notin done
    PROVE  Recording(DrawList(p, depth, kind), done \cup {<<depth, kind>>})
  <1> DEFINE items == lists[depth][kind]
             pool == Pool(kind)
             at == <<pool, p.next[pool]>>
             entry == Entry(depth, kind, p.next[pool])
             q == DrawList(p, depth, kind)
             more == done \cup {<<depth, kind>>}
  <1>1. CASE items = <<>>
    <2>1. q = p
      BY <1>1 DEF DrawList
    <2> HIDE DEF q
    <2>2. ASSUME NEW x \in more, lists[x[1]][x[2]] # <<>>
          PROVE  x \in done
      BY <1>1, <2>2
    <2>3. \A x \in done : x \in more
      OBVIOUS
    <2> HIDE DEF more, items
    <2>4. Recording(p, more)
      BY <2>2, <2>3 DEF Recording
    <2> QED
      BY <2>1, <2>4 DEF q, more
  <1>2. CASE items # <<>>
    <2>1. /\ p.next \in [Pools -> Nat] /\ p.calls \in Seq(Entries)
          /\ pool \in Pools /\ p.next[pool] \in Nat
          /\ pool = "triangle" <=> kind = "triangle"
      BY DEF Recording, Pools, Pool, Kinds
    <2>2. /\ entry \in Entries /\ entry.buffer = at /\ entry.depth = depth /\ entry.kind = kind
      BY <2>1, EntryIs
    <2>3. /\ q.next = NextIndex(p.next, pool)
          /\ q.memory = [b \in DOMAIN p.memory \cup {at} |-> IF b = at THEN items ELSE p.memory[b]]
          /\ q.calls = Append(p.calls, entry)
      BY <1>2 DEF DrawList, Entry
    <2> HIDE DEF q, entry
    <2>4. /\ q.next \in [Pools -> Nat]
          /\ q.next["triangle"] = p.next["triangle"]
          /\ \A x \in Pools : q.next[x] >= p.next[x]
          /\ pool # "triangle" => q.next[pool] = p.next[pool] + 1
      BY <2>1, <2>3 DEF NextIndex, Pools
    <2>5. /\ q.calls \in Seq(Entries) /\ Len(p.calls) \in Nat
          /\ DOMAIN p.calls = 1 .. Len(p.calls) /\ DOMAIN q.calls = 1 .. Len(p.calls) + 1
          /\ q.calls[Len(p.calls) + 1] = entry
          /\ \A k \in 1 .. Len(p.calls) : q.calls[k] = p.calls[k]
      BY <2>1, <2>2, <2>3, AppendProperties, LenProperties
    <2>6. /\ at \in DOMAIN q.memory /\ q.memory[at] = items
          /\ \A b \in DOMAIN p.memory : b # at => b \in DOMAIN q.memory /\ q.memory[b] = p.memory[b]
      BY <2>3
    <2>7. ASSUME NEW k \in 1 .. Len(p.calls)
          PROVE  /\ <<p.calls[k].depth, p.calls[k].kind>> \in done
                 /\ <<p.calls[k].depth, p.calls[k].kind>> # <<depth, kind>>
                 /\ lists[p.calls[k].depth][p.calls[k].kind] # <<>>
                 /\ p.calls[k].buffer \in DOMAIN p.memory
                 /\ p.memory[p.calls[k].buffer] = lists[p.calls[k].depth][p.calls[k].kind]
                 /\ IF p.calls[k].kind = "triangle" THEN p.calls[k].buffer[2] = p.next["triangle"]
                    ELSE p.calls[k].buffer[2] < p.next[Pool(p.calls[k].kind)]
                 /\ p.calls[k].buffer # at
      <3> DEFINE c == p.calls[k]
      <3>1. /\ <<c.depth, c.kind>> \in done
            /\ lists[c.depth][c.kind] # <<>>
            /\ c.buffer \in DOMAIN p.memory
            /\ p.memory[c.buffer] = lists[c.depth][c.kind]
            /\ IF c.kind = "triangle" THEN c.buffer[2] = p.next["triangle"]
               ELSE c.buffer[2] < p.next[Pool(c.kind)]
        BY <2>5 DEF Recording
      <3>2. c \in Entries
        BY <2>1, <2>5, ElementOfSeq
      <3> HIDE DEF c
      <3>3. /\ c.depth \in BOOLEAN /\ c.kind \in Kinds
            /\ c.buffer[1] = Pool(c.kind) /\ c.buffer[2] \in Nat
            /\ c.buffer = <<c.buffer[1], c.buffer[2]>>
        BY <3>2, EntriesAre
      <3>4. <<c.depth, c.kind>> # <<depth, kind>>
        BY <3>1
      <3>5. CASE kind # "triangle"
        <4>1. Pool(c.kind) = pool => c.buffer[2] < p.next[pool]
          BY <2>1, <3>1, <3>3, <3>5 DEF Pool, Kinds
        <4>2. c.buffer # at
          BY <2>1, <3>3, <4>1
        <4> QED
          BY <3>1, <3>4, <4>2 DEF c
      <3>6. CASE kind = "triangle"
        <4>1. depth = TRUE
          BY <1>2, <3>6, TrianglesTested
        <4>2. c.kind = "triangle" => c.depth = TRUE
          BY <3>1, <3>3, TrianglesTested
        <4>3. c.kind # "triangle"
          BY <3>4, <3>6, <4>1, <4>2
        <4>4. c.buffer # at
          BY <2>1, <3>3, <3>6, <4>3 DEF Pool, Kinds
        <4> QED
          BY <3>1, <3>4, <4>4 DEF c
      <3> QED
        BY <3>5, <3>6
    <2>8. ASSUME NEW k \in DOMAIN q.calls
          PROVE  LET c == q.calls[k]
                 IN  /\ <<c.depth, c.kind>> \in more
                     /\ lists[c.depth][c.kind] # <<>>
                     /\ c.buffer \in DOMAIN q.memory
                     /\ q.memory[c.buffer] = lists[c.depth][c.kind]
                     /\ IF c.kind = "triangle" THEN c.buffer[2] = q.next["triangle"]
                        ELSE c.buffer[2] < q.next[Pool(c.kind)]
      <3>1. CASE k = Len(p.calls) + 1
        <4>1. q.calls[k] = entry
          BY <2>5, <3>1
        <4>2. IF kind = "triangle" THEN at[2] = q.next["triangle"] ELSE at[2] < q.next[pool]
          BY <2>1, <2>4
        <4> QED
          BY <1>2, <2>2, <2>6, <4>1, <4>2
      <3>2. CASE k \in 1 .. Len(p.calls)
        <4> DEFINE c == p.calls[k]
        <4>1. /\ q.calls[k] = c /\ <<c.depth, c.kind>> \in done /\ lists[c.depth][c.kind] # <<>>
              /\ c.buffer \in DOMAIN p.memory /\ c.buffer # at
              /\ p.memory[c.buffer] = lists[c.depth][c.kind]
              /\ IF c.kind = "triangle" THEN c.buffer[2] = p.next["triangle"]
                 ELSE c.buffer[2] < p.next[Pool(c.kind)]
          BY <2>5, <2>7, <3>2
        <4>2. c \in Entries
          BY <2>1, <2>5, <3>2, ElementOfSeq
        <4> HIDE DEF c
        <4>3. c.kind \in Kinds /\ c.buffer[2] \in Nat /\ Pool(c.kind) \in Pools
          BY <4>2, EntriesAre DEF Pool, Pools, Kinds
        <4>4. IF c.kind = "triangle" THEN c.buffer[2] = q.next["triangle"]
              ELSE c.buffer[2] < q.next[Pool(c.kind)]
          BY <2>1, <2>4, <4>1, <4>3
        <4> QED
          BY <2>6, <4>1, <4>4
      <3> QED
        BY <2>5, <3>1, <3>2, SMTT(30)
    <2>9. ASSUME NEW j \in DOMAIN q.calls, NEW k \in DOMAIN q.calls,
                 q.calls[j].depth = q.calls[k].depth, q.calls[j].kind = q.calls[k].kind
          PROVE  j = k
      <3>1. CASE j \in 1 .. Len(p.calls) /\ k \in 1 .. Len(p.calls)
        <4>1. p.calls[j].depth = p.calls[k].depth /\ p.calls[j].kind = p.calls[k].kind
          BY <2>5, <2>9, <3>1
        <4>2. j \in DOMAIN p.calls /\ k \in DOMAIN p.calls
          BY <2>5, <3>1
        <4> QED
          BY <4>1, <4>2 DEF Recording
      <3>2. CASE j = Len(p.calls) + 1 \/ k = Len(p.calls) + 1
        <4>1. ASSUME NEW n \in 1 .. Len(p.calls)
              PROVE  ~(p.calls[n].depth = depth /\ p.calls[n].kind = kind)
          BY <2>7
        <4>2. q.calls[Len(p.calls) + 1].depth = depth /\ q.calls[Len(p.calls) + 1].kind = kind
          BY <2>2, <2>5
        <4>3. ~(j \in 1 .. Len(p.calls))
          BY <2>5, <2>9, <3>2, <4>1, <4>2
        <4>4. ~(k \in 1 .. Len(p.calls))
          BY <2>5, <2>9, <3>2, <4>1, <4>2
        <4> QED
          BY <2>5, <4>3, <4>4
      <3> QED
        BY <2>5, <3>1, <3>2
    <2>10. ASSUME NEW x \in more, lists[x[1]][x[2]] # <<>>
           PROVE  \E k \in DOMAIN q.calls : q.calls[k].depth = x[1] /\ q.calls[k].kind = x[2]
      <3>1. CASE x = <<depth, kind>>
        BY <2>2, <2>5, <3>1
      <3>2. CASE x \in done
        <4>1. PICK k \in DOMAIN p.calls : p.calls[k].depth = x[1] /\ p.calls[k].kind = x[2]
          BY <2>10, <3>2 DEF Recording
        <4> QED
          BY <2>5, <4>1
      <3> QED
        BY <3>1, <3>2
    <2> HIDE DEF more
    <2> QED
      BY <2>4, <2>5, <2>8, <2>9, <2>10 DEF Recording, q, more
  <1> QED
    BY <1>1, <1>2

LEMMA DrawKindsIs ==
    ASSUME ListsOK, Listed, NEW p, NEW done, Recording(p, done),
           NEW depth \in BOOLEAN, \A kind \in Kinds : <<depth, kind>> \notin done
    PROVE  Recording(DrawKinds(p, depth), done \cup {<<depth, kind>> : kind \in Kinds})
  <1> DEFINE With(s, kind) == s \cup {<<depth, kind>>}
             d1 == With(done, "line")
             d2 == With(d1, "thick")
             d3 == With(d2, "point")
             d4 == With(d3, "triangle")
             p1 == DrawList(p, depth, "line")
             p2 == DrawList(p1, depth, "thick")
             p3 == DrawList(p2, depth, "point")
             p4 == DrawList(p3, depth, "triangle")
  <1>1. /\ <<depth, "line">> \notin done /\ <<depth, "thick">> \notin d1
        /\ <<depth, "point">> \notin d2 /\ <<depth, "triangle">> \notin d3
        /\ "line" \in Kinds /\ "thick" \in Kinds /\ "point" \in Kinds /\ "triangle" \in Kinds
    BY DEF Kinds
  <1>2. d4 = done \cup {<<depth, kind>> : kind \in Kinds}
    BY DEF Kinds
  <1>3. Recording(p1, d1)
    BY <1>1, DrawListIs
  <1> HIDE DEF p1, d1
  <1>4. Recording(p2, d2)
    BY <1>1, <1>3, DrawListIs
  <1> HIDE DEF p2, d2
  <1>5. Recording(p3, d3)
    BY <1>1, <1>4, DrawListIs
  <1> HIDE DEF p3, d3
  <1>6. Recording(p4, d4)
    BY <1>1, <1>5, DrawListIs
  <1> HIDE DEF d4
  <1>7. DrawKinds(p, depth) = p4
    BY DEF DrawKinds, p1, p2, p3
  <1> QED
    BY <1>2, <1>6, <1>7

LEMMA RecordedIs ==
    ASSUME ListsOK, Listed
    PROVE  Recording(Recorded, BOOLEAN \X Kinds)
  <1>1. Recording(Unrecorded, {})
    <2>1. /\ Unrecorded.next \in [Pools -> Nat] /\ Unrecorded.calls = <<>>
      BY DEF Unrecorded, Pools
    <2>2. Unrecorded.calls \in Seq(Entries) /\ DOMAIN Unrecorded.calls = {}
      BY <2>1, EmptySeq, LenProperties
    <2> QED
      BY <2>1, <2>2 DEF Recording
  <1> DEFINE d1 == {} \cup {<<FALSE, kind>> : kind \in Kinds}
             d2 == d1 \cup {<<TRUE, kind>> : kind \in Kinds}
             p1 == DrawKinds(Unrecorded, FALSE)
  <1>2. Recording(p1, d1)
    BY <1>1, DrawKindsIs
  <1>3. \A kind \in Kinds : <<TRUE, kind>> \notin d1
    OBVIOUS
  <1> HIDE DEF p1, d1
  <1>4. Recording(DrawKinds(p1, TRUE), d2)
    BY <1>2, <1>3, DrawKindsIs
  <1>5. d2 = BOOLEAN \X Kinds
    <2>1. ASSUME NEW b \in BOOLEAN, NEW kind \in Kinds
          PROVE  <<b, kind>> \in d2
      BY DEF d1
    <2>2. ASSUME NEW x \in d2
          PROVE  x \in BOOLEAN \X Kinds
      <3>1. \E b \in BOOLEAN, kind \in Kinds : x = <<b, kind>>
        BY DEF d1
      <3> QED
        BY <3>1
    <2> HIDE DEF d2
    <2> QED
      BY <2>1, <2>2
  <1>6. Recorded = DrawKinds(p1, TRUE)
    BY DEF Recorded, p1
  <1> QED
    BY <1>4, <1>5, <1>6

Shows ==
    /\ \A id \in DOMAIN submitted :
         submitted[id].n > 0 =>
            \E k \in DOMAIN shown : ShownAs(id, submitted[id].kind, submitted[id].n) = {k}
    /\ \A k \in DOMAIN shown :
         /\ \A i \in DOMAIN shown[k].items : shown[k].items[i].id \in DOMAIN submitted
         /\ shown[k].indices = IndicesOf(shown[k].kind) * Primitives(shown[k].items)

SomethingAsked == \E k \in DOMAIN submitted : submitted[k].n > 0

LEMMA DebugPassIs ==
    ASSUME ListsOK, Listed, DebugPass
    PROVE  Shows' /\ (shown' # <<>> <=> SomethingAsked)
  <1> DEFINE p == Recorded
             q == shown'
  <1>1. Recording(p, BOOLEAN \X Kinds)
    BY RecordedIs
  <1>2. q = Seen(p) /\ submitted' = submitted
    BY DEF DebugPass
  <1> HIDE DEF p, q
  <1>3. /\ DOMAIN q = DOMAIN p.calls /\ DOMAIN p.calls = 1 .. Len(p.calls) /\ Len(p.calls) \in Nat
        /\ \A k \in DOMAIN q : p.calls[k] \in Entries
    BY <1>1, <1>2, LenProperties, ElementOfSeq DEF Seen, Recording
  <1>4. ASSUME NEW k \in DOMAIN q
        PROVE  /\ p.calls[k].depth \in BOOLEAN /\ p.calls[k].kind \in Kinds
               /\ q[k].kind = p.calls[k].kind
               /\ q[k].items = lists[p.calls[k].depth][p.calls[k].kind]
               /\ q[k].items # <<>>
               /\ q[k].indices = IndicesOf(q[k].kind) * Primitives(q[k].items)
    <2>1. q[k] = [depth |-> p.calls[k].depth, kind |-> p.calls[k].kind,
                  indices |-> p.calls[k].indices, items |-> p.memory[p.calls[k].buffer]]
      BY <1>2, <1>3 DEF Seen
    <2>2. /\ p.calls[k].depth \in BOOLEAN /\ p.calls[k].kind \in Kinds
          /\ p.calls[k].indices = IndicesOf(p.calls[k].kind) *
                Primitives(lists[p.calls[k].depth][p.calls[k].kind])
      BY <1>3, EntriesAre
    <2>3. /\ p.memory[p.calls[k].buffer] = lists[p.calls[k].depth][p.calls[k].kind]
          /\ lists[p.calls[k].depth][p.calls[k].kind] # <<>>
      BY <1>1, <1>3 DEF Recording
    <2> QED
      BY <2>1, <2>2, <2>3
  <1>5. ASSUME NEW id \in DOMAIN submitted, submitted[id].n > 0
        PROVE  \E k \in DOMAIN q :
                 {j \in DOMAIN q : q[j].kind = submitted[id].kind
                                   /\ Contains(q[j].items, Item(id, submitted[id].n))} = {k}
    <2> DEFINE kind == submitted[id].kind
               item == Item(id, submitted[id].n)
    <2>1. kind \in Kinds /\ item.id = id
      <3>1. submitted[id] \in Requests
        BY <1>5, LenProperties, ElementOfSeq DEF ListsOK
      <3> QED
        BY <3>1 DEF Requests, Item
    <2>2. PICK depth \in BOOLEAN :
            (depth <=> DepthTested(submitted[id])) /\ Contains(lists[depth][kind], item)
      BY <1>5 DEF Listed
    <2> HIDE DEF kind, item
    <2>3. lists[depth][kind] \in Seq(Items)
      BY <2>1 DEF ListsOK
    <2>4. lists[depth][kind] # <<>>
      BY <2>2, <2>3, EmptySeq DEF Contains
    <2>5. PICK k \in DOMAIN q : p.calls[k].depth = depth /\ p.calls[k].kind = kind
      <3> DEFINE at == <<depth, kind>>
      <3>1. at \in BOOLEAN \X Kinds /\ at[1] = depth /\ at[2] = kind
        BY <2>1
      <3> HIDE DEF at
      <3>2. \E k \in DOMAIN p.calls : p.calls[k].depth = at[1] /\ p.calls[k].kind = at[2]
        BY <1>1, <2>4, <3>1 DEF Recording
      <3> QED
        BY <1>3, <3>1, <3>2
    <2>6. q[k].kind = kind /\ Contains(q[k].items, item)
      BY <1>4, <2>2, <2>5
    <2>7. ASSUME NEW j \in DOMAIN q, q[j].kind = kind, Contains(q[j].items, item)
          PROVE  j = k
      <3> DEFINE other == p.calls[j].depth
      <3>1. other \in BOOLEAN /\ p.calls[j].kind = kind /\ Contains(lists[other][kind], item)
        BY <1>4, <2>7
      <3>2. lists[other][kind] \in Seq(Items)
        BY <2>1, <3>1 DEF ListsOK
      <3> HIDE DEF other
      <3>3. PICK i \in DOMAIN lists[other][kind] : lists[other][kind][i] = item
        BY <3>1, <3>2, LenProperties DEF Contains
      <3>4. DepthTested(submitted[id]) <=> other
        BY <2>1, <3>1, <3>3 DEF Listed
      <3>5. other = depth
        BY <2>2, <3>1, <3>4
      <3> QED
        BY <1>1, <1>3, <2>5, <3>1, <3>5 DEF Recording, other
    <2>8. {j \in DOMAIN q : q[j].kind = kind /\ Contains(q[j].items, item)} = {k}
      BY <2>6, <2>7
    <2> QED
      BY <2>8 DEF kind, item
  <1>6. ASSUME NEW k \in DOMAIN q
        PROVE  \A i \in DOMAIN q[k].items : q[k].items[i].id \in DOMAIN submitted
    BY <1>4 DEF Listed
  <1>7. q # <<>> <=> SomethingAsked
    <2>1. ASSUME q # <<>>
          PROVE  SomethingAsked
      <3>1. 1 \in DOMAIN q
        <4>1. CASE Len(p.calls) = 0
          <5>1. q = [k \in {} |-> TRUE]
            BY <1>2, <1>3, <4>1 DEF Seen
          <5>2. <<>> = [k \in {} |-> TRUE]
            OBVIOUS
          <5> QED
            BY <2>1, <5>1, <5>2
        <4> QED
          BY <1>3, <4>1
      <3> DEFINE s == lists[p.calls[1].depth][p.calls[1].kind]
      <3>2. s \in Seq(Items) /\ s # <<>>
        BY <1>4, <3>1 DEF ListsOK
      <3>3. 1 \in DOMAIN s
        <4> HIDE DEF s
        <4> QED
          BY <3>2, EmptySeq, LenProperties
      <3> QED
        BY <1>4, <3>1, <3>3 DEF Listed, SomethingAsked
    <2>2. ASSUME SomethingAsked
          PROVE  q # <<>>
      <3>1. PICK id \in DOMAIN submitted : submitted[id].n > 0
        BY <2>2 DEF SomethingAsked
      <3>2. PICK k : k \in DOMAIN q
        BY <1>5, <3>1
      <3> QED
        BY <3>2
    <2> QED
      BY <2>1, <2>2
  <1> QED
    BY <1>2, <1>4, <1>5, <1>6, <1>7 DEF Shows, ShownAs, q

LEMMA ShapesAre == Shapes \subseteq Requests
  <1>1. \A t \in {"directional", "spot", "point"} : LightLines(t) \in Nat
    BY DEF LightLines, ConeLines, SphereLines, CircleLines
  <1>2. CapsuleLines \in Nat
    BY DEF CapsuleLines, CircleLines, ArcLines
  <1>3. \A v \in Vertices : v - 2 \in Nat
    BY DEF Vertices
  <1>4. \A kind \in Kinds, ndt \in BOOLEAN, n \in Nat : Shape(kind, ndt, n) \in Requests
    BY DEF Shape, Requests
  <1>5. "line" \in Kinds /\ "thick" \in Kinds /\ "triangle" \in Kinds
    BY DEF Kinds
  <1>6. Plain \subseteq Requests /\ Matrices \subseteq Requests /\ Polygons \subseteq Requests
    BY <1>3, <1>4, <1>5 DEF Plain, Matrices, Polygons
  <1>7. Boxes \subseteq Requests /\ Frustums \subseteq Requests
    BY <1>4, <1>5 DEF Boxes, Frustums
  <1>8. Lights \subseteq Requests /\ Capsules \subseteq Requests
    BY <1>1, <1>2, <1>4, <1>5 DEF Lights, Capsules
  <1> QED
    BY <1>6, <1>7, <1>8 DEF Shapes

LEMMA ClearedIs ==
    /\ DebugInit => ListsOK /\ Listed
    /\ Reset => ListsOK' /\ Listed'
  <1>1. /\ Cleared \in [BOOLEAN -> [Kinds -> Seq(Items)]] /\ <<>> \in Seq(Requests)
        /\ \A depth \in BOOLEAN, kind \in Kinds : Cleared[depth][kind] = <<>>
    BY EmptySeq DEF Cleared, Nothing
  <1>2. DOMAIN <<>> = {}
    OBVIOUS
  <1>3. ASSUME DebugInit
        PROVE  ListsOK /\ Listed
    <2>1. lists = Cleared /\ submitted = <<>>
      BY <1>3 DEF DebugInit
    <2>2. ListsOK
      BY <1>1, <2>1 DEF ListsOK
    <2>3. Listed
      BY <1>1, <1>2, <2>1 DEF Listed
    <2> QED
      BY <2>2, <2>3
  <1>4. ASSUME Reset
        PROVE  ListsOK' /\ Listed'
    <2>1. lists' = Cleared /\ submitted' = <<>>
      BY <1>4 DEF Reset
    <2>2. ListsOK'
      BY <1>1, <2>1 DEF ListsOK
    <2>3. Listed'
      BY <1>1, <1>2, <2>1 DEF Listed
    <2> QED
      BY <2>2, <2>3
  <1> QED
    BY <1>3, <1>4

LEMMA DrawIs ==
    ASSUME ListsOK, Listed, NEW shape \in Requests, Draw(shape)
    PROVE  ListsOK' /\ Listed'
  <1> DEFINE id == Len(submitted) + 1
             at == DepthTested(shape)
             item == Item(id, shape.n)
             list == Append(lists[at][shape.kind], item)
  <1>1. /\ shape.kind \in Kinds /\ shape.ndt \in BOOLEAN /\ shape.n \in Nat
        /\ at \in BOOLEAN
    BY DEF Requests, DepthTested
  <1>2. /\ submitted' \in Seq(Requests) /\ id \in Nat /\ id \notin DOMAIN submitted
        /\ DOMAIN submitted' = DOMAIN submitted \cup {id} /\ submitted'[id] = shape
        /\ \A k \in DOMAIN submitted : submitted'[k] = submitted[k]
    BY AppendProperties, LenProperties DEF Draw, ListsOK
  <1>3. CASE shape.n = 0
    <2>1. lists' = lists
      BY <1>3 DEF Draw
    <2>2. ListsOK'
      BY <1>2, <2>1 DEF ListsOK
    <2>3. ~(shape.n > 0)
      BY <1>3
    <2>4. ASSUME NEW depth \in BOOLEAN, NEW kind \in Kinds,
                 NEW i \in DOMAIN lists'[depth][kind]
          PROVE  LET it == lists'[depth][kind][i]
                 IN  /\ it.id \in DOMAIN submitted' /\ it.n = submitted'[it.id].n
                     /\ submitted'[it.id].kind = kind /\ submitted'[it.id].n > 0
                     /\ DepthTested(submitted'[it.id]) <=> depth
      BY <1>2, <2>1 DEF Listed
    <2>5. ASSUME NEW k \in DOMAIN submitted', submitted'[k].n > 0
          PROVE  \E depth \in BOOLEAN :
                    /\ depth <=> DepthTested(submitted'[k])
                    /\ Contains(lists'[depth][submitted'[k].kind], Item(k, submitted'[k].n))
      <3>1. k \in DOMAIN submitted /\ submitted'[k] = submitted[k]
        BY <1>2, <2>3, <2>5
      <3> QED
        BY <2>1, <2>5, <3>1 DEF Listed
    <2>6. Listed'
      BY <2>4, <2>5 DEF Listed
    <2> QED
      BY <2>2, <2>6
  <1>4. CASE shape.n # 0
    <2>1. /\ item \in Items /\ item.id = id /\ item.n = shape.n /\ shape.n > 0
      BY <1>1, <1>2, <1>4 DEF Items, Item
    <2>2. /\ lists \in [BOOLEAN -> [Kinds -> Seq(Items)]]
          /\ lists[at][shape.kind] \in Seq(Items)
      BY <1>1 DEF ListsOK
    <2>3. lists' = [lists EXCEPT ![at][shape.kind] = list]
      BY <1>4 DEF Draw
    <2>4. /\ list \in Seq(Items) /\ DOMAIN list = DOMAIN lists[at][shape.kind] \cup {Len(list)}
          /\ Len(list) \in 1 .. Len(list)
          /\ list[Len(list)] = item
          /\ \A i \in DOMAIN lists[at][shape.kind] : list[i] = lists[at][shape.kind][i]
      <3> HIDE DEF item
      <3> QED
        BY <2>1, <2>2, AppendProperties, LenProperties
    <2> HIDE DEF list, at
    <2>5. /\ lists' \in [BOOLEAN -> [Kinds -> Seq(Items)]]
          /\ \A d \in BOOLEAN, k \in Kinds :
               lists'[d][k] = IF (d <=> at) /\ k = shape.kind THEN list ELSE lists[d][k]
      BY <1>1, <2>2, <2>3, <2>4
    <2> HIDE DEF id
    <2>6. ListsOK'
      BY <1>2, <2>5 DEF ListsOK
    <2>7. ASSUME NEW d \in BOOLEAN, NEW k \in Kinds, NEW i \in DOMAIN lists'[d][k]
          PROVE  LET it == lists'[d][k][i]
                 IN  /\ it.id \in DOMAIN submitted' /\ it.n = submitted'[it.id].n
                     /\ submitted'[it.id].kind = k /\ submitted'[it.id].n > 0
                     /\ DepthTested(submitted'[it.id]) <=> d
      <3>1. CASE i \in DOMAIN lists[d][k] /\ lists'[d][k][i] = lists[d][k][i]
        <4> DEFINE it == lists[d][k][i]
        <4>1. /\ it.id \in DOMAIN submitted /\ it.n = submitted[it.id].n
              /\ submitted[it.id].kind = k /\ submitted[it.id].n > 0
              /\ DepthTested(submitted[it.id]) <=> d
          BY <3>1 DEF Listed
        <4>2. submitted'[it.id] = submitted[it.id] /\ it.id \in DOMAIN submitted'
          BY <1>2, <4>1
        <4> QED
          BY <3>1, <4>1, <4>2
      <3>2. CASE (d <=> at) /\ k = shape.kind /\ lists'[d][k][i] = item
        BY <1>2, <2>1, <3>2 DEF at
      <3>3. CASE d = at /\ k = shape.kind
        <4>1. lists'[d][k] = list /\ lists[d][k] = lists[at][shape.kind]
          BY <2>5, <3>3
        <4> QED
          BY <2>4, <3>1, <3>2, <3>3, <4>1
      <3>4. CASE ~(d = at /\ k = shape.kind)
        <4>1. lists'[d][k] = lists[d][k]
          BY <1>1, <2>5, <3>4
        <4> QED
          BY <3>1, <4>1
      <3> QED
        BY <3>3, <3>4
    <2>8. ASSUME NEW k \in DOMAIN submitted', submitted'[k].n > 0
          PROVE  \E depth \in BOOLEAN :
                   /\ depth <=> DepthTested(submitted'[k])
                   /\ Contains(lists'[depth][submitted'[k].kind], Item(k, submitted'[k].n))
      <3>1. CASE k = id
        <4>1. Contains(list, item) /\ lists'[at][shape.kind] = list
          BY <1>1, <2>4, <2>5 DEF Contains
        <4> QED
          BY <1>1, <1>2, <3>1, <4>1 DEF at, item
      <3>2. CASE k \in DOMAIN submitted
        <4> DEFINE kind == submitted[k].kind
                   old == Item(k, submitted[k].n)
        <4>1. submitted'[k] = submitted[k] /\ kind \in Kinds
          <5>1. submitted[k] \in Requests
            BY <3>2, LenProperties, ElementOfSeq DEF ListsOK
          <5> QED
            BY <1>2, <3>2, <5>1 DEF Requests
        <4>2. PICK depth \in BOOLEAN :
                (depth <=> DepthTested(submitted[k])) /\ Contains(lists[depth][kind], old)
          BY <2>8, <3>2, <4>1 DEF Listed
        <4> HIDE DEF old, kind
        <4>3. Contains(lists'[depth][kind], old)
          <5>1. PICK i \in 1 .. Len(lists[depth][kind]) : lists[depth][kind][i] = old
            BY <4>2 DEF Contains
          <5>2. lists[depth][kind] \in Seq(Items) /\ lists'[depth][kind] \in Seq(Items)
            BY <2>2, <2>5, <4>1
          <5>3. i \in DOMAIN lists[depth][kind]
            BY <5>1, <5>2, LenProperties
          <5>4. i \in DOMAIN lists'[depth][kind] /\ lists'[depth][kind][i] = old
            <6>1. CASE depth = at /\ kind = shape.kind
              BY <2>4, <2>5, <4>1, <5>1, <5>3, <6>1
            <6>2. CASE ~(depth = at /\ kind = shape.kind)
              <7>1. lists'[depth][kind] = lists[depth][kind]
                BY <1>1, <2>5, <4>1, <6>2
              <7> QED
                BY <5>1, <5>3, <7>1
            <6> QED
              BY <6>1, <6>2
          <5> QED
            BY <5>2, <5>4, LenProperties DEF Contains
        <4> QED
          BY <4>1, <4>2, <4>3 DEF old, kind
      <3> QED
        BY <1>2, <3>1, <3>2
    <2>9. Listed'
      BY <2>7, <2>8 DEF Listed
    <2> QED
      BY <2>6, <2>9
  <1> QED
    BY <1>3, <1>4

Asking == ListsOK /\ Listed /\ DebugShown

LEMMA AskingStep ==
    ASSUME Asking, [Next]_vars
    PROVE  Asking'
  <1>1. CASE \E shape \in Asked : Ask(shape)
    <2>1. PICK shape \in Asked : Ask(shape)
      BY <1>1
    <2>2. shape \in Requests
      BY ShapesAre, GraphAssumption
    <2>3. Draw(shape) /\ stage' = "idle"
      BY <2>1 DEF Ask, graphVars
    <2>4. ListsOK' /\ Listed'
      BY <2>2, <2>3, DrawIs DEF Asking
    <2> QED
      BY <2>3, <2>4 DEF Asking, DebugShown
  <1>2. CASE EndFrame
    <2>1. Reset /\ stage' = "idle"
      BY <1>2 DEF EndFrame, Skip
    <2> QED
      BY <2>1, ClearedIs DEF Asking, DebugShown
  <1>3. CASE Debug
    <2>1. UNCHANGED <<scene, lists, submitted>>
      BY <1>3 DEF Debug, DebugPass, debugVars
    <2>2. ListsOK' /\ Listed'
      BY <2>1 DEF Asking, ListsOK, Listed
    <2>3. CASE "debug" \in scene.on
      <3>1. DebugPass
        BY <1>3, <2>3 DEF Debug
      <3>2. Shows'
        BY <3>1, DebugPassIs DEF Asking
      <3> QED
        BY <2>2, <3>2 DEF Asking, DebugShown, Shows
    <2>4. CASE "debug" \notin scene.on
      BY <2>1, <2>2, <2>4 DEF Asking, DebugShown
    <2> QED
      BY <2>3, <2>4
  <1>4. CASE ~EndFrame /\ ~Debug /\ ~(\E shape \in Asked : Ask(shape))
    <2>1. /\ UNCHANGED <<lists, submitted, shown>>
          /\ stage' # "final" \/ UNCHANGED <<scene, stage>>
      BY <1>4 DEF Next, vars, graphVars, debugVars, OnResize, OnNewScene, BeginScene, Clear,
         GenerateBRDFLUTPass, DepthPrePass, ShadowPass, ForwardPass, SkyboxPass, Render2DQuad,
         Render2DPass, BeginText, TextQuad, TextPass, Prefilter, Downsample, DownsampleBack,
         FirstUpsample, Upsample, UpsampleFrom, EndBloom, ToneMappingPass, DebandingPass,
         FXAAPass, ChromaticAberationPass, FilmicGrainPass, Optional, Effect, FinalPass, Skip
    <2>2. ListsOK' /\ Listed'
      BY <2>1 DEF Asking, ListsOK, Listed
    <2>3. DebugShown'
      BY <2>1 DEF Asking, DebugShown, ShownAs
    <2> QED
      BY <2>2, <2>3 DEF Asking
  <1> QED
    BY <1>1, <1>2, <1>3, <1>4

(* Whatever was asked for, in whatever order: the debug pass shows it. *)
THEOREM EveryShapeShown == Spec => []DebugShown
  <1>1. Init => Asking
    BY ClearedIs DEF Init, Asking, DebugShown
  <1>2. Asking /\ [Next]_vars => Asking'
    BY AskingStep
  <1>3. Asking => DebugShown
    BY DEF Asking
  <1> QED
    BY <1>1, <1>2, <1>3, PTL DEF Spec

(***************************************************************************)
(* What the main image shows when OnRender has come to each pass.          *)
(***************************************************************************)
Meshes == Part("3d" \in scene.on /\ scene.meshes, "forward")
Sky == Meshes \o Part("sky" \in scene.on /\ scene.env, "sky")
Sprites == Sky \o Part(Sprites2D, "sprites")
Texts == Sprites \o Part(HasGlyphs(scene.texts), "texts")
Toned == Texts \o <<"tone">>
Debanded == Toned \o Part("deband" \in scene.on, "deband")
Smoothed == Debanded \o Part("fxaa" \in scene.on, "fxaa")
Chromatic == Smoothed \o Part("chroma" \in scene.on, "chroma")
Grained == Chromatic \o Part("grain" \in scene.on, "grain")
Debugged == Grained \o Part("debug" \in scene.on /\ SomethingAsked, "debug")

Blooming == {"bloom", "down", "back", "up"}
Effective == {"tone", "deband", "fxaa", "chroma", "grain", "debug", "final"}

Pictured ==
    /\ stage \in {"lut", "prepass", "shadow", "forward"} => gpu.holds[main] = <<>>
    /\ stage = "sky" => gpu.holds[main] = Meshes
    /\ stage = "sprites" => gpu.holds[main] = Sky
    /\ stage \in {"shown2d", "text"} => gpu.holds[main] = Sprites
    /\ stage \in Blooming \cup {"tone"} => gpu.holds[main] = Texts
    /\ stage = "deband" => gpu.holds[main] = Toned
    /\ stage = "fxaa" => gpu.holds[main] = Debanded
    /\ stage = "chroma" => gpu.holds[main] = Smoothed
    /\ stage = "grain" => gpu.holds[main] = Chromatic
    /\ stage = "debug" => gpu.holds[main] = Grained
    /\ stage = "final" => gpu.holds[main] = Debugged
    /\ stage \in Blooming \cup Effective => last = main
    /\ stage = "rendered" => gpu.holds["out"] = Wanted

(* The image that the next turn of the upward loop reads. *)
Source == IF even THEN "bloom2" ELSE "bloom1"

Bloomed ==
    /\ stage \in {"lut", "prepass", "shadow", "forward", "sky", "sprites", "shown2d", "text",
                  "bloom"} => bloomLast = "white"
    /\ stage \in Blooming => "bloom" \in scene.on
    /\ stage \in {"down", "back"} => \A m \in 0 .. mip - 1 : gpu.level["bloom"][m] = {m}
    /\ stage = "back" => gpu.level["bloom1"][mip] = {mip}
    /\ stage = "up" =>
         /\ \A m \in 0 .. Mips - 1 : gpu.level["bloom"][m] = {m}
         /\ gpu.level[Source][mip + 1] = mip + 1 .. Mips - 1
         /\ mip < Mips - 3 => bloomLast = Source
    /\ stage \in Effective \cup {"rendered"} =>
         IF "bloom" \in scene.on
         THEN bloomLast \in Blooms /\ gpu.level[bloomLast][0] = 0 .. Mips - 1
         ELSE bloomLast = "white"

LEMMA PartIs ==
    ASSUME NEW s \in Seq(Passes), NEW c \in BOOLEAN, NEW pass \in Passes
    PROVE  /\ s \o Part(c, pass) \in Seq(Passes)
           /\ s \o Part(c, pass) = IF c THEN Append(s, pass) ELSE s
  <1>1. s \o <<pass>> = Append(s, pass) /\ Append(s, pass) \in Seq(Passes)
    BY AppendProperties, AppendIsConcat
  <1>2. s \o <<>> = s
    BY ConcatEmptySeq
  <1>3. CASE c
    BY <1>1, <1>3 DEF Part
  <1>4. CASE ~c
    BY <1>2, <1>4 DEF Part
  <1> QED
    BY <1>3, <1>4

LEMMA PartsAre ==
    ASSUME scene.meshes \in BOOLEAN, scene.env \in BOOLEAN
    PROVE  /\ Meshes = IF "3d" \in scene.on /\ scene.meshes THEN Append(<<>>, "forward") ELSE <<>>
           /\ Sky = IF "sky" \in scene.on /\ scene.env THEN Append(Meshes, "sky") ELSE Meshes
           /\ Sprites = IF Sprites2D THEN Append(Sky, "sprites") ELSE Sky
           /\ Texts = IF HasGlyphs(scene.texts) THEN Append(Sprites, "texts") ELSE Sprites
           /\ Toned = Append(Texts, "tone")
           /\ Debanded = IF "deband" \in scene.on THEN Append(Toned, "deband") ELSE Toned
           /\ Smoothed = IF "fxaa" \in scene.on THEN Append(Debanded, "fxaa") ELSE Debanded
           /\ Chromatic = IF "chroma" \in scene.on THEN Append(Smoothed, "chroma") ELSE Smoothed
           /\ Grained = IF "grain" \in scene.on THEN Append(Chromatic, "grain") ELSE Chromatic
           /\ Debugged = IF "debug" \in scene.on /\ SomethingAsked THEN Append(Grained, "debug")
                         ELSE Grained
           /\ Wanted = Append(Debugged, "final")
  <1>1. /\ Meshes \in Seq(Passes)
        /\ Meshes = IF "3d" \in scene.on /\ scene.meshes THEN Append(<<>>, "forward") ELSE <<>>
    <2>1. "forward" \in Passes /\ <<>> \in Seq(Passes)
      BY EmptySeq DEF Passes
    <2>2. Append(<<>>, "forward") = <<"forward">> /\ Append(<<>>, "forward") \in Seq(Passes)
      BY <2>1, AppendProperties
    <2> QED
      BY <2>1, <2>2 DEF Meshes, Part
  <1> DEFINE c1 == "sky" \in scene.on /\ scene.env
             c2 == Sprites2D
             c3 == HasGlyphs(scene.texts)
             c4 == "deband" \in scene.on
             c5 == "fxaa" \in scene.on
             c6 == "chroma" \in scene.on
             c7 == "grain" \in scene.on
             c8 == "debug" \in scene.on /\ SomethingAsked
  <1>2. /\ c1 \in BOOLEAN /\ c2 \in BOOLEAN /\ c3 \in BOOLEAN /\ c4 \in BOOLEAN
        /\ c5 \in BOOLEAN /\ c6 \in BOOLEAN /\ c7 \in BOOLEAN /\ c8 \in BOOLEAN
    BY DEF Sprites2D, HasGlyphs, SomethingAsked
  <1>3. \A p \in {"sky", "sprites", "texts", "tone", "deband", "fxaa", "chroma", "grain", "debug",
                  "final"} : p \in Passes
    BY DEF Passes
  <1> HIDE DEF c1, c2, c3, c4, c5, c6, c7, c8
  <1>4. Sky \in Seq(Passes) /\ Sky = IF c1 THEN Append(Meshes, "sky") ELSE Meshes
    BY <1>1, <1>2, <1>3, PartIs DEF Sky, c1
  <1>5. Sprites \in Seq(Passes) /\ Sprites = IF c2 THEN Append(Sky, "sprites") ELSE Sky
    BY <1>2, <1>3, <1>4, PartIs DEF Sprites, c2
  <1>6. Texts \in Seq(Passes) /\ Texts = IF c3 THEN Append(Sprites, "texts") ELSE Sprites
    BY <1>2, <1>3, <1>5, PartIs DEF Texts, c3
  <1>7. Toned \in Seq(Passes) /\ Toned = Append(Texts, "tone")
    BY <1>3, <1>6, AppendIsConcat, AppendProperties DEF Toned
  <1>8. Debanded \in Seq(Passes) /\ Debanded = IF c4 THEN Append(Toned, "deband") ELSE Toned
    BY <1>2, <1>3, <1>7, PartIs DEF Debanded, c4
  <1>9. Smoothed \in Seq(Passes) /\ Smoothed = IF c5 THEN Append(Debanded, "fxaa") ELSE Debanded
    BY <1>2, <1>3, <1>8, PartIs, ZenonT(30) DEF Smoothed, c5
  <1>10. Chromatic \in Seq(Passes) /\ Chromatic = IF c6 THEN Append(Smoothed, "chroma") ELSE Smoothed
    BY <1>2, <1>3, <1>9, PartIs DEF Chromatic, c6
  <1>11. Grained \in Seq(Passes) /\ Grained = IF c7 THEN Append(Chromatic, "grain") ELSE Chromatic
    BY <1>2, <1>3, <1>10, PartIs DEF Grained, c7
  <1>12. Debugged \in Seq(Passes) /\ Debugged = IF c8 THEN Append(Grained, "debug") ELSE Grained
    BY <1>2, <1>3, <1>11, PartIs DEF Debugged, c8
  <1>13. Wanted = Debugged \o <<"final">>
    BY DEF Wanted, Debugged, Grained, Chromatic, Smoothed, Debanded, Toned, Texts, Sprites, Sky,
       Meshes, HasGlyphs, SomethingAsked, Sprites2D
  <1>14. Wanted = Append(Debugged, "final")
    BY <1>3, <1>12, <1>13, AppendIsConcat
  <1> QED
    BY <1>1, <1>4, <1>5, <1>6, <1>7, <1>8, <1>9, <1>10, <1>11, <1>12, <1>14
    DEF c1, c2, c3, c4, c5, c6, c7, c8

pictures == <<Meshes, Sky, Sprites, Texts, Toned, Debanded, Smoothed, Chromatic, Grained, Debugged,
              Wanted>>

LEMMA SamePictures == UNCHANGED <<scene, submitted>> => UNCHANGED pictures
  BY DEF pictures, Meshes, Sky, Sprites, Texts, Toned, Debanded, Smoothed, Chromatic, Grained,
     Debugged, Wanted, Sprites2D, HasGlyphs, SomethingAsked

LEMMA PicturedStep ==
    ASSUME Typed, Writing, Asking, Pictured, [Next]_vars
    PROVE  Pictured'
  <1>1. /\ SceneShape(scene) /\ {main, post} = Mains /\ main \in Mains /\ last \in Mains
        /\ gpu \in GPU /\ bloomLast \in Blooms \cup {"white"} /\ lut \in BOOLEAN
    BY DEF Typed, TypeOK
  <1>2. scene.meshes \in BOOLEAN /\ scene.env \in BOOLEAN
    BY <1>1 DEF SceneShape
  <1>3. CASE stage' \in {"idle", "clear"}
    BY <1>3 DEF Pictured, Blooming, Effective
  <1>4. CASE UNCHANGED <<graphVars, debugVars>>
    <2>1. UNCHANGED <<stage, scene, submitted, main, last, gpu>>
      BY <1>4 DEF graphVars, debugVars
    <2>2. UNCHANGED pictures
      BY <2>1, SamePictures
    <2> QED
      BY <2>1, <2>2 DEF Pictured, pictures
  <1>5. CASE Clear
    <2> DEFINE b == NoDraw(gpu)
    <2>1. /\ gpu' = [b EXCEPT !.holds = NoHolds, !.level = NoLevel,
                              !.layout["depth"] = "TRANSFER_DST"]
          /\ stage' = "lut" /\ main' = main
      BY <1>5 DEF Clear
    <2>2. b \in GPU
      BY <1>1, NoDrawIs
    <2> HIDE DEF b
    <2>3. gpu'.holds = NoHolds
      BY <2>1, <2>2 DEF GPU
    <2>4. gpu'.holds[main'] = <<>>
      BY <1>1, <2>1, <2>3, EmptyIs DEF Images
    <2> QED
      BY <2>1, <2>4 DEF Pictured, Blooming, Effective
  <1>6. CASE GenerateBRDFLUTPass \/ DepthPrePass \/ ShadowPass
    <2>1. /\ gpu'.holds = gpu.holds /\ main' = main /\ stage' \in {"prepass", "shadow", "forward"}
          /\ stage \in {"lut", "prepass", "shadow"}
      BY <1>1, <1>6, OpeningIs
    <2> QED
      BY <2>1 DEF Pictured, Blooming, Effective
  <1>7. CASE ForwardPass
    <2>1. /\ stage = "forward" /\ stage' = "sky" /\ UNCHANGED <<scene, submitted, main>>
      BY <1>7 DEF ForwardPass, debugVars
    <2>2. target = main /\ ("3d" \in scene.on => marked)
      BY <2>1 DEF Typed, Handed, Opening
    <2>3. gpu'.holds[main] = Meshes
      BY <1>1, <1>2, <1>7, <2>1, <2>2, ForwardPassIs, PartsAre DEF Pictured
    <2>4. Meshes' = Meshes
      BY <2>1, SamePictures DEF pictures
    <2> QED
      BY <2>1, <2>3, <2>4 DEF Pictured, Blooming, Effective
  <1>8. CASE SkyboxPass
    <2>1. /\ stage = "sky" /\ stage' = "sprites" /\ UNCHANGED <<scene, submitted, main>>
          /\ gpu'.holds[main] = IF "sky" \in scene.on /\ cubeMap
                                THEN Append(gpu.holds[main], "sky") ELSE gpu.holds[main]
      BY <1>1, <1>8, SkyboxPassIs DEF debugVars
    <2>2. "sky" \in scene.on => cubeMap = scene.env
      BY <2>1 DEF Typed, Handed
    <2>3. gpu'.holds[main] = Sky
      BY <1>2, <2>1, <2>2, PartsAre DEF Pictured
    <2>4. Sky' = Sky
      BY <2>1, SamePictures DEF pictures
    <2> QED
      BY <2>1, <2>3, <2>4 DEF Pictured, Blooming, Effective
  <1>9. CASE Render2DPass
    <2>1. /\ stage = "sprites" /\ stage' = "shown2d" /\ UNCHANGED <<scene, submitted, main>>
          /\ gpu'.holds[main] = IF Sprites2D THEN Append(gpu.holds[main], "sprites")
                                ELSE gpu.holds[main]
      BY <1>1, <1>9, Render2DPassIs DEF debugVars
    <2>2. gpu'.holds[main] = Sprites
      BY <1>2, <2>1, PartsAre DEF Pictured
    <2>3. Sprites' = Sprites
      BY <2>1, SamePictures DEF pictures
    <2> QED
      BY <2>1, <2>2, <2>3 DEF Pictured, Blooming, Effective
  <1>10. CASE BeginText
    <2>1. /\ stage = "shown2d" /\ stage' = "text" /\ UNCHANGED <<scene, submitted, main>>
          /\ gpu' = NoDraw(gpu)
      BY <1>10 DEF BeginText, Skip, debugVars
    <2>2. gpu'.holds = gpu.holds
      BY <1>1, <2>1, NoDrawIs
    <2>3. Sprites' = Sprites
      BY <2>1, SamePictures DEF pictures
    <2> QED
      BY <2>1, <2>2, <2>3 DEF Pictured, Blooming, Effective
  <1>11. CASE TextPass
    <2>1. /\ stage = "text" /\ stage' \in {"bloom", "tone"} /\ UNCHANGED <<scene, submitted, main>>
          /\ last' = main
          /\ gpu'.holds[main] = IF data'.calls = <<>> THEN gpu.holds[main]
                                ELSE Append(gpu.holds[main], "texts")
      BY <1>1, <1>11, TextPassIs DEF debugVars
    <2>2. todo = <<>> /\ data' = LastFlush(data)
      BY <1>11 DEF TextPass, EndBatches
    <2>3. DataOK(data) /\ (HasGlyphs(scene.texts) <=> Drawing(data) \/ HasGlyphs(todo))
      BY <2>1 DEF Writing
    <2>4. ~HasGlyphs(todo)
      BY <2>2 DEF HasGlyphs
    <2>5. data'.calls # <<>> <=> HasGlyphs(scene.texts)
      BY <2>2, <2>3, <2>4, LastFlushIs
    <2>6. gpu'.holds[main] = Texts
      BY <1>2, <2>1, <2>5, PartsAre DEF Pictured
    <2>7. Texts' = Texts
      BY <2>1, SamePictures DEF pictures
    <2> QED
      BY <2>1, <2>6, <2>7 DEF Pictured, Blooming, Effective
  <1>12. CASE Prefilter \/ Downsample \/ DownsampleBack \/ FirstUpsample \/ Upsample \/ EndBloom
    <2>1. /\ gpu'.holds = gpu.holds /\ UNCHANGED <<scene, submitted, main, last>>
          /\ stage \in Blooming /\ stage' \in {"down", "back", "up", "tone"}
      BY <1>12, BloomPassIs DEF debugVars, Blooming
    <2>2. Texts' = Texts
      BY <2>1, SamePictures DEF pictures
    <2> QED
      BY <2>1, <2>2 DEF Pictured, Blooming, Effective
  <1>13. CASE ToneMappingPass
    <2>1. /\ stage = "tone" /\ stage' = "deband" /\ UNCHANGED <<scene, submitted>> /\ last' = main'
          /\ gpu'.holds[main'] = Append(gpu.holds[main], "tone")
      BY <1>1, <1>13, ToneMappingPassIs DEF debugVars
    <2>2. gpu'.holds[main'] = Toned
      BY <1>2, <2>1, PartsAre DEF Pictured
    <2>3. Toned' = Toned
      BY <2>1, SamePictures DEF pictures
    <2> QED
      BY <2>1, <2>2, <2>3 DEF Pictured, Blooming, Effective
  <1>14. ASSUME NEW feature \in Passes, NEW next, NEW byCompute, Optional(feature, next, byCompute),
                stage \in Effective
         PROVE  /\ stage = feature /\ stage' = next /\ UNCHANGED <<scene, submitted>>
                /\ last' = main'
                /\ gpu'.holds[main'] = IF feature \in scene.on THEN Append(gpu.holds[main], feature)
                                       ELSE gpu.holds[main]
                /\ UNCHANGED pictures
    <2>1. /\ stage = feature /\ stage' = next /\ UNCHANGED <<scene, submitted>>
          /\ last = main => last' = main'
          /\ gpu'.holds[main'] = IF feature \in scene.on THEN Append(gpu.holds[main], feature)
                                 ELSE gpu.holds[main]
      BY <1>1, <1>14, OptionalIs DEF debugVars
    <2>2. last = main
      BY <1>14 DEF Pictured
    <2> QED
      BY <2>1, <2>2, SamePictures
  <1>15. "deband" \in Passes /\ "fxaa" \in Passes /\ "chroma" \in Passes /\ "grain" \in Passes
    BY DEF Passes
  <1>16. CASE DebandingPass
    <2>1. Optional("deband", "fxaa", FALSE) /\ stage = "deband"
      BY <1>16 DEF DebandingPass, Optional
    <2>2. /\ stage' = "fxaa" /\ last' = main' /\ Debanded' = Debanded
          /\ gpu'.holds[main'] = IF "deband" \in scene.on THEN Append(gpu.holds[main], "deband")
                                 ELSE gpu.holds[main]
      BY <1>14, <1>15, <2>1 DEF Effective, pictures
    <2>3. gpu'.holds[main'] = Debanded
      BY <1>2, <2>1, <2>2, PartsAre DEF Pictured
    <2> QED
      BY <2>2, <2>3 DEF Pictured, Blooming, Effective
  <1>17. CASE FXAAPass
    <2>1. Optional("fxaa", "chroma", compute) /\ stage = "fxaa"
      BY <1>17 DEF FXAAPass, Optional
    <2>2. /\ stage' = "chroma" /\ last' = main' /\ Smoothed' = Smoothed
          /\ gpu'.holds[main'] = IF "fxaa" \in scene.on THEN Append(gpu.holds[main], "fxaa")
                                 ELSE gpu.holds[main]
      BY <1>14, <1>15, <2>1 DEF Effective, pictures
    <2>3. gpu'.holds[main'] = Smoothed
      BY <1>2, <2>1, <2>2, PartsAre DEF Pictured
    <2> QED
      BY <2>2, <2>3 DEF Pictured, Blooming, Effective
  <1>18. CASE ChromaticAberationPass
    <2>1. Optional("chroma", "grain", FALSE) /\ stage = "chroma"
      BY <1>18 DEF ChromaticAberationPass, Optional
    <2>2. /\ stage' = "grain" /\ last' = main' /\ Chromatic' = Chromatic
          /\ gpu'.holds[main'] = IF "chroma" \in scene.on THEN Append(gpu.holds[main], "chroma")
                                 ELSE gpu.holds[main]
      BY <1>14, <1>15, <2>1 DEF Effective, pictures
    <2>3. gpu'.holds[main'] = Chromatic
      BY <1>2, <2>1, <2>2, PartsAre DEF Pictured
    <2> QED
      BY <2>2, <2>3 DEF Pictured, Blooming, Effective
  <1>19. CASE FilmicGrainPass
    <2>1. Optional("grain", "debug", FALSE) /\ stage = "grain"
      BY <1>19 DEF FilmicGrainPass, Optional
    <2>2. /\ stage' = "debug" /\ last' = main' /\ Grained' = Grained
          /\ gpu'.holds[main'] = IF "grain" \in scene.on THEN Append(gpu.holds[main], "grain")
                                 ELSE gpu.holds[main]
      BY <1>14, <1>15, <2>1 DEF Effective, pictures
    <2>3. gpu'.holds[main'] = Grained
      BY <1>2, <2>1, <2>2, PartsAre DEF Pictured
    <2> QED
      BY <2>2, <2>3 DEF Pictured, Blooming, Effective
  <1>20. CASE Debug
    <2>1. /\ stage = "debug" /\ stage' = "final" /\ UNCHANGED <<scene, submitted, main, last>>
          /\ "debug" \in scene.on => DebugPass
          /\ gpu'.holds[main] = IF "debug" \in scene.on /\ shown' # <<>>
                                THEN Append(gpu.holds[main], "debug") ELSE gpu.holds[main]
      BY <1>1, <1>20, DebugIs
    <2>2. "debug" \in scene.on => (shown' # <<>> <=> SomethingAsked)
      BY <2>1, DebugPassIs DEF Asking
    <2>3. gpu'.holds[main] = Debugged
      BY <1>2, <2>1, <2>2, PartsAre DEF Pictured
    <2>4. Debugged' = Debugged
      BY <2>1, SamePictures DEF pictures
    <2> QED
      BY <2>1, <2>3, <2>4 DEF Pictured, Blooming, Effective
  <1>21. CASE FinalPass
    <2>1. /\ stage = "final" /\ stage' = "rendered" /\ UNCHANGED <<scene, submitted>>
          /\ gpu'.holds["out"] = Append(gpu.holds[last], "final")
      BY <1>1, <1>21, FinalPassIs DEF debugVars
    <2>2. gpu'.holds["out"] = Wanted
      BY <1>2, <2>1, PartsAre DEF Pictured, Effective
    <2>3. Wanted' = Wanted
      BY <2>1, SamePictures DEF pictures
    <2> QED
      BY <2>1, <2>2, <2>3 DEF Pictured, Blooming, Effective
  <1> QED
    BY <1>3, <1>4, <1>5, <1>6, <1>7, <1>8, <1>9, <1>10, <1>11, <1>12, <1>13, <1>16, <1>17, <1>18,
       <1>19, <1>20, <1>21
    DEF Next, OnResize, OnNewScene, Ask, BeginScene, EndFrame, Skip, Render2DQuad, TextQuad, vars,
        graphVars

LEMMA BloomedStep ==
    ASSUME Typed, Bloomed, [Next]_vars
    PROVE  Bloomed'
  <1>1. /\ {main, post} = Mains /\ main \in Mains /\ last \in Mains /\ gpu \in GPU
        /\ bloomLast \in Blooms \cup {"white"} /\ lut \in BOOLEAN /\ even \in BOOLEAN
        /\ Mips \in 3 .. 14 /\ SceneShape(scene)
        /\ stage = "down" => mip \in 1 .. Mips
        /\ stage = "back" => mip \in 1 .. Mips - 1
        /\ stage = "up" => mip \in -1 .. Mips - 3
    BY MipsIs DEF Typed, TypeOK, Handed
  <1>2. /\ \A i \in Blooms, k \in 0 .. 15 : gpu.level[i][k] \in SUBSET Nat
        /\ "bloom" \in Blooms /\ "bloom1" \in Blooms /\ "bloom2" \in Blooms
        /\ \A x \in Mains : x \notin Blooms
    BY <1>1 DEF GPU, Blooms, Mains
  <1>3. CASE stage' \in {"idle", "clear"}
    BY <1>3 DEF Bloomed, Blooming, Effective
  <1>4. CASE UNCHANGED graphVars
    BY <1>4 DEF Bloomed, graphVars, Mips, Source
  <1>5. CASE Clear
    BY <1>5 DEF Clear, Bloomed, Blooming, Effective
  <1>6. CASE /\ UNCHANGED <<scene, bloomLast>>
             /\ stage \in {"lut", "prepass", "shadow", "forward", "sky", "sprites", "shown2d", "text"}
             /\ stage' \in {"prepass", "shadow", "forward", "sky", "sprites", "shown2d", "text",
                            "bloom", "tone"}
             /\ stage' = "bloom" => "bloom" \in scene.on
             /\ stage' = "tone" => "bloom" \notin scene.on
    BY <1>6 DEF Bloomed, Blooming, Effective
  <1>7. CASE /\ UNCHANGED <<scene, bloomLast, levels>> /\ gpu'.level = gpu.level
             /\ stage \in Effective /\ stage' \in Effective \cup {"rendered"}
    BY <1>7 DEF Bloomed, Blooming, Effective, Mips
  <1>8. CASE Prefilter
    <2>1. /\ stage = "bloom" /\ BloomCall({main}, "bloom", 0, {0}) /\ mip' = 1 /\ stage' = "down"
          /\ UNCHANGED <<scene, levels>>
      BY <1>8 DEF Prefilter
    <2>2. /\ {main} \in SUBSET (Mains \cup Blooms) /\ "bloom" \in Blooms \ {main}
          /\ 0 \in 0 .. 15 /\ {0} \in SUBSET Nat
      BY <1>1, <1>2
    <2>3. BloomStep("bloom", 0, {0})
      BY <1>1, <2>1, <2>2, BloomCallIs
    <2>4. \A m \in 0 .. mip' - 1 : gpu'.level["bloom"][m] = {m}
      BY <1>2, <2>1, <2>3 DEF BloomStep
    <2> QED
      BY <2>1, <2>4 DEF Bloomed, Blooming, Effective
  <1>9. CASE Downsample
    <2> DEFINE adds == Below(gpu.level["bloom"][mip - 1])
    <2>1. /\ stage = "down" /\ mip < Mips /\ BloomCall({"bloom", main}, "bloom1", mip, adds)
          /\ stage' = "back" /\ UNCHANGED <<scene, levels, mip>>
      BY <1>9 DEF Downsample
    <2>2. mip \in 1 .. Mips - 1 /\ \A m \in 0 .. mip - 1 : gpu.level["bloom"][m] = {m}
      BY <1>1, <2>1 DEF Bloomed
    <2>3. adds = {mip}
      <3>1. gpu.level["bloom"][mip - 1] = {mip - 1}
        BY <1>1, <2>2
      <3> QED
        BY <1>1, <2>2, <3>1 DEF Below
    <2> HIDE DEF adds
    <2>4. /\ {"bloom", main} \in SUBSET (Mains \cup Blooms) /\ "bloom1" \in Blooms \ {"bloom", main}
          /\ mip \in 0 .. 15 /\ adds \in SUBSET Nat
      BY <1>1, <1>2, <2>2, <2>3
    <2>5. BloomStep("bloom1", mip, adds)
      BY <1>1, <2>1, <2>4, BloomCallIs
    <2>6. gpu'.level["bloom1"][mip'] = {mip'} /\ \A m \in 0 .. mip' - 1 : gpu'.level["bloom"][m] = {m}
      BY <1>1, <1>2, <2>1, <2>2, <2>3, <2>4, <2>5 DEF BloomStep
    <2>7. "bloom" \in scene'.on
      BY <2>1 DEF Bloomed, Blooming
    <2> QED
      BY <2>1, <2>6, <2>7 DEF Bloomed, Blooming, Effective
  <1>10. CASE DownsampleBack
    <2> DEFINE adds == gpu.level["bloom1"][mip]
    <2>1. /\ stage = "back" /\ BloomCall({"bloom1", main}, "bloom", mip, adds)
          /\ stage' = "down" /\ mip' = mip + 1 /\ UNCHANGED <<scene, levels>>
      BY <1>10 DEF DownsampleBack
    <2>2. /\ mip \in 1 .. Mips - 1 /\ \A m \in 0 .. mip - 1 : gpu.level["bloom"][m] = {m}
          /\ adds = {mip}
      BY <1>1, <2>1 DEF Bloomed
    <2> HIDE DEF adds
    <2>3. /\ {"bloom1", main} \in SUBSET (Mains \cup Blooms) /\ "bloom" \in Blooms \ {"bloom1", main}
          /\ mip \in 0 .. 15 /\ adds \in SUBSET Nat
      BY <1>1, <1>2, <2>2
    <2>4. BloomStep("bloom", mip, adds)
      BY <1>1, <2>1, <2>3, BloomCallIs
    <2>5. \A m \in 0 .. mip' - 1 : gpu'.level["bloom"][m] = {m}
      BY <1>1, <1>2, <2>1, <2>2, <2>4, SMTT(30) DEF BloomStep
    <2>6. "bloom" \in scene'.on
      BY <2>1 DEF Bloomed, Blooming
    <2> QED
      BY <2>1, <2>5, <2>6 DEF Bloomed, Blooming, Effective
  <1>11. CASE FirstUpsample
    <2> DEFINE adds == gpu.level["bloom"][Mips - 1] \cup gpu.level["bloom"][Mips - 2]
    <2>1. /\ stage = "down" /\ mip >= Mips /\ BloomCall({"bloom", main}, "bloom2", Mips - 2, adds)
          /\ stage' = "up" /\ mip' = Mips - 3 /\ even' = TRUE /\ UNCHANGED <<scene, levels>>
      BY <1>11 DEF FirstUpsample
    <2>2. \A m \in 0 .. Mips - 1 : gpu.level["bloom"][m] = {m}
      BY <1>1, <2>1, SMTT(30) DEF Bloomed
    <2>3. adds = Mips - 2 .. Mips - 1
      <3>1. gpu.level["bloom"][Mips - 1] = {Mips - 1} /\ gpu.level["bloom"][Mips - 2] = {Mips - 2}
        BY <1>1, <2>2
      <3> QED
        BY <1>1, <3>1
    <2> HIDE DEF adds
    <2>4. /\ {"bloom", main} \in SUBSET (Mains \cup Blooms) /\ "bloom2" \in Blooms \ {"bloom", main}
          /\ Mips - 2 \in 0 .. 15 /\ adds \in SUBSET Nat
      BY <1>1, <1>2, <2>3
    <2>5. BloomStep("bloom2", Mips - 2, adds)
      BY <1>1, <2>1, <2>4, BloomCallIs
    <2>6. Mips' = Mips /\ Source' = "bloom2" /\ mip' + 1 = Mips - 2
      BY <1>1, <2>1 DEF Mips, Source
    <2>7. /\ \A m \in 0 .. Mips' - 1 : gpu'.level["bloom"][m] = {m}
          /\ gpu'.level[Source'][mip' + 1] = mip' + 1 .. Mips' - 1
      <3>1. ASSUME NEW m \in 0 .. Mips - 1
            PROVE  gpu'.level["bloom"][m] = {m}
        BY <1>1, <1>2, <2>2, <2>5 DEF BloomStep
      <3>2. gpu'.level["bloom2"][Mips - 2] = Mips - 2 .. Mips - 1
        BY <1>2, <2>3, <2>4, <2>5 DEF BloomStep
      <3> QED
        BY <2>6, <3>1, <3>2
    <2>8. "bloom" \in scene'.on
      BY <2>1 DEF Bloomed, Blooming
    <2>9. ~(mip' < Mips' - 3)
      BY <1>1, <2>1, <2>6
    <2> QED
      BY <2>1, <2>7, <2>8, <2>9 DEF Bloomed, Blooming, Effective
  <1>12. ASSUME NEW image \in {"bloom1", "bloom2"}, Source \in {"bloom1", "bloom2"}, Source # image,
                UpsampleFrom(Source, image), Source' = image
         PROVE  Bloomed'
    <2> DEFINE adds == gpu.level["bloom"][mip] \cup gpu.level[Source][mip + 1]
    <2>1. /\ stage = "up" /\ mip >= 0 /\ BloomCall({"bloom", Source}, image, mip, adds)
          /\ bloomLast' = image /\ mip' = mip - 1 /\ UNCHANGED <<scene, levels, stage>>
      BY <1>12 DEF UpsampleFrom
    <2>2. /\ \A m \in 0 .. Mips - 1 : gpu.level["bloom"][m] = {m}
          /\ gpu.level[Source][mip + 1] = mip + 1 .. Mips - 1
          /\ mip \in 0 .. Mips - 3
      BY <1>1, <2>1 DEF Bloomed
    <2>3. adds = mip .. Mips - 1
      <3>1. gpu.level["bloom"][mip] = {mip}
        BY <1>1, <2>2
      <3> QED
        BY <1>1, <2>2, <3>1
    <2> HIDE DEF adds
    <2>4. /\ {"bloom", Source} \in SUBSET (Mains \cup Blooms) /\ image \in Blooms \ {"bloom", Source}
          /\ mip \in 0 .. 15 /\ adds \in SUBSET Nat
      BY <1>1, <1>2, <1>12, <2>2, <2>3
    <2>5. BloomStep(image, mip, adds)
      BY <1>1, <2>1, <2>4, BloomCallIs
    <2>6. Mips' = Mips /\ mip' + 1 = mip
      BY <1>1, <2>1, <2>2 DEF Mips
    <2>7. /\ \A m \in 0 .. Mips' - 1 : gpu'.level["bloom"][m] = {m}
          /\ gpu'.level[image][mip' + 1] = mip' + 1 .. Mips' - 1
      <3>1. ASSUME NEW m \in 0 .. Mips - 1
            PROVE  gpu'.level["bloom"][m] = {m}
        <4>1. m \in 0 .. 15 /\ "bloom" # image /\ gpu.level["bloom"][m] = {m}
          BY <1>1, <1>12, <2>2
        <4> QED
          BY <1>2, <2>5, <4>1 DEF BloomStep
      <3>2. gpu'.level[image][mip] = mip .. Mips - 1
        BY <2>3, <2>4, <2>5 DEF BloomStep
      <3> QED
        BY <2>6, <3>1, <3>2
    <2>8. "bloom" \in scene'.on
      BY <2>1 DEF Bloomed, Blooming
    <2> QED
      BY <1>12, <2>1, <2>7, <2>8 DEF Bloomed, Blooming, Effective
  <1>13. CASE Upsample
    <2>1. CASE even
      <3>1. UpsampleFrom("bloom2", "bloom1") /\ Source = "bloom2"
        BY <1>13, <2>1 DEF Upsample, Source
      <3>2. Source' = "bloom1"
        BY <2>1, <3>1 DEF UpsampleFrom, Source
      <3> QED
        BY <1>12, <3>1, <3>2
    <2>2. CASE ~even
      <3>1. UpsampleFrom("bloom1", "bloom2") /\ Source = "bloom1"
        BY <1>13, <2>2 DEF Upsample, Source
      <3>2. Source' = "bloom2"
        BY <1>1, <2>2, <3>1 DEF UpsampleFrom, Source
      <3> QED
        BY <1>12, <3>1, <3>2
    <2> QED
      BY <2>1, <2>2
  <1>14. CASE EndBloom
    <2>1. /\ stage = "up" /\ mip < 0 /\ stage' = "tone" /\ gpu' = NoDraw(gpu)
          /\ UNCHANGED <<scene, levels, bloomLast>>
      BY <1>14 DEF EndBloom, Skip
    <2>2. mip = -1 /\ "bloom" \in scene.on
      BY <1>1, <2>1 DEF Bloomed, Blooming
    <2>3. bloomLast = Source /\ gpu.level[Source][0] = 0 .. Mips - 1
      BY <1>1, <2>1, <2>2 DEF Bloomed
    <2>4. gpu'.level = gpu.level /\ Mips' = Mips /\ Source \in Blooms
      BY <1>1, <1>2, <2>1, NoDrawIs DEF Mips, Source
    <2> QED
      BY <2>1, <2>2, <2>3, <2>4 DEF Bloomed, Blooming, Effective
  <1>15. CASE GenerateBRDFLUTPass \/ DepthPrePass \/ ShadowPass
    BY <1>1, <1>6, <1>15, OpeningIs
  <1>16. CASE ForwardPass \/ SkyboxPass \/ Render2DPass \/ BeginText \/ TextPass
    BY <1>6, <1>16 DEF ForwardPass, SkyboxPass, Render2DPass, BeginText, TextPass, Skip
  <1>17. CASE ToneMappingPass
    BY <1>1, <1>7, <1>17, ToneMappingPassIs DEF Effective
  <1>18. CASE DebandingPass \/ FXAAPass \/ ChromaticAberationPass \/ FilmicGrainPass
    <2>1. PICK feature \in {"deband", "fxaa", "chroma", "grain"},
               next \in {"fxaa", "chroma", "grain", "debug"}, byCompute \in {FALSE, compute} :
            Optional(feature, next, byCompute)
      BY <1>18 DEF DebandingPass, FXAAPass, ChromaticAberationPass, FilmicGrainPass
    <2>2. feature \in Passes
      BY DEF Passes
    <2>3. /\ gpu'.level = gpu.level /\ stage = feature /\ stage' = next
          /\ UNCHANGED <<scene, bloomLast, levels>>
      BY <1>1, <2>1, <2>2, OptionalIs
    <2> QED
      BY <1>7, <2>3 DEF Effective
  <1>19. CASE Debug
    BY <1>1, <1>7, <1>19, DebugIs DEF Effective
  <1>20. CASE FinalPass
    BY <1>1, <1>7, <1>20, FinalPassIs DEF Effective
  <1> QED
    BY <1>3, <1>4, <1>5, <1>8, <1>9, <1>10, <1>11, <1>13, <1>14, <1>15, <1>16, <1>17, <1>18, <1>19,
       <1>20
    DEF Next, OnResize, OnNewScene, Ask, BeginScene, EndFrame, Skip, Render2DQuad, TextQuad, vars,
        graphVars

(* Whatever the settings of each frame, and whatever changed since the last *)
(* one: the frame shows every pass that is switched on, in order, and the   *)
(* whole bloom chain.  What a text writes past the end of its buffers is    *)
(* taken to harm nothing else.                                              *)
THEOREM EveryEffectShown == Spec => []EffectsShown
  <1> DEFINE Inv == Typed /\ Writing /\ Asking /\ Pictured /\ Bloomed
  <1>1. Init => Inv
    <2> SUFFICES ASSUME Init
                 PROVE  Inv
      OBVIOUS
    <2>1. stage = "idle" /\ DebugInit
      BY DEF Init
    <2>2. Typed /\ Asking
      BY <2>1, TypedInit, ClearedIs DEF Asking, DebugShown
    <2> QED
      BY <2>1, <2>2 DEF Writing, Pictured, Bloomed, Blooming, Effective
  <1>2. Inv /\ [Next]_vars => Inv'
    BY TypedStep, WritingStep, AskingStep, PicturedStep, BloomedStep
  <1>3. Inv => EffectsShown
    BY DEF EffectsShown, Pictured, Bloomed, Effective
  <1> QED
    BY <1>1, <1>2, <1>3, PTL DEF Spec
=============================================================================
