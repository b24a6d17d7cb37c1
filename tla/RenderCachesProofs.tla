------------------------- MODULE RenderCachesProofs -------------------------
(***************************************************************************)
(* Theorems about RenderCaches for any textures, pipelines, handles,       *)
(* numbers of images and buffers, life time and size of a sweep, including *)
(* what follows a handle that came back.                                   *)
(***************************************************************************)
EXTENDS RenderCaches, FiniteSetTheorems, TLAPS

-----------------------------------------------------------------------------
(***************************************************************************)
(* Types                                                                   *)
(***************************************************************************)
(* The next buffer is a buffer. *)
LEMMA BufferTypes ==
    ASSUME buffer \in Buffers
    PROVE  (buffer + 1) % BufferCount \in Buffers
  BY RenderCachesAssumption DEF Buffers

(* The keys and the pipeline of a description have their types. *)
LEMMA KeyTypes ==
    ASSUME TypeOK, NEW d \in Descs
    PROVE  /\ Key(d) \in Keys
           /\ Pass(d) \in PassKeys
           /\ Framebuffers(d) \subseteq FramebufferKeys
           /\ Entry(d) \in Pipelines
  <1> USE RenderCachesAssumption
  <1>1. /\ \A t \in Colour[d] \cup Depth[d] : t \in Textures /\ image[t] \in Handles
        /\ \A i \in Images : chain[i] \in Handles
        /\ chain[current] \in Handles
        /\ front \in Pointers
    BY DEF TypeOK, TargetsOK, Injection
  <1>2. Key(d) \in Keys
    BY <1>1 DEF Key, Keys
  <1>3. Pass(d) \in PassKeys
    BY <1>1 DEF Pass, PassKeys
  <1>4. \A i \in Images : FramebufferKey(d, {chain[i]}) \in FramebufferKeys
    BY <1>1, <1>3 DEF FramebufferKey, FramebufferKeys
  <1>5. FramebufferKey(d, {}) \in FramebufferKeys
    BY <1>1, <1>3 DEF FramebufferKey, FramebufferKeys
  <1>6. Framebuffers(d) \subseteq FramebufferKeys
    BY <1>4, <1>5 DEF Framebuffers
  <1>7. Entry(d) \in Pipelines
    <2>1. CASE Key(d) \in DOMAIN pipelines
      <3>1. pipelines[Key(d)] \in Pipelines
        BY <2>1 DEF TypeOK, CachesOK
      <3>2. Aged(pipelines[Key(d)], 0) \in Pipelines
        BY <3>1 DEF Pipelines, Aged
      <3> QED
        BY <2>1, <3>2 DEF Entry
    <2>2. CASE Key(d) \notin DOMAIN pipelines
      BY <2>2, <1>3, <1>6 DEF Entry, Pipelines
    <2> QED
      BY <2>1, <2>2
  <1> QED
    BY <1>2, <1>3, <1>6, <1>7

LEMMA TypeInit == Init => TypeOK
  <1> SUFFICES ASSUME Init PROVE TypeOK
    OBVIOUS
  <1>1. TargetsOK
    BY RenderCachesAssumption DEF Init, TargetsOK, ImagesApart, Buffers
  <1>2. CachesOK
    BY DEF Init, CachesOK
  <1> QED
    BY <1>1, <1>2 DEF TypeOK

(* The images of the textures and of the queues after a resize. *)
LEMMA ResizeEach ==
    ASSUME TargetsOK,
           NEW ts \in SUBSET Textures,
           NEW new \in Injection(ts, Handles),
           Resize(new)
    PROVE  /\ image' \in [Textures -> Handles]
           /\ \A t \in Textures : image'[t] = IF t \in ts THEN new[t] ELSE image[t]
           /\ doomed' \in [Buffers -> SUBSET Handles]
           /\ \A b \in Buffers : doomed'[b] = IF b = buffer
                                              THEN doomed[b] \cup {image[t] : t \in ts}
                                              ELSE doomed[b]
  <1>1. DOMAIN new = ts /\ \A t \in ts : new[t] \in Handles
    BY DEF Injection
  <1>2. \A t \in Textures : image[t] \in Handles
    BY DEF TargetsOK, Injection
  <1>3. /\ image' \in [Textures -> Handles]
        /\ \A t \in Textures : image'[t] = IF t \in ts THEN new[t] ELSE image[t]
    BY <1>1, <1>2 DEF Resize
  <1> DEFINE old == {image[t] : t \in ts}
  <1>4. {image[t] : t \in DOMAIN new} = old /\ old \subseteq Handles
    BY <1>1, <1>2
  <1>5. doomed' = [doomed EXCEPT ![buffer] = @ \cup old]
    BY <1>4, Zenon DEF Resize
  <1> HIDE DEF old
  <1>6. /\ doomed' \in [Buffers -> SUBSET Handles]
        /\ \A b \in Buffers : doomed'[b] = IF b = buffer THEN doomed[b] \cup old ELSE doomed[b]
    BY <1>4, <1>5 DEF TargetsOK
  <1> QED
    BY <1>3, <1>6 DEF old

(* Textures get images that no texture and no queue has, while the         *)
(* swapchain keeps its images or gets others: each image is in one place.  *)
LEMMA TargetsResize ==
    ASSUME TargetsOK,
           NEW ts \in SUBSET Textures,
           NEW new \in Injection(ts, Handles),
           Resize(new),
           chain' \in Injection(Images, Handles),
           Range(new) \cap Range(image) = {},
           \A b \in Buffers : doomed[b] \cap (Range(new) \cup Range(chain')) = {},
           Range(chain') \cap (Range(image) \cup Range(new)) = {}
    PROVE  /\ image' \in Injection(Textures, Handles)
           /\ doomed' \in [Buffers -> SUBSET Handles]
           /\ ImagesApart'
  <1>1. /\ DOMAIN new = ts
        /\ \A t \in ts : new[t] \in Handles /\ new[t] \in Range(new)
        /\ \A t, u \in ts : new[t] = new[u] => t = u
    BY DEF Injection, IsInjective, Range
  <1>2. /\ image \in [Textures -> Handles]
        /\ \A t \in Textures : image[t] \in Handles /\ image[t] \in Range(image)
        /\ \A t, u \in Textures : image[t] = image[u] => t = u
    BY DEF TargetsOK, Injection, IsInjective, Range
  <1>3. /\ image' \in [Textures -> Handles]
        /\ \A t \in Textures : image'[t] = IF t \in ts THEN new[t] ELSE image[t]
        /\ doomed' \in [Buffers -> SUBSET Handles]
        /\ \A b \in Buffers : doomed'[b] = IF b = buffer
                                           THEN doomed[b] \cup {image[t] : t \in ts}
                                           ELSE doomed[b]
    BY ResizeEach
  <1>4. \A t, u \in Textures : image'[t] = image'[u] => t = u
    BY <1>1, <1>2, <1>3
  <1>5. image' \in Injection(Textures, Handles)
    BY <1>3, <1>4 DEF Injection, IsInjective
  <1>6. \A x \in Range(image') : \E t \in Textures :
           x = IF t \in ts THEN new[t] ELSE image[t]
    BY <1>3 DEF Range
  <1>7. Range(image') \cap Range(chain') = {}
    BY <1>1, <1>2, <1>6
  <1>8. DOMAIN doomed' = Buffers
    BY <1>3
  <1>9. \A b \in Buffers : doomed[b] \cap (Range(image) \cup Range(chain)) = {}
    BY DEF TargetsOK, ImagesApart
  <1>10. ASSUME NEW b \in Buffers
         PROVE  doomed'[b] \cap (Range(image') \cup Range(chain')) = {}
    <2>1. \A t \in ts : image[t] \notin Range(image') \cup Range(chain')
      BY <1>1, <1>2, <1>6
    <2>2. doomed[b] \cap Range(image') = {}
      BY <1>1, <1>2, <1>6, <1>9
    <2> QED
      BY <2>1, <2>2, <1>3
  <1>11. ASSUME NEW a \in Buffers, NEW b \in Buffers, a # b
         PROVE  doomed'[a] \cap doomed'[b] = {}
    <2>1. doomed[a] \cap doomed[b] = {}
      BY <1>11 DEF TargetsOK, ImagesApart
    <2> QED
      BY <2>1, <1>2, <1>3, <1>9, <1>11
  <1> QED
    BY <1>5, <1>3, <1>7, <1>8, <1>10, <1>11 DEF ImagesApart

LEMMA TargetsStep ==
    ASSUME TargetsOK, [Next]_vars
    PROVE  TargetsOK'
  <1>1. \A b \in Buffers : doomed[b] \subseteq UNION Range(doomed)
    BY DEF TargetsOK, Range
  <1>2. CASE PanelResize
    <2>1. PICK new \in Injection(Textures, Fresh) : Resize(new)
      BY <1>2 DEF PanelResize
    <2>2. new \in Injection(Textures, Handles) /\ Range(new) \subseteq Fresh
      BY <2>1 DEF Injection, Range, Fresh
    <2>3. /\ Range(new) \cap Range(image) = {}
          /\ Range(new) \cap Range(chain) = {}
          /\ \A b \in Buffers : doomed[b] \cap Range(new) = {}
      BY <2>2, <1>1 DEF Fresh, Live
    <2>4. UNCHANGED <<chain, front, current, buffer>>
      BY <1>2 DEF PanelResize
    <2>5. /\ image' \in Injection(Textures, Handles)
          /\ doomed' \in [Buffers -> SUBSET Handles]
          /\ ImagesApart'
      BY <2>1, <2>2, <2>3, <2>4, TargetsResize DEF TargetsOK, ImagesApart
    <2> QED
      BY <2>4, <2>5 DEF TargetsOK
  <1>3. CASE WindowResize
    <2> PICK new \in Injection(Images, Fresh) :
           \E graph \in Injection(Textures \ ViewTextures,
                                  (Fresh \cup Range(chain)) \ Range(new)) :
              Rebuild(new) /\ Resize(graph)
      BY <1>3 DEF WindowResize
    <2>1. PICK graph \in Injection(Textures \ ViewTextures,
                                   (Fresh \cup Range(chain)) \ Range(new)) :
             Rebuild(new) /\ Resize(graph)
      OBVIOUS
    <2>2. new \in Injection(Images, Handles) /\ Range(new) \subseteq Fresh
      BY <2>1 DEF Injection, Range, Fresh
    <2>3. Range(chain) \subseteq Handles
      BY DEF TargetsOK, Injection, Range
    <2>4. /\ graph \in Injection(Textures \ ViewTextures, Handles)
          /\ Range(graph) \subseteq (Fresh \cup Range(chain)) \ Range(new)
      BY <2>1, <2>3 DEF Injection, Range, Fresh
    <2>5. /\ Range(graph) \cap Range(image) = {}
          /\ Range(new) \cap (Range(image) \cup Range(graph)) = {}
          /\ \A b \in Buffers : doomed[b] \cap (Range(graph) \cup Range(new)) = {}
      BY <2>2, <2>4, <1>1 DEF Fresh, Live, TargetsOK, ImagesApart
    <2>6. /\ chain' = new /\ front' \in Pointers
          /\ UNCHANGED <<current, buffer>>
      BY <1>3, <2>1 DEF WindowResize, Rebuild
    <2>7. /\ image' \in Injection(Textures, Handles)
          /\ doomed' \in [Buffers -> SUBSET Handles]
          /\ ImagesApart'
      BY <2>1, <2>2, <2>4, <2>5, <2>6, TargetsResize
    <2> QED
      BY <2>2, <2>6, <2>7 DEF TargetsOK
  <1>4. ASSUME NEW elapsed \in 1 .. LifeTime + 1,
               Begin(elapsed) \/ BeginOutOfDate(elapsed)
        PROVE  TargetsOK'
    <2>1. buffer' \in Buffers
      BY <1>4, BufferTypes DEF TargetsOK, Begin, BeginOutOfDate, NextBuffer
    <2>2. /\ doomed' \in [Buffers -> SUBSET Handles]
          /\ \A b \in Buffers : doomed'[b] = IF b = buffer' THEN {} ELSE doomed[b]
      BY <1>4, <2>1 DEF TargetsOK, Begin, BeginOutOfDate, NextBuffer
    <2>3. Flushed = doomed[buffer']
      BY <1>4 DEF Begin, BeginOutOfDate, NextBuffer, Flushed
    <2>4. image' = image
      BY <1>4 DEF Begin, BeginOutOfDate
    <2>5. /\ chain' \in Injection(Images, Handles)
          /\ chain' = chain \/ Range(chain') \subseteq Fresh \cup Flushed
          /\ front' \in Pointers /\ current' \in Images
      <3>1. CASE Begin(elapsed)
        BY <3>1 DEF Begin, TargetsOK
      <3>2. CASE BeginOutOfDate(elapsed)
        <4>1. PICK new \in Injection(Images, Fresh \cup Flushed) : Rebuild(new)
          BY <3>2 DEF BeginOutOfDate
        <4>2. Flushed \subseteq Handles
          BY <2>1, <2>3 DEF TargetsOK
        <4>3. new \in Injection(Images, Handles) /\ Range(new) \subseteq Fresh \cup Flushed
          BY <4>1, <4>2 DEF Injection, Range, Fresh
        <4> QED
          BY <3>2, <4>1, <4>3 DEF BeginOutOfDate, Rebuild, TargetsOK
      <3> QED
        BY <1>4, <3>1, <3>2
    <2>6. \A b \in Buffers : doomed'[b] \cap (Range(image') \cup Range(chain')) = {}
      <3>1. \A b \in Buffers : b # buffer' => doomed[b] \cap Flushed = {}
        BY <2>1, <2>3 DEF TargetsOK, ImagesApart
      <3>2. \A b \in Buffers : /\ doomed[b] \cap Fresh = {}
                               /\ doomed[b] \cap (Range(image) \cup Range(chain)) = {}
        BY <1>1 DEF TargetsOK, ImagesApart, Fresh, Live
      <3> QED
        BY <2>2, <2>4, <2>5, <3>1, <3>2
    <2>7. Range(image') \cap Range(chain') = {}
      <3>1. (Fresh \cup Flushed) \cap Range(image) = {}
        BY <2>1, <2>3 DEF TargetsOK, ImagesApart, Fresh, Live
      <3> QED
        BY <2>4, <2>5, <3>1 DEF TargetsOK, ImagesApart
    <2>8. \A a, b \in Buffers : a # b => doomed'[a] \cap doomed'[b] = {}
      BY <2>2 DEF TargetsOK, ImagesApart
    <2> QED
      BY <2>1, <2>2, <2>4, <2>5, <2>6, <2>7, <2>8 DEF TargetsOK, ImagesApart
  <1>5. CASE UNCHANGED targets
    BY <1>5 DEF targets, TargetsOK, ImagesApart
  <1> QED
    BY <1>2, <1>3, <1>4, <1>5 DEF Next, EndFrame, Get, vars

(* A sweep takes some of the unused entries. *)
LEMMA SweepSubset ==
    ASSUME NEW unused, NEW dead \in Sweep(unused)
    PROVE  dead \subseteq unused
  BY DEF Sweep, kSubset

(* What Get and the ends of a frame do to the caches, in one place. *)
LEMMA CachesStep ==
    ASSUME TypeOK, [Next]_vars
    PROVE  CachesOK'
  <1>1. CASE PanelResize \/ WindowResize
    <2>1. UNCHANGED <<caches, phase>> /\ stale' \subseteq framebuffers
      BY <1>1 DEF PanelResize, WindowResize, TypeOK, CachesOK, Naming
    <2>2. odd' \subseteq {"alias", "overfull"}
      BY <1>1 DEF PanelResize, WindowResize, TypeOK, CachesOK, Alias
    <2> QED
      BY <2>1, <2>2 DEF caches, TypeOK, CachesOK
  <1>2. ASSUME NEW elapsed \in 1 .. LifeTime + 1,
               Begin(elapsed) \/ BeginOutOfDate(elapsed)
        PROVE  CachesOK'
    <2>1. /\ DOMAIN pipelines' = DOMAIN pipelines
          /\ \A k \in DOMAIN pipelines :
                pipelines'[k] = Aged(pipelines[k], pipelines[k].age + elapsed)
      BY <1>2 DEF Begin, BeginOutOfDate, NextBuffer
    <2>2. \A k \in DOMAIN pipelines : pipelines'[k] \in Pipelines
      BY <2>1, RenderCachesAssumption DEF TypeOK, CachesOK, Pipelines, Aged
    <2>3. stale' \subseteq framebuffers /\ odd' \subseteq {"alias", "overfull"}
      BY <1>2 DEF Begin, BeginOutOfDate, TypeOK, CachesOK, Naming, Alias
    <2>4. UNCHANGED <<framebuffers, passes, held>> /\ phase' = "frame"
      BY <1>2 DEF Begin, BeginOutOfDate, NextBuffer
    <2> QED
      BY <2>1, <2>2, <2>3, <2>4 DEF TypeOK, CachesOK
  <1>3. ASSUME NEW d \in Descs, Get(d)
        PROVE  CachesOK'
    <2>1. /\ Key(d) \in Keys
          /\ Entry(d) \in Pipelines
      BY KeyTypes
    <2>2. /\ DOMAIN pipelines' = DOMAIN pipelines \cup {Key(d)}
          /\ \A k \in DOMAIN pipelines' :
                pipelines'[k] = IF k = Key(d) THEN Entry(d) ELSE pipelines[k]
      BY <1>3 DEF Get
    <2>3. /\ DOMAIN pipelines' \subseteq Keys
          /\ \A k \in DOMAIN pipelines' : pipelines'[k] \in Pipelines
      BY <2>1, <2>2 DEF TypeOK, CachesOK
    <2>4. framebuffers' \subseteq FramebufferKeys /\ passes' \subseteq PassKeys
      BY <1>3, <2>1 DEF Get, TypeOK, CachesOK, Pipelines
    <2>5. held' \in [Kept -> Keys \cup {None}]
      BY <1>3, <2>1 DEF Get, TypeOK, CachesOK
    <2>6. stale' \subseteq framebuffers' /\ UNCHANGED <<phase, odd>>
      BY <1>3 DEF Get, TypeOK, CachesOK
    <2> QED
      BY <2>3, <2>4, <2>5, <2>6 DEF TypeOK, CachesOK
  <1>4. CASE EndFrame
    <2>1. PICK dead \in Sweep(Unused) :
             \E lost \in Sweep(framebuffers \ FramebuffersOf(Restrict(pipelines, DOMAIN pipelines \ dead))) :
                /\ pipelines' = Restrict(pipelines, DOMAIN pipelines \ dead)
                /\ framebuffers' = framebuffers \ lost
                /\ stale' = stale \ lost
      BY <1>4 DEF EndFrame
    <2>2. /\ DOMAIN pipelines' \subseteq DOMAIN pipelines
          /\ \A k \in DOMAIN pipelines' : pipelines'[k] = pipelines[k]
      BY <2>1 DEF Restrict
    <2>3. passes' \subseteq passes /\ held' = held /\ phase' = "between"
      BY <1>4 DEF EndFrame
    <2>4. odd' \subseteq {"alias", "overfull"}
      BY <1>4 DEF EndFrame, TypeOK, CachesOK
    <2>5. framebuffers' \subseteq framebuffers /\ stale' \subseteq framebuffers'
      BY <2>1 DEF TypeOK, CachesOK
    <2> QED
      BY <2>2, <2>3, <2>4, <2>5 DEF TypeOK, CachesOK
  <1>5. CASE UNCHANGED vars
    BY <1>5 DEF vars, caches, TypeOK, CachesOK
  <1> QED
    BY <1>1, <1>2, <1>3, <1>4, <1>5 DEF Next

(* Type correctness, and with it that no image is destroyed while a        *)
(* texture or the swapchain uses it.                                       *)
THEOREM TypeCorrect == Spec => []TypeOK
  <1>1. TypeOK /\ [Next]_vars => TypeOK'
    BY TargetsStep, CachesStep DEF TypeOK
  <1> QED
    BY TypeInit, <1>1, PTL DEF Spec
-----------------------------------------------------------------------------
(***************************************************************************)
(* The caches agree                                                        *)
(***************************************************************************)
(* Growing old changes neither a pipeline's framebuffers nor its pass. *)
LEMMA BeginKeeps ==
    ASSUME NEW elapsed \in 1 .. LifeTime + 1, NextBuffer(elapsed)
    PROVE  /\ DOMAIN pipelines' = DOMAIN pipelines
           /\ FramebuffersOf(pipelines') = FramebuffersOf(pipelines)
           /\ PassesOf(pipelines') = PassesOf(pipelines)
  <1>1. /\ DOMAIN pipelines' = DOMAIN pipelines
        /\ \A k \in DOMAIN pipelines : /\ pipelines'[k].framebuffers = pipelines[k].framebuffers
                                       /\ pipelines'[k].pass = pipelines[k].pass
    BY DEF NextBuffer, Aged
  <1> QED
    BY <1>1 DEF FramebuffersOf, PassesOf

(* What is asked for is in the caches afterwards, with all that it needs,  *)
(* and nothing else is new there.                                          *)
LEMMA GetAdds ==
    ASSUME NEW d \in Descs, Get(d)
    PROVE  /\ DOMAIN pipelines' = DOMAIN pipelines \cup {Key(d)}
           /\ FramebuffersOf(pipelines') = FramebuffersOf(pipelines) \cup Entry(d).framebuffers
           /\ PassesOf(pipelines') = PassesOf(pipelines) \cup {Entry(d).pass}
  <1>1. /\ DOMAIN pipelines' = DOMAIN pipelines \cup {Key(d)}
        /\ pipelines'[Key(d)] = Entry(d)
        /\ \A k \in DOMAIN pipelines : k # Key(d) => pipelines'[k] = pipelines[k]
    BY DEF Get
  <1>2. Key(d) \in DOMAIN pipelines =>
           /\ Entry(d).framebuffers = pipelines[Key(d)].framebuffers
           /\ Entry(d).pass = pipelines[Key(d)].pass
    BY DEF Entry, Aged
  <1>3. FramebuffersOf(pipelines') = FramebuffersOf(pipelines) \cup Entry(d).framebuffers
    BY <1>1, <1>2 DEF FramebuffersOf
  <1>4. PassesOf(pipelines') = PassesOf(pipelines) \cup {Entry(d).pass}
    BY <1>1, <1>2 DEF PassesOf
  <1> QED
    BY <1>1, <1>3, <1>4

(* Whatever was resized, or left by an overfull sweep, no pipeline lacks a *)
(* framebuffer or a render pass and none is kept without need.             *)
THEOREM CachesAgree == Spec => []CachesMatch
  <1>1. Init => CachesMatch
    BY DEF Init, CachesMatch, FramebuffersOf, PassesOf
  <1>2. ASSUME CachesMatch, [Next]_vars
        PROVE  CachesMatch'
    <2>1. CASE PanelResize \/ WindowResize
      <3>1. UNCHANGED caches /\ ("overfull" \in odd' <=> "overfull" \in odd)
        BY <2>1 DEF PanelResize, WindowResize, Alias
      <3> QED
        BY <1>2, <3>1 DEF caches, CachesMatch
    <2>2. ASSUME NEW elapsed \in 1 .. LifeTime + 1,
                 Begin(elapsed) \/ BeginOutOfDate(elapsed)
          PROVE  CachesMatch'
      <3>1. NextBuffer(elapsed) /\ UNCHANGED <<framebuffers, passes>>
        BY <2>2 DEF Begin, BeginOutOfDate
      <3>2. "overfull" \in odd' <=> "overfull" \in odd
        BY <2>2 DEF Begin, BeginOutOfDate, Alias
      <3> QED
        BY <1>2, <3>1, <3>2, BeginKeeps DEF CachesMatch
    <2>3. ASSUME NEW d \in Descs, Get(d)
          PROVE  CachesMatch'
      <3>1. /\ framebuffers' = framebuffers \cup Entry(d).framebuffers
            /\ passes' = passes \cup {Entry(d).pass}
            /\ odd' = odd
        BY <2>3 DEF Get
      <3> QED
        BY <1>2, <2>3, <3>1, GetAdds DEF CachesMatch
    <2>4. CASE EndFrame
      <3> PICK dead \in Sweep(Unused) :
             LET left == Restrict(pipelines, DOMAIN pipelines \ dead)
                 idle == framebuffers \ FramebuffersOf(left)
             IN \E lost \in Sweep(idle) :
                   /\ pipelines' = left
                   /\ framebuffers' = framebuffers \ lost
                   /\ passes' = passes \cap PassesOf(left)
                   /\ odd' = (odd \ {"overfull"}) \cup (IF lost # idle THEN {"overfull"} ELSE {})
        BY <2>4 DEF EndFrame
      <3> DEFINE left == Restrict(pipelines, DOMAIN pipelines \ dead)
                 idle == framebuffers \ FramebuffersOf(left)
      <3>1. PICK lost \in Sweep(idle) :
               /\ pipelines' = left
               /\ framebuffers' = framebuffers \ lost
               /\ passes' = passes \cap PassesOf(left)
               /\ odd' = (odd \ {"overfull"}) \cup (IF lost # idle THEN {"overfull"} ELSE {})
        OBVIOUS
      <3>2. /\ FramebuffersOf(left) \subseteq FramebuffersOf(pipelines)
            /\ PassesOf(left) \subseteq PassesOf(pipelines)
        BY DEF Restrict, FramebuffersOf, PassesOf
      <3>3. lost \subseteq idle
        BY SweepSubset
      <3> HIDE DEF left
      <3>4. passes' = PassesOf(pipelines')
        BY <1>2, <3>1, <3>2 DEF CachesMatch
      <3>5. FramebuffersOf(pipelines') \subseteq framebuffers'
        BY <1>2, <3>1, <3>2, <3>3 DEF CachesMatch
      <3>6. "overfull" \notin odd' => framebuffers' = FramebuffersOf(pipelines')
        BY <1>2, <3>1, <3>2 DEF CachesMatch
      <3> QED
        BY <3>4, <3>5, <3>6 DEF CachesMatch
    <2>5. CASE UNCHANGED vars
      BY <1>2, <2>5 DEF vars, caches, CachesMatch
    <2> QED
      BY <1>2, <2>1, <2>2, <2>3, <2>4, <2>5 DEF Next
  <1> QED
    BY <1>1, <1>2, PTL DEF Spec

(* A pipeline that a member keeps is never swept away. *)
THEOREM KeptStay == Spec => []KeptAreCached
  <1>1. Init => KeptAreCached
    BY DEF Init, KeptAreCached
  <1>2. ASSUME TypeOK, KeptAreCached, [Next]_vars
        PROVE  KeptAreCached'
    <2>1. CASE PanelResize \/ WindowResize
      BY <1>2, <2>1 DEF PanelResize, WindowResize, caches, KeptAreCached
    <2>2. ASSUME NEW elapsed \in 1 .. LifeTime + 1,
                 Begin(elapsed) \/ BeginOutOfDate(elapsed)
          PROVE  KeptAreCached'
      BY <1>2, <2>2, BeginKeeps DEF Begin, BeginOutOfDate, KeptAreCached
    <2>3. ASSUME NEW d \in Descs, Get(d)
          PROVE  KeptAreCached'
      <3>1. held' = [e \in Kept |-> IF e = d THEN Key(d) ELSE held[e]]
        BY <2>3 DEF Get
      <3> QED
        BY <1>2, <2>3, <3>1, GetAdds DEF KeptAreCached
    <2>4. CASE EndFrame
      <3>1. PICK dead \in Sweep(Unused) :
               pipelines' = Restrict(pipelines, DOMAIN pipelines \ dead)
        BY <2>4 DEF EndFrame
      <3>2. \A d \in Kept : held[d] \notin dead
        BY <1>2, SweepSubset DEF Unused, Range, TypeOK, CachesOK
      <3> QED
        BY <1>2, <2>4, <3>1, <3>2 DEF EndFrame, Restrict, KeptAreCached
    <2>5. CASE UNCHANGED vars
      BY <1>2, <2>5 DEF vars, caches, KeptAreCached
    <2> QED
      BY <1>2, <2>1, <2>2, <2>3, <2>4, <2>5 DEF Next
  <1> QED
    BY <1>1, <1>2, TypeCorrect, PTL DEF Spec

-----------------------------------------------------------------------------
(***************************************************************************)
(* The array of keys                                                       *)
(***************************************************************************)
(* A sweep of a finite cache is no larger than the array of keys. *)
LEMMA SweepBounded ==
    ASSUME NEW unused, IsFiniteSet(unused), NEW dead \in Sweep(unused)
    PROVE  IsFiniteSet(dead) /\ Cardinality(dead) <= KeyDeleteSize
  <1> DEFINE n == Cardinality(unused)
  <1>1. n \in Nat /\ KeyDeleteSize \in Nat
    BY FS_CardinalityType, RenderCachesAssumption
  <1>2. dead \subseteq unused /\ Cardinality(dead) = Min({n, KeyDeleteSize})
    BY DEF Sweep, kSubset
  <1> HIDE DEF n
  <1>3. \E x \in {n, KeyDeleteSize} : \A y \in {n, KeyDeleteSize} : x =< y
    BY <1>1
  <1>4. Min({n, KeyDeleteSize}) <= KeyDeleteSize
    BY <1>3 DEF Min
  <1> QED
    BY <1>2, <1>4, FS_Subset

(* The cache of pipelines is finite: it grows by one with each Get. *)
CacheFinite == IsFiniteSet(DOMAIN pipelines)

LEMMA FiniteAlways == Spec => []CacheFinite
  <1>1. Init => CacheFinite
    BY FS_EmptySet DEF Init, CacheFinite
  <1>2. ASSUME CacheFinite, [Next]_vars
        PROVE  CacheFinite'
    <2>1. CASE PanelResize \/ WindowResize \/ UNCHANGED vars
      BY <1>2, <2>1 DEF PanelResize, WindowResize, vars, caches, CacheFinite
    <2>2. ASSUME NEW elapsed \in 1 .. LifeTime + 1,
                 Begin(elapsed) \/ BeginOutOfDate(elapsed)
          PROVE  CacheFinite'
      BY <1>2, <2>2, BeginKeeps DEF Begin, BeginOutOfDate, CacheFinite
    <2>3. ASSUME NEW d \in Descs, Get(d)
          PROVE  CacheFinite'
      <3>1. DOMAIN pipelines' = DOMAIN pipelines \cup {Key(d)}
        BY <2>3, GetAdds
      <3>2. IsFiniteSet(DOMAIN pipelines \cup {Key(d)})
        BY <1>2, FS_AddElement DEF CacheFinite
      <3> QED
        BY <3>1, <3>2 DEF CacheFinite
    <2>4. CASE EndFrame
      <3>1. DOMAIN pipelines' \subseteq DOMAIN pipelines
        BY <2>4 DEF EndFrame, Restrict
      <3> QED
        BY <1>2, <3>1, FS_Subset DEF CacheFinite
    <2> QED
      BY <1>2, <2>1, <2>2, <2>3, <2>4 DEF Next
  <1> QED
    BY <1>1, <1>2, PTL DEF Spec

(* The array of RenderPass::DeleteUnusedCache suffices: each render pass   *)
(* that loses its last pipeline lost one that was deleted in this frame.   *)
THEOREM KeysAlwaysFit == Spec => KeysFit
  <1>1. ASSUME CachesMatch, CacheFinite, EndFrame
        PROVE  Cardinality(passes \ PassesOf(pipelines')) <= KeyDeleteSize
    <2>1. PICK dead \in Sweep(Unused) :
             pipelines' = Restrict(pipelines, DOMAIN pipelines \ dead)
      BY <1>1 DEF EndFrame
    <2>2. dead \subseteq DOMAIN pipelines
      BY SweepSubset DEF Unused
    <2>3. IsFiniteSet(dead) /\ Cardinality(dead) <= KeyDeleteSize
      <3>1. IsFiniteSet(Unused)
        BY <1>1, FS_Subset DEF CacheFinite, Unused
      <3> QED
        BY <3>1, SweepBounded
    <2> DEFINE f == [k \in dead |-> pipelines[k].pass]
               orphans == {pipelines[k].pass : k \in dead}
    <2>4. f \in Surjection(dead, orphans)
      BY DEF Surjection
    <2>5. IsFiniteSet(orphans) /\ Cardinality(orphans) <= Cardinality(dead)
      BY <2>3, <2>4, FS_Surjection
    <2>6. passes \ PassesOf(pipelines') \subseteq orphans
      BY <1>1, <2>1, <2>2 DEF CachesMatch, PassesOf, Restrict
    <2> HIDE DEF orphans
    <2>7. Cardinality(passes \ PassesOf(pipelines')) <= Cardinality(orphans)
      BY <2>5, <2>6, FS_Subset
    <2>8. IsFiniteSet(passes \ PassesOf(pipelines'))
      BY <2>5, <2>6, FS_Subset
    <2> QED
      BY <2>3, <2>5, <2>7, <2>8, FS_CardinalityType, RenderCachesAssumption
  <1>2. CachesMatch /\ CacheFinite /\ [Next]_vars =>
           [EndFrame => Cardinality(passes \ PassesOf(pipelines')) <= KeyDeleteSize]_vars
    BY <1>1
  <1> QED
    BY <1>2, CachesAgree, FiniteAlways, PTL DEF Spec, KeysFit
-----------------------------------------------------------------------------
(***************************************************************************)
(* No framebuffer on a destroyed image is bound                            *)
(*                                                                         *)
(* The strengthening says why: a framebuffer on a destroyed image names    *)
(* one that no texture has, while the framebuffers under a key whose       *)
(* images are in use name only that key's images and the swapchain's.      *)
(***************************************************************************)
StaleNamesDead == \A f \in stale : \E x \in f.images : x \notin Live

Covers(k, fs) ==
    /\ k.screen # None => \E f \in fs : k.screen \in f.images
    /\ k.screen = None => \A f \in fs : f.images \subseteq k.images
    /\ k.screen \in Range(chain) => \A f \in fs : f.images \subseteq k.images \cup Range(chain)

KeyCovers == \A k \in DOMAIN pipelines : Covers(k, pipelines[k].framebuffers)

LiveInv == "alias" \notin odd => StaleNamesDead /\ KeyCovers

(* What is in a queue. *)
LEMMA InQueues ==
    ASSUME TargetsOK
    PROVE  \A x : x \in UNION Range(doomed) <=> \E b \in Buffers : x \in doomed[b]
  BY DEF TargetsOK, Range

(* A resize brings no images to life but the new ones. *)
LEMMA LiveResize ==
    ASSUME TargetsOK, TargetsOK',
           NEW ts \in SUBSET Textures,
           NEW new \in Injection(ts, Handles),
           Resize(new)
    PROVE  /\ Range(new) \subseteq Range(image')
           /\ Range(image') \subseteq Range(image) \cup Range(new)
           /\ UNION Range(doomed') \subseteq (UNION Range(doomed)) \cup Range(image)
  <1>1. /\ DOMAIN new = ts
        /\ DOMAIN image = Textures
        /\ DOMAIN image' = Textures
        /\ \A t \in ts : image'[t] = new[t]
        /\ \A t \in Textures \ ts : image'[t] = image[t]
    BY ResizeEach DEF TargetsOK, Injection
  <1>2. /\ Range(new) \subseteq Range(image')
        /\ Range(image') \subseteq Range(image) \cup Range(new)
    BY <1>1 DEF Range
  <1>3. \A b \in Buffers : doomed'[b] \subseteq doomed[b] \cup Range(image)
    <2>1. {image[t] : t \in ts} \subseteq Range(image)
      BY <1>1 DEF Range
    <2>2. \A b \in Buffers : doomed'[b] = IF b = buffer
                                           THEN doomed[b] \cup {image[t] : t \in ts}
                                           ELSE doomed[b]
      BY ResizeEach
    <2> QED
      BY <2>1, <2>2
  <1>4. \A x : x \in UNION Range(doomed') <=> \E b \in Buffers : x \in doomed'[b]
    BY DEF TargetsOK, Range
  <1>5. UNION Range(doomed') \subseteq (UNION Range(doomed)) \cup Range(image)
    <2> SUFFICES ASSUME NEW x, x \in UNION Range(doomed')
                 PROVE  x \in UNION Range(doomed) \/ x \in Range(image)
      OBVIOUS
    <2>1. PICK b \in Buffers : x \in doomed'[b]
      BY <1>4
    <2>2. x \in doomed[b] \/ x \in Range(image)
      BY <1>3, <2>1
    <2> QED
      BY <2>2, InQueues
  <1> QED
    BY <1>2, <1>5

(* What becomes of the images in a step after which no handle came back to *)
(* a cached framebuffer.                                                   *)
LEMMA ImagesStep ==
    ASSUME TypeOK, Next, "alias" \notin odd'
    PROVE  /\ "alias" \notin odd
           /\ \A f \in framebuffers : f.images \cap Live' \subseteq Live
           /\ \A f \in stale' : f \in stale \/ \E x \in f.images : x \notin Live'
           /\ chain' = chain \/ \A f \in framebuffers : f.images \cap Range(chain') = {}
  <1>1. TargetsOK /\ TargetsOK'
    BY TargetsStep DEF TypeOK
  <1>2. \A b \in Buffers : doomed[b] \cap (Range(image) \cup Range(chain)) = {}
    BY <1>1 DEF TargetsOK, ImagesApart
  <1>3. CASE PanelResize
    <2>1. PICK new \in Injection(Textures, Fresh) :
             Resize(new) /\ odd' = odd \cup Alias(Range(new))
      BY <1>3 DEF PanelResize
    <2>2. "alias" \notin odd /\ Naming(Range(new)) = {}
      BY <2>1 DEF Alias
    <2>3. new \in Injection(Textures, Handles)
      BY <2>1 DEF Injection, Fresh
    <2>4. UNCHANGED <<chain, stale>>
      BY <1>3 DEF PanelResize
    <2>5. Live' \subseteq Live \cup Range(new)
      <3>1. /\ Range(image') \subseteq Range(image) \cup Range(new)
            /\ UNION Range(doomed') \subseteq (UNION Range(doomed)) \cup Range(image)
        BY <1>1, <2>1, <2>3, LiveResize
      <3> QED
        BY <2>4, <3>1 DEF Live
    <2> QED
      BY <2>2, <2>4, <2>5 DEF Naming
  <1>4. CASE WindowResize
    <2> PICK new \in Injection(Images, Fresh) :
           \E graph \in Injection(Textures \ ViewTextures,
                                  (Fresh \cup Range(chain)) \ Range(new)) :
              /\ Rebuild(new) /\ Resize(graph)
              /\ odd' = odd \cup Alias(Range(new) \cup Range(graph))
      BY <1>4 DEF WindowResize
    <2>1. PICK graph \in Injection(Textures \ ViewTextures,
                                   (Fresh \cup Range(chain)) \ Range(new)) :
             /\ Rebuild(new) /\ Resize(graph)
             /\ odd' = odd \cup Alias(Range(new) \cup Range(graph))
      OBVIOUS
    <2>2. "alias" \notin odd /\ Naming(Range(new) \cup Range(graph)) = {}
      BY <2>1 DEF Alias
    <2>3. Range(chain) \subseteq Handles
      BY <1>1 DEF TargetsOK, Injection, Range
    <2>4. graph \in Injection(Textures \ ViewTextures, Handles)
      BY <2>1, <2>3 DEF Injection, Fresh
    <2>5. chain' = new /\ stale' = stale \cup Naming(Range(chain))
      BY <1>4, <2>1 DEF WindowResize, Rebuild
    <2>6. /\ Range(image') \subseteq Range(image) \cup Range(graph)
          /\ UNION Range(doomed') \subseteq (UNION Range(doomed)) \cup Range(image)
      BY <1>1, <2>1, <2>4, LiveResize
    <2>7. /\ Live' \subseteq Live \cup Range(new) \cup Range(graph)
          /\ Range(chain) \cap Live' \subseteq Range(graph) \cup Range(new)
      <3>1. Range(chain) \cap Range(image) = {}
        BY <1>1 DEF TargetsOK, ImagesApart
      <3>2. Range(chain) \cap UNION Range(doomed) = {}
        BY <1>1, <1>2, InQueues
      <3> QED
        BY <2>5, <2>6, <3>1, <3>2 DEF Live
    <2>8. \A f \in framebuffers : f.images \cap (Range(new) \cup Range(graph)) = {}
      BY <2>2 DEF Naming
    <2>9. \A f \in Naming(Range(chain)) : \E x \in f.images : x \notin Live'
      BY <2>7, <2>8 DEF Naming
    <2> QED
      BY <2>2, <2>5, <2>7, <2>8, <2>9
  <1>5. ASSUME NEW elapsed \in 1 .. LifeTime + 1,
               Begin(elapsed) \/ BeginOutOfDate(elapsed)
        PROVE  /\ "alias" \notin odd
               /\ \A f \in framebuffers : f.images \cap Live' \subseteq Live
               /\ \A f \in stale' : f \in stale \/ \E x \in f.images : x \notin Live'
               /\ chain' = chain \/ \A f \in framebuffers : f.images \cap Range(chain') = {}
    <2>1. /\ buffer' \in Buffers
          /\ Flushed = doomed[buffer']
          /\ \A b \in Buffers : doomed'[b] = IF b = buffer' THEN {} ELSE doomed[b]
          /\ image' = image
      BY <1>1, <1>5, BufferTypes DEF Begin, BeginOutOfDate, NextBuffer, Flushed, TargetsOK
    <2>2. \A x : x \in UNION Range(doomed') <=> \E b \in Buffers : x \in doomed'[b]
      BY <1>1 DEF TargetsOK, Range
    <2>3. /\ UNION Range(doomed') \subseteq UNION Range(doomed)
          /\ Flushed \cap (UNION Range(doomed')) = {}
      BY <1>1, <2>1, <2>2, InQueues DEF TargetsOK, ImagesApart
    <2>4. CASE Begin(elapsed)
      <3>1. /\ chain' = chain /\ odd' = odd
            /\ stale' = stale \cup Naming(Flushed)
        BY <2>4 DEF Begin
      <3>2. Live' \subseteq Live /\ Flushed \cap Live' = {}
        BY <1>2, <2>1, <2>3, <3>1 DEF Live
      <3> QED
        BY <3>1, <3>2 DEF Naming
    <2>5. CASE BeginOutOfDate(elapsed)
      <3>1. PICK new \in Injection(Images, Fresh \cup Flushed) :
               Rebuild(new) /\ odd' = odd \cup Alias(Range(new))
        BY <2>5 DEF BeginOutOfDate
      <3>2. "alias" \notin odd /\ \A f \in framebuffers : f.images \cap Range(new) = {}
        BY <3>1 DEF Alias, Naming
      <3>3. chain' = new /\ stale' = stale \cup Naming(Flushed \cup Range(chain))
        BY <2>5, <3>1 DEF BeginOutOfDate, Rebuild
      <3>4. Live' \subseteq Live \cup Range(new)
        BY <2>1, <2>3, <3>3 DEF Live
      <3>5. (Flushed \cup Range(chain)) \cap Live' \subseteq Range(new)
        <4>1. Range(chain) \cap (Range(image) \cup UNION Range(doomed)) = {}
          BY <1>1, <1>2, InQueues DEF TargetsOK, ImagesApart
        <4> QED
          BY <1>2, <2>1, <2>3, <3>3, <4>1 DEF Live
      <3> QED
        BY <3>2, <3>3, <3>4, <3>5 DEF Naming
    <2> QED
      BY <1>5, <2>4, <2>5
  <1>6. CASE EndFrame
    BY <1>6 DEF EndFrame, targets, Live
  <1>7. ASSUME NEW d \in Descs, Get(d)
        PROVE  UNCHANGED <<targets, stale, odd>>
    BY <1>7 DEF Get
  <1> QED
    BY <1>3, <1>4, <1>5, <1>6, <1>7 DEF Next, targets, Live

(* A new pipeline is covered by its key. *)
LEMMA NewCovered ==
    ASSUME TypeOK, NEW d \in Descs
    PROVE  Covers(Key(d), Framebuffers(d))
  <1> DEFINE targetImages == {image[t] : t \in Colour[d] \cup Depth[d]}
  <1>1. /\ current \in Images
        /\ \A i \in Images : chain[i] \in Range(chain) /\ chain[i] # None
    BY RenderCachesAssumption DEF TypeOK, TargetsOK, Injection, Range
  <1>2. /\ Key(d).images = targetImages
        /\ Key(d).screen = IF d \in Screen THEN chain[current] ELSE None
    BY DEF Key
  <1>3. \A scr : FramebufferKey(d, scr).images = targetImages \cup scr
    BY DEF FramebufferKey
  <1> HIDE DEF targetImages
  <1>4. CASE d \in Screen
    <2>1. Framebuffers(d) = {FramebufferKey(d, {chain[i]}) : i \in Images}
      BY <1>4 DEF Framebuffers
    <2>2. Key(d).screen = chain[current] /\ Key(d).screen # None
      BY <1>1, <1>2, <1>4
    <2>3. \E f \in Framebuffers(d) : Key(d).screen \in f.images
      <3>1. FramebufferKey(d, {chain[current]}) \in Framebuffers(d)
        BY <1>1, <2>1
      <3> QED
        BY <1>3, <2>2, <3>1
    <2>4. ASSUME NEW f \in Framebuffers(d)
          PROVE  f.images \subseteq Key(d).images \cup Range(chain)
      <3>1. PICK i \in Images : f = FramebufferKey(d, {chain[i]})
        BY <2>1
      <3>2. f.images = Key(d).images \cup {chain[i]}
        BY <1>2, <1>3, <3>1
      <3> QED
        BY <1>1, <3>2
    <2> QED
      BY <2>2, <2>3, <2>4 DEF Covers
  <1>5. CASE d \notin Screen
    <2>1. Framebuffers(d) = {FramebufferKey(d, {})}
      BY <1>5 DEF Framebuffers
    <2>2. Key(d).screen = None
      BY <1>2, <1>5
    <2>3. \A f \in Framebuffers(d) : f.images \subseteq Key(d).images
      BY <1>2, <1>3, <2>1
    <2> QED
      BY <2>2, <2>3 DEF Covers
  <1> QED
    BY <1>4, <1>5

(* A pipeline in the cache was there before with the same framebuffers, or *)
(* has just been made.                                                     *)
LEMMA PipelinesStep ==
    ASSUME Next
    PROVE  \A k \in DOMAIN pipelines' :
              \/ /\ k \in DOMAIN pipelines
                 /\ pipelines'[k].framebuffers = pipelines[k].framebuffers
              \/ /\ UNCHANGED targets
                 /\ \E d \in Descs : /\ k = Key(d)
                                     /\ pipelines'[k].framebuffers = Framebuffers(d)
  <1>1. CASE PanelResize \/ WindowResize
    BY <1>1 DEF PanelResize, WindowResize, caches
  <1>2. ASSUME NEW elapsed \in 1 .. LifeTime + 1, NextBuffer(elapsed)
        PROVE  \A k \in DOMAIN pipelines' :
                  /\ k \in DOMAIN pipelines
                  /\ pipelines'[k].framebuffers = pipelines[k].framebuffers
    BY <1>2 DEF NextBuffer, Aged
  <1>3. ASSUME NEW d \in Descs, Get(d), NEW k \in DOMAIN pipelines'
        PROVE  \/ /\ k \in DOMAIN pipelines
                  /\ pipelines'[k].framebuffers = pipelines[k].framebuffers
               \/ /\ UNCHANGED targets
                  /\ k = Key(d)
                  /\ pipelines'[k].framebuffers = Framebuffers(d)
    <2>1. /\ UNCHANGED targets
          /\ k \in DOMAIN pipelines \cup {Key(d)}
          /\ pipelines'[k] = IF k = Key(d) THEN Entry(d) ELSE pipelines[k]
      BY <1>3 DEF Get
    <2>2. CASE Key(d) \in DOMAIN pipelines
      BY <2>1, <2>2 DEF Entry, Aged
    <2>3. CASE Key(d) \notin DOMAIN pipelines
      BY <2>1, <2>3 DEF Entry
    <2> QED
      BY <2>2, <2>3
  <1>4. CASE EndFrame
    BY <1>4 DEF EndFrame, Restrict
  <1> QED
    BY <1>1, <1>2, <1>3, <1>4 DEF Next, Begin, BeginOutOfDate

LEMMA LiveStep ==
    ASSUME TypeOK, CachesMatch, LiveInv, [Next]_vars
    PROVE  LiveInv'
  <1>1. CASE Next /\ "alias" \notin odd'
    <2>1. /\ StaleNamesDead /\ KeyCovers
          /\ \A f \in framebuffers : f.images \cap Live' \subseteq Live
          /\ \A f \in stale' : f \in stale \/ \E x \in f.images : x \notin Live'
          /\ chain' = chain \/ \A f \in framebuffers : f.images \cap Range(chain') = {}
      BY <1>1, ImagesStep DEF LiveInv
    <2>2. StaleNamesDead'
      BY <2>1 DEF StaleNamesDead, TypeOK, CachesOK
    <2>3. \A k \in DOMAIN pipelines : pipelines[k].framebuffers \subseteq framebuffers
      BY DEF CachesMatch, FramebuffersOf
    <2>4. None \notin Range(chain')
      BY TargetsStep, RenderCachesAssumption DEF TypeOK, TargetsOK, Injection, Range
    <2>5. ASSUME NEW k \in DOMAIN pipelines'
          PROVE  Covers(k, pipelines[k].framebuffers)'
      <3> DEFINE fs == pipelines'[k].framebuffers
      <3>1. CASE k \in DOMAIN pipelines /\ fs = pipelines[k].framebuffers
        <4>1. Covers(k, pipelines[k].framebuffers) /\ fs \subseteq framebuffers
          BY <2>1, <2>3, <3>1 DEF KeyCovers
        <4>2. CASE chain' = chain
          BY <3>1, <4>1, <4>2 DEF Covers
        <4>3. CASE \A f \in framebuffers : f.images \cap Range(chain') = {}
          BY <2>4, <3>1, <4>1, <4>3 DEF Covers
        <4> QED
          BY <2>1, <4>2, <4>3
      <3>2. ASSUME NEW d \in Descs, UNCHANGED targets, k = Key(d), fs = Framebuffers(d)
            PROVE  Covers(k, pipelines[k].framebuffers)'
        <4>1. Covers(k, fs)
          BY <3>2, NewCovered
        <4> QED
          BY <3>2, <4>1 DEF Covers, targets
      <3> QED
        BY <1>1, <3>1, <3>2, PipelinesStep
    <2> QED
      BY <2>2, <2>5 DEF LiveInv, KeyCovers
  <1>2. CASE UNCHANGED vars
    BY <1>2 DEF vars, targets, caches, LiveInv, StaleNamesDead, KeyCovers, Covers, Live
  <1> QED
    BY <1>1, <1>2 DEF LiveInv

(* No pipeline is bound with framebuffers on destroyed images, whatever    *)
(* was resized or made anew since they were cached and however many frames *)
(* ago, as long as no handle came back to a cached framebuffer.            *)
THEOREM TargetsAlwaysLive == Spec => []LiveTargets
  <1>1. Init => LiveInv
    BY DEF Init, LiveInv, StaleNamesDead, KeyCovers
  <1>2. TypeOK /\ CachesMatch /\ LiveInv /\ [Next]_vars => LiveInv'
    BY LiveStep
  <1>3. TypeOK /\ LiveInv => LiveTargets
    <2> SUFFICES ASSUME TypeOK, StaleNamesDead, KeyCovers, NEW d \in Descs
                 PROVE  Bound(d) \cap stale = {}
      BY DEF LiveInv, LiveTargets
    <2>1. Covers(Key(d), Bound(d))
      BY NewCovered DEF Bound, KeyCovers
    <2>2. /\ Key(d).images \subseteq Range(image)
          /\ Key(d).screen \in Range(chain) \cup {None}
      BY RenderCachesAssumption DEF Key, Range, TypeOK, TargetsOK, Injection
    <2>3. \A f \in Bound(d) : f.images \subseteq Live
      BY <2>1, <2>2 DEF Covers, Live
    <2> QED
      BY <2>3 DEF StaleNamesDead
  <1> QED
    BY <1>1, <1>2, <1>3, TypeCorrect, CachesAgree, PTL DEF Spec
=============================================================================
