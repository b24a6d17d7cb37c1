--------------------------- MODULE SceneHierarchy ---------------------------
(***************************************************************************)
(* scene/SceneGraph.cpp: the entities of a scene form a forest that is     *)
(* stored as doubly linked child lists in their Hierarchy components, kept *)
(* together by signal handlers of the entity registry (OnConstruct,        *)
(* OnDestroy).  The actions are what the editor's hierarchy panel and the  *)
(* scene do with it; everything runs on the main thread, and an action is  *)
(* one menu entry or drop.                                                 *)
(*                                                                         *)
(* An entity identifier carries a version, so it is never used again       *)
(* within a scene.                                                         *)
(***************************************************************************)
EXTENDS Naturals, SequencesExt

CONSTANT MaxEntities   \* bound: entities ever created in one scene

ASSUME HierarchyAssumption == MaxEntities \in Nat \ {0}

Entities == 1 .. MaxEntities
null     == 0
Ref      == Entities \cup {null}

Hierarchy == [parent : Ref, first : Ref, next : Ref, prev : Ref]
NoHierarchy == [none |-> TRUE]

VARIABLES
    created,  \* how many entities the scene has created
    alive,    \* registry.valid
    h,        \* h[e]: e's Hierarchy component, or NoHierarchy
    doomed,   \* the entity a paste after a cut goes on to destroy, or null
    lost      \* history: which of the two operations that lose the links of
              \* an entity this scene has seen

\* "paste": an entity without Hierarchy has been pasted onto a node.
\* "panel": an entity with children has been dropped on the panel's area.
Losses == {"paste", "panel"}

hierarchyVars == <<created, alive, h, doomed, lost>>
-----------------------------------------------------------------------------
(***************************************************************************)
(* Access to the components.  try_get of an entity that is null or has no  *)
(* Hierarchy gives nullptr, and the code then leaves the write out.        *)
(***************************************************************************)
Has(g, e) == e # null /\ g[e] # NoHierarchy

Component(p, f, n, b) == [parent |-> p, first |-> f, next |-> n, prev |-> b]

SetFirst(g, e, x) ==
    IF Has(g, e)
    THEN [g EXCEPT ![e] = Component(g[e].parent, x, g[e].next, g[e].prev)] ELSE g
SetNext(g, e, x) ==
    IF Has(g, e)
    THEN [g EXCEPT ![e] = Component(g[e].parent, g[e].first, x, g[e].prev)] ELSE g
SetPrev(g, e, x) ==
    IF Has(g, e)
    THEN [g EXCEPT ![e] = Component(g[e].parent, g[e].first, g[e].next, x)] ELSE g

ParentOf(g, e) == IF Has(g, e) THEN g[e].parent ELSE null
FirstOf(g, e)  == IF Has(g, e) THEN g[e].first  ELSE null
NextOf(g, e)   == IF Has(g, e) THEN g[e].next   ELSE null
PrevOf(g, e)   == IF Has(g, e) THEN g[e].prev   ELSE null

Nexts(g)  == [x \in Ref |-> NextOf(g, x)]
Firsts(g) == [x \in Ref |-> FirstOf(g, x)]
Nothing   == [x \in Ref |-> null]

\* The binary tree that two kinds of link lead to from x: what is to the left of
\* an entity, the entity, and what is to the right of it.
InOrder(x, left, right) ==
    LET tree[n \in 0 .. MaxEntities] ==
          [y \in Ref |->
             IF n = 0 \/ y = null THEN <<>>
             ELSE tree[n - 1][left[y]] \o <<y>> \o tree[n - 1][right[y]]]
    IN  tree[MaxEntities][x]

\* x and the siblings that follow it
Siblings(g, x) == InOrder(x, Nothing, Nexts(g))

\* Entity::GetChildren: the children of e, in order.
ChildList(g, e) == Siblings(g, FirstOf(g, e))

GetChildren(g, e) == ToSet(ChildList(g, e))

\* Mutant: only the entity itself is destroyed.
PostOrderSelf(g, e) == <<e>>

\* e and what the child lists lead to from it, in the order in which DestroyEntity
\* destroys it: the children of an entity, and what is below them, come first.
PostOrder(g, e) == InOrder(FirstOf(g, e), Firsts(g), Nexts(g)) \o <<e>>

Subtree(g, e) == ToSet(PostOrder(g, e))

\* HierarchyPanel::IsParentOfEntity, Entity::IsParent: the loop over the parents.
Ancestors(g, e) ==
    LET seen[n \in 0 .. MaxEntities] ==
          IF n = 0 THEN {ParentOf(g, e)}
          ELSE LET S == seen[n - 1] IN S \cup {ParentOf(g, x) : x \in S}
    IN  seen[MaxEntities]

IsParentOfEntity(g, e, child) == e \in Ancestors(g, child)
-----------------------------------------------------------------------------
(***************************************************************************)
(* The handlers of SceneGraph.cpp.                                         *)
(***************************************************************************)
\* The end of the list that starts at x.
LastSibling(g, x) ==
    CHOOSE y \in ToSet(Siblings(g, x)) : g[y].next = null

GetOrEmplace(g, e) == IF Has(g, e) THEN g ELSE [g EXCEPT ![e] = Component(null, null, null, null)]

\* Mutant: a new child becomes the first.
OnConstructFront(g, e) ==
    LET p  == g[e].parent
        g1 == GetOrEmplace(g, p)
        f  == g1[p].first
    IN  SetFirst(SetNext(SetPrev(g1, f, e), e, f), p, e)

\* Hierarchy::OnConstruct for a component whose parent is not null
OnConstruct(g, e) ==
    LET p    == g[e].parent
        g1   == GetOrEmplace(g, p)
        last == LastSibling(g1, g1[p].first)
    IN  IF g1[p].first = null THEN SetFirst(g1, p, e)
        ELSE SetPrev(SetNext(g1, last, e), e, last)

\* Mutant: the first child leaves without passing on the head of the list.
OnDestroyKeepsFirst(g, valid, e) ==
    IF g[e].prev = null \/ g[e].prev \notin valid THEN g
    ELSE SetPrev(SetNext(g, g[e].prev, g[e].next), g[e].next, g[e].prev)

\* Hierarchy::OnDestroy: take e out of the list it is in.
OnDestroy(g, valid, e) ==
    IF g[e].prev = null \/ g[e].prev \notin valid
    THEN IF g[e].parent \in valid /\ Has(g, g[e].parent)
         THEN SetPrev(SetFirst(g, g[e].parent, g[e].next), g[e].next, null)
         ELSE g
    ELSE SetPrev(SetNext(g, g[e].prev, g[e].next), g[e].next, g[e].prev)

\* Hierarchy::Reparent; p may be null.
Reparent(g, valid, e, p) ==
    LET out == OnDestroy(g, valid, e)
        g1  == [out EXCEPT ![e] = Component(p, out[e].first, null, null)]
    IN  IF p = null THEN g1 ELSE OnConstruct(g1, e)

\* registry.emplace<Hierarchy>(e, p); OnConstruct runs if it is connected.
Emplace(g, e, p, connected) ==
    LET g1 == [g EXCEPT ![e] = Component(p, null, null, null)]
    IN  IF connected THEN OnConstruct(g1, e) ELSE g1

\* What Entity::SetParent and a drop on a node do with an acceptable pair.
Attach(g, valid, e, p, connected) ==
    IF Has(g, e) THEN Reparent(g, valid, e, p) ELSE Emplace(g, e, p, connected)

\* registry.destroy
DestroyOne(scene, e) ==
    LET g == IF Has(scene.h, e) THEN OnDestroy(scene.h, scene.alive, e) ELSE scene.h
    IN  [alive |-> scene.alive \ {e}, h |-> [g EXCEPT ![e] = NoHierarchy]]

\* DestroyEntity for the entities of a list, one after the other
DestroyAll(scene, list) ==
    LET left[n \in 0 .. Len(list)] ==
          IF n = 0 THEN scene ELSE DestroyOne(left[n - 1], list[n])
    IN  left[Len(list)]

\* What the panel draws, and so what the user can click, drag and drop on:
\* entities without a Hierarchy, and what the lists lead to from the roots.
\* SceneGraph::Update follows the same links.
Drawn(g, valid) ==
    {e \in valid : ~Has(g, e)}
      \cup UNION {Subtree(g, e) : e \in {x \in valid : Has(g, x) /\ g[x].parent = null}}
-----------------------------------------------------------------------------
HierarchyInit ==
    /\ created = 0
    /\ alive = {}
    /\ h = [e \in Entities |-> NoHierarchy]
    /\ doomed = null
    /\ lost = {}

\* The main thread is between two operations.
Ready == doomed = null

New == created + 1

\* Scene::CreateEntity
CreateEntity ==
    /\ Ready
    /\ created < MaxEntities
    /\ created' = New
    /\ alive' = alive \cup {New}
    /\ UNCHANGED <<h, doomed, lost>>

\* "Add Child": CreateEntity, then SetParent, which accepts a new entity.
AddChild(node) ==
    /\ Ready
    /\ created < MaxEntities
    /\ created' = New
    /\ alive' = alive \cup {New}
    /\ h' = Attach(h, alive', New, node, TRUE)
    /\ UNCHANGED <<doomed, lost>>

\* HierarchyPanel::DrawNode on a dragged entity
Acceptable(e, node) ==
    /\ e # node
    /\ Has(h, e) => ~IsParentOfEntity(h, e, node) /\ h[e].parent # node

\* e is dropped on node.
Drop(e, node) ==
    /\ Ready
    /\ Acceptable(e, node)
    /\ h' = Attach(h, alive, e, node, TRUE)
    /\ UNCHANGED <<created, alive, doomed, lost>>

\* e is dropped in the window behind the tree.
DropOutside(e) ==
    /\ Ready
    /\ Has(h, e)
    /\ h' = Reparent(h, alive, e, null)
    /\ UNCHANGED <<created, alive, doomed, lost>>

\* e is dropped on the rectangle "Panel Hierarchy": its Hierarchy goes too.
DropOnPanelArea(e) ==
    /\ Ready
    /\ Has(h, e)
    /\ h[e].parent # null
    /\ h' = [Reparent(h, alive, e, null) EXCEPT ![e] = NoHierarchy]
    /\ lost' = IF h[e].first = null THEN lost ELSE lost \cup {"panel"}
    /\ UNCHANGED <<created, alive, doomed>>

\* HierarchyPanel::DestroyEntity
DestroyEntity(e) ==
    /\ LET left == DestroyAll([alive |-> alive, h |-> h], PostOrder(h, e))
       IN  alive' = left.alive /\ h' = left.h
    /\ UNCHANGED created

Delete(e) == Ready /\ DestroyEntity(e) /\ UNCHANGED <<doomed, lost>>

\* CopyEntity for e and all that is below it: entity x becomes copy[x], a
\* child of copy[e] takes its place in the new list, and copy[e] has no links.
Copies(g, e, copy) ==
    LET To(x) == IF x = null THEN null ELSE copy[x]
        CopyOf(x) ==
          IF ~Has(g, x) THEN NoHierarchy
          ELSE IF x = e THEN Component(null, To(g[x].first), null, null)
          ELSE Component(To(g[x].parent), To(g[x].first), To(g[x].next), To(g[x].prev))
    IN  [y \in Entities |-> IF y \in Range(copy)
                            THEN CopyOf(CHOOSE x \in DOMAIN copy : copy[x] = y)
                            ELSE g[y]]

\* A new entity is created before those it is the parent of.
CopyMap(e) ==
    LET list == PostOrder(h, e)
        At(x) == CHOOSE i \in DOMAIN list : list[i] = x
    IN  [x \in ToSet(list) |-> New + (Len(list) - At(x))]

\* Scene::DuplicateEntity(e, node).  OnConstruct is disconnected when an
\* entity without Hierarchy is attached: nothing below it has connected it
\* again.
DuplicateEntity(e, node, thenDestroy) ==
    /\ Ready
    /\ created' = created + Len(PostOrder(h, e))
    /\ created' <= MaxEntities
    /\ alive' = alive \cup Range(CopyMap(e))
    /\ h' = LET g == Copies(h, e, CopyMap(e))
            IN  IF node = null THEN g
                ELSE Attach(g, alive', CopyMap(e)[e], node, FALSE)
    /\ doomed' = thenDestroy
    /\ lost' = IF node = null \/ Has(h, e) THEN lost ELSE lost \cup {"paste"}

Duplicate(e) == DuplicateEntity(e, null, null)

\* "Paste" of the copied entity e on a node; after a "Cut" the node goes.
Paste(e, node, cut) == DuplicateEntity(e, node, IF cut THEN node ELSE null)

\* "Paste" on the background; after a "Cut" the copied entity goes.
PasteRoot(e, cut) == DuplicateEntity(e, null, IF cut THEN e ELSE null)

\* The end of a paste after a cut
DestroyDoomed ==
    /\ doomed # null
    /\ DestroyEntity(doomed)
    /\ doomed' = null
    /\ UNCHANGED lost

\* Scene::OnCleanupScene; the identifiers of the next scene are new.
ExitScene ==
    /\ Ready
    /\ created' = 0
    /\ alive' = {}
    /\ h' = [e \in Entities |-> NoHierarchy]
    /\ lost' = {}
    /\ UNCHANGED doomed

\* Scene::Deserialise takes the links from the file, with OnConstruct
\* disconnected.  The files: one entity, or a parent with a list of children.
LoadScene(n) ==
    /\ Ready
    /\ alive = {} /\ created = 0
    /\ created' = n
    /\ alive' = 1 .. n
    /\ h' = [e \in Entities |->
               IF n < 2 \/ e > n THEN NoHierarchy
               ELSE IF e = 1 THEN Component(null, 2, null, null)
               ELSE Component(1, null, IF e = n THEN null ELSE e + 1,
                                       IF e = 2 THEN null ELSE e - 1)]
    /\ UNCHANGED <<doomed, lost>>

\* Which entity is copied was chosen earlier: it need not be drawn any more.
HierarchyNext ==
    \/ CreateEntity
    \/ \E e \in Drawn(h, alive) :
          \/ AddChild(e) \/ DropOutside(e) \/ DropOnPanelArea(e) \/ Delete(e)
          \/ Duplicate(e)
          \/ \E node \in Drawn(h, alive) : Drop(e, node)
    \/ \E e \in alive, cut \in BOOLEAN :
          \/ PasteRoot(e, cut)
          \/ \E node \in Drawn(h, alive) : Paste(e, node, cut)
    \/ DestroyDoomed
    \/ ExitScene
    \/ \E n \in Entities : LoadScene(n)

HierarchySpec == HierarchyInit /\ [][HierarchyNext]_hierarchyVars
-----------------------------------------------------------------------------
(***************************************************************************)
(* Properties                                                              *)
(***************************************************************************)
\* Every variable has its type, and only live entities have a component.
HierarchyTypeOK ==
    /\ created \in 0 .. MaxEntities
    /\ alive \subseteq 1 .. created
    /\ h \in [Entities -> Hierarchy \cup {NoHierarchy}]
    /\ \A e \in Entities \ alive : h[e] = NoHierarchy
    /\ doomed \in alive \cup {null}
    /\ lost \subseteq Losses

\* A link forward leads to a live entity that has a Hierarchy and no other
\* predecessor: no entity is drawn, updated or destroyed twice, and the loops
\* over children, which do not check for a missing Hierarchy, end.
ForwardLinks ==
    \A e \in {x \in Entities : Has(h, x)} :
        /\ h[e].next # null => Has(h, h[e].next) /\ h[h[e].next].prev = e
        /\ h[e].first # null => Has(h, h[e].first) /\ h[h[e].first].prev = null
        /\ e \notin UNION {Subtree(h, x) : x \in GetChildren(h, e)}

\* The links back and up agree with the links forward, as long as neither of
\* the two operations that lose links has been used.  OnDestroy relies on it:
\* it repairs the neighbours it finds through them.
SiblingLinks ==
  lost = {} =>
    \A e \in {x \in Entities : Has(h, x)} :
        /\ h[e].prev # null => Has(h, h[e].prev) /\ h[h[e].prev].next = e
        /\ \A x \in GetChildren(h, e) : h[x].parent = e
        /\ h[e].parent # null => e \in GetChildren(h, h[e].parent)

\* No entity is its own ancestor: the loops of IsParentOfEntity and IsParent,
\* which only stop at a root, end.
Acyclic == \A e \in alive : null \in Ancestors(h, e)

\* The lists that the links form stay lists, of which every entity is in at most
\* one (what SceneGraph's loops rely on without a test of their own).
WellLinked == HierarchyTypeOK /\ ForwardLinks /\ SiblingLinks /\ Acyclic

\* No other operation makes an entity that is alive drop out of the panel's
\* tree and of SceneGraph::Update, which gives it its world matrix.
EveryEntityDrawn == lost = {} => Drawn(h, alive) = alive

\* The linked lists implement the ordered forest: an operation keeps the place
\* and the order of whatever it does not name, until links are lost.
Forest == INSTANCE OrderedForest WITH kids <- [e \in Entities |-> ChildList(h, e)]

ForestPromise ==
    Forest!Empty /\ [][lost' = {} => [Forest!ForestNext]_(Forest!forestVars)]_hierarchyVars
=============================================================================
