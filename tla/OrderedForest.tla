--------------------------- MODULE OrderedForest ---------------------------
(***************************************************************************)
(* What the scene hierarchy promises the editor: the entities of a scene   *)
(* form an ordered forest.  An operation creates a root, or a last child;  *)
(* moves a subtree to the end of a node's children or makes it a root;     *)
(* copies a subtree; deletes a subtree; or replaces the whole scene.       *)
(* Whatever an operation does not name keeps its place and its order.      *)
(***************************************************************************)
EXTENDS Naturals, SequencesExt, Functions

CONSTANT MaxEntities

Entities == 1 .. MaxEntities

VARIABLES
    alive,  \* the entities of the scene
    kids    \* kids[e]: the children of e, in order

forestVars == <<alive, kids>>

\* e and all that is below it, in the forest k: what every set has that has e
\* and the children of its members.
Subtree(k, e) ==
    LET Links == UNION {{x} \X ToSet(k[x]) : x \in Entities}
        Families == {S \in SUBSET Entities :
                        e \in S /\ \A l \in Links : l[1] \in S => l[2] \in S}
    IN  {y \in Entities : \A S \in Families : y \in S}

\* The scene after e has been taken out of every list.
Without(k, e) == [x \in Entities |-> RemoveFirst(k[x], e)]

Empty == alive = {} /\ kids = [e \in Entities |-> <<>>]

Create(e) ==
    /\ e \notin alive
    /\ alive' = alive \cup {e}
    /\ UNCHANGED kids

CreateBelow(e, p) ==
    /\ e \notin alive
    /\ p \in alive
    /\ alive' = alive \cup {e}
    /\ kids' = [kids EXCEPT ![p] = Append(@, e)]

MoveBelow(e, p) ==
    /\ e \in alive /\ p \in alive
    /\ UNCHANGED alive
    /\ e \in ToSet(kids'[p])
    /\ kids' = [Without(kids, e) EXCEPT ![p] = Append(@, e)]
    /\ p \notin Subtree(kids, e)

MakeRoot(e) ==
    /\ e \in alive
    /\ UNCHANGED alive
    /\ kids' = Without(kids, e)

\* The new entities are copies, one of each entity of e's subtree, with children
\* that are the copies of its children in their order; that of e is a root or the
\* last child of p.
Copy(e, p) ==
    /\ e \in alive
    /\ alive \subseteq alive' /\ alive # alive'
    /\ \A x \in alive \ {p} : kids'[x] = kids[x]
    /\ \A x \in Entities \ alive' : kids'[x] = <<>>
    /\ \E copy \in Bijection(Subtree(kids, e), alive' \ alive) :
          /\ \A x \in DOMAIN copy :
                kids'[copy[x]] = [i \in DOMAIN kids[x] |-> copy[kids[x][i]]]
          /\ p # 0 => kids'[p] = Append(kids[p], copy[e])

Delete(e) ==
    /\ e \in alive \ alive'
    /\ alive' = alive \ Subtree(kids, e)
    /\ kids' = [x \in Entities |-> IF x \in alive' THEN RemoveFirst(kids[x], e) ELSE <<>>]

Clear ==
    /\ alive' = {}
    /\ kids' = [x \in Entities |-> <<>>]

\* A file brings a forest into an empty scene.
Load ==
    /\ alive = {}
    /\ alive' \subseteq Entities
    /\ \A x \in Entities : ToSet(kids'[x]) \subseteq alive'

ForestNext ==
    \/ \E e \in Entities :
          \/ Create(e) \/ MakeRoot(e) \/ Delete(e)
          \/ \E p \in alive : CreateBelow(e, p) \/ MoveBelow(e, p) \/ Copy(e, p)
          \/ Copy(e, 0)
    \/ Clear
    \/ Load

ForestSpec == Empty /\ [][ForestNext]_forestVars
=============================================================================
