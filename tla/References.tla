----------------------------- MODULE References -----------------------------
(***************************************************************************)
(* The program's own smart pointers: Reference, which is its SharedPtr,    *)
(* and Owned, its UniquePtr.                                               *)
(*                                                                         *)
(* A memory is a record: the objects on the heap, the counts of the        *)
(* counters (0 for one that is free), the References by the names of their *)
(* holders, the Owned pointers by theirs, and whether every delete so far  *)
(* was of an object that existed.  Objects of a kind are numbered, and so  *)
(* are the counters that are made for them.  Only the main thread copies   *)
(* References.                                                             *)
(***************************************************************************)
EXTENDS Integers, FiniteSets

Null == <<"null", 0>>
Nil == [ptr |-> Null, counter |-> Null]

EmptyMemory(references, owners, kinds, size) ==
    [objects |-> {}, counts |-> [c \in kinds \X (1 .. size) |-> 0],
     refs |-> [h \in references |-> Nil], owned |-> [h \in owners |-> Null], sound |-> TRUE]

\* operator new takes what is free.
Free(free, kind) == CHOOSE o \in free : o[1] = kind
FreeObject(m, kind) == Free(DOMAIN m.counts \ m.objects, kind)
FreeCounter(m, kind) == Free({c \in DOMAIN m.counts : m.counts[c] = 0}, kind)

Allocate(m, o) == [m EXCEPT !.objects = @ \cup {o}]

\* operator delete; nothing happens to the null pointer.
Delete(m, o) ==
    [m EXCEPT !.objects = @ \ {o}, !.sound = @ /\ o \in m.objects \cup {Null}]

-----------------------------------------------------------------------------
(* Reference. *)

\* unref: the last one deletes the object and the counter; otherwise the
\* pointers stay as they were.
Unref(m, h) ==
    LET r == m.refs[h]
        lower == [m EXCEPT !.counts[r.counter] = @ - 1]
    IN  IF r.counter = Null THEN m
        ELSE IF m.counts[r.counter] # 1 THEN lower
        ELSE Delete([lower EXCEPT !.refs[h] = Nil], r.ptr)

\* Points to what another points to, and counts it.
Share(m, h, r) ==
    IF r.ptr = Null \/ r.counter = Null THEN [m EXCEPT !.refs[h] = Nil]
    ELSE [m EXCEPT !.refs[h] = r, !.counts[r.counter] = @ + 1]

\* ref, which is both assignments; the one that moves copies as well.
Assign(m, h, from) ==
    IF m.refs[from].ptr = m.refs[h].ptr THEN m ELSE Share(Unref(m, h), h, m.refs[from])

\* Mutant: what was pointed to before is forgotten.
AssignOnly(m, h, from) ==
    IF m.refs[from].ptr = m.refs[h].ptr THEN m ELSE Share(m, h, m.refs[from])

\* The constructors that copy and move.
Copied(m, h, from) == Assign([m EXCEPT !.refs[h] = Nil], h, from)

\* refPointer, for an object that was made just before.
Holding(m, h, o) ==
    LET c == FreeCounter(m, o[1])
    IN  [m EXCEPT !.refs[h] = [ptr |-> o, counter |-> c], !.counts[c] = 1]

CreateSharedPtr(m, h, kind) ==
    LET o == FreeObject(m, kind) IN Holding(Allocate(m, o), h, o)

\* ~Reference.
Destroyed(m, h) == [Unref(m, h) EXCEPT !.refs[h] = Nil]

\* References that go one after the other, in any order: an object goes with
\* the last that holds it.
DestroyAll(m, holders) ==
    LET held == {h \in holders : m.refs[h].counter # Null}
        left == [c \in DOMAIN m.counts |-> m.counts[c] - Cardinality({h \in held : m.refs[h].counter = c})]
        freed == {m.refs[h].ptr : h \in {g \in held : left[m.refs[g].counter] = 0}}
    IN  [objects |-> m.objects \ freed, counts |-> left, owned |-> m.owned,
         refs |-> [h \in DOMAIN m.refs |-> IF h \in holders THEN Nil ELSE m.refs[h]],
         sound |-> m.sound /\ freed \subseteq m.objects]

\* reset to a new object, or to none.
Reset(m, h, o) ==
    LET gone == [Unref(m, h) EXCEPT !.refs[h] = Nil] IN IF o = Null THEN gone ELSE Holding(gone, h, o)

\* The assignment from a Reference of another type: a null pointer is one that
\* cannot be cast, and then the pointers stay although the count went down.
CastAssign(m, h, from) ==
    IF m.refs[from].ptr = Null THEN Unref(m, h)
    ELSE LET left == Unref(m, h)
         IN  IF m.refs[from].counter # Null THEN Share(left, h, m.refs[from]) ELSE left

-----------------------------------------------------------------------------
(* Owned. *)

CreateUniquePtr(m, h, kind) ==
    LET o == FreeObject(m, kind) IN [Allocate(m, o) EXCEPT !.owned[h] = o]

\* Construction and assignment from another that is about to go.
MoveOwned(m, h, from) == [m EXCEPT !.owned[h] = m.owned[from], !.owned[from] = m.owned[h]]

\* reset and ~Owned.
ResetOwned(m, h) == Delete([m EXCEPT !.owned[h] = Null], m.owned[h])
=============================================================================
