---------------------------- MODULE AssetLibrary ----------------------------
(***************************************************************************)
(* The libraries of models and shaders, with the components and materials  *)
(* that share what is in them, the other users of smart pointers in the    *)
(* program, and its end.  A library's map has no order: its first entry is  *)
(* any of them.                                                            *)
(***************************************************************************)
EXTENDS References, Functions

CONSTANTS
    Holders,            \* The entities that may have a model and a material.
    Files,              \* The files of models.
    ExpirationTime,     \* m_ExpirationTime, in steps of the clock.
    MaxTime,            \* Bound: the clock stops.
    MaxObjects          \* Bound: the objects of a kind there are at a time.

ASSUME LibraryAssumption ==
    /\ IsFiniteSet(Holders) /\ IsFiniteSet(Files)
    /\ Files \cap {"ForwardPBR", "Primitive", "controller", "indices", "manager", "null"} = {}
    /\ ExpirationTime \in Nat /\ MaxTime \in Nat /\ MaxObjects \in Nat \ {0}

VARIABLES
    memory,             \* See References.
    library,            \* The map of models: the names with the time of their last use.
    clock,              \* Engine::GetTimeStep().GetElapsedSeconds().
    running             \* Before OnQuit.

libraryVars == <<memory, library, clock, running>>

ForwardPBR == "ForwardPBR"

Entry(name) == <<"entry", name>>
ModelRef(e) == <<"model", e>>
ShaderRef(e) == <<"shader", e>>
CameraController == <<"controller", "camera">>
MeshIndices == <<"indices", "mesh">>
Local(k) == <<"local", k>>
Manager == <<"manager", "application">>
Temporary == <<"manager", "temporary">>

ComponentRefs == {ModelRef(e) : e \in Holders} \cup {ShaderRef(e) : e \in Holders} \cup {CameraController}
AllReferences ==
    {Entry(n) : n \in Files \cup {ForwardPBR}} \cup ComponentRefs \cup {MeshIndices}
    \cup {Local(k) : k \in {"result", "new", "made"}}

\* The library of shaders, which never forgets any: Update is not called.
ShaderEntries == [name \in {ForwardPBR} |-> 0]

ObjectKinds == Files \cup {ForwardPBR, "Primitive", "controller", "indices", "manager"}

\* There is one more object of the kind, and a counter for it.
HasRoom(kind) ==
    \E o, c \in DOMAIN memory.counts :
        o[1] = kind /\ o \notin memory.objects /\ c[1] = kind /\ memory.counts[c] = 0

-----------------------------------------------------------------------------
(* ResourceManager. *)

\* What is made for a name that is new; the result is a local of the caller's.
LoadResource(m, name) ==
    LET made == CreateSharedPtr(m, Local("made"), name)
    IN  Destroyed(Assign(made, Local("result"), Local("made")), Local("made"))

\* newResource, and the copy of it that emplace makes.
Emplaced(m, name) ==
    LET new == Assign(m, Local("new"), Local("result"))
    IN  Destroyed(Copied(new, Entry(name), Local("new")), Local("new"))

GetResource(m, map, name) ==
    IF name \in DOMAIN map THEN Copied(m, Local("result"), Entry(name))
    ELSE Emplaced(LoadResource(m, name), name)

\* The map after: an entry was used, or comes in.
Entered(map, name, time) == [n \in DOMAIN map \cup {name} |-> IF n = name THEN time ELSE map[n]]

\* AddResource, of what was made for it: an entry of that name gets it.
AddResource(m, map, name) ==
    LET given == CreateSharedPtr(m, Local("result"), name)
        set == IF name \in DOMAIN map THEN Assign(given, Entry(name), Local("result")) ELSE Emplaced(given, name)
    IN  Destroyed(set, Local("result"))

\* Mutant: entries go although they are held.
ToDeleteHeld(m, map, time, first) == {n \in DOMAIN map : ExpirationTime < time - map[first]}

\* What Update finds: entries nobody else holds.  How long ago they were used
\* is asked of the first entry, instead of each.
ToDelete(m, map, time, first) ==
    {n \in DOMAIN map : /\ m.counts[m.refs[Entry(n)].counter] = 1
                        /\ ExpirationTime < time - map[first]}

\* Every frame.
UpdateLibrary(first) ==
    LET gone == ToDelete(memory, library, clock, first)
    IN  /\ running
        /\ library' = Restrict(library, DOMAIN library \ gone)
        /\ memory' = DestroyAll(memory, {Entry(n) : n \in gone})
        /\ UNCHANGED <<clock, running>>

-----------------------------------------------------------------------------
(* Who uses them. *)

\* A holder gets the result of a call.
GivenTo(m, holder) == Destroyed(Assign(m, holder, Local("result")), Local("result"))

LoadFromLibrary(e, name) ==
    /\ running /\ HasRoom(name)
    /\ library' = Entered(library, name, clock)
    /\ memory' = GivenTo(GetResource(memory, library, name), ModelRef(e))
    /\ UNCHANGED <<clock, running>>

SetShader(e) ==
    /\ running
    /\ memory' = GivenTo(GetResource(memory, ShaderEntries, ForwardPBR), ShaderRef(e))
    /\ UNCHANGED <<library, clock, running>>

LoadPrimitive(e) ==
    /\ running /\ HasRoom("Primitive")
    /\ memory' = GivenTo(CreateSharedPtr(memory, Local("result"), "Primitive"), ModelRef(e))
    /\ UNCHANGED <<library, clock, running>>

\* A new entity, whose components are copies.
CopyComponents(e, f) ==
    /\ running /\ memory.refs[ModelRef(e)] # Nil
    /\ memory.refs[ModelRef(f)] = Nil /\ memory.refs[ShaderRef(f)] = Nil
    /\ memory' = Copied(Copied(memory, ModelRef(f), ModelRef(e)), ShaderRef(f), ShaderRef(e))
    /\ UNCHANGED <<library, clock, running>>

DestroyHolder(e) ==
    /\ running
    /\ memory' = DestroyAll(memory, {ModelRef(e), ShaderRef(e)})
    /\ UNCHANGED <<library, clock, running>>

\* A new controller, or none for Custom.
SetControllerType(custom) ==
    LET made == CreateSharedPtr(memory, Local("result"), "controller")
    IN  /\ running /\ HasRoom("controller")
        /\ memory' = IF custom THEN Reset(memory, CameraController, Null)
                     ELSE Destroyed(CastAssign(made, CameraController, Local("result")), Local("result"))
        /\ UNCHANGED <<library, clock, running>>

\* The functions of MeshFactory reset a local to a buffer they have made, and
\* the mesh gets it; those of the engine's own meshes are there from the start.
CreateMeshIndices(m) ==
    LET o == FreeObject(m, "indices")
    IN  GivenTo(Reset(Allocate(m, o), Local("result"), o), MeshIndices)

\* A second scene manager takes the place of the first, which takes its scenes
\* and their entities with it.
ReplaceManager ==
    LET made == MoveOwned(CreateUniquePtr(memory, Temporary, "manager"), Manager, Temporary)
    IN  /\ running /\ HasRoom("manager")
        /\ memory' = DestroyAll(ResetOwned(made, Temporary), ComponentRefs)
        /\ UNCHANGED <<library, clock, running>>

\* A frame of the clock.
Elapse ==
    /\ running /\ clock < MaxTime /\ clock' = clock + 1
    /\ UNCHANGED <<memory, library, running>>

\* The libraries go before the scenes, and the meshes of the engine last.
QuitLibraries ==
    LET entries(map) == {Entry(n) : n \in DOMAIN map}
        libraries == DestroyAll(DestroyAll(memory, entries(ShaderEntries)), entries(library))
    IN  /\ running /\ running' = FALSE
        /\ memory' = Destroyed(DestroyAll(ResetOwned(libraries, Manager), ComponentRefs), MeshIndices)
        /\ library' = [n \in {} |-> 0]
        /\ UNCHANGED clock

LibraryInit ==
    LET empty == EmptyMemory(AllReferences, {Manager, Temporary}, ObjectKinds, MaxObjects)
    IN  /\ memory = CreateUniquePtr(AddResource(CreateMeshIndices(empty), [n \in {} |-> 0], ForwardPBR), Manager, "manager")
        /\ library = [n \in {} |-> 0]
        /\ clock = 0 /\ running = TRUE

LibraryNext ==
    \/ (\E first \in DOMAIN library : UpdateLibrary(first)) \/ Elapse \/ ReplaceManager \/ QuitLibraries
    \/ \E e \in Holders : SetShader(e) \/ LoadPrimitive(e) \/ DestroyHolder(e)
    \/ \E e \in Holders, name \in Files : LoadFromLibrary(e, name)
    \/ \E e, f \in Holders : CopyComponents(e, f)
    \/ \E custom \in BOOLEAN : SetControllerType(custom)

LibrarySpec == LibraryInit /\ [][LibraryNext]_libraryVars
-----------------------------------------------------------------------------
\* Every counter counts the References there are, an object lives as long as
\* it is held, has one counter or one owner, and is deleted once; after
\* OnQuit nothing is left (Reference, Owned and everyone who uses them).
CountsExact ==
    LET held(c) == {h \in AllReferences : memory.refs[h].counter = c}
        owners(o) == {h \in DOMAIN memory.owned : memory.owned[h] = o}
    IN  /\ memory.sound
        /\ \A c \in DOMAIN memory.counts : memory.counts[c] = Cardinality(held(c))
        /\ \A h, g \in AllReferences :
             (memory.refs[h].ptr = memory.refs[g].ptr) = (memory.refs[h].counter = memory.refs[g].counter)
        /\ \A o \in DOMAIN memory.counts :
             LET holders == {h \in AllReferences : memory.refs[h].ptr = o}
             IN  IF o \in memory.objects
                 THEN (holders # {}) = (owners(o) = {}) /\ Cardinality(owners(o)) <= 1
                 ELSE holders \cup owners(o) = {}
        /\ ~running => memory.objects = {}

\* Entities with a model of the same file share it, with the library, however
\* long ago it was loaded and whatever was deleted since.
OneCopy ==
    \A e \in Holders :
        LET r == memory.refs[ModelRef(e)]
        IN  running /\ r.ptr[1] \in Files => r.ptr[1] \in DOMAIN library /\ memory.refs[Entry(r.ptr[1])] = r

\* What is shared is shared by all, and what is owned has an owner.
OwnershipExact == CountsExact /\ OneCopy
=============================================================================
