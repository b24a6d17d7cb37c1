---------------------------- MODULE DescriptorSet ----------------------------
(***************************************************************************)
(* A descriptor set of the Vulkan renderer (VKDescriptorSet.cpp) with one  *)
(* uniform buffer and one texture.  The program has one object, the GPU    *)
(* one copy of it per frame in flight: setting a value marks every copy as *)
(* out of date, Update brings the copy of the current frame up to date.    *)
(*                                                                         *)
(* The frames in flight are those of FrameRing, which FrameLoop            *)
(* implements.  The GPU may read what a frame has bound at any time until  *)
(* it finishes that frame.                                                 *)
(***************************************************************************)
EXTENDS FrameRing

CONSTANTS
    Data,           \* contents of the uniform buffer
    Textures,       \* textures the set can name
    Unset           \* no value yet: zeros, null, or uninitialised memory

ASSUME DescriptorSetAssumption == Unset \notin Data \cup Textures

VARIABLES
    storage,        \* LocalStorage
    texture,        \* the texture of m_Descriptors
    hasUpdated,     \* HasUpdated of each frame: storage is newer
    dirty,          \* m_DescriptorDirty of each frame
    updated,        \* m_DescriptorUpdated of each frame
    uniform,        \* what m_UniformBuffers of each frame holds
    written,        \* the texture in m_DescriptorSet of each frame
    draws,          \* what the commands of each frame are meant to read
    special         \* history: which uses other than one update per frame the
                    \* program has made of the set

setVars == <<storage, texture, hasUpdated, dirty, updated, uniform, written>>
vars == <<ringVars, setVars, draws, special>>

(* "edit": a material is edited while no frame is recorded.                *)
(* "redraw": the set is changed and bound again within one frame.          *)
SpecialUses == {"edit", "redraw"}

Frames == 0 .. count - 1

Init ==
    /\ RingInit
    /\ storage = Unset
    /\ texture = Unset
    /\ hasUpdated = [f \in Frames |-> FALSE]
    /\ dirty = [f \in Frames |-> TRUE]
    /\ updated = [f \in Frames |-> FALSE]
    /\ uniform = [f \in Frames |-> Unset]
    /\ written = [f \in Frames |-> Unset]
    /\ draws = [f \in Frames |-> {}]
    /\ special = {}
----------------------------------------------------------------------------
(* Mutant: only the copy of the current frame is marked. *)
MarkCurrent(flags) == [flags EXCEPT ![current] = TRUE]

(* Mutant: the flags of all frames are cleared with the first. *)
ClearEvery(flags) == [f \in Frames |-> FALSE]

(* Mutant: the copies of all frames are written at once. *)
WriteEvery(copies, value) == [f \in Frames |-> value]

(* A new value concerns the copies of all frames ... *)
Mark(flags) == [f \in Frames |-> TRUE]

(* ... and reaches them one by one. *)
Clear(flags) == [flags EXCEPT ![current] = FALSE]
Write(copies, value) == [copies EXCEPT ![current] = value]

(* SetUniform, SetUniformBufferData. *)
SetUniform(d) ==
    /\ storage' = d
    /\ hasUpdated' = Mark(hasUpdated)
    /\ UNCHANGED <<texture, dirty, updated, uniform, written, ringVars, draws, special>>

(* SetTexture. *)
SetTexture(t) ==
    /\ texture' = t
    /\ dirty' = Mark(dirty)
    /\ UNCHANGED <<storage, hasUpdated, updated, uniform, written, ringVars, draws, special>>

(* The part of Update that copies LocalStorage to the uniform buffer. *)
UpdateUniform(data, flags) ==
    IF flags[current]
    THEN uniform' = Write(uniform, data) /\ hasUpdated' = Clear(flags)
    ELSE uniform' = uniform /\ hasUpdated' = flags

(* The part of Update that writes the descriptors; a texture that is null  *)
(* is left out.                                                            *)
UpdateDescriptors ==
    IF dirty[current] \/ ~updated[current]
    THEN /\ written' = IF texture = Unset THEN written ELSE Write(written, texture)
         /\ dirty' = Clear(dirty)
         /\ updated' = [updated EXCEPT ![current] = TRUE]
    ELSE UNCHANGED <<written, dirty, updated>>

Update == UpdateUniform(storage, hasUpdated) /\ UpdateDescriptors

(* The bloom passes use one set for several images within a frame.         *)
Redraw == draws[current] # {} /\ (hasUpdated[current] \/ dirty[current])

(* A renderer updates the set and binds it for a draw.                     *)
Draw ==
    /\ recording
    /\ storage # Unset /\ texture # Unset
    /\ Update
    /\ draws' = [draws EXCEPT ![current] = @ \cup {[data |-> storage, texture |-> texture]}]
    /\ special' = IF Redraw THEN special \cup {"redraw"} ELSE special
    /\ UNCHANGED <<storage, texture, ringVars>>

(* Material::SetMaterialProperites, which the inspector calls while no     *)
(* frame is recorded: it sets the buffer and updates the set.              *)
EditMaterial(d) ==
    /\ ~recording
    /\ storage' = d
    /\ UpdateUniform(d, Mark(hasUpdated))
    /\ UpdateDescriptors
    /\ special' = special \cup {"edit"}
    /\ UNCHANGED <<texture, ringVars, draws>>

(* The frame loop: Begin resets the commands of the buffer. *)
Ring ==
    \/ /\ BeginFrame
       /\ draws' = [draws EXCEPT ![NextBuffer] = {}]
       /\ UNCHANGED <<setVars, special>>
    \/ (SubmitFrame \/ FinishFrame) /\ UNCHANGED <<setVars, draws, special>>

Next ==
    \/ \E d \in Data : SetUniform(d) \/ EditMaterial(d)
    \/ \E t \in Textures : SetTexture(t)
    \/ Draw
    \/ Ring

Spec == Init /\ [][Next]_vars
----------------------------------------------------------------------------
TypeOK ==
    /\ count \in 1 .. MaxFrames
    /\ current \in Frames
    /\ recording \in BOOLEAN
    /\ inFlight \in Seq(Frames)
    /\ storage \in Data \cup {Unset}
    /\ texture \in Textures \cup {Unset}
    /\ hasUpdated \in [Frames -> BOOLEAN]
    /\ dirty \in [Frames -> BOOLEAN]
    /\ updated \in [Frames -> BOOLEAN]
    /\ uniform \in [Frames -> Data \cup {Unset}]
    /\ written \in [Frames -> Textures \cup {Unset}]
    /\ draws \in [Frames -> SUBSET [data : Data, texture : Textures]]
    /\ special \subseteq SpecialUses

(* A copy that is not marked is up to date: the three pairs of flags that  *)
(* SetUniform, SetTexture and Update keep never hide a newer value.        *)
UnmarkedIsFresh ==
    \A f \in Frames :
        /\ ~hasUpdated[f] => uniform[f] = storage
        /\ ~dirty[f] => updated[f] /\ written[f] = texture

(* Whatever the program sets later, the commands of a frame read what was  *)
(* set when they were recorded, until the GPU has finished them, provided  *)
(* that the set is updated once per frame while the frame is recorded.     *)
DrawsSeeTheirData ==
    special = {} =>
        \A f \in Frames :
            f \in ToSet(inFlight) \/ (recording /\ f = current) =>
                \A d \in draws[f] : uniform[f] = d.data /\ written[f] = d.texture

(* Nothing is written to the copy of a frame whose commands the GPU may be *)
(* executing, if they use the set.                                         *)
InFlightKept ==
    \A f \in ToSet(inFlight) :
        draws[f] # {} => uniform'[f] = uniform[f] /\ written'[f] = written[f]

(* So it is as long as no material is edited between two frames.           *)
InFlightUntouched == [][("edit" \notin special') => InFlightKept]_vars
=============================================================================
