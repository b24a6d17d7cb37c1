------------------------------ MODULE FrameRing ------------------------------
(***************************************************************************)
(* What the renderer relies on: the frames in flight form a ring.  The     *)
(* main thread records into one of count buffers at a time, in turn, and   *)
(* never into one whose last recording the GPU may still be reading.  The  *)
(* GPU finishes recordings in the order in which they were submitted.      *)
(*                                                                         *)
(* FrameLoop implements this promise with command buffers, fences and      *)
(* semaphores (VKSwapChain.cpp, VKCommandBuffer.cpp, VKFence.cpp);         *)
(* DescriptorSet builds on it.                                             *)
(***************************************************************************)
EXTENDS Naturals, Sequences, SequencesExt

CONSTANT MaxFrames      \* MAX_SWAPCHAIN_BUFFERS, VKSwapChain.h:11

ASSUME MaxFramesAssumption == MaxFrames \in Nat \ {0}

VARIABLES
    count,      \* buffers in the ring
    current,    \* the buffer begun last
    recording,  \* is the main thread recording into it?
    inFlight    \* buffers submitted and not finished, oldest first

ringVars == <<count, current, recording, inFlight>>

NextBuffer == (current + 1) % count

RingInit ==
    /\ count \in 1 .. MaxFrames
    /\ current = 0
    /\ recording = FALSE
    /\ inFlight = <<>>

(* Begin: the next buffer, once the GPU is done with it. *)
BeginFrame ==
    /\ ~recording
    /\ NextBuffer \notin ToSet(inFlight)
    /\ current' = NextBuffer
    /\ recording' = TRUE
    /\ UNCHANGED <<count, inFlight>>

(* End and QueueSubmit. *)
SubmitFrame ==
    /\ recording
    /\ recording' = FALSE
    /\ inFlight' = Append(inFlight, current)
    /\ UNCHANGED <<count, current>>

(* The GPU is through with the oldest submission. *)
FinishFrame ==
    /\ inFlight # <<>>
    /\ inFlight' = Tail(inFlight)
    /\ UNCHANGED <<count, current, recording>>

RingNext == BeginFrame \/ SubmitFrame \/ FinishFrame

RingSpec == RingInit /\ [][RingNext]_ringVars
=============================================================================
