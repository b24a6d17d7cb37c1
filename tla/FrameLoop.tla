------------------------------ MODULE FrameLoop ------------------------------
(***************************************************************************)
(* The frame loop of the Vulkan renderer: the main thread begins, records, *)
(* submits and presents one frame after another (VKRenderer, VKSwapChain,  *)
(* VKCommandBuffer, VKFence), while the GPU works through the submissions  *)
(* and the presentation engine shows the images.  Resources destroyed by   *)
(* the program wait in one deletion queue per buffer (VKContext.h,         *)
(* VKRenderer.h) until that buffer is begun again.                         *)
(*                                                                         *)
(* The GPU, the presentation engine and the window's surface are external. *)
(* The commands of a frame are abstracted to the set of resources they     *)
(* use, a semaphore to whether it is signalled, a fence to the state of    *)
(* its handle: m_Signaled is true only inside WaitAndReset.                *)
(***************************************************************************)
EXTENDS Integers, Sequences

CONSTANTS
    MaxImageCounts,     \* values the surface may give for maxImageCount
    Resources,          \* buffers, textures, pipelines ... of the program
    NoImage,            \* the index before the first acquire, UINT32_MAX
    MaxBehind           \* bound: submissions pending when a wait gives up

ASSUME FrameLoopAssumption ==
    /\ MaxImageCounts \subseteq Nat
    /\ NoImage \notin Nat
    /\ MaxBehind \in Nat

MaxFrames == 3          \* MAX_SWAPCHAIN_BUFFERS

VARIABLES
    count,          \* m_SwapChainBufferCount
    current,        \* m_CurrentBuffer
    acquired,       \* m_AcquireImageIndex
    phase,          \* where the main thread is between two calls
    cmdState,       \* m_State of each MainCommandBuffer
    fence,          \* is the handle of each buffer's fence signalled?
    semaphore,      \* is each PresentSemaphore signalled?
    firstSignal,    \* is semaphore 0 still as the acquire of Init left it?
    rendered,       \* is each command buffer's m_Semaphore signalled?
    images,         \* who has each image of the swapchain
    presents,       \* presentations queued, oldest first
    queue,          \* submissions the GPU has not finished, oldest first
    uses,           \* resources used by the frame being recorded
    resource,       \* state of each resource
    deletion,       \* s_DeletionQueue
    outOfDate,      \* has the surface changed since the swapchain was made?
    faults          \* history: what the frame loop has met so far of "timeout",
                    \* a fence wait that gave up after its 4.3 seconds, and
                    \* "outOfDate", an acquire that found the surface changed

main == <<count, current, acquired, phase, cmdState, uses>>
gpu == <<fence, semaphore, firstSignal, rendered, queue>>
screen == <<images, presents, outOfDate>>
trash == <<resource, deletion>>
vars == <<main, gpu, screen, trash, faults>>

Buffers == 0 .. count - 1
Phases == {"between", "acquire", "record", "present"}
CmdStates == {"Idle", "Recording", "Ended", "Submitted"}
Submissions == [buffer : 0 .. MaxFrames - 1, image : Nat \cup {NoImage},
                uses : SUBSET Resources]
Presents == [buffer : 0 .. MaxFrames - 1, image : Nat \cup {NoImage}]

Pending(b) == \E i \in DOMAIN queue : queue[i].buffer = b

(* The images the presentation engine can hand out. *)
Free == {i \in Buffers : images[i] = "free"}
----------------------------------------------------------------------------

(* VKSwapChain::Init(vsync): "Use triple-buffering". *)
BufferCount(maxImageCount) == IF maxImageCount > MaxFrames THEN MaxFrames ELSE maxImageCount

(* The window opens: the swapchain is made and Init(vsync, window) already *)
(* acquires an image, with the semaphore of buffer 0.                      *)
Init ==
    /\ \E m \in MaxImageCounts : count = BufferCount(m)
    /\ current = 0
    /\ acquired \in IF count = 0 THEN {NoImage} ELSE Buffers
    /\ phase = "between"
    /\ cmdState = [b \in Buffers |-> "Idle"]
    /\ fence = [b \in Buffers |-> FALSE]
    /\ semaphore = [b \in Buffers |-> b = 0]
    /\ firstSignal = TRUE
    /\ rendered = [b \in Buffers |-> FALSE]
    /\ images = [i \in Buffers |-> IF i = acquired THEN "held" ELSE "free"]
    /\ presents = <<>>
    /\ queue = <<>>
    /\ uses = {}
    /\ resource = [r \in Resources |-> "live"]
    /\ deletion = [b \in Buffers |-> {}]
    /\ outOfDate = FALSE
    /\ faults = {}
----------------------------------------------------------------------------
(* Mutant: one deletion queue for all buffers. *)
FlushEvery(b) ==
    /\ resource' = [r \in Resources |-> IF resource[r] = "queued" THEN "freed" ELSE resource[r]]
    /\ deletion' = [q \in Buffers |-> {}]

(* Mutant: the queue is cleared before its functions are called. *)
FlushForgets(b) ==
    /\ deletion' = [deletion EXCEPT ![b] = {}]
    /\ UNCHANGED resource

(* DeletionQueue::Flush: whatever waits in queue b is destroyed. *)
Flush(b) ==
    /\ resource' = [r \in Resources |-> IF r \in deletion[b] THEN "freed" ELSE resource[r]]
    /\ deletion' = [deletion EXCEPT ![b] = {}]

(* Mutant: the fence is polled, not waited for. *)
WaitAndResetPolls(b) ==
    /\ fence' = [fence EXCEPT ![b] = FALSE]
    /\ UNCHANGED faults

(* VKFence::WaitAndReset on a submitted command buffer: either the fence   *)
(* is signalled and is reset, or the wait times out; VKCommandBuffer::Wait *)
(* ignores which.                                                          *)
WaitAndReset(b) ==
    \/ fence[b] /\ fence' = [fence EXCEPT ![b] = FALSE] /\ UNCHANGED faults
    \/ /\ ~fence[b]
       /\ Len(queue) <= MaxBehind
       /\ faults' = faults \cup {"timeout"}
       /\ UNCHANGED fence

(* VKCommandBuffer::Wait, when Begin finds the buffer submitted. *)
WaitIfSubmitted(b) ==
    \/ /\ cmdState[b] = "Submitted"
       /\ WaitAndReset(b)
       /\ cmdState' = [cmdState EXCEPT ![b] = "Idle"]
    \/ /\ cmdState[b] # "Submitted"
       /\ UNCHANGED <<fence, cmdState, faults>>

(* Mutant: every frame uses the same buffer. *)
NextBufferSame == current

NextBuffer == (current + 1) % count

(* VKSwapChain::Begin up to AcquireNextImage: next buffer, wait for its    *)
(* last submission, reset it, and destroy what waited for it.              *)
Begin ==
    /\ phase = "between"
    /\ count > 0
    /\ current' = NextBuffer
    /\ WaitIfSubmitted(NextBuffer)
    /\ Flush(NextBuffer)
    /\ phase' = "acquire"
    /\ UNCHANGED <<count, acquired, semaphore, firstSignal, rendered, queue, uses, screen>>

(* BeginRecording follows AcquireNextImage at once. *)
BeginRecording ==
    /\ phase' = "record"
    /\ uses' = {}
    /\ cmdState' = [cmdState EXCEPT ![current] = "Recording"]

(* Mutant: whatever the number of images, only the first is acquired. *)
AlreadyAcquiredEver == acquired # NoImage

(* A swapchain of one image keeps the image it acquired first. *)
AlreadyAcquired == count = 1 /\ acquired # NoImage

(* AcquireNextImage: blocks until an image is free, and has the semaphore  *)
(* of the buffer signalled, whether or not it is signalled already.        *)
AcquireNextImage ==
    /\ phase = "acquire"
    /\ \/ /\ AlreadyAcquired
          /\ UNCHANGED <<acquired, semaphore, firstSignal, images>>
       \/ /\ ~AlreadyAcquired
          /\ ~outOfDate
          /\ \E i \in Free :
                /\ acquired' = i
                /\ images' = [images EXCEPT ![i] = "held"]
                /\ semaphore' = [semaphore EXCEPT ![current] = TRUE]
                /\ firstSignal' = (firstSignal /\ current # 0)
    /\ BeginRecording
    /\ UNCHANGED <<count, current, fence, rendered, queue, presents, outOfDate, trash, faults>>

(* OnResize, after WaitIdle: the new swapchain has new images, the old one *)
(* is destroyed once every submitted buffer has been waited for, and every *)
(* PresentSemaphore is made anew.  No image is acquired.                   *)
Recreate ==
    /\ queue = <<>>
    /\ \A b \in Buffers : cmdState[b] = "Submitted" => fence[b]
    /\ fence' = [b \in Buffers |-> fence[b] /\ cmdState[b] # "Submitted"]
    /\ semaphore' = [b \in Buffers |-> FALSE]
    /\ firstSignal' = FALSE
    /\ rendered' = [b \in Buffers |-> FALSE]
    /\ images' = [i \in Buffers |-> "free"]
    /\ presents' = <<>>
    /\ outOfDate' = FALSE

(* The window has a new size: Application::OnWindowResize. *)
OnResize ==
    /\ phase = "between"
    /\ count > 0
    /\ Recreate
    /\ cmdState' = [b \in Buffers |-> IF cmdState[b] = "Submitted" THEN "Idle" ELSE cmdState[b]]
    /\ UNCHANGED <<count, current, acquired, phase, queue, uses, trash, faults>>

(* AcquireNextImage finds the swapchain out of date: it makes a new one    *)
(* and returns, and Begin goes on to record without an image.              *)
AcquireOutOfDate ==
    /\ phase = "acquire"
    /\ ~AlreadyAcquired
    /\ outOfDate
    /\ Recreate
    /\ phase' = "record"
    /\ uses' = {}
    /\ cmdState' = [b \in Buffers |-> IF b = current THEN "Recording"
                                      ELSE IF cmdState[b] = "Submitted" THEN "Idle"
                                      ELSE cmdState[b]]
    /\ faults' = faults \cup {"outOfDate"}
    /\ UNCHANGED <<count, current, acquired, queue, trash>>
----------------------------------------------------------------------------
(* The frame's commands use a resource. *)
Use(r) ==
    /\ phase = "record"
    /\ resource[r] = "live"
    /\ uses' = uses \cup {r}
    /\ UNCHANGED <<count, current, acquired, phase, cmdState, gpu, screen, trash, faults>>

(* GetCurrentDeletionQueue: the queue of the buffer begun last. *)
DeletionIndex == current

(* The program drops a resource, while it records or between two frames:   *)
(* the destructor pushes the deletion to the current queue.                *)
Destroy(r) ==
    /\ phase \in {"between", "record"}
    /\ count > 0
    /\ resource[r] = "live"
    /\ resource' = [resource EXCEPT ![r] = "queued"]
    /\ deletion' = [deletion EXCEPT ![DeletionIndex] = @ \cup {r}]
    /\ UNCHANGED <<main, gpu, screen, faults>>

(* The program makes a new resource. *)
Create(r) ==
    /\ phase \in {"between", "record"}
    /\ resource[r] = "freed"
    /\ resource' = [resource EXCEPT ![r] = "live"]
    /\ UNCHANGED <<main, gpu, screen, deletion, faults>>

(* VKRenderer::PresentInternal up to Present: End and QueueSubmit, whose   *)
(* Execute waits for the buffer's PresentSemaphore and signals its fence.  *)
Submit ==
    /\ phase = "record"
    /\ cmdState' = [cmdState EXCEPT ![current] = "Submitted"]
    /\ queue' = Append(queue, [buffer |-> current, image |-> acquired, uses |-> uses])
    /\ uses' = {}
    /\ phase' = "present"
    /\ UNCHANGED <<count, current, acquired, fence, semaphore, firstSignal, rendered, screen,
                   trash, faults>>

(* Is m_AcquireImageIndex an image of this swapchain that it has handed    *)
(* out?  Not after an out-of-date acquire, and with one image only once.   *)
HasImage == acquired \in Buffers /\ images[acquired] = "held"

(* VKSwapChain::Present: an error is logged and nothing else.  To present  *)
(* an image that was not acquired is against the rules: the engine may     *)
(* refuse it, or take it like any other.                                   *)
Present ==
    /\ phase = "present"
    /\ \/ /\ presents' = Append(presents, [buffer |-> current, image |-> acquired])
          /\ images' = [i \in Buffers |-> IF i = acquired THEN "queued" ELSE images[i]]
       \/ ~HasImage /\ UNCHANGED <<presents, images>>
    /\ phase' = "between"
    /\ UNCHANGED <<count, current, acquired, cmdState, uses, gpu, outOfDate, trash, faults>>
----------------------------------------------------------------------------
(* The GPU takes the oldest submission once its semaphore is signalled,    *)
(* finishes it and signals the fence.                                      *)
GpuFinish ==
    /\ queue # <<>>
    /\ semaphore[Head(queue).buffer]
    /\ semaphore' = [semaphore EXCEPT ![Head(queue).buffer] = FALSE]
    /\ firstSignal' = (firstSignal /\ Head(queue).buffer # 0)
    /\ rendered' = [rendered EXCEPT ![Head(queue).buffer] = TRUE]
    /\ fence' = [fence EXCEPT ![Head(queue).buffer] = TRUE]
    /\ queue' = Tail(queue)
    /\ UNCHANGED <<main, screen, trash, faults>>

(* The presentation engine takes the oldest presentation once its commands *)
(* are done and shows it; the image shown until then becomes free.         *)
Show ==
    /\ presents # <<>>
    /\ rendered[Head(presents).buffer]
    /\ rendered' = [rendered EXCEPT ![Head(presents).buffer] = FALSE]
    /\ presents' = Tail(presents)
    /\ images' = [i \in Buffers |-> IF i = Head(presents).image THEN "shown"
                                    ELSE IF images[i] = "shown" THEN "free"
                                    ELSE images[i]]
    /\ UNCHANGED <<main, fence, semaphore, firstSignal, queue, outOfDate, trash, faults>>

(* The surface changes: the next acquire finds the swapchain out of date. *)
SurfaceChanges ==
    /\ ~outOfDate
    /\ outOfDate' = TRUE
    /\ UNCHANGED <<main, gpu, trash, images, presents, faults>>
----------------------------------------------------------------------------
Next ==
    \/ Begin \/ AcquireNextImage \/ AcquireOutOfDate \/ OnResize
    \/ Submit \/ Present
    \/ \E r \in Resources : Use(r) \/ Destroy(r) \/ Create(r)
    \/ GpuFinish \/ Show \/ SurfaceChanges

Spec == Init /\ [][Next]_vars

(* The main thread goes on drawing frames, but no wait must give up; the   *)
(* GPU and the presentation engine make progress.                          *)
MainStep ==
    /\ Begin \/ AcquireNextImage \/ AcquireOutOfDate \/ Submit \/ Present
    /\ "timeout" \in faults' => "timeout" \in faults

Fairness == WF_vars(MainStep) /\ WF_vars(GpuFinish) /\ WF_vars(Show)

FairSpec == Spec /\ Fairness
----------------------------------------------------------------------------
TypeOK ==
    /\ count \in 0 .. MaxFrames
    /\ current \in 0 .. MaxFrames - 1
    /\ acquired \in Nat \cup {NoImage}
    /\ phase \in Phases
    /\ cmdState \in [Buffers -> CmdStates]
    /\ fence \in [Buffers -> BOOLEAN]
    /\ semaphore \in [Buffers -> BOOLEAN]
    /\ firstSignal \in BOOLEAN
    /\ rendered \in [Buffers -> BOOLEAN]
    /\ images \in [Buffers -> {"free", "held", "queued", "shown"}]
    /\ presents \in Seq(Presents)
    /\ queue \in Seq(Submissions)
    /\ uses \subseteq Resources
    /\ resource \in [Resources -> {"live", "queued", "freed"}]
    /\ deletion \in [Buffers -> SUBSET Resources]
    /\ outOfDate \in BOOLEAN
    /\ count > 0 => current \in Buffers
    /\ faults \subseteq {"timeout", "outOfDate"}

(* A resource is destroyed only when no commands that the GPU may still    *)
(* execute, or that are being recorded, use it (the deletion queues), as   *)
(* long as no wait for a fence has given up.                               *)
NoUseAfterFree ==
    "timeout" \notin faults =>
        /\ \A i \in DOMAIN queue : \A r \in queue[i].uses : resource[r] # "freed"
        /\ \A r \in uses : resource[r] # "freed"

(* While the GPU may execute a command buffer, the program holds it for    *)
(* submitted, so that neither Begin nor OnResize resets it (the fences),   *)
(* as long as no wait has given up.                                        *)
PendingIsSubmitted ==
    "timeout" \notin faults =>
        \A b \in Buffers : Pending(b) => cmdState[b] = "Submitted" /\ ~fence[b]

(* Every submission that the GPU has not finished waits for a semaphore    *)
(* that the acquire of its image signals, so the GPU is never stuck.  A    *)
(* swapchain of one image, and one that was found out of date, break this. *)
SubmissionsCanRun ==
    "outOfDate" \notin faults /\ count > 1 => \A b \in Buffers : Pending(b) => semaphore[b]

(* The image that a frame draws to is one that the swapchain has handed    *)
(* out and that is not presented, and no two presentations wait with the   *)
(* same image, whatever has happened to the fences.  The frame that finds  *)
(* the swapchain out of date goes on without an image, and a swapchain of  *)
(* one image hands it out once.                                            *)
ImageExclusive ==
    count > 1 /\ "outOfDate" \notin faults =>
        /\ \A i, j \in DOMAIN presents : presents[i].image = presents[j].image => i = j
        /\ phase \in {"record", "present"} =>
              HasImage /\ \A i \in DOMAIN presents : presents[i].image # acquired

(* An acquire finds its semaphore unsignalled: the last signal was waited  *)
(* for by a submission that is finished.  Nothing waits for the signal of  *)
(* the acquire in Init, so the first frame that has buffer 0 signals its   *)
(* semaphore a second time; it is the only one.                            *)
AcquireSignalsOnce ==
    "timeout" \notin faults /\ phase = "acquire" /\ ~AlreadyAcquired /\ semaphore[current] =>
        current = 0 /\ firstSignal

(* The semaphore with which a command buffer tells the presentation engine *)
(* that it is done is not signalled again (the submission could run)       *)
(* before the engine has taken the last signal.  Nothing in the code waits *)
(* for this: it follows from there being as many images as buffers.  A     *)
(* presentation that was refused takes no signal.                          *)
SignalTaken ==
    "outOfDate" \notin faults =>
        \A b \in Buffers : Pending(b) /\ semaphore[b] => ~rendered[b]

(* What is submitted is legal: nothing the GPU may still execute is reset  *)
(* or waited for twice, an image is drawn and presented by the frame that  *)
(* acquired it, and a semaphore is signalled when its last signal has been *)
(* taken.  Excepted are, each in its part, the frames after one that found *)
(* the swapchain out of date, those after a wait that gave up, swapchains  *)
(* of one image, and the signal that Init leaves behind.                   *)
SubmissionsLegal ==
    /\ TypeOK /\ PendingIsSubmitted /\ SubmissionsCanRun
    /\ ImageExclusive /\ AcquireSignalsOnce /\ SignalTaken

(* The frame loop implements the ring of frames in flight, until a wait    *)
(* gives up.                                                               *)
Ring == INSTANCE FrameRing WITH
    recording <- phase \in {"acquire", "record"},
    inFlight <- [i \in DOMAIN queue |-> queue[i].buffer]
RingPromise ==
    Ring!RingInit /\ []["timeout" \notin faults' => [Ring!RingNext]_(Ring!ringVars)]_vars

(* With three buffers and no faults, frames keep coming: the main thread   *)
(* is never stuck in Begin ...                                             *)
Smooth == count = MaxFrames /\ [](faults = {})
FramesKeepComing == Smooth => []<>(phase = "present")

(* ... and what the program drops is destroyed some day.                   *)
DroppedIsFreed ==
    Smooth => \A r \in Resources : resource[r] = "queued" ~> resource[r] = "freed"
=============================================================================
