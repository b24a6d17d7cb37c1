------------------------------ MODULE JobSystem ------------------------------
(***************************************************************************)
(* core/JobSystem.cpp: one queue per worker thread, a round-robin cursor   *)
(* nextQueue, a condition variable on which idle workers sleep, and per    *)
(* context an atomic counter of the groups that are not finished.  Clients *)
(* (the engine's main thread) submit with Execute and Dispatch and block   *)
(* in Wait, which lends the calling thread to the pool before it spins.    *)
(*                                                                         *)
(* One action per atomic access to shared memory.  push_back and pop_front *)
(* run under the queue's SpinLock and are one action each.  wakeMutex is   *)
(* held by nobody but a worker on its way into and out of wait() and       *)
(* guards no data, so entering wait() is one action.  Every atomic uses    *)
(* the default, sequentially consistent order.                             *)
(***************************************************************************)
EXTENDS JobGroups, Sequences, FiniteSets

CONSTANTS
    NumThreads,    \* internal_state.numThreads: the queues, and the workers
    Clients,       \* the threads that submit jobs and wait for them
    JobCounts,     \* the numbers of jobs given to Dispatch
    GroupSizes,    \* the sizes of groups given to Dispatch
    MaxCalls,      \* bound: Execute and Dispatch calls of one client
    MayAbandon,    \* may a client leave without waiting for its context?
    NoJob          \* the job of a thread that holds none

Queues  == 0 .. NumThreads - 1
Workers == Queues
Threads == Workers \cup Clients

Positive == Nat \ {0}

ASSUME ConstantsAssumption ==
    /\ NumThreads \in Positive
    /\ MaxCalls \in Nat
    /\ MayAbandon \in BOOLEAN
    /\ Clients \cap Workers = {}
    /\ JobCounts \subseteq Positive
    /\ GroupSizes \subseteq Positive
    /\ UintRange > 1

\* A queue entry: the context, the call it came from (which tells apart two
\* submissions with equal ranges) and the range of job indices to run.
Job == [ctx : Clients, call : Nat, lo : Nat, hi : Nat]

ASSUME NoJobAssumption == NoJob \notin Job

VARIABLES
    queue,       \* queue[q]: the deque of queue q
    processing,  \* processing[q]: the flag set by pop_front
    nextQueue,   \* the round-robin cursor, a uint32_t
    counter,     \* counter[c]: the counter of c's context
    waiting,     \* the workers blocked in wakeCondition.wait
    alive,       \* worker_state->alive
    dtor,        \* where ~InternalState is
    drained,     \* queues whose flag ~InternalState has seen down
    pc,          \* where each thread is
    cursor,      \* cursor[t]: the queue t is about to push to or pop from
    left,        \* left[t]: the queues t's work() has still to visit
    held,        \* held[t]: the job t runs
    idx,         \* idx[t]: the next job index of held[t]
    sub,         \* sub[c]: the arguments of c's running Execute or Dispatch
    calls,       \* calls[c]: how many times c has submitted
    open,        \* open[c]: c's context is in scope and has been used
    asked,       \* asked[c]: the jobs <<call, index>> asked of that context
    ran,         \* ran[c]: those whose task has been called
    runs         \* runs[c]: how many times it has been called, for all of them

sharedVars  == <<queue, processing, nextQueue, counter, waiting>>
dtorVars    == <<alive, dtor, drained>>
threadVars  == <<pc, cursor, left, held, idx>>
clientVars  == <<sub, calls, open>>
historyVars == <<asked, ran, runs>>
vars == <<sharedVars, dtorVars, threadVars, clientVars, historyVars>>

Pool == INSTANCE JobPool
-----------------------------------------------------------------------------
NoCall == [jobCount |-> 1, groupSize |-> 1, groupID |-> 0, wake |-> "one"]

Init ==
    /\ queue      = [q \in Queues |-> <<>>]
    /\ processing = [q \in Queues |-> FALSE]
    /\ nextQueue  = 0
    /\ counter    = [c \in Clients |-> 0]
    /\ waiting    = {}
    /\ alive      = TRUE
    /\ dtor       = "none"
    /\ drained    = 0
    /\ pc         = [t \in Threads |-> IF t \in Workers THEN "loop" ELSE "idle"]
    /\ cursor     = [t \in Threads |-> 0]
    /\ left       = [t \in Threads |-> 0]
    /\ held       = [t \in Threads |-> NoJob]
    /\ idx        = [t \in Threads |-> 0]
    /\ sub        = [c \in Clients |-> NoCall]
    /\ calls      = [c \in Clients |-> 0]
    /\ open       = [c \in Clients |-> FALSE]
    /\ asked      = [c \in Clients |-> {}]
    /\ ran        = [c \in Clients |-> {}]
    /\ runs       = [c \in Clients |-> 0]

Goto(t, label) == pc' = [pc EXCEPT ![t] = label]

NextQueueUp == nextQueue' = (nextQueue + 1) % UintRange

NextGroup(call) ==
    [jobCount |-> call.jobCount, groupSize |-> call.groupSize,
     groupID |-> call.groupID + 1, wake |-> call.wake]

Groups(c) == DispatchGroupCount(sub[c].jobCount, sub[c].groupSize)

\* Mutant: a group after the first begins with the last index of the one before.
GroupJobOverlapping(c, k) ==
    [ctx  |-> c,
     call |-> calls[c],
     lo   |-> GroupJobOffset(sub[c].groupSize, k) - (IF k > 0 THEN 1 ELSE 0),
     hi   |-> GroupJobEnd(sub[c].jobCount, sub[c].groupSize, k)]

\* The queue entry of group k of c's running call.
GroupJob(c, k) ==
    [ctx  |-> c,
     call |-> calls[c],
     lo   |-> GroupJobOffset(sub[c].groupSize, k),
     hi   |-> GroupJobEnd(sub[c].jobCount, sub[c].groupSize, k)]
-----------------------------------------------------------------------------
(***************************************************************************)
(* Submission.  Execute is a Dispatch of one job in one group, except that *)
(* it wakes one worker instead of all.                                     *)
(***************************************************************************)
\* Mutant: the counter is raised by one however many groups there are.
SubmitOne(c, jobCount, groupSize, wake) ==
    /\ pc[c] = "idle"
    /\ calls[c] < MaxCalls
    /\ calls'   = [calls EXCEPT ![c] = @ + 1]
    /\ sub'     = [sub EXCEPT ![c] =
                     [jobCount |-> jobCount, groupSize |-> groupSize,
                      groupID |-> 0, wake |-> wake]]
    /\ counter' = [counter EXCEPT ![c] = @ + 1]
    /\ open'    = [open EXCEPT ![c] = TRUE]
    /\ asked'   = [asked EXCEPT ![c] = @ \cup ({calls'[c]} \X (0 .. jobCount - 1))]
    /\ Goto(c, "pick")
    /\ UNCHANGED <<queue, processing, nextQueue, waiting, dtorVars,
                   cursor, left, held, idx, ran, runs>>

\* ctx.counter.fetch_add(groupCount)
Submit(c, jobCount, groupSize, wake) ==
    /\ pc[c] = "idle"
    /\ calls[c] < MaxCalls
    /\ calls'   = [calls EXCEPT ![c] = @ + 1]
    /\ sub'     = [sub EXCEPT ![c] =
                     [jobCount |-> jobCount, groupSize |-> groupSize,
                      groupID |-> 0, wake |-> wake]]
    /\ counter' = [counter EXCEPT ![c] =
                     @ + DispatchGroupCount(jobCount, groupSize)]
    /\ open'    = [open EXCEPT ![c] = TRUE]
    /\ asked'   = [asked EXCEPT ![c] = @ \cup ({calls'[c]} \X (0 .. jobCount - 1))]
    /\ Goto(c, "pick")
    /\ UNCHANGED <<queue, processing, nextQueue, waiting, dtorVars,
                   cursor, left, held, idx, ran, runs>>

Execute(c) == Submit(c, 1, 1, "one")

\* Calls whose sum wraps are left to GroupsPartitionJobs.
Dispatch(c) ==
    \E n \in JobCounts, g \in GroupSizes : NoOverflow(n, g) /\ Submit(c, n, g, "all")

\* nextQueue.fetch_add(1) % numThreads
PickQueue(c) ==
    /\ pc[c] = "pick"
    /\ cursor' = [cursor EXCEPT ![c] = nextQueue % NumThreads]
    /\ NextQueueUp
    /\ Goto(c, "push")
    /\ UNCHANGED <<queue, processing, counter, waiting, dtorVars,
                   left, held, idx, clientVars, historyVars>>

\* push_back, and the loop over the groups
PushJob(c) ==
    /\ pc[c] = "push"
    /\ queue' = [queue EXCEPT ![cursor[c]] = Append(@, GroupJob(c, sub[c].groupID))]
    /\ sub'   = [sub EXCEPT ![c] = NextGroup(@)]
    /\ Goto(c, IF sub[c].groupID + 1 < Groups(c) THEN "pick" ELSE "notify")
    /\ UNCHANGED <<processing, nextQueue, counter, waiting, dtorVars,
                   cursor, left, held, idx, calls, open, historyVars>>

\* notify_one wakes one sleeper if there is one; notify_all wakes all.  A
\* worker that is about to sleep is not there to be woken.
Notify(c) ==
    /\ pc[c] = "notify"
    /\ \/ sub[c].wake = "all" /\ waiting' = {}
       \/ /\ sub[c].wake = "one"
          /\ \/ waiting = {} /\ UNCHANGED waiting
             \/ \E w \in waiting : waiting' = waiting \ {w}
    /\ sub' = [sub EXCEPT ![c] = NoCall]
    /\ Goto(c, "idle")
    /\ UNCHANGED <<queue, processing, nextQueue, counter, dtorVars,
                   cursor, left, held, idx, calls, open, historyVars>>
-----------------------------------------------------------------------------
(***************************************************************************)
(* work(startingQueue): drain the queue under the cursor, go to the next   *)
(* one, and stop after numThreads of them.  Workers and waiting clients    *)
(* both run it.                                                            *)
(***************************************************************************)
AfterWork(t) == IF t \in Workers THEN "sleep" ELSE "spin"

\* Mutant: the sweep starts with one queue fewer to visit.
StartWorkShort(t, q) ==
    /\ cursor' = [cursor EXCEPT ![t] = q]
    /\ left'   = [left EXCEPT ![t] = NumThreads - 1]
    /\ Goto(t, IF NumThreads = 1 THEN AfterWork(t) ELSE "pop")

StartWork(t, q) ==
    /\ cursor' = [cursor EXCEPT ![t] = q]
    /\ left'   = [left EXCEPT ![t] = NumThreads]
    /\ Goto(t, "pop")

\* pop_front on an empty queue: the sweep goes on to the next one.
PopEmpty(t) ==
    /\ pc[t] = "pop"
    /\ queue[cursor[t]] = <<>>
    /\ processing' = [processing EXCEPT ![cursor[t]] = FALSE]
    /\ cursor'     = [cursor EXCEPT ![t] = (@ + 1) % NumThreads]
    /\ left'       = [left EXCEPT ![t] = @ - 1]
    /\ Goto(t, IF left[t] = 1 THEN AfterWork(t) ELSE "pop")
    /\ UNCHANGED <<queue, nextQueue, counter, waiting, dtorVars,
                   held, idx, clientVars, historyVars>>

\* pop_front on a queue with a job
PopJob(t) ==
    /\ pc[t] = "pop"
    /\ queue[cursor[t]] # <<>>
    /\ held'       = [held EXCEPT ![t] = Head(queue[cursor[t]])]
    /\ idx'        = [idx EXCEPT ![t] = Head(queue[cursor[t]]).lo]
    /\ queue'      = [queue EXCEPT ![cursor[t]] = Tail(@)]
    /\ processing' = [processing EXCEPT ![cursor[t]] = TRUE]
    /\ Goto(t, "run")
    /\ UNCHANGED <<nextQueue, counter, waiting, dtorVars,
                   cursor, left, clientVars, historyVars>>

\* job.task(args) for one index of the group
RunIndex(t) ==
    /\ pc[t] = "run"
    /\ idx[t] < held[t].hi
    /\ ran'  = [ran EXCEPT ![held[t].ctx] = @ \cup {<<held[t].call, idx[t]>>}]
    /\ runs' = [runs EXCEPT ![held[t].ctx] = @ + 1]
    /\ idx'  = [idx EXCEPT ![t] = @ + 1]
    /\ UNCHANGED <<sharedVars, dtorVars, pc, cursor, left, held,
                   clientVars, asked>>

\* Mutant: the counter is lowered before the last index has run.
FinishJobEarly(t) ==
    /\ pc[t] = "run"
    /\ idx[t] + 1 >= held[t].hi
    /\ counter' = [counter EXCEPT ![held[t].ctx] = @ - 1]
    /\ held'    = [held EXCEPT ![t] = NoJob]
    /\ idx'     = [idx EXCEPT ![t] = 0]
    /\ Goto(t, "pop")
    /\ UNCHANGED <<queue, processing, nextQueue, waiting, dtorVars,
                   cursor, left, clientVars, historyVars>>

\* job.ctx->counter.fetch_sub(1), the last use of the context by this job
FinishJob(t) ==
    /\ pc[t] = "run"
    /\ idx[t] >= held[t].hi
    /\ counter' = [counter EXCEPT ![held[t].ctx] = @ - 1]
    /\ held'    = [held EXCEPT ![t] = NoJob]
    /\ idx'     = [idx EXCEPT ![t] = 0]
    /\ Goto(t, "pop")
    /\ UNCHANGED <<queue, processing, nextQueue, waiting, dtorVars,
                   cursor, left, clientVars, historyVars>>

Work(t) == PopEmpty(t) \/ PopJob(t) \/ RunIndex(t) \/ FinishJob(t)
-----------------------------------------------------------------------------
(***************************************************************************)
(* Wait                                                                    *)
(***************************************************************************)
\* Mutant: the last running group is not waited for.
IsBusyOffByOne(c) == counter[c] > 1

IsBusy(c) == counter[c] > 0

\* Wait returns: c's context goes out of scope.
Return(c) ==
    /\ ~IsBusy(c)
    /\ open'  = [open EXCEPT ![c] = FALSE]
    /\ asked' = [asked EXCEPT ![c] = {}]
    /\ ran'   = [ran EXCEPT ![c] = {}]
    /\ runs'  = [runs EXCEPT ![c] = 0]
    /\ Goto(c, "idle")
    /\ UNCHANGED <<sharedVars, dtorVars, cursor, left, held, idx, sub, calls>>

WaitNotBusy(c) == pc[c] = "idle" /\ open[c] /\ Return(c)

WaitBusy(c) ==
    /\ pc[c] = "idle"
    /\ open[c]
    /\ IsBusy(c)
    /\ Goto(c, "wake")
    /\ UNCHANGED <<sharedVars, dtorVars, cursor, left, held, idx,
                   clientVars, historyVars>>

WakeAll(c) ==
    /\ pc[c] = "wake"
    /\ waiting' = {}
    /\ Goto(c, "help")
    /\ UNCHANGED <<queue, processing, nextQueue, counter, dtorVars,
                   cursor, left, held, idx, clientVars, historyVars>>

\* work(nextQueue.fetch_add(1) % numThreads)
Help(c) ==
    /\ pc[c] = "help"
    /\ StartWork(c, nextQueue % NumThreads)
    /\ NextQueueUp
    /\ UNCHANGED <<queue, processing, counter, waiting, dtorVars,
                   held, idx, clientVars, historyVars>>

\* The spin loop after work(), seen when it ends.
SpinDone(c) == pc[c] = "spin" /\ Return(c)
-----------------------------------------------------------------------------
(***************************************************************************)
(* The loop of a worker thread                                             *)
(***************************************************************************)
CheckAlive(w) ==
    /\ pc[w] = "loop"
    /\ \/ alive /\ StartWork(w, w)
       \/ ~alive /\ Goto(w, "exited") /\ UNCHANGED <<cursor, left>>
    /\ UNCHANGED <<sharedVars, dtorVars, held, idx, clientVars, historyVars>>

\* wakeCondition.wait(lock): no predicate is looked at before sleeping.
Sleep(w) ==
    /\ pc[w] = "sleep"
    /\ waiting' = waiting \cup {w}
    /\ Goto(w, "asleep")
    /\ UNCHANGED <<queue, processing, nextQueue, counter, dtorVars,
                   cursor, left, held, idx, clientVars, historyVars>>

WakeUp(w) ==
    /\ pc[w] = "asleep"
    /\ w \notin waiting
    /\ Goto(w, "loop")
    /\ UNCHANGED <<sharedVars, dtorVars, cursor, left, held, idx,
                   clientVars, historyVars>>

\* The standard lets wait() return without a notification.
SpuriousWakeUp(w) ==
    /\ w \in waiting
    /\ waiting' = waiting \ {w}
    /\ UNCHANGED <<queue, processing, nextQueue, counter, dtorVars, threadVars,
                   clientVars, historyVars>>
-----------------------------------------------------------------------------
(***************************************************************************)
(* The end of the process: main returns, and the destructor of the static  *)
(* internal_state runs while the detached workers go on.                   *)
(***************************************************************************)
Leave(c) ==
    /\ pc[c] = "idle"
    /\ MayAbandon \/ ~open[c]
    /\ Goto(c, "gone")
    /\ UNCHANGED <<sharedVars, dtorVars, cursor, left, held, idx,
                   clientVars, historyVars>>

\* worker_state->alive.store(false)
StopAlive ==
    /\ dtor = "none"
    /\ \A c \in Clients : pc[c] = "gone"
    /\ alive' = FALSE
    /\ dtor' = "notify"
    /\ UNCHANGED <<sharedVars, drained, threadVars, clientVars, historyVars>>

StopNotify ==
    /\ dtor = "notify"
    /\ waiting' = {}
    /\ dtor' = "drain"
    /\ UNCHANGED <<queue, processing, nextQueue, counter, alive, drained,
                   threadVars, clientVars, historyVars>>

\* while (jobQueuePerThread[i].processing.load()), for each queue in turn;
\* after the last one the queues are freed.
StopDrain ==
    /\ dtor = "drain"
    /\ ~processing[drained]
    /\ drained' = drained + 1
    /\ dtor' = IF drained + 1 = NumThreads THEN "freed" ELSE "drain"
    /\ UNCHANGED <<sharedVars, alive, threadVars, clientVars, historyVars>>

\* The process ends here, whatever the workers do.
Ended == dtor = "freed" /\ UNCHANGED vars
-----------------------------------------------------------------------------
\* What client c does once it has called Execute, Dispatch or Wait.
ClientStep(c) ==
    \/ PickQueue(c) \/ PushJob(c) \/ Notify(c)
    \/ WakeAll(c) \/ Help(c) \/ Work(c) \/ SpinDone(c)

WorkerStep(w) == CheckAlive(w) \/ Work(w) \/ Sleep(w) \/ WakeUp(w)

Stop == StopAlive \/ StopNotify \/ StopDrain

Next ==
    \/ \E c \in Clients :
          \/ Execute(c) \/ Dispatch(c) \/ WaitNotBusy(c) \/ WaitBusy(c)
          \/ Leave(c) \/ ClientStep(c)
    \/ \E w \in Workers : WorkerStep(w) \/ SpuriousWakeUp(w)
    \/ Stop
    \/ Ended

Spec == Init /\ [][Next]_vars

\* The operating system runs every thread that is not blocked, and tasks
\* return.  Nothing obliges a client to make a call, or wait() to wake up
\* spuriously.
Fairness ==
    /\ \A c \in Clients : WF_vars(ClientStep(c))
    /\ \A w \in Workers : WF_vars(WorkerStep(w))
    /\ WF_vars(Stop)

FairSpec == Spec /\ Fairness
-----------------------------------------------------------------------------
(***************************************************************************)
(* Properties                                                              *)
(***************************************************************************)
\* Where a thread can be: in work(), and in its own part of the code.
WorkerLabels == {"loop", "pop", "run", "sleep", "asleep", "exited"}
ClientLabels == {"idle", "pick", "push", "notify", "wake", "help", "pop",
                 "run", "spin", "gone"}

SharedTypeOK ==
    /\ queue \in [Queues -> Seq(Job)]
    /\ processing \in [Queues -> BOOLEAN]
    /\ nextQueue \in Nat
    /\ counter \in [Clients -> Int]
    /\ waiting \subseteq Workers
    /\ alive \in BOOLEAN
    /\ dtor \in {"none", "notify", "drain", "freed"}
    /\ drained \in 0 .. NumThreads
    /\ dtor # "freed" => drained < NumThreads

ThreadTypeOK ==
    /\ pc \in [Threads -> WorkerLabels \cup ClientLabels]
    /\ \A w \in Workers : pc[w] \in WorkerLabels
    /\ \A c \in Clients : pc[c] \in ClientLabels
    /\ cursor \in [Threads -> Queues]
    /\ left \in [Threads -> 0 .. NumThreads]
    /\ \A t \in Threads : pc[t] \in {"pop", "run"} => left[t] > 0
    /\ held \in [Threads -> Job \cup {NoJob}]
    /\ \A t \in Threads : held[t] # NoJob <=> pc[t] = "run"
    /\ idx \in [Threads -> Nat]

ClientTypeOK ==
    /\ sub \in [Clients -> [jobCount : Positive, groupSize : Positive,
                            groupID : Nat, wake : {"one", "all"}]]
    /\ calls \in [Clients -> Nat]
    /\ open \in [Clients -> BOOLEAN]
    /\ asked \in [Clients -> SUBSET (Nat \X Nat)]
    /\ ran \in [Clients -> SUBSET (Nat \X Nat)]
    /\ runs \in [Clients -> Nat]

\* Every variable has its type; a thread holds a job exactly while it is in
\* the body of the loop of work(), and has a queue to visit while in work().
TypeOK == SharedTypeOK /\ ThreadTypeOK /\ ClientTypeOK

\* The groups of c's running call that are not yet in a queue.
Unpushed(c) ==
    IF pc[c] \in {"pick", "push"}
    THEN {GroupJob(c, k) : k \in sub[c].groupID .. Groups(c) - 1}
    ELSE {}

Elems(s) == {s[i] : i \in DOMAIN s}

Queued(c) == {j \in UNION {Elems(queue[q]) : q \in Queues} : j.ctx = c}
Held(c)   == {j \in {held[t] : t \in Threads} \ {NoJob} : j.ctx = c}

\* The groups asked of c's context that are not finished.
Outstanding(c) == Unpushed(c) \cup Queued(c) \cup Held(c)

\* A context's counter is the number of its groups that are still to be
\* pushed, queued, or running, between any two atomic operations of the
\* submitter, the thieves and the owners (Execute, Dispatch, work).
CounterExact == \A c \in Clients : counter[c] = Cardinality(Outstanding(c))

\* A running call still has a group to push, and its sum does not overflow.
CallOK ==
    \A c \in Clients :
        pc[c] \in {"pick", "push"} =>
            /\ sub[c].groupID < Groups(c)
            /\ NoOverflow(sub[c].jobCount, sub[c].groupSize)

\* A job is in one place only: still to be pushed, at one position of one
\* queue, or held by one thread.
PlacesApart ==
    /\ \A q \in Queues : \A i, j \in DOMAIN queue[q] :
         queue[q][i] = queue[q][j] => i = j
    /\ \A q, r \in Queues : q # r => Elems(queue[q]) \cap Elems(queue[r]) = {}
    /\ \A t, u \in Threads : held[t] # NoJob /\ held[t] = held[u] => t = u
    /\ \A t \in Threads, q \in Queues : held[t] \notin Elems(queue[q])
    /\ \A c \in Clients, q \in Queues : Unpushed(c) \cap Elems(queue[q]) = {}
    /\ \A c \in Clients, t \in Threads : held[t] \notin Unpushed(c)

\* No job comes from a call that its client has not made yet.
CallsMade == \A c \in Clients : \A j \in Outstanding(c) : j.call <= calls[c]

\* The inductive invariant behind CounterExact.
CounterInv ==
    /\ TypeOK
    /\ CallOK
    /\ PlacesApart
    /\ CallsMade
    /\ \A c \in Clients : IsFiniteSet(Outstanding(c))
    /\ CounterExact

\* A context, which lives on its client's stack, is in scope while any thread
\* or queue still has a job that points to it (Job::ctx).
ContextOutlivesJobs ==
    \A c \in Clients : Outstanding(c) # {} => open[c]

\* The comment in Wait: "there are still remaining jobs that work() couldn't
\* pick up.  In this case those jobs are not standing by on a queue but
\* currently executing on other threads".  A client that spins has none of
\* its jobs in any queue: each is held by another thread.
SpinOnlyOnRunning ==
    \A c \in Clients :
        pc[c] = "spin" =>
            /\ Outstanding(c) = Held(c)
            /\ held[c] = NoJob

\* When every client waits before it leaves, ~InternalState finds no job
\* queued, and none running.
QuietShutdown ==
    ~MayAbandon /\ dtor # "none" =>
        \A c \in Clients : Outstanding(c) = {}

\* Where the code takes it that no job is left in a queue, none is: in the loop
\* that Wait spins in, and when the destructor has seen every queue idle.
NothingLeftBehind == SpinOnlyOnRunning /\ QuietShutdown

\* Each job asked of a context runs once, only while it is asked for, and a Wait
\* that returns has seen all of them run.  Since the calls of tasks are counted,
\* calling one a second time for the same job is no step of the pool.
PoolPromise == Pool!PoolSpec

\* Every Wait returns: with the waiting client and the workers scheduled, no
\* lost notification can leave a job of its context behind.
InWait(c) == pc[c] \in {"wake", "help", "pop", "run", "spin"}

WaitTerminates == \A c \in Clients : InWait(c) ~> ~InWait(c)
-----------------------------------------------------------------------------
(***************************************************************************)
(* Statements of comments of the code that its behaviours do not meet.     *)
(***************************************************************************)
\* JobSystem.h:31 on Execute: any idle thread will execute the job.  So a
\* job that is in a queue does not stay there.
IdleThreadExecutes == \A c \in Clients : (Queued(c) # {}) ~> (Queued(c) = {})

\* JobSystem.cpp:99: "wait until all currently running jobs finish".  So the
\* job a worker runs when ~InternalState begins does not outlast it.
Running(w, c, call, lo) ==
    held[w] # NoJob /\ <<held[w].ctx, held[w].call, held[w].lo>> = <<c, call, lo>>

RunningJobsFinish ==
    \A w \in Workers, c \in Clients, call \in 1 .. MaxCalls, lo \in Uint :
        [](dtor = "notify" /\ Running(w, c, call, lo)
             => [](Running(w, c, call, lo) => dtor # "freed"))
=============================================================================
