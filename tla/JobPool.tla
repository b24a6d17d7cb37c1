------------------------------- MODULE JobPool -------------------------------
(***************************************************************************)
(* What JobSystem.h promises to a caller, without threads or queues: a     *)
(* context collects the jobs asked of it, each is run once, and a Wait     *)
(* that returns finds every one of them done.                              *)
(***************************************************************************)
EXTENDS Integers

CONSTANTS Clients,     \* the threads that own a context and wait for it
          MaxCalls,    \* bound: Execute and Dispatch calls of one client
          UintRange    \* job counts are below it

VARIABLES open,    \* open[c]: c's context holds jobs that c has not waited for
          asked,   \* asked[c]: the jobs <<call, index>> asked of c's context
          ran,     \* ran[c]: those that have run
          runs     \* runs[c]: how many times a task has been called for them

poolVars == <<open, asked, ran, runs>>

Batch(call, jobCount) == {call} \X (0 .. jobCount - 1)

PoolInit ==
    /\ open  = [c \in Clients |-> FALSE]
    /\ asked = [c \in Clients |-> {}]
    /\ ran   = [c \in Clients |-> {}]
    /\ runs  = [c \in Clients |-> 0]

\* Execute (a batch of one) or Dispatch.
Submit(c, call, jobCount) ==
    /\ Batch(call, jobCount) \cap asked[c] = {}
    /\ open'  = [open EXCEPT ![c] = TRUE]
    /\ asked' = [asked EXCEPT ![c] = @ \cup Batch(call, jobCount)]
    /\ UNCHANGED <<ran, runs>>

\* Some thread calls the task with one job index, which has not been run.
RunOne(c, item) ==
    /\ item \in asked[c] \ ran[c]
    /\ ran'  = [ran EXCEPT ![c] = @ \cup {item}]
    /\ runs' = [runs EXCEPT ![c] = @ + 1]
    /\ UNCHANGED <<open, asked>>

\* Wait returns, and the context goes out of scope.
Return(c) ==
    /\ open[c]
    /\ ran[c] = asked[c]
    /\ open'  = [open EXCEPT ![c] = FALSE]
    /\ asked' = [asked EXCEPT ![c] = {}]
    /\ ran'   = [ran EXCEPT ![c] = {}]
    /\ runs'  = [runs EXCEPT ![c] = 0]

PoolNext ==
    \E c \in Clients :
        \/ \E call \in 1 .. MaxCalls, n \in 1 .. UintRange - 1 : Submit(c, call, n)
        \/ \E item \in asked[c] : RunOne(c, item)
        \/ Return(c)

PoolSpec == PoolInit /\ [][PoolNext]_poolVars
=============================================================================
