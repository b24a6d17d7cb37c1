------------------------------ MODULE JobGroups ------------------------------
(***************************************************************************)
(* The arithmetic with which JobSystem::Dispatch cuts jobCount jobs into   *)
(* groups of groupSize: how many groups there are, and the half-open range *)
(* [groupJobOffset, groupJobEnd) of job indices of each.  Every operand is *)
(* a uint32_t, so every sum and product is taken modulo UintRange.         *)
(***************************************************************************)
EXTENDS Integers

CONSTANT UintRange   \* 2^32 in the code

ASSUME UintRangeAssumption == UintRange \in Nat \ {0}

Uint == 0 .. UintRange - 1
-----------------------------------------------------------------------------
\* Mutants of the operators below.
RoundDownCount(jobCount, groupSize) == jobCount \div groupSize
-----------------------------------------------------------------------------
\* DispatchGroupCount: jobCount / groupSize, rounded up.
DispatchGroupCount(jobCount, groupSize) ==
    ((jobCount + groupSize - 1) % UintRange) \div groupSize

GroupJobOffset(groupSize, groupID) == (groupID * groupSize) % UintRange

\* std::min(job.groupJobOffset + groupSize, jobCount)
GroupJobEnd(jobCount, groupSize, groupID) ==
    LET end == (GroupJobOffset(groupSize, groupID) + groupSize) % UintRange
    IN  IF end < jobCount THEN end ELSE jobCount

\* The job indices that group groupID runs.
GroupIndices(jobCount, groupSize, groupID) ==
    GroupJobOffset(groupSize, groupID) ..
        GroupJobEnd(jobCount, groupSize, groupID) - 1

GroupIDs(jobCount, groupSize) == 0 .. DispatchGroupCount(jobCount, groupSize) - 1
-----------------------------------------------------------------------------
\* The sum in DispatchGroupCount stays within a uint32_t.
NoOverflow(jobCount, groupSize) == jobCount + groupSize - 1 < UintRange

\* Every index is in a group, and in one group only.
Partition(jobCount, groupSize) ==
    /\ \A i \in 0 .. jobCount - 1 :
         \E k \in GroupIDs(jobCount, groupSize) :
            i \in GroupIndices(jobCount, groupSize, k)
    /\ \A k, l \in GroupIDs(jobCount, groupSize) :
         k # l => GroupIndices(jobCount, groupSize, k)
                    \cap GroupIndices(jobCount, groupSize, l) = {}

\* No group is empty, longer than groupSize, or outside 0 .. jobCount - 1.
GroupsFit(jobCount, groupSize) ==
    \A k \in GroupIDs(jobCount, groupSize) :
        LET lo == GroupJobOffset(groupSize, k)
            hi == GroupJobEnd(jobCount, groupSize, k)
        IN  0 <= lo /\ lo < hi /\ hi <= jobCount /\ hi - lo <= groupSize
=============================================================================
