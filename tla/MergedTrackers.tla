--------------------------- MODULE MergedTrackers ---------------------------
(***************************************************************************)
(* count_unique_sequences of benchmarks/benchmark_support.h: how many      *)
(* sequences at least one of several trackers has recorded.                *)
(*                                                                         *)
(* The benchmark leaves this call to others (its unit test makes it).      *)
(* Here it is made for the trackers that a trial has left behind, once all *)
(* its threads have been joined: these are trackers as record() makes them *)
(* from any mixture of gaps, up to the largest sequence.  The call itself  *)
(* runs alone, one step for the sort and one for each turn of its loop.    *)
(***************************************************************************)
EXTENDS MulticastHarnesses

VARIABLES
    counting,           \* "no", "loop" or "done": where the call is
    sorted,             \* its variable ranges, once sorted
    index,              \* the last element of it that has been merged
    current,            \* the range that is being put together
    count               \* the sequences in the ranges before; at last the result

call == <<counting, sorted, index, current, count>>
countvars == <<allvars, call>>

\* Arithmetic in the type of a sequence.
InType(x) == x % (MaxSequence + 1)

NoRange == SequenceRange(0, 0)

CountInit ==
    /\ HarnessInit
    /\ counting = "no"
    /\ sorted = << >>
    /\ index = 0
    /\ current = NoRange
    /\ count = 0

\* Where the ranges of all trackers are.
Places == UNION {{h} \X DOMAIN ranges[h] : h \in Handles}

\* The order they are sorted in.
Before(left, right) ==
    left.first < right.first \/ (left.first = right.first /\ left.last < right.last)

Calls == test = "benchmark" /\ Joined /\ counting = "no"

CountsNothing ==
    /\ Calls
    /\ Places = {}
    /\ counting' = "done"
    /\ UNCHANGED <<allvars, sorted, index, current, count>>

\* All ranges are put in a row and sorted; the first one is the current one.
Sorts ==
    /\ Calls
    /\ Places # {}
    /\ \E order \in Bijection(1..Cardinality(Places), Places) :
           sorted' = [k \in DOMAIN order |-> ranges[order[k][1]][order[k][2]]]
    /\ \A k \in 1..(Len(sorted') - 1) : ~ Before(sorted'[k + 1], sorted'[k])
    /\ counting' = "loop"
    /\ index' = 1
    /\ current' = sorted'[1]
    /\ UNCHANGED <<allvars, count>>

\* count plus the size of the current range.
Counted == InType(count + (current.last - current.first) + 1)

\* Is there a gap between the current range and the next one?
Gap(range) == current.last # MaxSequence /\ range.first > Successor(current.last)

\* Mutant: a range inside the current one cuts it short.
MergesShorter ==
    LET range == sorted[index + 1] IN
    /\ counting = "loop" /\ index < Len(sorted)
    /\ index' = index + 1
    /\ IF Gap(range)
       THEN count' = Counted /\ current' = range
       ELSE current' = [current EXCEPT !.last = range.last] /\ UNCHANGED count
    /\ UNCHANGED <<allvars, counting, sorted>>

\* One turn of the loop.
Merges ==
    LET range == sorted[index + 1] IN
    /\ counting = "loop" /\ index < Len(sorted)
    /\ index' = index + 1
    /\ IF Gap(range)
       THEN count' = Counted /\ current' = range
       ELSE /\ current' = IF range.last > current.last
                          THEN [current EXCEPT !.last = range.last] ELSE current
            /\ UNCHANGED count
    /\ UNCHANGED <<allvars, counting, sorted>>

Returns ==
    /\ counting = "loop" /\ index = Len(sorted)
    /\ counting' = "done"
    /\ count' = Counted
    /\ UNCHANGED <<allvars, sorted, index, current>>

CountNext ==
    \/ HarnessNext /\ UNCHANGED call
    \/ CountsNothing \/ Sorts \/ Merges \/ Returns

CountSpec == CountInit /\ [][CountNext]_countvars

CountFairSpec == CountSpec /\ HarnessFairness

-----------------------------------------------------------------------------
\* What the consumers have read, all together.
Read == UNION {seen[h] : h \in Handles}

\* Each tracker stands for what its consumer has read, however the consumers
\* lag, and the call counts every sequence that anybody has read once, whether
\* the ranges of different trackers are apart, touch, overlap or end at the
\* largest sequence.
TrackersAreExact ==
    /\ EachTrackerIsExact
    /\ counting = "done" => count = Cardinality(Read)

-----------------------------------------------------------------------------
(* What makes TrackersAreExact inductive.                                  *)

\* What the first n of the sorted ranges stand for.
Merged(n) == UNION {sorted[k].first..sorted[k].last : k \in 1..n}

\* All that has been merged is the current range and, below it, what was counted.
LoopInv ==
    /\ sorted \in Seq(SequenceRanges) /\ index \in 1..Len(sorted)
    /\ current \in SequenceRanges /\ count \in Nat
    /\ Merged(Len(sorted)) = Read
    /\ \A k \in 1..Len(sorted) :
           1 <= sorted[k].first /\ sorted[k].first <= sorted[k].last /\ sorted[k].last <= MaxSequence
    /\ \A k \in 1..(Len(sorted) - 1) : sorted[k].first <= sorted[k + 1].first
    /\ 1 <= current.first /\ current.first <= sorted[index].first
    /\ current.first <= current.last /\ current.last <= MaxSequence
    /\ {s \in Merged(index) : current.first <= s} = current.first..current.last
    /\ count = Cardinality({s \in Merged(index) : s < current.first})

CountInv ==
    /\ 0 \notin Read
    /\ counting \in {"no", "loop", "done"}
    /\ counting # "no" => Joined
    /\ counting = "no" => count = 0
    /\ counting = "loop" => LoopInv
    /\ counting = "done" => count = Cardinality(Read)

=============================================================================
