-------------------------- MODULE SequenceTracker ---------------------------
(***************************************************************************)
(* The benchmark's record of the sequences a consumer has read             *)
(* (benchmarks/benchmark_support.h): ranges in increasing order, so that a *)
(* long run of neighbouring sequences takes no more room than one.         *)
(***************************************************************************)
EXTENDS Naturals, Sequences

CONSTANT MaxSequence    \* the largest value of a sequence's type

ASSUME TrackerAssumption == MaxSequence \in Nat

SequenceRange(first, last) == [first |-> first, last |-> last]

SequenceRanges == [first : Nat, last : Nat]

LastRange(ranges) == ranges[Len(ranges)]

\* x + 1 in that type.
Successor(x) == (x + 1) % (MaxSequence + 1)

\* The sequence begins a range after these, or continues the last one.
Begins(ranges, sequence) ==
    \/ ranges = << >>
    \/ LastRange(ranges).last # MaxSequence /\ sequence > Successor(LastRange(ranges).last)

Continues(ranges, sequence) ==
    /\ ranges # << >>
    /\ LastRange(ranges).last # MaxSequence /\ sequence = Successor(LastRange(ranges).last)

\* What record() returns ...
Accepts(ranges, sequence) ==
    sequence # 0 /\ (Begins(ranges, sequence) \/ Continues(ranges, sequence))

\* Mutant: a sequence after a gap is taken into the last range.
RecordOverGap(ranges, sequence) ==
    IF ~ Accepts(ranges, sequence) THEN ranges
    ELSE IF ranges = << >> THEN << SequenceRange(sequence, sequence) >>
    ELSE [ranges EXCEPT ![Len(ranges)].last = sequence]

\* ... and what it leaves in ranges_.
Record(ranges, sequence) ==
    IF ~ Accepts(ranges, sequence) THEN ranges
    ELSE IF Begins(ranges, sequence) THEN Append(ranges, SequenceRange(sequence, sequence))
    ELSE [ranges EXCEPT ![Len(ranges)].last = sequence]

-----------------------------------------------------------------------------
\* The sequences that ranges stand for.
Covered(ranges) == UNION {ranges[i].first..ranges[i].last : i \in DOMAIN ranges}

\* Ranges in increasing order and apart, all of them below a bound.
OrderedBelow(ranges, bound) ==
    /\ \A i \in DOMAIN ranges : ranges[i].first <= ranges[i].last /\ ranges[i].last < bound
    /\ \A i \in 1..(Len(ranges) - 1) : ranges[i].last + 1 < ranges[i + 1].first

=============================================================================
