------------------------- MODULE MulticastHarnesses -------------------------
(***************************************************************************)
(* The programs that drive the multicast queues: run_spmc_multicast in     *)
(* stress/queue_stress.cpp and run_spmc_multicast in                       *)
(* benchmarks/queue_benchmark.cpp.  Both are written for either queue, so  *)
(* they are put together here with what both promise, MulticastContract.   *)
(*                                                                         *)
(* A publication takes its place in the ring (Publish) before it is        *)
(* counted in published_; a consumer goes by a value of published_ that    *)
(* may be old, though never older than the last one it has loaded.  With   *)
(* SPMCMulticastQueue, whose operations hold a mutex, the two steps of a   *)
(* publication follow each other and the value is never old.               *)
(*                                                                         *)
(* The stress test's consumers leave their loop when producer_done is set  *)
(* and their cursor is beyond published_.  It is set with release after    *)
(* the last publication and loaded with acquire, so that a consumer that   *)
(* sees it set loads the final value of published_.  The benchmark's go by *)
(* running, a relaxed flag that says nothing about published_.             *)
(***************************************************************************)
EXTENDS MulticastContract, SequenceTracker, FiniteSets, Functions

CONSTANT Iterations     \* config.iterations; bounds the benchmark's producer too

ASSUME HarnessAssumption ==
    /\ Iterations \in Nat
    /\ 1..Iterations \subseteq Payloads     \* make_payload, for each sequence
    /\ Iterations <= MaxSequence            \* a sequence is held in its type
    /\ Capacity \in Nat
    /\ IsFiniteSet(Handles)                 \* config.consumers of them

VARIABLES
    test,               \* "stress" or "benchmark"
    stopped,            \* the deadline has passed, or running is FALSE
    published,          \* published_
    producing,          \* where the producer is
    next,               \* its variable sequence, or id
    producer_done,
    consuming,          \* where each consumer is
    loaded,             \* the last value of published_ it has loaded
    last,               \* stress: its last_sequence
    seen,               \* the messages it has marked as seen, or its payload_ids
    ranges,             \* benchmark: its queue_sequences
    failed              \* has a failure, or a validation error, been recorded?

contract == <<log, attached, next_sequence, registration, start, received>>
producer == <<published, producing, next, producer_done>>
metrics == <<last, seen, ranges>>
allvars == <<contract, test, stopped, producer, consuming, loaded, metrics, failed>>

\* Every consumer is registered, and moved to its thread, before a thread starts.
HarnessInit ==
    /\ log = << >>
    /\ attached = [h \in Handles |-> TRUE]
    /\ next_sequence = [h \in Handles |-> 1]
    /\ registration = CHOOSE index \in Bijection(Handles, 1..Cardinality(Handles)) : TRUE
    /\ start = [r \in 1..Cardinality(Handles) |-> 1]
    /\ received = [r \in 1..Cardinality(Handles) |-> << >>]
    /\ test \in {"stress", "benchmark"}
    /\ stopped = FALSE
    /\ published = 0
    /\ producing = "loop"
    /\ next = 1
    /\ producer_done = FALSE
    /\ consuming = [h \in Handles |-> "test"]
    /\ loaded = [h \in Handles |-> 0]
    /\ last = [h \in Handles |-> 0]
    /\ seen = [h \in Handles |-> {}]
    /\ ranges = [h \in Handles |-> << >>]
    /\ failed = FALSE

\* The deadline passes, or the main thread stores FALSE in running.
Stop ==
    /\ ~ stopped
    /\ stopped' = TRUE
    /\ UNCHANGED <<contract, test, producer, consuming, loaded, metrics, failed>>

-----------------------------------------------------------------------------
(* The producer.                                                           *)

\* The loop is entered once more and try_publish called.  The benchmark's load
\* of running may still return TRUE after Stop.
Publishes ==
    /\ producing = "loop"
    /\ next <= Iterations
    /\ test = "stress" => ~ stopped
    /\ Publish /\ log' = Append(log, next)
    /\ producing' = "store"
    /\ UNCHANGED <<test, stopped, published, next, producer_done, consuming, loaded,
                   metrics, failed>>

\* try_publish returns: its sequence is compared with the expected one.  The stress
\* test would leave its loop on a difference, which the contract excludes.
PublishReturns ==
    /\ producing = "store"
    /\ published' = Len(log)
    /\ producing' = "loop"
    /\ failed' = (failed \/ Len(log) # next)
    /\ next' = next + 1
    /\ UNCHANGED <<contract, test, stopped, producer_done, consuming, loaded, metrics>>

\* Mutant: producer_done is not set.
ProducerEndsSilently ==
    /\ test = "stress"
    /\ producing = "loop"
    /\ next > Iterations \/ stopped
    /\ producing' = "done"
    /\ UNCHANGED <<contract, test, stopped, published, next, producer_done, consuming, loaded,
                   metrics, failed>>

ProducerEnds ==
    /\ test = "stress"
    /\ producing = "loop"
    /\ next > Iterations \/ stopped
    /\ producing' = "done"
    /\ producer_done' = TRUE
    /\ UNCHANGED <<contract, test, stopped, published, next, consuming, loaded, metrics, failed>>

\* The benchmark's producer sees that running is FALSE.
BenchmarkProducerEnds ==
    /\ test = "benchmark"
    /\ producing = "loop"
    /\ stopped
    /\ producing' = "done"
    /\ UNCHANGED <<contract, test, stopped, published, next, producer_done, consuming, loaded,
                   metrics, failed>>

-----------------------------------------------------------------------------
(* A consumer.                                                             *)

Consume(h, from, to) ==
    /\ consuming[h] = from
    /\ consuming' = [consuming EXCEPT ![h] = to]

Load(h, value) ==
    /\ value \in loaded[h]..published
    /\ loaded' = [loaded EXCEPT ![h] = value]

\* while (!producer_done || ...), while (running || ...): the loop goes on.  The
\* value of the flag may be an old one.
SeesRunning(h) ==
    /\ Consume(h, "test", "read")
    /\ UNCHANGED <<contract, test, stopped, producer, loaded, metrics, failed>>

\* Mutant: producer_done is loaded relaxed.
SeesDoneRelaxed(h) ==
    /\ test = "stress"
    /\ producer_done
    /\ Consume(h, "test", "cursor")
    /\ UNCHANGED <<contract, test, stopped, producer, loaded, metrics, failed>>

\* producer_done is seen to be set: what was published before is visible.
SeesDone(h) ==
    /\ test = "stress"
    /\ producer_done
    /\ Consume(h, "test", "cursor")
    /\ Load(h, published)
    /\ UNCHANGED <<contract, test, stopped, producer, metrics, failed>>

SeesStopped(h) ==
    /\ test = "benchmark"
    /\ stopped
    /\ Consume(h, "test", "cursor")
    /\ UNCHANGED <<contract, test, stopped, producer, loaded, metrics, failed>>

\* ... || next_sequence() <= published_sequence()
TestsCursor(h) ==
    \E value \in 0..published :
        /\ Load(h, value)
        /\ Consume(h, "cursor", IF next_sequence[h] <= value THEN "read" ELSE "done")
        /\ UNCHANGED <<contract, test, stopped, producer, metrics, failed>>

\* try_read reports empty.
ReadsNothing(h) ==
    \E value \in 0..published :
        /\ Load(h, value)
        /\ next_sequence[h] > value
        /\ Consume(h, "read", "test")
        /\ UNCHANGED <<contract, test, stopped, producer, metrics, failed>>

\* try_read reports consumer_lagged or overwritten.
Lags(h) ==
    \E value \in 0..published :
        /\ Load(h, value)
        /\ next_sequence[h] <= value
        /\ Skip(h)
        /\ Consume(h, "read", "test")
        /\ UNCHANGED <<test, stopped, producer, metrics, failed>>

\* try_read delivers a message.
Delivered(h) ==
    \E value \in 0..published :
        /\ Load(h, value)
        /\ next_sequence[h] <= value
        /\ Deliver(h)
        /\ Consume(h, "read", "test")
        /\ UNCHANGED <<test, stopped, producer>>

\* The stress test marks it unless its sequence is impossible or not above the
\* last one, or its payload is not the one published under the sequence.
Reads(h) ==
    LET sequence == next_sequence[h]
        valid == sequence \in 1..Iterations /\ sequence > last[h] /\ log[sequence] = sequence
    IN  /\ test = "stress"
        /\ Delivered(h)
        /\ failed' = (failed \/ ~ valid)
        /\ last' = [last EXCEPT ![h] = IF valid THEN sequence ELSE @]
        /\ seen' = [seen EXCEPT ![h] = IF valid THEN @ \union {sequence} ELSE @]
        /\ UNCHANGED ranges

\* The benchmark's record_payload.
RecordsPayload(h) ==
    LET sequence == next_sequence[h]
    IN  /\ test = "benchmark"
        /\ Delivered(h)
        /\ failed' = (failed \/ ~ Accepts(ranges[h], sequence))
        /\ seen' = [seen EXCEPT ![h] = @ \union {log[sequence]}]
        /\ ranges' = [ranges EXCEPT ![h] = Record(@, sequence)]
        /\ UNCHANGED last

-----------------------------------------------------------------------------
Joined == producing = "done" /\ \A h \in Handles : consuming[h] = "done"

Finished == Joined /\ UNCHANGED allvars

ProducerStep == Publishes \/ PublishReturns \/ ProducerEnds \/ BenchmarkProducerEnds

ConsumerStep(h) ==
    \/ SeesRunning(h) \/ SeesDone(h) \/ SeesStopped(h) \/ TestsCursor(h)
    \/ ReadsNothing(h) \/ Lags(h) \/ Reads(h) \/ RecordsPayload(h)

HarnessNext == Stop \/ ProducerStep \/ (\E h \in Handles : ConsumerStep(h)) \/ Finished

HarnessSpec == HarnessInit /\ [][HarnessNext]_allvars

\* The trial ends and every thread is scheduled.  A flag is seen to be set in the
\* end, and a consumer that keeps reading is given a message once the producer
\* has stopped (ConsumerCatchesUp of the two queues).
HarnessFairness ==
    /\ WF_allvars(Stop)
    /\ WF_allvars(ProducerStep)
    /\ \A h \in Handles :
          /\ WF_allvars(ConsumerStep(h))
          /\ SF_allvars(SeesDone(h))
          /\ SF_allvars(SeesStopped(h))
          /\ SF_allvars(Reads(h))
          /\ SF_allvars(RecordsPayload(h))

HarnessFairSpec == HarnessSpec /\ HarnessFairness

-----------------------------------------------------------------------------
\* The stress test records no failure against a queue that keeps the contract,
\* and a consumer does not leave its loop too early: when it does the producer
\* has ended, and every publication still retained has been seen by it.
StressPasses ==
    /\ ~ failed
    /\ test = "stress" =>
           \A h \in Handles :
               consuming[h] = "done" =>
                   /\ producer_done
                   /\ \A s \in 1..Len(log) : s + Capacity > Len(log) => s \in seen[h]

\* The benchmark's trackers lose and invent nothing, however the consumers lag:
\* the ranges of each stand for the sequences it has read, and no two of them could
\* be one.
EachTrackerIsExact ==
    test = "benchmark" =>
        \A h \in Handles :
            /\ Covered(ranges[h]) = seen[h]
            /\ \A i \in 1..(Len(ranges[h]) - 1) :
                   ranges[h][i].last + 1 < ranges[h][i + 1].first

\* All threads come to an end.
HarnessEnds == <>Joined

-----------------------------------------------------------------------------
(* What makes StressPasses and EachTrackerIsExact inductive.               *)

HarnessTypes ==
    /\ log \in Seq(Nat)
    /\ attached \in [Handles -> BOOLEAN]
    /\ next_sequence \in [Handles -> Nat]
    /\ published \in Nat /\ next \in Nat
    /\ consuming \in [Handles -> {"test", "cursor", "read", "done"}]
    /\ loaded \in [Handles -> Nat] /\ last \in [Handles -> Nat]
    /\ seen \in [Handles -> SUBSET Nat]
    /\ ranges \in [Handles -> Seq(SequenceRanges)]

\* The n-th message is n, published_ lags behind the ring by the publication in
\* progress, and producer_done is set after the last.
ProducerInv ==
    /\ \A s \in 1..Len(log) : log[s] = s
    /\ next <= Iterations + 1
    /\ producing = "store" => Len(log) = next /\ published + 1 = next /\ next <= Iterations
    /\ producing # "store" => Len(log) + 1 = next /\ published + 1 = next
    /\ producer_done => producing = "done"

\* A consumer of the stress test that has seen producer_done has loaded the final
\* value of published_.
LoadInv(h) ==
    /\ loaded[h] <= published
    /\ test = "stress" /\ consuming[h] \in {"cursor", "done"} =>
           producer_done /\ loaded[h] = published
    /\ test = "stress" /\ consuming[h] = "done" => published < next_sequence[h]

\* What the cursor has passed was seen or has been replaced, and nothing beyond it
\* has been seen.
SeenInv(h) ==
    /\ 1 <= next_sequence[h] /\ next_sequence[h] <= Len(log) + 1
    /\ last[h] < next_sequence[h]
    /\ \A s \in seen[h] : s < next_sequence[h]
    /\ \A s \in 1..(next_sequence[h] - 1) : s \in seen[h] \/ s + Capacity <= Len(log)

HandleInv(h) ==
    /\ LoadInv(h) /\ SeenInv(h)
    /\ test = "benchmark" =>
           OrderedBelow(ranges[h], next_sequence[h]) /\ Covered(ranges[h]) = seen[h]

HarnessInv ==
    /\ HarnessTypes /\ ProducerInv
    /\ \A h \in Handles : HandleInv(h)
    /\ ~ failed

=============================================================================
