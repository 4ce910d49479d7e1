------------------------ MODULE BenchmarkWorkSharing ------------------------
(***************************************************************************)
(* The scenarios of the benchmark in which every message is read once      *)
(* (run_work_sharing, run_exclusive_pop_adapter and run_spsc_adapter in    *)
(* benchmarks/queue_benchmark.cpp): how consumers learn that the producers *)
(* are done, and what make_result demands of the outcome.                  *)
(*                                                                         *)
(* The queue is a bounded FIFO whose operations are single steps           *)
(* (BoundedFifo).  If the adapter has close() its try_pop blocks until     *)
(* there is an item or the queue is closed, as BlockingQueue::pop does.    *)
(* Otherwise try_pop reports empty, and the pop function of the scenario   *)
(* then loads producers_done to tell empty from closed.  The consumer of   *)
(* run_spsc_adapter loads producer_done at the same place; it has one      *)
(* producer and one consumer.                                              *)
(***************************************************************************)
EXTENDS WorkSharing, Functions

CONSTANT MaxIds         \* bound on next_id

ASSUME BenchmarkAssumption == MaxIds \in Nat

VARIABLES
    scenario,           \* work sharing with or without close(), or run_spsc_adapter
    items,              \* the queue
    running,
    next_id,
    messages_published, \* published: how many have been counted
    published_ids,
    producers_done,     \* producers_done, or producer_done
    id,                 \* the message each producer is trying to push
    observed            \* payload_ids of all consumers together

publication == <<next_id, messages_published, published_ids, remaining, producing, id>>
trial == <<scenario, items, running, next_id, messages_published, published_ids, remaining,
           producers_done, producing, id, consuming, observed>>

\* The threads of the trial: run_spsc_adapter starts one of each kind.
Active(threads) == IF scenario = "spsc" THEN {CHOOSE t \in threads : TRUE} ELSE threads

TrialInit ==
    /\ scenario \in {"closable", "not closable", "spsc"}
    /\ items = << >>
    /\ running = TRUE
    /\ next_id = 1
    /\ messages_published = 0
    /\ published_ids = << >>
    /\ remaining = Cardinality(Active(Producers))
    /\ producers_done = FALSE
    /\ producing = [p \in Producers |-> IF p \in Active(Producers) THEN "loop" ELSE "done"]
    /\ id = [p \in Producers |-> 0]
    /\ consuming = [c \in Consumers |-> IF c \in Active(Consumers) THEN "pop" ELSE "done"]
    /\ observed = << >>

\* The main thread has slept for the duration of the trial.
Stop ==
    /\ running
    /\ running' = FALSE
    /\ UNCHANGED <<scenario, items, publication, producers_done, consuming, observed>>

-----------------------------------------------------------------------------
(* A producer.                                                             *)

\* while (running): the next message is made.  The load is relaxed and may still
\* return TRUE after Stop.
TakesId(p) ==
    /\ scenario # "spsc"
    /\ Produce(p, "loop", "push")
    /\ next_id <= MaxIds
    /\ id' = [id EXCEPT ![p] = next_id]
    /\ next_id' = next_id + 1
    /\ UNCHANGED <<scenario, items, running, messages_published, published_ids, remaining,
                   producers_done, consuming, observed>>

Pushes(p) ==
    /\ Produce(p, "push", "record")
    /\ Len(items) < Capacity
    /\ items' = Append(items, id[p])
    /\ UNCHANGED <<scenario, running, next_id, messages_published, published_ids, remaining,
                   producers_done, id, consuming, observed>>

\* full: try again, or give the message up if the trial is seen to be over.
FindsFull(p) ==
    /\ \/ Produce(p, "push", "push")
       \/ ~ running /\ Produce(p, "push", "loop")
    /\ Len(items) = Capacity
    /\ UNCHANGED <<scenario, items, running, next_id, messages_published, published_ids,
                   remaining, producers_done, id, consuming, observed>>

\* Under published_ids_mutex the id is recorded, ...
Records(p) ==
    /\ Produce(p, "record", "count")
    /\ published_ids' = Append(published_ids, id[p])
    /\ UNCHANGED <<scenario, items, running, next_id, messages_published, remaining,
                   producers_done, id, consuming, observed>>

\* ... and then counted.
Counts(p) ==
    /\ Produce(p, "count", "loop")
    /\ messages_published' = messages_published + 1
    /\ UNCHANGED <<scenario, items, running, next_id, published_ids, remaining, producers_done,
                   id, consuming, observed>>

\* Mutant: every producer closes.
ProducerStopsCloses(p) ==
    /\ scenario # "spsc"
    /\ Produce(p, "loop", "close")
    /\ ~ running
    /\ remaining' = remaining - 1
    /\ UNCHANGED <<scenario, items, running, next_id, messages_published, published_ids,
                   producers_done, id, consuming, observed>>

\* The last producer to end calls close().
ProducerStops(p) ==
    /\ scenario # "spsc"
    /\ Produce(p, "loop", IF remaining = 1 THEN "close" ELSE "done")
    /\ ~ running
    /\ remaining' = remaining - 1
    /\ UNCHANGED <<scenario, items, running, next_id, messages_published, published_ids,
                   producers_done, id, consuming, observed>>

CallsClose(p) ==
    /\ Produce(p, "close", "done")
    /\ producers_done' = TRUE
    /\ UNCHANGED <<scenario, items, running, next_id, messages_published, published_ids,
                   remaining, id, consuming, observed>>

-----------------------------------------------------------------------------
(* The producer of run_spsc_adapter.  Its ids and counts are its own, and  *)
(* nobody reads them before it is joined.  A full queue changes nothing:   *)
(* the loop is tested again.                                               *)

SPSCPushes(p) ==
    /\ scenario = "spsc"
    /\ producing[p] = "loop"
    /\ next_id <= MaxIds
    /\ Len(items) < Capacity
    /\ items' = Append(items, next_id)
    /\ published_ids' = Append(published_ids, next_id)
    /\ messages_published' = next_id
    /\ next_id' = next_id + 1
    /\ UNCHANGED <<scenario, running, remaining, producers_done, producing, id, consuming,
                   observed>>

SPSCFindsFull(p) ==
    /\ scenario = "spsc"
    /\ producing[p] = "loop"
    /\ Len(items) = Capacity
    /\ UNCHANGED trial

SPSCProducerStops(p) ==
    /\ scenario = "spsc"
    /\ Produce(p, "loop", "done")
    /\ ~ running
    /\ producers_done' = TRUE
    /\ UNCHANGED <<scenario, items, running, next_id, messages_published, published_ids,
                   remaining, id, consuming, observed>>

-----------------------------------------------------------------------------
(* A consumer.                                                             *)

ReadsItem(c) ==
    /\ Consume(c, "pop", "pop")
    /\ items # << >>
    /\ items' = Tail(items)
    /\ observed' = Append(observed, Head(items))
    /\ UNCHANGED <<scenario, running, publication, producers_done>>

\* An adapter without close(): try_pop reports empty ...
FindsEmpty(c) ==
    /\ scenario # "closable"
    /\ Consume(c, "pop", "empty")
    /\ items = << >>
    /\ UNCHANGED <<scenario, items, running, publication, producers_done, observed>>

\* Mutant: closed is never reported.
AsksNobody(c) ==
    /\ Consume(c, "empty", "pop")
    /\ UNCHANGED <<scenario, items, running, publication, producers_done, observed>>

\* ... and producers_done makes it closed; the queue is not asked again.  The
\* load may return an old FALSE.
AsksProducersDone(c) ==
    /\ \/ Consume(c, "empty", "pop")
       \/ producers_done /\ Consume(c, "empty", "done")
    /\ UNCHANGED <<scenario, items, running, publication, producers_done, observed>>

\* An adapter with close(): pop() returns std::nullopt when closed and empty.
FindsClosed(c) ==
    /\ scenario = "closable"
    /\ Consume(c, "pop", "done")
    /\ producers_done /\ items = << >>
    /\ UNCHANGED <<scenario, items, running, publication, producers_done, observed>>

-----------------------------------------------------------------------------
TrialFinished == Joined /\ UNCHANGED trial

TrialProducerStep(p) ==
    \/ TakesId(p) \/ Pushes(p) \/ FindsFull(p) \/ Records(p) \/ Counts(p)
    \/ ProducerStops(p) \/ CallsClose(p)
    \/ SPSCPushes(p) \/ SPSCFindsFull(p) \/ SPSCProducerStops(p)

TrialConsumerStep(c) ==
    /\ scenario # "spsc"
    /\ ReadsItem(c) \/ FindsEmpty(c) \/ AsksProducersDone(c) \/ FindsClosed(c)

\* The consumer of run_spsc_adapter does the same without a pop function between.
SPSCConsumerStep(c) ==
    /\ scenario = "spsc"
    /\ ReadsItem(c) \/ FindsEmpty(c) \/ AsksProducersDone(c)

TrialNext ==
    \/ Stop
    \/ \E p \in Producers : TrialProducerStep(p)
    \/ \E c \in Consumers : TrialConsumerStep(c) \/ SPSCConsumerStep(c)
    \/ TrialFinished

TrialSpec == TrialInit /\ [][TrialNext]_trial

\* The trial ends, every thread is scheduled, and producers_done is seen to be
\* set in the end.
TrialFairness ==
    /\ WF_trial(Stop)
    /\ \A p \in Producers : WF_trial(TrialProducerStep(p))
    /\ \A c \in Consumers :
          /\ WF_trial(TrialConsumerStep(c) \/ SPSCConsumerStep(c))
          /\ SF_trial(AsksProducersDone(c) /\ consuming'[c] = "done")

TrialFairSpec == TrialSpec /\ TrialFairness

-----------------------------------------------------------------------------
(* What make_result computes when all threads have been joined.            *)

\* count_unique_ids: sort, drop repetitions, count.
Unique(ids) == Cardinality(Range(ids))

\* has_same_ids: equal once both are sorted.
SameIds(ids, expected) ==
    \A x \in Range(ids) \union Range(expected) :
        Cardinality({i \in DOMAIN ids : ids[i] = x}) =
            Cardinality({i \in DOMAIN expected : expected[i] = x})

ValidationErrors ==
    (Len(observed) - Unique(observed))
    + (IF \/ Len(observed) # messages_published
          \/ Unique(observed) # messages_published
          \/ Len(published_ids) # messages_published
          \/ ~ SameIds(observed, published_ids)
       THEN 1 ELSE 0)

-----------------------------------------------------------------------------
\* A trial of a correct queue validates: after the drain there was exactly one
\* read for every successful publication.
TrialValidates == Joined => ValidationErrors = 0

\* What a trial of a correct queue does show: with an adapter that has close()
\* it validates, and with any other, whatever the consumers leave behind when
\* they stop, no message is read twice and none that was not published.
TrialIsSound ==
    /\ scenario = "closable" => TrialValidates
    /\ Unique(observed) = Len(observed)
    /\ Joined => Range(observed) \subseteq Range(published_ids)

\* A trial comes to an end.
TrialEnds == <>Joined

-----------------------------------------------------------------------------
(* What makes TrialIsSound inductive.                                      *)

TrialProducerLabels == {"loop", "push", "record", "count", "close", "done"}
TrialConsumerLabels == {"pop", "empty", "done"}

TrialTypes ==
    /\ scenario \in {"closable", "not closable", "spsc"}
    /\ items \in Seq(Nat) /\ observed \in Seq(Nat) /\ published_ids \in Seq(Nat)
    /\ next_id \in Nat /\ messages_published \in Nat /\ remaining \in Nat
    /\ id \in [Producers -> Nat]
    /\ producing \in [Producers -> TrialProducerLabels]
    /\ consuming \in [Consumers -> TrialConsumerLabels]

\* The ids that have been read, those in the queue, and those recorded as
\* published; a producer may have pushed one and not recorded it yet.
Read == Range(observed)
Queued == Range(items)
Recorded == Range(published_ids)
Recording == {p \in Producers : producing[p] = "record"}
Unrecorded == {id[p] : p \in Recording}

\* Every id is used once.  What has been read or is in the queue is what has been
\* recorded or is about to be.
IdInv ==
    /\ IsInjective(observed) /\ IsInjective(items) /\ IsInjective(published_ids)
    /\ Read \intersect Queued = {} /\ Recorded \intersect Unrecorded = {}
    /\ Read \union Queued = Recorded \union Unrecorded
    /\ \A x \in Read \union Queued : x < next_id
    /\ \A p \in Producers : producing[p] \in {"push", "record"} => id[p] < next_id
    /\ \A p \in Producers : producing[p] = "push" => id[p] \notin Read \union Queued
    /\ \A p, q \in Producers :
          /\ producing[p] \in {"push", "record"} /\ producing[q] \in {"push", "record"}
          /\ id[p] = id[q]
          => p = q

\* The count of publications lags behind the record by the producers between the
\* two; the last producer to end closes the queue, and a consumer that has seen
\* it closed has left nothing behind.
Working == {p \in Producers : producing[p] \notin {"close", "done"}}
Counting == {p \in Producers : producing[p] = "count"}

TrialEndInv ==
    scenario # "spsc" =>
        /\ Len(published_ids) = messages_published + Cardinality(Counting)
        /\ remaining = Cardinality(Working)
        /\ \A p \in Producers :
              producing[p] = "close" => \A q \in Producers \ {p} : producing[q] = "done"
        /\ producers_done => \A p \in Producers : producing[p] = "done"
        /\ \A c \in Consumers : consuming[c] = "empty" => scenario # "closable"
        /\ scenario = "closable" /\ (\E c \in Consumers : consuming[c] = "done") =>
              producers_done /\ items = << >>

TrialInv == TrialTypes /\ IdInv /\ TrialEndInv

=============================================================================
