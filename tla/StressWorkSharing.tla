------------------------- MODULE StressWorkSharing --------------------------
(***************************************************************************)
(* The stress tests of the queues whose consumers share the messages       *)
(* (run_mpmc and run_blocking in stress/queue_stress.cpp): how producers   *)
(* and consumers agree that everything has been drained.                   *)
(*                                                                         *)
(* The queue appears as its callers see it.  In run_mpmc a push claims a   *)
(* position and publishes it in a later step, and try_pop reports empty    *)
(* when the oldest position is not published yet, whatever stands behind   *)
(* it (see MPMCQueue).  With stale loads, or while a popped cell is not    *)
(* yet released, a try_pop may report empty and a try_push full also       *)
(* otherwise.  In run_blocking try_push is one step, and pop() waits until *)
(* there is a message or the queue is closed (see BlockingQueue).          *)
(***************************************************************************)
EXTENDS WorkSharing

CONSTANT Iterations     \* config.iterations, for each producer

ASSUME StressAssumption == Iterations \in Nat

VARIABLES
    test,               \* which of the two is run
    closed,             \* run_blocking: has close() been called?
    claimed,            \* the queue: [id, ready, sequence], oldest first
    sequence,           \* how many positions have been claimed
    expired,            \* has the deadline passed?
    local,              \* its variable local
    pushed, popped,
    published,          \* the ids published[] is set for
    got,                \* the message it has popped
    last,               \* its last_queue_sequence
    consumed,           \* the ids consumed[] is set for
    failed              \* has a failure been recorded?

queue == <<claimed, sequence, closed>>
producers == <<producing, local, remaining, pushed, published>>
consumers == <<consuming, got, last, popped, consumed>>
vars == <<test, expired, queue, producers, consumers, failed>>

\* global_sequence: one number for each producer and local sequence.
Id(p) == <<p, local[p]>>

NoMessage == << >>

Init ==
    /\ test \in {"mpmc", "blocking"}
    /\ closed = FALSE
    /\ claimed = << >>
    /\ sequence = 0
    /\ expired = FALSE
    /\ producing = [p \in Producers |-> "loop"]
    /\ local = [p \in Producers |-> 1]
    /\ remaining = Cardinality(Producers)
    /\ pushed = 0 /\ popped = 0
    /\ published = {}
    /\ consuming = [c \in Consumers |-> "pop"]
    /\ got = [c \in Consumers |-> NoMessage]
    /\ last = [c \in Consumers |-> 0]
    /\ consumed = {}
    /\ failed = FALSE

Expire ==
    /\ ~ expired
    /\ expired' = TRUE
    /\ UNCHANGED <<test, queue, producers, consumers, failed>>

-----------------------------------------------------------------------------
(* A producer.                                                             *)

\* The condition of the producer's loop.
Continues(p) == local[p] <= Iterations /\ ~ expired

Entry(p, ready, number) == [id |-> Id(p), ready |-> ready, sequence |-> number]

\* run_mpmc: try_push claims a position.
PushClaims(p) ==
    /\ test = "mpmc"
    /\ Produce(p, "loop", "claimed")
    /\ Continues(p)
    /\ Len(claimed) < Capacity
    /\ sequence' = sequence + 1
    /\ claimed' = Append(claimed, Entry(p, FALSE, sequence + 1))
    /\ UNCHANGED <<test, expired, closed, local, remaining, pushed, published, consumers, failed>>

\* try_push publishes its position and returns success.
PushReturns(p) ==
    /\ Produce(p, "claimed", "published")
    /\ claimed' = [i \in DOMAIN claimed |->
                      IF claimed[i].id = Id(p) THEN Entry(p, TRUE, claimed[i].sequence)
                      ELSE claimed[i]]
    /\ UNCHANGED <<test, expired, sequence, closed, local, remaining, pushed, published, consumers,
                   failed>>

\* run_blocking: try_push has room.  A closed queue refuses the message, which is
\* a failure and ends the loop.
BlockingPushes(p) ==
    /\ test = "blocking"
    /\ producing[p] = "loop"
    /\ Continues(p)
    /\ IF closed
       THEN /\ failed' = TRUE
            /\ producing' = [producing EXCEPT ![p] = "break"]
            /\ UNCHANGED claimed
       ELSE /\ Len(claimed) < Capacity
            /\ claimed' = Append(claimed, Entry(p, TRUE, 0))
            /\ producing' = [producing EXCEPT ![p] = "published"]
            /\ UNCHANGED failed
    /\ UNCHANGED <<test, expired, sequence, closed, local, remaining, pushed, published, consumers>>

\* try_push reports full: the loop goes on with the same message.
PushReportsFull(p) ==
    /\ producing[p] = "loop"
    /\ Continues(p)
    /\ test = "blocking" => ~ closed /\ Len(claimed) = Capacity
    /\ UNCHANGED vars

MarksPublished(p) ==
    /\ Produce(p, "published", "count")
    /\ published' = published \union {Id(p)}
    /\ UNCHANGED <<test, expired, queue, local, remaining, pushed, consumers, failed>>

CountsPushed(p) ==
    /\ Produce(p, "count", "loop")
    /\ pushed' = pushed + 1
    /\ local' = [local EXCEPT ![p] = @ + 1]
    /\ UNCHANGED <<test, expired, queue, remaining, published, consumers, failed>>

\* run_mpmc: remaining_producers is lowered.
ProducerEnds(p) ==
    /\ test = "mpmc"
    /\ Produce(p, "loop", "done")
    /\ ~ Continues(p)
    /\ remaining' = remaining - 1
    /\ UNCHANGED <<test, expired, queue, local, pushed, published, consumers, failed>>

\* run_blocking: the producer that lowers it to 0 goes on to close the queue.
BlockingProducerEnds(p) ==
    /\ test = "blocking"
    /\ producing[p] \in {"loop", "break"}
    /\ producing[p] = "loop" => ~ Continues(p)
    /\ producing' = [producing EXCEPT ![p] = IF remaining = 1 THEN "close" ELSE "done"]
    /\ remaining' = remaining - 1
    /\ UNCHANGED <<test, expired, queue, local, pushed, published, consumers, failed>>

Closes(p) ==
    /\ Produce(p, "close", "done")
    /\ closed' = TRUE
    /\ UNCHANGED <<test, expired, claimed, sequence, local, remaining, pushed, published,
                   consumers, failed>>

-----------------------------------------------------------------------------
(* A consumer.                                                             *)

\* What a consumer does that only looks at the state.
Looks(c, from, to) ==
    /\ Consume(c, from, to)
    /\ UNCHANGED <<test, expired, queue, producers, got, last, popped, consumed, failed>>

\* The oldest message is taken out of the queue.
Takes(c) ==
    /\ claimed # << >> /\ Head(claimed).ready
    /\ got' = [got EXCEPT ![c] = Head(claimed)]
    /\ claimed' = Tail(claimed)
    /\ UNCHANGED <<test, expired, sequence, closed, producers, last, popped, consumed, failed>>

\* Under consumed_mutex the message is marked, a second time is a failure.
Marks(c) ==
    /\ failed' = (failed \/ got[c].id \in consumed)
    /\ consumed' = consumed \union {got[c].id}
    /\ got' = [got EXCEPT ![c] = NoMessage]
    /\ UNCHANGED <<test, expired, queue, producers, last, popped>>

\* run_mpmc: try_pop returns the oldest message.
Pops(c) ==
    /\ test = "mpmc"
    /\ Consume(c, "pop", "count")
    /\ Takes(c)

\* popped is raised, and the queue sequence compared with the last one.
CountsPopped(c) ==
    /\ test = "mpmc"
    /\ Consume(c, "count", "mark")
    /\ popped' = popped + 1
    /\ failed' = (failed \/ got[c].sequence <= last[c])
    /\ last' = [last EXCEPT ![c] = got[c].sequence]
    /\ UNCHANGED <<test, expired, queue, producers, got, consumed>>

MarksConsumed(c) ==
    /\ test = "mpmc"
    /\ Consume(c, "mark", "pop")
    /\ Marks(c)

\* try_pop reports empty.
PopsNothing(c) == test = "mpmc" /\ Looks(c, "pop", "remaining")

\* First remaining_producers is loaded; the value may be an old one.
ProducersRemain(c) == Looks(c, "remaining", "pop")

\* Mutant: the counts are not compared.
NoProducersRemainEnds(c) == remaining = 0 /\ Looks(c, "remaining", "done")

\* A 0 is acquired from the producers' last steps: from then on pushed is loaded
\* with its final value, so that the comparison with popped can be one step.
NoProducersRemain(c) == remaining = 0 /\ Looks(c, "remaining", "counts")

\* Mutant: it ends one message early.
ConsumerEndsEarly(c) == popped + 1 >= pushed /\ Looks(c, "counts", "done")

\* Mutant: it waits for one message too many.
ConsumerEndsNever(c) == popped > pushed /\ Looks(c, "counts", "done")

ConsumerEnds(c) == popped >= pushed /\ Looks(c, "counts", "done")

\* popped is loaded relaxed, and may be an old value below pushed.
MoreToPop(c) == Looks(c, "counts", "pop")

\* run_blocking: pop() returns the oldest message, ...
BlockingPops(c) ==
    /\ test = "blocking"
    /\ Consume(c, "pop", "mark")
    /\ Takes(c)

\* ... which is marked before it is counted; ...
BlockingMarksConsumed(c) ==
    /\ test = "blocking"
    /\ Consume(c, "mark", "count")
    /\ Marks(c)

BlockingCountsPopped(c) ==
    /\ test = "blocking"
    /\ Consume(c, "count", "pop")
    /\ popped' = popped + 1
    /\ UNCHANGED <<test, expired, queue, producers, got, last, consumed, failed>>

\* ... nothing is returned, and the loop ends, when it is closed and empty.
BlockingConsumerEnds(c) ==
    /\ test = "blocking"
    /\ closed /\ claimed = << >>
    /\ Looks(c, "pop", "done")

-----------------------------------------------------------------------------
\* What is compared once the threads are joined: message by message, and the totals.
ComparisonFails == published # consumed \/ pushed # popped

Finished == Joined /\ UNCHANGED vars

ProducerStep(p) ==
    \/ PushClaims(p) \/ PushReturns(p) \/ BlockingPushes(p) \/ PushReportsFull(p)
    \/ MarksPublished(p) \/ CountsPushed(p)
    \/ ProducerEnds(p) \/ BlockingProducerEnds(p) \/ Closes(p)

ConsumerStep(c) ==
    \/ Pops(c) \/ CountsPopped(c) \/ MarksConsumed(c) \/ PopsNothing(c)
    \/ ProducersRemain(c) \/ NoProducersRemain(c) \/ ConsumerEnds(c) \/ MoreToPop(c)
    \/ BlockingPops(c) \/ BlockingMarksConsumed(c) \/ BlockingCountsPopped(c)
    \/ BlockingConsumerEnds(c)

Next ==
    \/ Expire
    \/ \E p \in Producers : ProducerStep(p)
    \/ \E c \in Consumers : ConsumerStep(c)
    \/ Finished

Spec == Init /\ [][Next]_vars

\* Every thread is scheduled, the deadline passes, try_push does not report full
\* for ever while there is room, nor try_pop empty while the oldest message is
\* published: stores become visible to the other threads in the end.  A waiting
\* pop() is woken (see BlockingQueue).
Fairness ==
    /\ WF_vars(Expire)
    /\ \A p \in Producers : WF_vars(ProducerStep(p))
    /\ \A c \in Consumers :
          /\ WF_vars(ConsumerStep(c))
          /\ SF_vars(Pops(c))
          /\ SF_vars(NoProducersRemain(c))
          /\ SF_vars(ConsumerEnds(c))

FairSpec == Spec /\ Fairness

-----------------------------------------------------------------------------
\* The tests record no failure against a correct queue: when all threads have
\* been joined the messages consumed are those published, as many as counted.
StressPasses ==
    /\ ~ failed
    /\ Joined => ~ ComparisonFails

\* A consumer leaves its loop only when every message has been popped, and
\* none can follow.  In run_mpmc popped >= pushed is no coincidence of two
\* counters that are read at different times and lag behind the queue, in
\* run_blocking the queue is not closed while a producer still pushes.
DrainedAtExit ==
    (\E c \in Consumers : consuming[c] = "done") =>
        /\ \A p \in Producers : producing[p] = "done"
        /\ claimed = << >>

\* All threads come to an end.
StressTerminates == <>Joined

-----------------------------------------------------------------------------
(* What makes the two invariants inductive.                                *)

ProducerLabels == {"loop", "claimed", "published", "count", "break", "close", "done"}
ConsumerLabels == {"pop", "count", "mark", "remaining", "counts", "done"}

Ids == Producers \X (Nat \ {0})
Entries == [id : Ids, ready : BOOLEAN, sequence : Nat]

\* A producer has a message in the queue that it has not counted yet.
InPush(p) == producing[p] \in {"claimed", "published", "count"}

\* A consumer has a message that is not marked yet, or one that is not counted yet.
Holds(c) == consuming[c] = "mark" \/ (test = "mpmc" /\ consuming[c] = "count")
Uncounted(c) == consuming[c] = "count" \/ (test = "blocking" /\ consuming[c] = "mark")

Looping == {p \in Producers : producing[p] \notin {"close", "done"}}
Incoming == {p \in Producers : InPush(p)}
Outgoing == {c \in Consumers : Uncounted(c)}

StressTypes ==
    /\ test \in {"mpmc", "blocking"} /\ closed \in BOOLEAN /\ expired \in BOOLEAN
    /\ claimed \in Seq(Entries) /\ sequence \in Nat
    /\ producing \in [Producers -> ProducerLabels] /\ local \in [Producers -> Nat \ {0}]
    /\ remaining \in Nat /\ pushed \in Nat /\ popped \in Nat
    /\ consuming \in [Consumers -> ConsumerLabels] /\ last \in [Consumers -> Nat]
    /\ got \in [Consumers -> Entries \union {NoMessage}]
    /\ \A c \in Consumers : Holds(c) => got[c] \in Entries

\* remaining_producers counts those still in their loop.  Only the producer that
\* lowers it to 0 closes the queue, after all the others have ended.
EndInv ==
    /\ remaining = Cardinality(Looping)
    /\ \A p \in Producers :
          producing[p] = "close" =>
              test = "blocking" /\ \A q \in Producers \ {p} : producing[q] = "done"
    /\ closed => \A p \in Producers : producing[p] = "done"
    /\ \A c \in Consumers : consuming[c] \in {"remaining", "counts"} => test = "mpmc"
    /\ \A c \in Consumers :
          consuming[c] = "counts" => \A p \in Producers : producing[p] = "done"

\* The counters lag behind the queue by what is on its way into it and out of it.
CountInv ==
    Len(claimed) + popped + Cardinality(Outgoing) = pushed + Cardinality(Incoming)

\* Every message that was put into the queue is in exactly one place.
Issued == {m \in Ids : m[2] < local[m[1]] \/ (m[2] = local[m[1]] /\ InPush(m[1]))}
Waiting == {claimed[i].id : i \in DOMAIN claimed}
Held == {got[c].id : c \in {d \in Consumers : Holds(d)}}

PlaceInv ==
    /\ consumed \union Held \union Waiting = Issued
    /\ consumed \intersect Held = {} /\ (consumed \union Held) \intersect Waiting = {}
    /\ \A i, j \in DOMAIN claimed : claimed[i].id = claimed[j].id => i = j
    /\ \A c, d \in Consumers : Holds(c) /\ Holds(d) /\ got[c].id = got[d].id => c = d

\* published[] is set for what has been pushed, but for what is to be set yet.
PublishedInv ==
    published = {m \in Ids : \/ m[2] < local[m[1]]
                             \/ m[2] = local[m[1]] /\ producing[m[1]] = "count"}

\* run_mpmc: queue sequences grow along the queue, and from what a consumer has
\* popped before to what it may pop next.
OrderInv ==
    test = "mpmc" =>
        /\ \A i, j \in DOMAIN claimed : i < j => claimed[i].sequence < claimed[j].sequence
        /\ \A i \in DOMAIN claimed : claimed[i].sequence <= sequence
        /\ \A c \in Consumers :
              /\ last[c] <= sequence
              /\ \A i \in DOMAIN claimed : last[c] < claimed[i].sequence
              /\ consuming[c] = "count" =>
                    /\ last[c] < got[c].sequence /\ got[c].sequence <= sequence
                    /\ \A i \in DOMAIN claimed : got[c].sequence < claimed[i].sequence

StressInv ==
    /\ StressTypes /\ EndInv /\ CountInv /\ PlaceInv /\ PublishedInv /\ OrderInv
    /\ ~ failed
    /\ DrainedAtExit

=============================================================================
