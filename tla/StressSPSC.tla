----------------------------- MODULE StressSPSC -----------------------------
(***************************************************************************)
(* The stress test of SPSCQueue (run_spsc in stress/queue_stress.cpp), put *)
(* together from the queue's own steps and the loops of the two threads.   *)
(*                                                                         *)
(* The producer pushes the payloads of the sequences 1, 2, ... until it    *)
(* has pushed Iterations of them or its deadline has passed, and then sets *)
(* producer_done.  The consumer pops while producer_done is not set or the *)
(* queue is not empty.  Its load of producer_done may return an old FALSE; *)
(* a TRUE is acquired, and orders it after the producer's last push: from  *)
(* then on its loads of head_ return the final value.                      *)
(*                                                                         *)
(* Before it starts them run_spsc checks, with a queue of its own and      *)
(* without another thread, that a message is still there after a read into *)
(* a destination that is too small.  That queue has one slot; the one      *)
(* message it is given would use no other.  This is the client "retry".    *)
(*                                                                         *)
(* The third client is any pair of threads: one calls try_push, the other  *)
(* try_pop, with any argument and as often as they like (Next of           *)
(* SPSCQueue).                                                             *)
(***************************************************************************)
EXTENDS SPSCQueue

CONSTANTS
    Iterations,         \* config.iterations
    PayloadOf(_)        \* make_payload for a sequence

ASSUME StressAssumption ==
    /\ Iterations \in 1..MaxPushes
    /\ \A s \in 1..Iterations : PayloadOf(s) \in Payloads /\ Fits(PayloadOf(s))
    /\ PayloadOf(1) # << >>
    /\ {MaxPayloadSize, Len(PayloadOf(1)), Len(PayloadOf(1)) - 1} \subseteq Destinations

VARIABLES
    client,             \* who uses the queue: "retry", "run_spsc" or "any"
    producing,          \* the producer's loop: "loop", "break" or "done"
    next,               \* the producer's variable sequence
    expired,            \* has the deadline passed?
    producer_done,
    published,
    consuming,          \* the consumer's loop, or where the first check is
    popped,
    failed              \* has a failure been recorded?

harness == <<producing, next, expired, producer_done, published, consuming, popped, failed>>
allvars == <<vars, client, harness>>

StressInit ==
    /\ Init
    /\ client \in {"retry", "run_spsc", "any"}
    /\ producing = IF client = "retry" THEN "done" ELSE "loop"
    /\ next = 1
    /\ expired = FALSE
    /\ producer_done = FALSE
    /\ published = 0
    /\ consuming = IF client = "retry" THEN "push" ELSE "test"
    /\ popped = 0
    /\ failed = FALSE

\* The deadline passes.
Expire ==
    /\ ~ expired
    /\ expired' = TRUE
    /\ UNCHANGED <<vars, producing, next, producer_done, published, consuming, popped, failed>>

-----------------------------------------------------------------------------
(* The producer.                                                           *)

\* The loop is entered once more and try_push called.
ProducerPushes ==
    /\ producing = "loop"
    /\ next <= Iterations /\ ~ expired
    /\ PushFull(PayloadOf(next)) \/ PushCall(PayloadOf(next))
    /\ UNCHANGED harness

ProducerAssigns == PushAssign /\ UNCHANGED harness

\* try_push returns success and the sequence head + 1; published is stored.
ProducerPublishes ==
    /\ PushPublish
    /\ IF head' = next
       THEN published' = next /\ next' = next + 1 /\ UNCHANGED <<failed, producing>>
       ELSE failed' = TRUE /\ producing' = "break" /\ UNCHANGED <<published, next>>
    /\ UNCHANGED <<expired, producer_done, consuming, popped>>

ProducerEnds ==
    /\ pushing = "idle"
    /\ producing # "done"
    /\ producing = "loop" => next > Iterations \/ expired
    /\ producing' = "done"
    /\ producer_done' = TRUE
    /\ UNCHANGED <<vars, next, expired, published, consuming, popped, failed>>

-----------------------------------------------------------------------------
(* The consumer.                                                           *)

\* while (!producer_done.load(acquire) || ...): the loop goes on.
SeesRunning ==
    /\ consuming = "test"
    /\ consuming' = "pop"
    /\ UNCHANGED <<vars, producing, next, expired, producer_done, published, popped, failed>>

\* Mutant: producer_done is loaded relaxed, so nothing is learnt about head_.
SeesDoneRelaxed ==
    /\ consuming = "test"
    /\ producer_done
    /\ consuming' = "empty"
    /\ UNCHANGED <<vars, producing, next, expired, producer_done, published, popped, failed>>

\* ... || !queue.empty(): it depends on the queue.
SeesDone ==
    /\ consuming = "test"
    /\ producer_done
    /\ seen_head' = head
    /\ consuming' = "empty"
    /\ UNCHANGED <<slots, head, tail, producer, popping, destination, result, log, received,
                   producing, next, expired, producer_done, published, popped, failed>>

AsksEmpty ==
    /\ consuming = "empty"
    /\ ConsumerAsks
    /\ consuming' = IF seen_head' = tail THEN "done" ELSE "pop"
    /\ UNCHANGED <<producing, next, expired, producer_done, published, popped, failed>>

\* try_pop finds the queue empty: the loop is tested again.
ConsumerFindsNothing ==
    /\ consuming = "pop"
    /\ PopEmpty
    /\ consuming' = "test"
    /\ UNCHANGED <<producing, next, expired, producer_done, published, popped, failed>>

ConsumerPops ==
    /\ consuming = "pop"
    /\ PopCall(MaxPayloadSize)
    /\ UNCHANGED harness

\* Any status but success and empty is a failure.
ConsumerCopies ==
    /\ PopCopy
    /\ IF popping' = "idle"
       THEN failed' = TRUE /\ consuming' = "done"
       ELSE UNCHANGED <<failed, consuming>>
    /\ UNCHANGED <<producing, next, expired, producer_done, published, popped>>

\* try_pop returns success; its sequence and bytes are compared.
ConsumerChecks ==
    /\ PopRelease
    /\ IF result.sequence = popped + 1 /\ result.payload = PayloadOf(popped + 1)
       THEN popped' = popped + 1 /\ consuming' = "test" /\ UNCHANGED failed
       ELSE failed' = TRUE /\ consuming' = "done" /\ UNCHANGED popped
    /\ UNCHANGED <<producing, next, expired, producer_done, published>>

-----------------------------------------------------------------------------
(* The check of an undersized read.  One thread does it all, so that its   *)
(* loads of head_ return what it has stored.                               *)

retried == <<producing, next, expired, producer_done, published, popped>>

\* retry_queue.try_push(retry_payload)
RetryPushes ==
    /\ consuming = "push"
    /\ PushCall(PayloadOf(1)) \/ PushAssign
    /\ UNCHANGED harness

RetryPushed ==
    /\ consuming = "push"
    /\ PushPublish
    /\ consuming' = "short"
    /\ UNCHANGED <<retried, failed>>

\* try_pop into short_output, one byte short, and then into retry_output
RetryPops ==
    /\ \/ consuming = "short" /\ PopCall(Len(PayloadOf(1)) - 1)
       \/ consuming = "again" /\ PopCall(Len(PayloadOf(1)))
    /\ UNCHANGED harness

\* The first try_pop has to return message_too_large, the second success.
RetryCopies ==
    LET expected == IF consuming = "short" THEN "idle" ELSE "release" IN
    /\ PopCopy
    /\ IF popping' = expected
       THEN /\ consuming' = IF consuming = "short" THEN "again" ELSE "validate"
            /\ UNCHANGED failed
       ELSE failed' = TRUE /\ consuming' = "done"
    /\ UNCHANGED retried

\* validate_payload
RetryValidates ==
    /\ PopRelease
    /\ failed' = (result.payload # PayloadOf(1))
    /\ consuming' = "done"
    /\ UNCHANGED retried

-----------------------------------------------------------------------------
Joined == producing = "done" /\ consuming = "done"

\* Both threads have been joined, or the check is over: nothing happens any more.
Finished == client # "any" /\ Joined /\ UNCHANGED allvars

RunSPSC == client = "run_spsc" /\ UNCHANGED client

ProducerStep ==
    /\ RunSPSC
    /\ ProducerPushes \/ ProducerAssigns \/ ProducerPublishes \/ ProducerEnds

ConsumerStep ==
    /\ RunSPSC
    /\ \/ SeesRunning \/ SeesDone \/ AsksEmpty
       \/ ConsumerFindsNothing \/ ConsumerPops \/ ConsumerCopies \/ ConsumerChecks

RetryStep ==
    /\ client = "retry" /\ UNCHANGED client
    /\ RetryPushes \/ RetryPushed \/ RetryPops \/ RetryCopies \/ RetryValidates

AnyClient == client = "any" /\ Next /\ UNCHANGED <<client, harness>>

StressNext ==
    \/ RunSPSC /\ Expire
    \/ ProducerStep \/ ConsumerStep
    \/ RetryStep \/ Finished
    \/ AnyClient

StressSpec == StressInit /\ [][StressNext]_allvars

\* Both threads of run_spsc are scheduled, a store is seen by the other side in
\* the end, and the deadline passes.
StressFairness ==
    /\ WF_allvars(RunSPSC /\ Expire)
    /\ WF_allvars(ProducerStep)
    /\ WF_allvars(ConsumerStep)
    /\ WF_allvars(RetryStep)
    /\ SF_allvars(RunSPSC /\ SeesDone)

StressFairSpec == StressSpec /\ StressFairness

-----------------------------------------------------------------------------
\* The test comes to an end and has recorded no failure against this queue: the
\* undersized read leaves its message, sequences and payloads are as expected at
\* every pop, and the two threads end with as many messages popped as pushed.
StressPasses == client # "any" ~> (Joined /\ ~ failed /\ popped = published)

-----------------------------------------------------------------------------
\* The part of it that is about safety: at no time has a failure been recorded,
\* and threads that have been joined agree on the number of messages.
NeverFails == client # "any" => ~ failed /\ (Joined => popped = published)

(* What makes it inductive: where the two threads are in their loops, and  *)
(* what they have counted, in terms of the queue.                          *)

ProducerInv ==
    /\ producing \in {"loop", "done"}
    /\ next = head + 1 /\ published = head
    /\ \A s \in 1..head : log[s] = PayloadOf(s)
    /\ pushing # "idle" =>
           producing = "loop" /\ next <= Iterations /\ payload = PayloadOf(next)
    /\ producer_done => producing = "done"

\* Once producer_done has been seen the head the consumer goes by is the last one.
ConsumerInv ==
    /\ consuming \in {"test", "pop", "empty", "done"}
    /\ popped = tail
    /\ popping # "idle" => consuming = "pop"
    /\ popping = "copy" => destination = MaxPayloadSize
    /\ popping = "release" => result.sequence = tail + 1
    /\ consuming \in {"empty", "done"} => producer_done /\ seen_head = head
    /\ consuming = "done" => tail = head

RetryInv ==
    /\ producing = "done" /\ popped = 0 /\ published = 0
    /\ consuming \in {"push", "short", "again", "validate", "done"}
    /\ pushing # "idle" => consuming = "push" /\ payload = PayloadOf(1)
    /\ consuming = "push" => popping = "idle" /\ head = 0
    /\ consuming \in {"short", "again", "validate"} =>
           head = 1 /\ tail = 0 /\ log = <<PayloadOf(1)>>
    /\ popping = "copy" =>
           \/ consuming = "short" /\ destination = Len(PayloadOf(1)) - 1
           \/ consuming = "again" /\ destination = Len(PayloadOf(1))
    /\ popping = "release" <=> consuming = "validate"

StressInv ==
    /\ client \in {"retry", "run_spsc", "any"}
    /\ client = "run_spsc" => ~ failed /\ ProducerInv /\ ConsumerInv
    /\ client = "retry" => ~ failed /\ RetryInv

=============================================================================
