----------------------------- MODULE SPSCQueue ------------------------------
(***************************************************************************)
(* The bounded single-producer single-consumer ring                        *)
(* (include/orbitqueue/spsc_queue.h).                                      *)
(*                                                                         *)
(* Each side alone writes its own index and loads the other's with         *)
(* acquire.  Such a load may return an old value, though never one older   *)
(* than the last value that thread has loaded (coherence): seen_tail and   *)
(* seen_head are these last values.  They matter, because try_push tests   *)
(* head - tail == capacity_ for equality.  Acquiring the value t of tail_  *)
(* orders the producer after the copies of the messages up to t and no     *)
(* further; NoDataRace is therefore about seen_tail and seen_head and not  *)
(* about the indices.  The copy of the payload bytes is one step: no other *)
(* thread accesses the slot meanwhile.                                     *)
(***************************************************************************)
EXTENDS FixedMessage, Integers

CONSTANTS
    Capacity,
    Payloads,       \* the payloads passed to try_push
    Destinations,   \* the sizes of the destinations passed to try_pop
    MaxPushes       \* bound on accepted messages

ASSUME SPSCAssumption ==
    /\ Capacity \in Nat \ {0}
    /\ Payloads \subseteq Seq(Byte)
    /\ Destinations \subseteq Nat
    /\ MaxPushes \in Nat

VARIABLES
    slots,          \* slots_
    head, tail,     \* head_, tail_
    seen_tail,      \* the last value of tail_ the producer has loaded
    seen_head,      \* the last value of head_ the consumer has loaded
    pushing,        \* where the producer is
    popping,        \* where the consumer is
    payload,        \* the argument of the try_push in progress
    destination,    \* the size of the destination of the try_pop in progress
    result,         \* what copy_to() returned to it
    log,            \* history: the messages accepted, in order
    received        \* history: the messages popped, in order

producer == <<seen_tail, pushing, payload>>
consumer == <<seen_head, popping, destination, result>>
vars == <<slots, head, tail, seen_tail, seen_head, pushing, popping, payload,
          destination, result, log, received>>

Slots == 0..(Capacity - 1)

SlotOf(index) == index % Capacity

NoPayload == << >>
NoDestination == 0
NoResult == [status |-> "none", payload |-> << >>, sequence |-> 0]

\* What an acquire load of the other side's index returns.
TailLoads == seen_tail..tail
HeadLoads == seen_head..head

Init ==
    /\ slots = [i \in Slots |-> EmptyMessage]
    /\ head = 0 /\ tail = 0
    /\ seen_tail = 0 /\ seen_head = 0
    /\ pushing = "idle" /\ popping = "idle"
    /\ payload = NoPayload
    /\ destination = NoDestination
    /\ result = NoResult
    /\ log = << >>
    /\ received = << >>

-----------------------------------------------------------------------------
(* try_push                                                                *)

PushTooLarge(data) ==
    /\ pushing = "idle"
    /\ ~ Fits(data)
    /\ UNCHANGED vars

PushFull(data) ==
    /\ pushing = "idle"
    /\ Fits(data)
    /\ seen_tail' \in TailLoads
    /\ head - seen_tail' = Capacity
    /\ UNCHANGED <<slots, head, tail, pushing, payload, consumer, log, received>>

\* Mutant: the test for a full ring is off by one.
PushCallOverfull(data) ==
    /\ pushing = "idle"
    /\ head < MaxPushes
    /\ Fits(data)
    /\ seen_tail' \in TailLoads
    /\ head - seen_tail' # Capacity + 1
    /\ pushing' = "assign"
    /\ payload' = data
    /\ UNCHANGED <<slots, head, tail, consumer, log, received>>

PushCall(data) ==
    /\ pushing = "idle"
    /\ head < MaxPushes
    /\ Fits(data)
    /\ seen_tail' \in TailLoads
    /\ head - seen_tail' # Capacity
    /\ pushing' = "assign"
    /\ payload' = data
    /\ UNCHANGED <<slots, head, tail, consumer, log, received>>

\* Mutant: the slot is that of the sequence, not of the head.
PushAssignNextSlot ==
    /\ pushing = "assign"
    /\ slots' = [slots EXCEPT ![SlotOf(head + 1)] = Assign(@, payload, head + 1)]
    /\ pushing' = "publish"
    /\ UNCHANGED <<head, tail, seen_tail, payload, consumer, log, received>>

PushAssign ==
    /\ pushing = "assign"
    /\ slots' = [slots EXCEPT ![SlotOf(head)] = Assign(@, payload, head + 1)]
    /\ pushing' = "publish"
    /\ UNCHANGED <<head, tail, seen_tail, payload, consumer, log, received>>

PushPublish ==
    /\ pushing = "publish"
    /\ head' = head + 1
    /\ log' = Append(log, payload)
    /\ pushing' = "idle"
    /\ payload' = NoPayload
    /\ UNCHANGED <<slots, tail, seen_tail, consumer, received>>

-----------------------------------------------------------------------------
(* try_pop                                                                 *)

PopEmpty ==
    /\ popping = "idle"
    /\ seen_head' \in HeadLoads
    /\ tail = seen_head'
    /\ UNCHANGED <<slots, head, tail, producer, popping, destination, result, log,
                   received>>

PopCall(size) ==
    /\ popping = "idle"
    /\ seen_head' \in HeadLoads
    /\ tail # seen_head'
    /\ popping' = "copy"
    /\ destination' = size
    /\ UNCHANGED <<slots, head, tail, producer, result, log, received>>

\* Mutant: tail_ is stored whatever copy_to() returned.
PopCopyAlwaysReleases ==
    /\ popping = "copy"
    /\ result' = CopyTo(slots[SlotOf(tail)], destination)
    /\ popping' = "release"
    /\ destination' = NoDestination
    /\ UNCHANGED <<slots, head, tail, producer, seen_head, log, received>>

\* A destination that is too small leaves the message in the queue.
PopCopy ==
    LET copied == CopyTo(slots[SlotOf(tail)], destination) IN
    /\ popping = "copy"
    /\ IF copied.status = "success"
       THEN popping' = "release" /\ result' = copied
       ELSE popping' = "idle" /\ UNCHANGED result
    /\ destination' = NoDestination
    /\ UNCHANGED <<slots, head, tail, producer, seen_head, log, received>>

PopRelease ==
    /\ popping = "release"
    /\ tail' = tail + 1
    /\ received' = Append(received, result.payload)
    /\ popping' = "idle"
    /\ result' = NoResult
    /\ UNCHANGED <<slots, head, producer, seen_head, destination, log>>

-----------------------------------------------------------------------------
(* empty() and full(), called by either side: one load of its own index,   *)
(* one of the other's.                                                     *)

ProducerAsks ==
    /\ pushing = "idle"
    /\ seen_tail' \in TailLoads
    /\ UNCHANGED <<slots, head, tail, pushing, payload, consumer, log, received>>

ConsumerAsks ==
    /\ popping = "idle"
    /\ seen_head' \in HeadLoads
    /\ UNCHANGED <<slots, head, tail, producer, popping, destination, result, log,
                   received>>

Push ==
    \/ \E data \in Payloads : PushTooLarge(data) \/ PushFull(data) \/ PushCall(data)
    \/ PushAssign \/ PushPublish

Pop ==
    \/ PopEmpty
    \/ \E size \in Destinations : PopCall(size)
    \/ PopCopy \/ PopRelease

Next == Push \/ Pop \/ ProducerAsks \/ ConsumerAsks

Spec == Init /\ [][Next]_vars

-----------------------------------------------------------------------------
(* Properties                                                              *)

Accepted == {data \in Payloads : Fits(data)}

\* Type invariant.
TypeOK ==
    /\ slots \in [Slots -> Message]
    /\ head \in Nat /\ tail \in Nat
    /\ seen_tail \in 0..tail /\ seen_head \in 0..head
    /\ pushing \in {"idle", "assign", "publish"}
    /\ popping \in {"idle", "copy", "release"}
    /\ payload \in Accepted \union {NoPayload}
    /\ destination \in Destinations \union {NoDestination}
    /\ result \in [status : {"none", "success"}, payload : Seq(Byte), sequence : Nat]
    /\ log \in Seq(Accepted) /\ Len(log) = head
    /\ received \in Seq(Seq(Byte)) /\ Len(received) = tail

\* The plain accesses of a slot never race: when the producer writes a slot
\* the tail it has acquired says that the previous message in it was copied
\* out, and when the consumer copies a slot the head it has acquired says that
\* the message in it is complete.
NoDataRace ==
    /\ pushing = "assign" => head < seen_tail + Capacity
    /\ popping = "copy" => tail < seen_head
    /\ pushing = "assign" /\ popping = "copy" => SlotOf(head) # SlotOf(tail)

\* What is queued: the accepted messages that have not been popped.
Queued == SubSeq(log, tail + 1, head)

Fifo == INSTANCE BoundedFifo WITH
            Items <- Accepted, capacity <- Capacity, items <- Queued, taken <- received,
            closed <- FALSE

\* The ring implements a bounded FIFO: a message is queued by the store of
\* head_ and taken by the store of tail_, never more than capacity_ are queued,
\* and every message is popped once, whole and in order, although it is handed
\* over through a reused slot and an earlier try_pop of it may have failed.
ImplementsFifo == Fifo!Spec

\* The inductive invariant.  The indices the two sides go by bound the real
\* ones, and the slot of a queued message holds it.
SPSCInv ==
    /\ TypeOK
    /\ tail <= seen_head
    /\ seen_head <= head
    /\ head <= seen_tail + Capacity
    /\ pushing \in {"assign", "publish"} =>
           head < seen_tail + Capacity /\ payload \in Accepted
    /\ pushing = "publish" =>
           /\ Contents(slots[SlotOf(head)]) = payload
           /\ slots[SlotOf(head)].sequence = head + 1
    /\ popping \in {"copy", "release"} => tail < seen_head
    /\ popping = "release" => result.payload = log[tail + 1]
    /\ \A q \in tail..(head - 1) :
           /\ Contents(slots[SlotOf(q)]) = log[q + 1]
           /\ slots[SlotOf(q)].sequence = q + 1
    /\ \A q \in 0..(tail - 1) : received[q + 1] = log[q + 1]

=============================================================================
