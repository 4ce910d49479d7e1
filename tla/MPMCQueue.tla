----------------------------- MODULE MPMCQueue ------------------------------
(***************************************************************************)
(* The bounded sequence-cell MPMC ring (include/orbitqueue/mpmc_queue.h).  *)
(*                                                                         *)
(* Every atomic access of try_push, try_pop and empty is a step of its     *)
(* own, so that the calls of different threads interleave between any two  *)
(* of them.  The copy of the payload bytes is one step, but the thread     *)
(* stays inside it from its claim on (pc "push_assign", "pop_copy"):       *)
(* ExclusiveOwnership says that no other thread is then inside a copy of   *)
(* the same cell, which is what makes the copy atomic for the others.      *)
(*                                                                         *)
(* Memory orders.  Acquire and relaxed loads may return values that are    *)
(* not the newest.  With StaleReads a load returns any value its location  *)
(* has held so far, which is more than C++ allows (coherence is ignored),  *)
(* so what holds here does not depend on a load being recent.  Without     *)
(* StaleReads loads return the newest value: the interleaving semantics.   *)
(* A successful compare-exchange always acts on the newest value.  A       *)
(* cell's sequence never takes the same value twice, so acquiring the      *)
(* value v from it orders the thread after the one release store of v and  *)
(* after the bytes that store publishes.                                   *)
(***************************************************************************)
EXTENDS FixedMessage, Integers

CONSTANTS
    Threads,        \* each may call try_push, try_pop and empty
    Capacity,
    Payloads,       \* the payloads callers pass to try_push
    Destinations,   \* the sizes of the destinations passed to try_pop
    StaleReads,     \* TRUE: loads may return old values
    MaxPositions    \* bound: no try_push starts once so many are claimed

\* The constructor requires a power of two greater than one (which makes
\* position & mask_ the remainder used below); no result here needs the
\* power of two.
ASSUME CapacityAssumption == Capacity \in Nat /\ Capacity > 1

ASSUME PayloadsAssumption == Payloads \subseteq Seq(Byte)

ASSUME DestinationsAssumption == Destinations \subseteq Nat

ASSUME StaleReadsAssumption == StaleReads \in BOOLEAN

ASSUME MaxPositionsAssumption == MaxPositions \in Nat

VARIABLES
    enqueue_pos,    \* enqueue_pos_
    dequeue_pos,    \* dequeue_pos_
    sequence,       \* cells_[i].sequence
    message,        \* cells_[i].message
    pc,             \* where each thread is
    position,       \* the local variable position of each thread
    payload,        \* the argument of each thread's try_push
    destination,    \* the size of the destination of each thread's try_pop
    result,         \* what copy_to returned, until the pop returns
    log,            \* history: payloads in the order their positions were claimed
    popped          \* history: what the completed pops returned

shared == <<enqueue_pos, dequeue_pos, sequence, message>>
args == <<payload, destination>>
vars == <<enqueue_pos, dequeue_pos, sequence, message, pc, position, payload,
          destination, result, log, popped>>

Cells == 0..(Capacity - 1)

CellOf(q) == q % Capacity

NoPayload == << >>
NoDestination == 0
NoResult == << >>

\* The values the sequence of a cell has held: its index, and then in turn
\* "published" and "released" values of one generation after the other.
Held(i) ==
    {s \in 0..sequence[i] :
        s >= i /\ (CellOf(s) = i \/ CellOf(s) = CellOf(i + 1))}

\* The values a load of a position counter, and of a cell's sequence, returns.
PositionLoads(counter) == IF StaleReads THEN 0..counter ELSE {counter}
SequenceLoads(i) == IF StaleReads THEN Held(i) ELSE {sequence[i]}

Init ==
    /\ enqueue_pos = 0
    /\ dequeue_pos = 0
    /\ sequence = [i \in Cells |-> i]
    /\ message = [i \in Cells |-> EmptyMessage]
    /\ pc = [t \in Threads |-> "idle"]
    /\ position = [t \in Threads |-> 0]
    /\ payload = [t \in Threads |-> NoPayload]
    /\ destination = [t \in Threads |-> NoDestination]
    /\ result = [t \in Threads |-> NoResult]
    /\ log = << >>
    /\ popped = {}

-----------------------------------------------------------------------------
(* What the steps of the three operations have in common.                  *)

\* The step from label "from" to label "to" that sets position to q.
Move(t, from, to, q) ==
    /\ pc[t] = from
    /\ pc' = [pc EXCEPT ![t] = to]
    /\ position' = [position EXCEPT ![t] = q]

\* The call ends: nothing of its locals survives it.
Return(t, from) ==
    /\ Move(t, from, "idle", 0)
    /\ payload' = [payload EXCEPT ![t] = NoPayload]
    /\ destination' = [destination EXCEPT ![t] = NoDestination]
    /\ result' = [result EXCEPT ![t] = NoResult]

-----------------------------------------------------------------------------
(* try_push                                                                *)

\* A payload that is too large is refused before anything is read or claimed.
PushTooLarge(t, data) ==
    /\ pc[t] = "idle"
    /\ ~ Fits(data)
    /\ UNCHANGED vars

PushCall(t, data) ==
    /\ enqueue_pos < MaxPositions
    /\ Fits(data)
    /\ \E q \in PositionLoads(enqueue_pos) : Move(t, "idle", "push_load", q)
    /\ payload' = [payload EXCEPT ![t] = data]
    /\ UNCHANGED <<shared, destination, result, log, popped>>

\* Mutant: the sequence of the cell is not looked at.
PushReadyUnchecked(t) ==
    /\ Move(t, "push_load", "push_cas", position[t])
    /\ UNCHANGED <<shared, args, result, log, popped>>

\* sequence == position: the cell is free for this position, try to claim it.
PushReady(t) ==
    /\ position[t] \in SequenceLoads(CellOf(position[t]))
    /\ Move(t, "push_load", "push_cas", position[t])
    /\ UNCHANGED <<shared, args, result, log, popped>>

\* Mutant: <= for <.
PushFullTooEarly(t) ==
    /\ \E s \in SequenceLoads(CellOf(position[t])) : s <= position[t]
    /\ Return(t, "push_load")
    /\ UNCHANGED <<shared, log, popped>>

\* sequence < position: the cell still belongs to the previous generation.
PushFull(t) ==
    /\ \E s \in SequenceLoads(CellOf(position[t])) : s < position[t]
    /\ Return(t, "push_load")
    /\ UNCHANGED <<shared, log, popped>>

\* sequence > position: the position is taken; the counter is read again.
PushReload(t) ==
    /\ \E s \in SequenceLoads(CellOf(position[t])) : s > position[t]
    /\ Move(t, "push_load", "push_reload", position[t])
    /\ UNCHANGED <<shared, args, result, log, popped>>

\* Mutant: the counter is not read again.
PushRepositionForgotten(t) ==
    /\ Move(t, "push_reload", "push_load", position[t])
    /\ UNCHANGED <<shared, args, result, log, popped>>

PushReposition(t) ==
    /\ \E q \in PositionLoads(enqueue_pos) : Move(t, "push_reload", "push_load", q)
    /\ UNCHANGED <<shared, args, result, log, popped>>

\* Mutant: a store in place of the compare-exchange.
PushClaimByStore(t) ==
    /\ Move(t, "push_cas", "push_assign", position[t])
    /\ enqueue_pos' = position[t] + 1
    /\ log' = Append(log, payload[t])
    /\ UNCHANGED <<dequeue_pos, sequence, message, args, result, popped>>

\* The compare-exchange succeeds: position is now this thread's.
PushClaim(t) ==
    /\ enqueue_pos = position[t]
    /\ Move(t, "push_cas", "push_assign", position[t])
    /\ enqueue_pos' = position[t] + 1
    /\ log' = Append(log, payload[t])
    /\ UNCHANGED <<dequeue_pos, sequence, message, args, result, popped>>

\* The compare-exchange fails, also spuriously (it is the weak form), and
\* leaves the value it saw in position.
PushCasFails(t) ==
    /\ \E q \in PositionLoads(enqueue_pos) : Move(t, "push_cas", "push_load", q)
    /\ UNCHANGED <<shared, args, result, log, popped>>

PushAssign(t) ==
    /\ Move(t, "push_assign", "push_publish", position[t])
    /\ message' = [message EXCEPT ![CellOf(position[t])] =
                      Assign(@, payload[t], position[t] + 1)]
    /\ UNCHANGED <<enqueue_pos, dequeue_pos, sequence, args, result, log, popped>>

\* The release store that hands the cell to consumers; try_push returns.
PushPublish(t) ==
    /\ Return(t, "push_publish")
    /\ sequence' = [sequence EXCEPT ![CellOf(position[t])] = position[t] + 1]
    /\ UNCHANGED <<enqueue_pos, dequeue_pos, message, log, popped>>

-----------------------------------------------------------------------------
(* try_pop                                                                 *)

PopCall(t, size) ==
    /\ \E q \in PositionLoads(dequeue_pos) : Move(t, "idle", "pop_load", q)
    /\ destination' = [destination EXCEPT ![t] = size]
    /\ UNCHANGED <<shared, payload, result, log, popped>>

\* Mutant: sequence == position, the test of a producer.
PopReadyUnpublished(t) ==
    /\ position[t] \in SequenceLoads(CellOf(position[t]))
    /\ Move(t, "pop_load", "pop_cas", position[t])
    /\ UNCHANGED <<shared, args, result, log, popped>>

\* sequence == position + 1: the cell is published, try to claim it.
PopReady(t) ==
    /\ (position[t] + 1) \in SequenceLoads(CellOf(position[t]))
    /\ Move(t, "pop_load", "pop_cas", position[t])
    /\ UNCHANGED <<shared, args, result, log, popped>>

\* Mutant: <= for <.
PopEmptyTooEarly(t) ==
    /\ \E s \in SequenceLoads(CellOf(position[t])) : s <= position[t] + 1
    /\ Return(t, "pop_load")
    /\ UNCHANGED <<shared, log, popped>>

\* sequence < position + 1: nothing is published at this position.
PopEmpty(t) ==
    /\ \E s \in SequenceLoads(CellOf(position[t])) : s < position[t] + 1
    /\ Return(t, "pop_load")
    /\ UNCHANGED <<shared, log, popped>>

\* sequence > position + 1: another consumer was faster.
PopReload(t) ==
    /\ \E s \in SequenceLoads(CellOf(position[t])) : s > position[t] + 1
    /\ Move(t, "pop_load", "pop_reload", position[t])
    /\ UNCHANGED <<shared, args, result, log, popped>>

PopReposition(t) ==
    /\ \E q \in PositionLoads(dequeue_pos) : Move(t, "pop_reload", "pop_load", q)
    /\ UNCHANGED <<shared, args, result, log, popped>>

\* Mutant: a store in place of the compare-exchange.
PopClaimByStore(t) ==
    /\ Move(t, "pop_cas", "pop_copy", position[t])
    /\ dequeue_pos' = position[t] + 1
    /\ UNCHANGED <<enqueue_pos, sequence, message, args, result, log, popped>>

PopClaim(t) ==
    /\ dequeue_pos = position[t]
    /\ Move(t, "pop_cas", "pop_copy", position[t])
    /\ dequeue_pos' = position[t] + 1
    /\ UNCHANGED <<enqueue_pos, sequence, message, args, result, log, popped>>

PopCasFails(t) ==
    /\ \E q \in PositionLoads(dequeue_pos) : Move(t, "pop_cas", "pop_load", q)
    /\ UNCHANGED <<shared, args, result, log, popped>>

PopCopy(t) ==
    /\ Move(t, "pop_copy", "pop_release", position[t])
    /\ result' = [result EXCEPT ![t] = CopyTo(message[CellOf(position[t])], destination[t])]
    /\ UNCHANGED <<shared, args, log, popped>>

\* Mutant: + capacity_ forgotten.
PopReleaseSameGeneration(t) ==
    /\ Return(t, "pop_release")
    /\ sequence' = [sequence EXCEPT ![CellOf(position[t])] = position[t]]
    /\ popped' = popped \union {[destination |-> destination[t], returned |-> result[t]]}
    /\ UNCHANGED <<enqueue_pos, dequeue_pos, message, log>>

\* The release store that hands the cell to the producer of the next
\* generation, whatever copy_to returned; try_pop returns.
PopRelease(t) ==
    /\ Return(t, "pop_release")
    /\ sequence' = [sequence EXCEPT ![CellOf(position[t])] = position[t] + Capacity]
    /\ popped' = popped \union {[destination |-> destination[t], returned |-> result[t]]}
    /\ UNCHANGED <<enqueue_pos, dequeue_pos, message, log>>

-----------------------------------------------------------------------------
(* empty                                                                   *)

EmptyCall(t) ==
    /\ \E q \in PositionLoads(dequeue_pos) : Move(t, "idle", "empty_load", q)
    /\ UNCHANGED <<shared, args, result, log, popped>>

EmptyTrue(t) ==
    /\ \E s \in SequenceLoads(CellOf(position[t])) : s < position[t] + 1
    /\ Return(t, "empty_load")
    /\ UNCHANGED <<shared, log, popped>>

EmptyFalse(t) ==
    /\ \E s \in SequenceLoads(CellOf(position[t])) : s >= position[t] + 1
    /\ Return(t, "empty_load")
    /\ UNCHANGED <<shared, log, popped>>

-----------------------------------------------------------------------------
Push(t) ==
    \/ \E data \in Payloads : PushTooLarge(t, data)
    \/ \E data \in Payloads : PushCall(t, data)
    \/ PushReady(t) \/ PushFull(t) \/ PushReload(t) \/ PushReposition(t)
    \/ PushClaim(t) \/ PushCasFails(t) \/ PushAssign(t) \/ PushPublish(t)

Pop(t) ==
    \/ \E size \in Destinations : PopCall(t, size)
    \/ PopReady(t) \/ PopEmpty(t) \/ PopReload(t) \/ PopReposition(t)
    \/ PopClaim(t) \/ PopCasFails(t) \/ PopCopy(t) \/ PopRelease(t)

Empty(t) == EmptyCall(t) \/ EmptyTrue(t) \/ EmptyFalse(t)

Next == \E t \in Threads : Push(t) \/ Pop(t) \/ Empty(t)

Spec == Init /\ [][Next]_vars

\* The steps with which a thread gets on with the call it is in.
Step(t) ==
    \/ PushReady(t) \/ PushFull(t) \/ PushReload(t) \/ PushReposition(t)
    \/ PushClaim(t) \/ PushCasFails(t) \/ PushAssign(t) \/ PushPublish(t)
    \/ PopReady(t) \/ PopEmpty(t) \/ PopReload(t) \/ PopReposition(t)
    \/ PopClaim(t) \/ PopCasFails(t) \/ PopCopy(t) \/ PopRelease(t)
    \/ EmptyTrue(t) \/ EmptyFalse(t)

\* Thread t, and no other, is assumed to be scheduled; and a weak
\* compare-exchange that could succeed again and again does not fail
\* spuriously for ever.
Fairness(t) ==
    /\ WF_vars(Step(t))
    /\ SF_vars(PushClaim(t))
    /\ SF_vars(PopClaim(t))

-----------------------------------------------------------------------------
(* Properties                                                              *)

\* A producer owns its cell from its claim to its publication, a consumer
\* from its claim to its release.
Writing(t) == pc[t] \in {"push_assign", "push_publish"}
Reading(t) == pc[t] \in {"pop_copy", "pop_release"}

Labels ==
    {"idle", "push_load", "push_reload", "push_cas", "push_assign", "push_publish",
     "pop_load", "pop_reload", "pop_cas", "pop_copy", "pop_release", "empty_load"}

Results ==
    [status : {"success", "message_too_large"}, payload : Seq(Byte), sequence : Nat]

\* Type invariant of the queue, of the callers' locals and of the histories.
TypeOK ==
    /\ enqueue_pos \in Nat
    /\ dequeue_pos \in Nat
    /\ sequence \in [Cells -> Nat]
    /\ message \in [Cells -> Message]
    /\ pc \in [Threads -> Labels]
    /\ position \in [Threads -> Nat]
    /\ payload \in [Threads -> Payloads \union {NoPayload}]
    /\ destination \in [Threads -> Destinations \union {NoDestination}]
    /\ result \in [Threads -> Results \union {NoResult}]
    /\ log \in Seq(Payloads)
    /\ popped \subseteq [destination : Destinations, returned : Results]

\* The payload bytes of a cell are plain memory: from a claim until the
\* sequence store that ends it, no other thread has a claim on the cell, so
\* assign() and copy_to() never overlap on one message.
ExclusiveOwnership ==
    \A t, u \in Threads :
        /\ t # u
        /\ Writing(t) \/ Reading(t)
        /\ Writing(u) \/ Reading(u)
        => CellOf(position[t]) # CellOf(position[u])

\* Consumers never claim a position that no producer has claimed, and
\* producers never claim one whose cell is still occupied: a bounded queue.
WithinCapacity ==
    /\ dequeue_pos <= enqueue_pos
    /\ enqueue_pos <= dequeue_pos + Capacity

\* Unread messages are never overwritten: at every position that is claimed
\* for push and not for pop, and whose producer has finished, the cell is
\* published and holds the payload pushed there under the sequence
\* position + 1 that try_push returned.
UnreadRetained ==
    \A q \in dequeue_pos..(enqueue_pos - 1) :
        (\A t \in Threads : Writing(t) => position[t] # q)
        => /\ sequence[CellOf(q)] = q + 1
           /\ message[CellOf(q)].sequence = q + 1
           /\ Contents(message[CellOf(q)]) = log[q + 1]

\* What copy_to must report for a payload pushed as the s-th one.
Expected(s, size) ==
    IF size < Len(log[s])
    THEN [status |-> "message_too_large", payload |-> << >>, sequence |-> s]
    ELSE [status |-> "success", payload |-> log[s], sequence |-> s]

\* Every pop returned the payload, whole and unmixed, of the push whose
\* sequence it reports, or message_too_large for a destination smaller than
\* that payload.
PopReturnsItsPush ==
    \A r \in popped :
        /\ r.returned.sequence \in 1..Len(log)
        /\ r.returned = Expected(r.returned.sequence, r.destination)

\* Each push is returned by at most one pop, an undersized one included: a
\* pop about to return holds a sequence that no pop has returned and that
\* no other pop is about to return.
AtMostOnePop ==
    \A t \in Threads :
        pc[t] = "pop_release" =>
            /\ \A r \in popped : r.returned.sequence # result[t].sequence
            /\ \A u \in Threads \ {t} :
                   pc[u] = "pop_release" => result[u].sequence # result[t].sequence

\* The generation of a cell only grows, so no value is stored twice and a
\* compare-exchange based on an old load cannot succeed on a reused cell.
GenerationsGrow ==
    [][\A i \in Cells : sequence'[i] # sequence[i] => sequence'[i] > sequence[i]]_sequence

\* When try_pop reports empty (or empty() is true), there is no unread
\* message at all, or the push of the very next one is between its claim and
\* its publication.  A position read too early is never mistaken for an
\* empty queue.  This needs loads that return the newest value.
EmptyIsHonest ==
    [][\A t \in Threads :
          PopEmpty(t) \/ EmptyTrue(t) =>
              \/ enqueue_pos = dequeue_pos
              \/ \E u \in Threads : Writing(u) /\ position[u] = dequeue_pos]_vars

\* When try_push reports full, Capacity messages are unread, or the pop of
\* the message that occupies the next cell is between its claim and its
\* release.  This needs loads that return the newest value.
FullIsHonest ==
    [][\A t \in Threads :
          PushFull(t) =>
              \/ enqueue_pos = dequeue_pos + Capacity
              \/ \E u \in Threads : Reading(u) /\ position[u] = enqueue_pos - Capacity]_vars

\* A call of thread t returns even if every other thread stops for good at
\* any point, inside a claim included: try_push and try_pop retry only
\* because another thread claimed a position.
CallReturns(t) == pc[t] # "idle" ~> pc[t] = "idle"

-----------------------------------------------------------------------------
(* The queue as its callers see it: the positions from dequeue_pos to      *)
(* enqueue_pos are the entries.  The item of an entry is what its cell     *)
(* holds; while the push is still writing there it is what was passed.     *)

Unpublished(q) == \E t \in Threads : Writing(t) /\ position[t] = q

EntryAt(q) ==
    [item     |-> IF Unpublished(q) THEN log[q + 1] ELSE Contents(message[CellOf(q)]),
     ready    |-> ~ Unpublished(q),
     sequence |-> q + 1]

Entries == [i \in 1..(enqueue_pos - dequeue_pos) |-> EntryAt(dequeue_pos + i - 1)]

\* What a pop owns from its claim to its release, as its cell holds it.
InHand ==
    [t \in Threads |->
        IF Reading(t)
        THEN [item     |-> Contents(message[CellOf(position[t])]),
              ready    |-> TRUE,
              sequence |-> position[t] + 1]
        ELSE << >>]

Exclusive == INSTANCE ExclusiveQueue WITH
    Items   <- Payloads,
    Takers  <- Threads,
    entries <- Entries,
    issued  <- enqueue_pos,
    held    <- InHand

\* To its callers the ring is a bounded queue in which a push takes effect with
\* its compare-exchange and becomes visible with its release store, and a pop
\* takes the oldest item with its compare-exchange: in order, each item once,
\* and never one whose push has not finished.  The cell keeps the item unchanged
\* until the pop releases it.
ImplementsExclusiveQueue == Exclusive!Spec

-----------------------------------------------------------------------------
(* The inductive invariant behind the safety properties.  Every cell is    *)
(* described from the next position q that will be claimed for push there: *)
(* either it is free for q, or it serves q - Capacity, whose producer is   *)
(* still writing or whose message is published.                            *)

\* The next position to be claimed for push at each cell.
Upcoming == enqueue_pos..(enqueue_pos + Capacity - 1)

Holds(q) ==
    /\ message[CellOf(q)].sequence = q + 1
    /\ Contents(message[CellOf(q)]) = log[q + 1]

Free(q) ==
    /\ sequence[CellOf(q)] = q
    /\ q < dequeue_pos + Capacity

BeingWritten(q) ==
    /\ sequence[CellOf(q)] = q
    /\ \E t \in Threads : Writing(t) /\ position[t] = q

Published(q) ==
    /\ sequence[CellOf(q)] = q + 1
    /\ Holds(q)
    /\ \/ q >= dequeue_pos
       \/ \E t \in Threads : Reading(t) /\ position[t] = q

CellsInv ==
    \A q \in Upcoming :
        \/ Free(q)
        \/ q >= Capacity /\ BeingWritten(q - Capacity)
        \/ q >= Capacity /\ Published(q - Capacity)

\* A thread in try_push holds a payload that fits; once it writes, its
\* position is in the current generation and its cell carries that position.
PushInv(t) ==
    /\ pc[t] \in {"push_load", "push_reload", "push_cas", "push_assign", "push_publish"} =>
           payload[t] \in Payloads /\ Fits(payload[t])
    /\ pc[t] = "push_cas" => position[t] <= sequence[CellOf(position[t])]
    /\ Writing(t) =>
           /\ dequeue_pos <= position[t]
           /\ position[t] < enqueue_pos
           /\ enqueue_pos <= position[t] + Capacity
           /\ sequence[CellOf(position[t])] = position[t]
           /\ log[position[t] + 1] = payload[t]
    /\ pc[t] = "push_publish" => Holds(position[t])

PopInv(t) ==
    /\ pc[t] \in {"pop_load", "pop_reload", "pop_cas", "pop_copy", "pop_release"} =>
           destination[t] \in Destinations
    /\ pc[t] = "pop_cas" => position[t] + 1 <= sequence[CellOf(position[t])]
    /\ Reading(t) =>
           /\ position[t] < dequeue_pos
           /\ enqueue_pos <= position[t] + Capacity
           /\ sequence[CellOf(position[t])] = position[t] + 1
    /\ pc[t] = "pop_release" => result[t] = Expected(position[t] + 1, destination[t])

\* A position is claimed by one producer and by one consumer at most.
ClaimsInv ==
    \A t, u \in Threads :
        /\ t # u
        /\ \/ Writing(t) /\ Writing(u)
           \/ Reading(t) /\ Reading(u)
        => position[t] # position[u]

PoppedInv ==
    \A r \in popped :
        /\ r.returned.sequence \in 1..dequeue_pos
        /\ r.returned = Expected(r.returned.sequence, r.destination)
        /\ \A t \in Threads : Reading(t) => position[t] + 1 # r.returned.sequence

\* The invariant: the parts above, and the histories in step with the counters.
QueueInv ==
    /\ TypeOK
    /\ Len(log) = enqueue_pos
    /\ WithinCapacity
    /\ CellsInv
    /\ \A t \in Threads : PushInv(t) /\ PopInv(t)
    /\ ClaimsInv
    /\ PoppedInv

=============================================================================
