------------------------ MODULE SPMCMulticastQueue --------------------------
(***************************************************************************)
(* The multicast queue guarded by one mutex                                *)
(* (include/orbitqueue/spmc_multicast_queue.h).                            *)
(*                                                                         *)
(* Everything an operation does to the queue, and a read to its Consumer,  *)
(* is done under the lock_guard, so an operation is one step.  Outside the *)
(* lock there are only the size test of try_publish, on its argument, and  *)
(* the test of queue_ in try_read, on an object its caller owns.           *)
(***************************************************************************)
EXTENDS FixedMessage, Integers

CONSTANTS
    Capacity,
    Handles,            \* the Consumer objects of the program
    Payloads,
    Destinations,
    MaxPublications,    \* bound on accepted publications
    MaxRegistrations    \* bound on calls of register_consumer

ASSUME MulticastAssumption ==
    /\ Capacity \in Nat \ {0}
    /\ Payloads \subseteq Seq(Byte)
    /\ Destinations \subseteq Nat
    /\ MaxPublications \in Nat
    /\ MaxRegistrations \in Nat

VARIABLES
    slots,                \* slots_
    published_sequence,   \* published_sequence_
    attached,             \* queue_ != nullptr, for each Consumer
    next_sequence,        \* next_sequence_
    log,                  \* history: payloads in the order of publication
    registration,         \* history: which registration a Consumer stems from
    start,                \* history: the first sequence of each registration
    received              \* history: what each registration was given

ring == <<slots, published_sequence, log>>
vars == <<slots, published_sequence, attached, next_sequence, log, registration,
          start, received>>

Slots == 0..(Capacity - 1)

SlotOf(s) == (s - 1) % Capacity

Init ==
    /\ slots = [i \in Slots |-> EmptyMessage]
    /\ published_sequence = 0
    /\ attached = [h \in Handles |-> FALSE]
    /\ next_sequence = [h \in Handles |-> 0]
    /\ log = << >>
    /\ registration = [h \in Handles |-> 0]
    /\ start = << >>
    /\ received = << >>

-----------------------------------------------------------------------------
PublishTooLarge(payload) ==
    /\ ~ Fits(payload)
    /\ UNCHANGED vars

\* Mutant: published_sequence_ is used as the sequence of the publication.
PublishSameSequence(payload) ==
    /\ Fits(payload)
    /\ published_sequence < MaxPublications
    /\ LET s == published_sequence + 1 IN
       /\ slots' = [slots EXCEPT ![SlotOf(s)] = Assign(@, payload, published_sequence)]
       /\ published_sequence' = s
    /\ log' = Append(log, payload)
    /\ UNCHANGED <<attached, next_sequence, registration, start, received>>

\* try_publish
Publish(payload) ==
    /\ Fits(payload)
    /\ published_sequence < MaxPublications
    /\ LET s == published_sequence + 1 IN
       /\ slots' = [slots EXCEPT ![SlotOf(s)] = Assign(@, payload, s)]
       /\ published_sequence' = s
    /\ log' = Append(log, payload)
    /\ UNCHANGED <<attached, next_sequence, registration, start, received>>

\* h = register_consumer()
Register(h) ==
    /\ Len(start) < MaxRegistrations
    /\ attached' = [attached EXCEPT ![h] = TRUE]
    /\ next_sequence' = [next_sequence EXCEPT ![h] = published_sequence + 1]
    /\ registration' = [registration EXCEPT ![h] = Len(start) + 1]
    /\ start' = Append(start, published_sequence + 1)
    /\ received' = Append(received, << >>)
    /\ UNCHANGED ring

\* g = std::move(h)
MoveConsumer(h, g) ==
    /\ g # h
    /\ registration[h] # 0
    /\ attached' = [attached EXCEPT ![g] = attached[h], ![h] = FALSE]
    /\ next_sequence' = [next_sequence EXCEPT ![g] = next_sequence[h]]
    /\ registration' = [registration EXCEPT ![g] = registration[h]]
    /\ UNCHANGED <<ring, start, received>>

-----------------------------------------------------------------------------
(* try_read                                                                *)

\* Mutant: one retained sequence too many is given up.
OldestTooYoung ==
    IF published_sequence >= Capacity THEN published_sequence - Capacity + 2 ELSE 1

\* The oldest sequence whose slot no later publication has taken.
Oldest == IF published_sequence >= Capacity THEN published_sequence - Capacity + 1 ELSE 1

ReadInvalid(h) ==
    /\ registration[h] # 0
    /\ ~ attached[h]
    /\ UNCHANGED vars

ReadEmpty(h) ==
    /\ attached[h]
    /\ next_sequence[h] > published_sequence
    /\ UNCHANGED vars

\* Mutant: the lag is reported and the cursor left behind.
ReadLaggedCursorKept(h) ==
    /\ attached[h]
    /\ next_sequence[h] < Oldest
    /\ UNCHANGED vars

ReadLagged(h) ==
    /\ attached[h]
    /\ next_sequence[h] <= published_sequence
    /\ next_sequence[h] < Oldest
    /\ next_sequence' = [next_sequence EXCEPT ![h] = Oldest]
    /\ UNCHANGED <<ring, attached, registration, start, received>>

\* Mutant: the cursor moves although the destination was too small.
ReadSlotAlwaysAdvances(h, destination) ==
    LET expected == next_sequence[h]
        result == CopyTo(slots[SlotOf(expected)], destination)
    IN /\ attached[h]
       /\ Oldest <= expected
       /\ expected <= published_sequence
       /\ next_sequence' = [next_sequence EXCEPT ![h] = @ + 1]
       /\ received' = IF result.status = "success"
                      THEN [received EXCEPT ![registration[h]] =
                               Append(@, [sequence |-> result.sequence,
                                          payload |-> result.payload])]
                      ELSE received
       /\ UNCHANGED <<ring, attached, registration, start>>

\* The slot is read: overwritten if it holds another sequence, and otherwise
\* the result of copy_to(), where only success moves the cursor.
ReadSlot(h, destination) ==
    LET expected == next_sequence[h]
        slot == slots[SlotOf(expected)]
        result == CopyTo(slot, destination)
    IN /\ attached[h]
       /\ Oldest <= expected
       /\ expected <= published_sequence
       /\ IF slot.sequence # expected
          THEN /\ next_sequence' = [next_sequence EXCEPT ![h] = Oldest]
               /\ UNCHANGED received
          ELSE IF result.status = "success"
          THEN /\ next_sequence' = [next_sequence EXCEPT ![h] = @ + 1]
               /\ received' = [received EXCEPT ![registration[h]] =
                                  Append(@, [sequence |-> result.sequence,
                                             payload |-> result.payload])]
          ELSE UNCHANGED <<next_sequence, received>>
       /\ UNCHANGED <<ring, attached, registration, start>>

Read(h) ==
    \/ ReadInvalid(h) \/ ReadEmpty(h) \/ ReadLagged(h)
    \/ \E destination \in Destinations : ReadSlot(h, destination)

Next ==
    \/ \E payload \in Payloads : PublishTooLarge(payload) \/ Publish(payload)
    \/ \E h \in Handles :
           Register(h) \/ (\E g \in Handles : MoveConsumer(h, g)) \/ Read(h)

Spec == Init /\ [][Next]_vars

-----------------------------------------------------------------------------
(* Properties                                                              *)

\* Type invariant.
TypeOK ==
    /\ slots \in [Slots -> Message]
    /\ published_sequence \in Nat
    /\ attached \in [Handles -> BOOLEAN]
    /\ next_sequence \in [Handles -> Nat]
    /\ log \in Seq({payload \in Payloads : Fits(payload)})
    /\ Len(log) = published_sequence
    /\ registration \in [Handles -> 0..Len(start)]
    /\ start \in Seq(Nat)
    /\ received \in Seq(Seq([sequence : Nat, payload : Seq(Byte)]))
    /\ Len(received) = Len(start)

\* The slot of every retained sequence holds that publication, so the branch
\* of try_read that reports overwritten is never taken: under the mutex the
\* comparison with the oldest retained sequence is enough.
RetainedInSlots ==
    \A s \in Oldest..published_sequence :
        LET slot == slots[SlotOf(s)] IN
        slot.sequence = s /\ Contents(slot) = log[s]

\* Sequences start at 1.
CursorsStarted == \A h \in Handles : attached[h] => next_sequence[h] # 0

\* Every variable has its type, every retained publication is in its slot and every
\* cursor stands at a sequence: all that try_read and try_publish rely on.
SPMCInv == TypeOK /\ RetainedInSlots /\ CursorsStarted

\* What the queue promises its consumers.
Contract == INSTANCE MulticastContract WITH
                Payloads <- {payload \in Payloads : Fits(payload)}

\* The queue implements the multicast contract: try_publish, register_consumer,
\* moves and every outcome of try_read are steps it allows.
ImplementsContract == Contract!Spec

\* A registration misses nothing silently, also across moves of its Consumer:
\* what its cursor has passed was delivered or has been written over.
NoSilentLoss == Contract!NoSilentLoss

\* A handle that is not moved from and keeps reading into a large enough
\* destination reaches the end of what has been published.
CatchesUp(h) == <>[]attached[h] => <>[](next_sequence[h] = published_sequence + 1)

=============================================================================
