------------------------- MODULE MulticastContract --------------------------
(***************************************************************************)
(* What a multicast queue promises its consumers, whatever its             *)
(* synchronisation: the abstract specification that SPMCMulticastQueue and *)
(* VersionedSPMCQueue both implement.                                      *)
(*                                                                         *)
(* A publication is appended to an ever growing log.  A registration has a *)
(* cursor in the log; it is given the publication under its cursor, or the *)
(* cursor is moved ahead over publications whose place in the ring has     *)
(* been given to a later one.  Nothing else happens to a cursor.           *)
(***************************************************************************)
EXTENDS Integers, Sequences

CONSTANTS
    Capacity,       \* how many publications are retained
    Handles,        \* the Consumer objects
    Payloads        \* the payloads producers publish

VARIABLES
    log,            \* the publications, in order; the n-th has sequence n
    attached,       \* does the Consumer refer to the queue?
    next_sequence,  \* its cursor
    registration,   \* which registration it belongs to, 0 if none
    start,          \* where the cursor of each registration began
    received        \* what each registration has been given

vars == <<log, attached, next_sequence, registration, start, received>>

Init ==
    /\ log = << >>
    /\ attached = [h \in Handles |-> FALSE]
    /\ next_sequence = [h \in Handles |-> 0]
    /\ registration = [h \in Handles |-> 0]
    /\ start = << >>
    /\ received = << >>

Publish ==
    /\ \E payload \in Payloads : log' = Append(log, payload)
    /\ UNCHANGED <<attached, next_sequence, registration, start, received>>

\* History is not replayed beyond what the registering thread had not seen yet.
Register(h) ==
    /\ \E s \in 1..(Len(log) + 1) :
           /\ next_sequence' = [next_sequence EXCEPT ![h] = s]
           /\ start' = Append(start, s)
    /\ attached' = [attached EXCEPT ![h] = TRUE]
    /\ registration' = [registration EXCEPT ![h] = Len(start) + 1]
    /\ received' = Append(received, << >>)
    /\ UNCHANGED log

\* The registration of h passes to g.
Move(h, g) ==
    /\ g # h
    /\ attached' = [attached EXCEPT ![g] = attached[h], ![h] = FALSE]
    /\ next_sequence' = [next_sequence EXCEPT ![g] = next_sequence[h]]
    /\ registration' = [registration EXCEPT ![g] = registration[h]]
    /\ UNCHANGED <<log, start, received>>

Deliver(h) ==
    /\ attached[h]
    /\ next_sequence[h] <= Len(log)
    /\ received' = [received EXCEPT ![registration[h]] =
                       Append(@, [sequence |-> next_sequence[h],
                                  payload |-> log[next_sequence[h]]])]
    /\ next_sequence' = [next_sequence EXCEPT ![h] = @ + 1]
    /\ UNCHANGED <<log, attached, registration, start>>

\* Only what a later publication has replaced is passed over.
Skip(h) ==
    /\ attached[h]
    /\ \E s \in next_sequence[h]..Len(log) :
           /\ s - 1 + Capacity <= Len(log)
           /\ next_sequence' = [next_sequence EXCEPT ![h] = s]
    /\ UNCHANGED <<log, attached, registration, start, received>>

Next ==
    \/ Publish
    \/ \E h \in Handles :
           Register(h) \/ (\E g \in Handles : Move(h, g)) \/ Deliver(h) \/ Skip(h)

Spec == Init /\ [][Next]_vars

-----------------------------------------------------------------------------
\* Whatever is delivered is the payload published under its sequence.
DeliveredAsPublished ==
    \A r \in DOMAIN received : \A i \in DOMAIN received[r] :
        LET message == received[r][i] IN
        /\ message.sequence \in DOMAIN log
        /\ message.payload = log[message.sequence]

\* A registration is given every sequence at most once and in order, also when
\* its Consumer object is moved and when the cursor is set anew after a loss.
DeliveredInOrder ==
    \A r \in DOMAIN received : \A i \in 1..(Len(received[r]) - 1) :
        received[r][i].sequence < received[r][i + 1].sequence

\* Nothing is lost silently: a sequence the cursor has passed was delivered,
\* or a later publication has taken its place.
NoSilentLoss ==
    \A h \in Handles :
        attached[h] =>
            \A s \in start[registration[h]]..(next_sequence[h] - 1) :
                \/ \E i \in DOMAIN received[registration[h]] :
                       received[registration[h]][i].sequence = s
                \/ s + Capacity <= Len(log)

-----------------------------------------------------------------------------
Messages == [sequence : Nat, payload : Payloads]

ContractTypes ==
    /\ log \in Seq(Payloads)
    /\ attached \in [Handles -> BOOLEAN]
    /\ next_sequence \in [Handles -> Nat]
    /\ registration \in [Handles -> 0..Len(start)]
    /\ start \in Seq(Nat)
    /\ received \in Seq(Seq(Messages))
    /\ Len(received) = Len(start)

\* At most one handle is attached for a registration, and its cursor is beyond
\* all that the registration has been given.
CursorInv ==
    /\ \A h \in Handles : attached[h] => registration[h] # 0 /\ next_sequence[h] # 0
    /\ \A g, h \in Handles :
          attached[g] /\ attached[h] /\ registration[g] = registration[h] => g = h
    /\ \A h \in Handles :
          attached[h] =>
              \A i \in DOMAIN received[registration[h]] :
                  received[registration[h]][i].sequence < next_sequence[h]

\* The promises together with what makes them inductive.
ContractInv ==
    /\ ContractTypes
    /\ CursorInv
    /\ DeliveredAsPublished
    /\ DeliveredInOrder
    /\ NoSilentLoss

=============================================================================
