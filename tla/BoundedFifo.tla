---------------------------- MODULE BoundedFifo -----------------------------
(***************************************************************************)
(* A bounded first-in first-out queue that can be closed: the abstract     *)
(* specification that SPSCQueue and BlockingQueue implement.               *)
(***************************************************************************)
EXTENDS Naturals, Sequences

CONSTANT Items      \* what can be queued

VARIABLES
    capacity,       \* how many can be queued
    items,          \* what is queued, oldest first
    taken,          \* what has been handed out, in order
    closed          \* is nothing accepted any more?

vars == <<capacity, items, taken, closed>>

Init ==
    /\ capacity \in Nat
    /\ items = << >>
    /\ taken = << >>
    /\ closed = FALSE

Enqueue ==
    /\ ~ closed
    /\ Len(items) < capacity
    /\ \E x \in Items : items' = Append(items, x)
    /\ UNCHANGED <<capacity, taken, closed>>

\* What was queued before closing is still handed out.
Dequeue ==
    /\ items # << >>
    /\ taken' = Append(taken, Head(items))
    /\ items' = Tail(items)
    /\ UNCHANGED <<capacity, closed>>

Close ==
    /\ closed' = TRUE
    /\ UNCHANGED <<capacity, items, taken>>

Next == Enqueue \/ Dequeue \/ Close

Spec == Init /\ [][Next]_vars

=============================================================================
