--------------------------- MODULE ExclusiveQueue ---------------------------
(***************************************************************************)
(* A bounded queue from which every item is taken once: the abstract       *)
(* specification that MPMCQueue implements.  The stress test of MPMCQueue  *)
(* is modelled over a queue of this kind: PushClaims, PushReturns and      *)
(* Takes of StressWorkSharing do what Claim, Publish and Take do here.     *)
(*                                                                         *)
(* A push is two steps.  Its first one gives the item its place in the     *)
(* order and its sequence number, its second one makes it available.  The  *)
(* items are taken in the order of their places, so that an item whose     *)
(* push has not got to its second step holds up those behind it.           *)
(***************************************************************************)
EXTENDS Naturals, Sequences

CONSTANTS
    Items,          \* what can be queued
    Takers,         \* the threads that take items out
    Capacity

VARIABLES
    entries,        \* what is queued, oldest first
    issued,         \* how many sequence numbers have been given
    held            \* what each thread has taken and not yet let go

vars == <<entries, issued, held>>

Nothing == << >>

Init ==
    /\ entries = << >>
    /\ issued = 0
    /\ held = [t \in Takers |-> Nothing]

Claim ==
    /\ Len(entries) < Capacity
    /\ issued' = issued + 1
    /\ \E x \in Items :
          entries' = Append(entries, [item |-> x, ready |-> FALSE, sequence |-> issued + 1])
    /\ UNCHANGED held

Publish ==
    /\ \E i \in DOMAIN entries :
          /\ ~ entries[i].ready
          /\ entries' = [entries EXCEPT ![i].ready = TRUE]
    /\ UNCHANGED <<issued, held>>

Take(t) ==
    /\ entries # << >> /\ Head(entries).ready
    /\ held[t] = Nothing
    /\ held' = [held EXCEPT ![t] = Head(entries)]
    /\ entries' = Tail(entries)
    /\ UNCHANGED issued

Release(t) ==
    /\ held[t] # Nothing
    /\ held' = [held EXCEPT ![t] = Nothing]
    /\ UNCHANGED <<entries, issued>>

Next == Claim \/ Publish \/ \E t \in Takers : Take(t) \/ Release(t)

Spec == Init /\ [][Next]_vars

=============================================================================
