---------------------------- MODULE WorkSharing -----------------------------
(***************************************************************************)
(* What the programs have in common that drive a queue whose consumers     *)
(* share the messages, the stress tests (StressWorkSharing) and the        *)
(* benchmark (BenchmarkWorkSharing): producer and consumer threads, each   *)
(* somewhere in its loop, the counter of the producers that have not ended *)
(* yet, and a main thread that joins them all.                             *)
(***************************************************************************)
EXTENDS Naturals, Sequences, FiniteSets

CONSTANTS
    Producers,
    Consumers,
    Capacity

ASSUME WorkSharingAssumption ==
    /\ IsFiniteSet(Producers) /\ IsFiniteSet(Consumers)
    /\ Producers # {} /\ Consumers # {}
    /\ Capacity \in Nat \ {0}

VARIABLES
    producing,          \* where each producer is
    consuming,          \* where each consumer is
    remaining           \* remaining_producers, or remaining

Produce(p, from, to) ==
    /\ producing[p] = from
    /\ producing' = [producing EXCEPT ![p] = to]

Consume(c, from, to) ==
    /\ consuming[c] = from
    /\ consuming' = [consuming EXCEPT ![c] = to]

Joined ==
    /\ \A p \in Producers : producing[p] = "done"
    /\ \A c \in Consumers : consuming[c] = "done"

=============================================================================
