-------------------------- MODULE MCStressBlocking --------------------------
(* Instances of StressBlocking for TLC.                                     *)
EXTENDS StressBlocking

CONSTANTS t1, t2, t3, a, b

ThreeThreads == {t1, t2, t3}

TwoItems == {a, b}

=============================================================================
