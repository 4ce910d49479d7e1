------------------------ MODULE MCStressWorkSharing ------------------------
(* Instances of StressWorkSharing for TLC.                                 *)
EXTENDS StressWorkSharing

CONSTANTS p1, p2, c1, c2

TwoProducers == {p1, p2}
TwoConsumers == {c1, c2}
=============================================================================
