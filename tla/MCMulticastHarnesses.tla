------------------------ MODULE MCMulticastHarnesses ------------------------
(* Instances of MulticastHarnesses for TLC.                                *)
EXTENDS MergedTrackers

CONSTANTS h1, h2

TwoHandles == {h1, h2}

\* The payload of a sequence is the sequence.
Numbers == 1..Iterations
=============================================================================
