---------------------------- MODULE MCStressSPSC ----------------------------
(* Instances of StressSPSC for TLC.                                        *)
EXTENDS StressSPSC

CONSTANTS a, b, z

Bytes == {a, b, z}

\* The full buffer, a shorter payload, and one that does not fit.
LongShortAndOversized == {<<a, a>>, <<b>>, <<a, a, a>>}

\* Large enough for the short payload only, and for both.
SmallAndLarge == {1, 2}

\* Neighbouring sequences have payloads of different lengths and bytes.
Alternating(s) == IF s % 2 = 0 THEN <<b>> ELSE <<a, a>>
=============================================================================
