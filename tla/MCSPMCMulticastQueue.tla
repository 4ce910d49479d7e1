----------------------- MODULE MCSPMCMulticastQueue -------------------------
(* Instances of SPMCMulticastQueue for TLC.                                *)
EXTENDS SPMCMulticastQueue

CONSTANTS h1, h2, a, b, z

OneHandle == {h1}
TwoHandles == {h1, h2}

Bytes == {a, b, z}

\* The full buffer, a shorter payload, and one that does not fit.
LongShortAndOversized == {<<a, a>>, <<b>>, <<a, a, a>>}

\* Large enough for the short payload only, and for both.
SmallAndLarge == {1, 2}

\* The consumer keeps reading into a destination that is large enough.
FairSpec ==
    /\ Spec
    /\ WF_vars(ReadEmpty(h1) \/ ReadLagged(h1) \/ ReadSlot(h1, MaxPayloadSize))

\* After the last publication a consumer that keeps reading ends behind it,
\* whatever it missed on the way.
ConsumerCatchesUp == CatchesUp(h1)
=============================================================================
