----------------------- MODULE MCVersionedSPMCQueue -------------------------
(* Instances of VersionedSPMCQueue for TLC.                                *)
EXTENDS VersionedContract

CONSTANTS h1, h2, a, c, z

OneHandle == {h1}
TwoHandles == {h1, h2}

Bytes == {a, c, z}

\* The full buffer, a shorter payload, and one that does not fit.
LongShortAndOversized == {<<a, a>>, <<c>>, <<a, a, a>>}
LongAndShort == {<<a, a>>, <<c>>}
ShortOnly == {<<c>>}

SmallAndLarge == {1, 2}
LargeOnly == {2}

\* Only one consumer's thread is scheduled, and keeps calling try_read: the
\* producer may stop anywhere, inside a publication included.
FairSpec == Spec /\ WF_vars(ReadCall(h1) \/ ReadStep(h1))

\* try_read returns in a bounded number of its own steps, with the producer
\* stopped inside a publication or lapping the cell again and again.
ReadsReturn == ReadReturns(h1)

\* The consumer that keeps calling try_read catches up with a producer that is
\* not stopped inside a publication.
ConsumerCatchesUp == CatchesUp(h1)
=============================================================================
