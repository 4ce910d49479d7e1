---------------------------- MODULE MCMPMCQueue -----------------------------
(* Instances of MPMCQueue for TLC.                                         *)
EXTENDS MPMCQueue, TLC

CONSTANTS t1, t2, t3, a, b

TwoThreads == {t1, t2}
ThreeThreads == {t1, t2, t3}

Bytes == {a, b}

\* One byte, the full buffer of two, and one byte more than it holds.
ShortLongAndOversized == {<<a>>, <<b, b>>, <<a, a, a>>}

\* Large enough for the short payload only, and for both.
SmallAndLarge == {1, 2}

\* Large enough for the short payload only.
SmallOnly == {1}

\* One that fits.
OneByte == {<<a>>}

Symmetry == Permutations(TwoThreads)

\* Only t1 is scheduled fairly.
FairSpec == Spec /\ Fairness(t1)

\* A call of try_push, try_pop or empty by t1 returns whatever the others do,
\* stopping inside a claim included.
CallsOfOneThreadReturn == CallReturns(t1)
=============================================================================
