-------------------------- MODULE WorkSharingProofs -------------------------
(***************************************************************************)
(* Proofs about the two programs that share out work among producers and   *)
(* consumers, for all finite sets of threads, every capacity and every     *)
(* number of iterations: the stress test never reports a failure and its   *)
(* consumers drain the queue (StressWorkSharing), and a trial of the       *)
(* benchmark over a correct queue is sound (BenchmarkWorkSharing).         *)
(*                                                                         *)
(* StressInv and TrialInv are inductive.  Both balance counts of messages  *)
(* against the threads that are between two statements, so the lemmas on   *)
(* finite sets and sequences come first; then, for each program, what a    *)
(* step of one thread leaves alone, one lemma per step, and the theorems.  *)
(***************************************************************************)
EXTENDS StressWorkSharing, BenchmarkWorkSharing, FiniteSetTheorems, TLAPS

-----------------------------------------------------------------------------
(* Finite sets and sequences.                                              *)

\* A set that changes by one element, and one that is empty.
LEMMA OneMoves ==
    ASSUME NEW S, IsFiniteSet(S), NEW A \in SUBSET S, NEW B \in SUBSET S, NEW x \in S,
           A \ {x} = B \ {x}
    PROVE  /\ Cardinality(A) \in Nat /\ Cardinality(B) \in Nat
           /\ (x \in A <=> x \in B) => Cardinality(A) = Cardinality(B)
           /\ x \in A /\ x \notin B => Cardinality(A) = Cardinality(B) + 1
           /\ x \notin A /\ x \in B => Cardinality(B) = Cardinality(A) + 1
<1>1. IsFiniteSet(A) /\ IsFiniteSet(B)
  BY FS_Subset, Zenon
<1>2. Cardinality(A) \in Nat /\ Cardinality(B) \in Nat
  BY <1>1, FS_CardinalityType, Zenon
<1>3. ASSUME x \in A <=> x \in B
      PROVE  Cardinality(A) = Cardinality(B)
  <2>1. A = B
    BY <1>3
  <2>. QED  BY <2>1, Zenon
<1>4. ASSUME x \in A, x \notin B
      PROVE  Cardinality(A) = Cardinality(B) + 1
  <2>1. A = B \union {x}
    BY <1>4, Zenon
  <2>. QED  BY <1>1, <1>4, <2>1, FS_AddElement, Zenon
<1>5. ASSUME x \notin A, x \in B
      PROVE  Cardinality(B) = Cardinality(A) + 1
  <2>1. B = A \union {x}
    BY <1>5, Zenon
  <2>. QED  BY <1>1, <1>5, <2>1, FS_AddElement, Zenon
<1>. QED  BY <1>2, <1>3, <1>4, <1>5, Zenon

LEMMA NoneLeft ==
    ASSUME NEW S, IsFiniteSet(S)
    PROVE  Cardinality(S) = 0 <=> S = {}
BY FS_EmptySet, Zenon

\* What Append and Tail do to a sequence.
LEMMA Appended ==
    ASSUME NEW E, NEW s \in Seq(E), NEW e \in E, NEW t, t = Append(s, e)
    PROVE  /\ t \in Seq(E) /\ Len(s) \in Nat /\ Len(t) = Len(s) + 1
           /\ DOMAIN s = 1..Len(s) /\ DOMAIN t = 1..Len(t)
           /\ DOMAIN t = DOMAIN s \union {Len(s) + 1} /\ Len(s) + 1 \notin DOMAIN s
           /\ t[Len(s) + 1] = e
           /\ \A i \in DOMAIN s : t[i] = s[i] /\ s[i] \in E /\ i < Len(s) + 1 /\ i \in Nat
OBVIOUS

LEMMA Shortened ==
    ASSUME NEW E, NEW s \in Seq(E), s # << >>, NEW t, t = Tail(s)
    PROVE  /\ t \in Seq(E) /\ Len(s) \in Nat /\ Len(t) \in Nat /\ Len(s) = Len(t) + 1
           /\ Head(s) = s[1] /\ 1 \in DOMAIN s /\ s[1] \in E
           /\ \A i \in DOMAIN t : /\ i + 1 \in DOMAIN s /\ t[i] = s[i + 1] /\ 1 < i + 1 /\ i + 1 # 1
                                  /\ s[i + 1] \in E /\ i \in Nat
           /\ \A j \in DOMAIN s \ {1} : j - 1 \in DOMAIN t /\ j = (j - 1) + 1
<1>1. /\ t \in Seq(E) /\ Len(s) \in Nat /\ Len(t) \in Nat /\ Len(s) = Len(t) + 1
      /\ Head(s) = s[1] /\ 1 \in DOMAIN s /\ s[1] \in E
      /\ DOMAIN s = 1..Len(s) /\ DOMAIN t = 1..Len(t)
      /\ \A i \in DOMAIN t : t[i] = s[i + 1]
  OBVIOUS
<1>2. ASSUME NEW i \in DOMAIN t
      PROVE  /\ i + 1 \in DOMAIN s /\ t[i] = s[i + 1] /\ 1 < i + 1 /\ i + 1 # 1
             /\ s[i + 1] \in E /\ i \in Nat
  BY <1>1
<1>3. ASSUME NEW j \in DOMAIN s \ {1}
      PROVE  j - 1 \in DOMAIN t /\ j = (j - 1) + 1
  BY <1>1
<1>. QED  BY <1>1, <1>2, <1>3, Zenon

\* What is in a sequence after Append and Tail, and how much.
LEMMA RangeAppended ==
    ASSUME NEW s \in Seq(Nat), NEW e \in Nat, NEW t, t = Append(s, e)
    PROVE  /\ t \in Seq(Nat) /\ Len(s) \in Nat /\ Len(t) = Len(s) + 1
           /\ Range(t) = Range(s) \union {e}
           /\ IsInjective(s) /\ e \notin Range(s) => IsInjective(t)
<1>1. /\ t \in Seq(Nat) /\ Len(s) \in Nat /\ Len(t) = Len(s) + 1
      /\ DOMAIN t = DOMAIN s \union {Len(s) + 1} /\ Len(s) + 1 \notin DOMAIN s
      /\ t[Len(s) + 1] = e
      /\ \A i \in DOMAIN s : t[i] = s[i]
  BY Appended
<1>2. Range(t) = Range(s) \union {e}
  BY <1>1 DEF Range
<1>3. ASSUME IsInjective(s), e \notin Range(s) PROVE IsInjective(t)
  <2>1. \A i \in DOMAIN s : s[i] # e
    BY <1>3, Zenon DEF Range
  <2>. QED  BY <1>1, <1>3, <2>1 DEF IsInjective
<1>. QED  BY <1>1, <1>2, <1>3, Zenon

LEMMA RangeShortened ==
    ASSUME NEW s \in Seq(Nat), s # << >>, IsInjective(s), NEW t, t = Tail(s)
    PROVE  /\ t \in Seq(Nat) /\ Head(s) \in Nat /\ Head(s) \in Range(s)
           /\ Range(t) = Range(s) \ {Head(s)} /\ IsInjective(t)
<1>1. /\ t \in Seq(Nat) /\ Head(s) = s[1] /\ 1 \in DOMAIN s /\ s[1] \in Nat
      /\ \A i \in DOMAIN t : /\ i + 1 \in DOMAIN s /\ t[i] = s[i + 1] /\ i + 1 # 1 /\ i \in Nat
      /\ \A j \in DOMAIN s \ {1} : j - 1 \in DOMAIN t /\ j = (j - 1) + 1
  BY Shortened
<1>2. s[1] \in Range(s)
  BY <1>1, Zenon DEF Range
<1>3. ASSUME NEW y \in Range(t) PROVE y \in Range(s) \ {s[1]}
  <2>1. PICK i \in DOMAIN t : y = t[i]
    BY <1>3, Zenon DEF Range
  <2>2. y = s[i + 1] /\ i + 1 \in DOMAIN s /\ i + 1 # 1
    BY <1>1, <2>1, Zenon
  <2>. QED  BY <1>1, <2>2, Zenon DEF Range, IsInjective
<1>4. ASSUME NEW y \in Range(s) \ {s[1]} PROVE y \in Range(t)
  <2>1. PICK j \in DOMAIN s : y = s[j]
    BY <1>4, Zenon DEF Range
  <2>2. PICK i : i = j - 1
    BY Zenon
  <2>3. i \in DOMAIN t /\ j = i + 1
    BY <1>1, <1>4, <2>1, <2>2, Zenon
  <2>4. y = t[i]
    BY <1>1, <2>1, <2>3, Zenon
  <2>. QED  BY <2>3, <2>4, Zenon DEF Range
<1>5. Range(t) = Range(s) \ {s[1]}
  BY <1>3, <1>4, Zenon
<1>6. IsInjective(t)
  <2>1. ASSUME NEW i \in DOMAIN t, NEW j \in DOMAIN t, t[i] = t[j] PROVE i = j
    <3>1. i + 1 \in DOMAIN s /\ j + 1 \in DOMAIN s /\ s[i + 1] = s[j + 1] /\ i \in Nat /\ j \in Nat
      BY <1>1, <2>1, Zenon
    <3>2. i + 1 = j + 1
      BY <3>1, Zenon DEF IsInjective
    <3>. QED  BY <3>1, <3>2
  <2>. QED  BY <2>1, Zenon DEF IsInjective
<1>. QED  BY <1>1, <1>2, <1>5, <1>6, Zenon

\* A sequence without repetitions has as many elements as places, and each
\* element one place.
LEMMA WithoutRepetition ==
    ASSUME NEW s \in Seq(Nat), IsInjective(s)
    PROVE  /\ Len(s) \in Nat /\ Cardinality(Range(s)) = Len(s)
           /\ \A x \in Range(s) : Cardinality({i \in DOMAIN s : s[i] = x}) = 1
<1>1. /\ Len(s) \in Nat /\ DOMAIN s = 1..Len(s) /\ s \in [1..Len(s) -> Nat]
  OBVIOUS
<1>2. IsFiniteSet(DOMAIN s) /\ Cardinality(DOMAIN s) = Len(s)
  <2>1. PICK n \in Nat : n = Len(s)
    BY <1>1, Zenon
  <2>2. IsFiniteSet(1..n) /\ Cardinality(1..n) = IF 1 > n THEN 0 ELSE n - 1 + 1
    BY FS_Interval
  <2>3. Cardinality(1..n) = n
    BY <2>2
  <2>. QED  BY <1>1, <2>1, <2>2, <2>3, Zenon
<1>3. s \in Surjection(DOMAIN s, Range(s)) /\ s \in Injection(DOMAIN s, Range(s))
  <2>1. s \in [DOMAIN s -> Range(s)]
    BY <1>1, Zenon DEF Range
  <2>. QED  BY <2>1, Zenon DEF Surjection, Injection, Range
<1>4. Cardinality(Range(s)) = Cardinality(DOMAIN s)
  BY <1>2, <1>3, FS_Surjection, Zenon
<1>5. ASSUME NEW x \in Range(s) PROVE Cardinality({i \in DOMAIN s : s[i] = x}) = 1
  <2>1. PICK j \in DOMAIN s : x = s[j]
    BY <1>5, Zenon DEF Range
  <2>2. {i \in DOMAIN s : s[i] = x} = {j}
    BY <2>1, Zenon DEF IsInjective
  <2>. QED  BY <2>2, FS_Singleton, Zenon
<1>. QED  BY <1>1, <1>2, <1>4, <1>5, Zenon

-----------------------------------------------------------------------------
(* The stress test.                                                        *)

\* The initial state.
LEMMA InitInv == Init => StressInv
<1>. SUFFICES ASSUME Init PROVE StressInv
  BY Zenon
<1>1. /\ \A p \in Producers : producing[p] = "loop" /\ local[p] = 1
      /\ \A c \in Consumers : consuming[c] = "pop" /\ last[c] = 0 /\ got[c] = NoMessage
      /\ consumed = {} /\ published = {} /\ failed = FALSE /\ closed = FALSE
      /\ remaining = Cardinality(Producers) /\ test \in {"mpmc", "blocking"}
  BY Zenon DEF Init
<1>2. /\ DOMAIN claimed = {} /\ claimed = << >> /\ claimed \in Seq(Entries) /\ Len(claimed) = 0
      /\ sequence = 0 /\ pushed = 0 /\ popped = 0
  BY DEF Init
<1>3. /\ \A p \in Producers : ~ InPush(p)
      /\ \A c \in Consumers : ~ Holds(c) /\ ~ Uncounted(c)
  BY <1>1, Zenon DEF InPush, Holds, Uncounted
<1>4. StressTypes
  <2>1. Cardinality(Producers) \in Nat
    BY WorkSharingAssumption, FS_CardinalityType, Zenon
  <2>2. sequence \in Nat /\ pushed \in Nat /\ popped \in Nat /\ 1 \in Nat \ {0} /\ 0 \in Nat
    BY <1>2
  <2>3. /\ producing \in [Producers -> ProducerLabels] /\ consuming \in [Consumers -> ConsumerLabels]
        /\ got \in [Consumers -> Entries \union {NoMessage}]
        /\ closed \in BOOLEAN /\ expired \in BOOLEAN
    BY Zenon DEF Init, ProducerLabels, ConsumerLabels
  <2>4. local \in [Producers -> Nat \ {0}] /\ last \in [Consumers -> Nat]
    BY <2>2, Zenon DEF Init
  <2>. QED  BY <1>1, <1>2, <1>3, <2>1, <2>2, <2>3, <2>4, Zenon DEF StressTypes
<1>5. EndInv
  <2>1. Looping = Producers
    BY <1>1, Zenon DEF Looping
  <2>. QED  BY <1>1, <2>1, Zenon DEF EndInv
<1>6. CountInv
  <2>1. Outgoing = {} /\ Incoming = {}
    BY <1>3, Zenon DEF Outgoing, Incoming
  <2>2. Cardinality({}) = 0
    BY FS_EmptySet, Zenon
  <2>. QED  BY <1>2, <2>1, <2>2 DEF CountInv
<1>7. \A m \in Ids : m[1] \in Producers /\ ~ (m[2] < local[m[1]])
  BY <1>1 DEF Ids
<1>8. PlaceInv
  <2>1. Issued = {} /\ Held = {} /\ Waiting = {}
    BY <1>2, <1>3, <1>7, Zenon DEF Issued, Held, Waiting
  <2>. QED  BY <1>1, <1>2, <1>3, <2>1, Zenon DEF PlaceInv
<1>9. PublishedInv
  BY <1>1, <1>7, Zenon DEF PublishedInv
<1>10. OrderInv
  BY <1>1, <1>2 DEF OrderInv
<1>. QED  BY <1>1, <1>4, <1>5, <1>6, <1>8, <1>9, <1>10, Zenon DEF StressInv, DrainedAtExit

-----------------------------------------------------------------------------
LEMMA SameProducers ==
    ASSUME UNCHANGED <<producing, local>>
    PROVE  /\ Looping' = Looping /\ Incoming' = Incoming /\ Issued' = Issued
           /\ \A p \in Producers : InPush(p)' <=> InPush(p)
BY Zenon DEF Looping, Incoming, Issued, InPush

LEMMA SameConsumers ==
    ASSUME UNCHANGED <<test, consuming, got>>
    PROVE  /\ Outgoing' = Outgoing /\ Held' = Held
           /\ \A c \in Consumers : (Holds(c)' <=> Holds(c)) /\ (Uncounted(c)' <=> Uncounted(c))
BY Zenon DEF Outgoing, Held, Holds, Uncounted

LEMMA SameClaimed ==
    ASSUME UNCHANGED claimed
    PROVE  Waiting' = Waiting
BY Zenon DEF Waiting

\* One producer goes on.
LEMMA ProducerMoves ==
    ASSUME StressTypes, NEW p \in Producers, NEW l \in ProducerLabels,
           producing' = [producing EXCEPT ![p] = l]
    PROVE  /\ producing' \in [Producers -> ProducerLabels] /\ producing'[p] = l
           /\ \A q \in Producers \ {p} : producing'[q] = producing[q] /\ (InPush(q)' <=> InPush(q))
           /\ Cardinality(Incoming) \in Nat /\ Cardinality(Incoming') \in Nat
           /\ (InPush(p) <=> InPush(p)') => Cardinality(Incoming') = Cardinality(Incoming)
           /\ InPush(p) /\ ~ InPush(p)' => Cardinality(Incoming) = Cardinality(Incoming') + 1
           /\ ~ InPush(p) /\ InPush(p)' => Cardinality(Incoming') = Cardinality(Incoming) + 1
<1>1. /\ producing' \in [Producers -> ProducerLabels] /\ producing'[p] = l
      /\ \A q \in Producers \ {p} : producing'[q] = producing[q]
  BY Zenon DEF StressTypes
<1>2. \A q \in Producers \ {p} : InPush(q)' <=> InPush(q)
  BY <1>1, Zenon DEF InPush
<1>3. PICK A, B : A = Incoming /\ B = Incoming'
  BY Zenon
<1>4. /\ A \in SUBSET Producers /\ B \in SUBSET Producers /\ A \ {p} = B \ {p}
      /\ (p \in A <=> InPush(p)) /\ (p \in B <=> InPush(p)')
  <2>1. /\ A \in SUBSET Producers /\ B \in SUBSET Producers
        /\ \A y \in Producers : (y \in A <=> InPush(y)) /\ (y \in B <=> InPush(y)')
    BY <1>3, Zenon DEF Incoming
  <2>2. \A y \in Producers \ {p} : y \in A <=> y \in B
    BY <1>2, <2>1, Zenon
  <2>3. A \ {p} = B \ {p}
    BY <2>1, <2>2
  <2>. QED  BY <2>1, <2>3, Zenon
<1>5. IsFiniteSet(Producers)
  BY WorkSharingAssumption, Zenon
<1>. HIDE <1>3
<1>6. /\ Cardinality(A) \in Nat /\ Cardinality(B) \in Nat
      /\ (p \in A <=> p \in B) => Cardinality(A) = Cardinality(B)
      /\ p \in A /\ p \notin B => Cardinality(A) = Cardinality(B) + 1
      /\ p \notin A /\ p \in B => Cardinality(B) = Cardinality(A) + 1
  BY <1>4, <1>5, OneMoves
<1>. QED  BY <1>1, <1>2, <1>3, <1>4, <1>6, Zenon

\* One consumer goes on.
LEMMA ConsumerMoves ==
    ASSUME StressTypes, NEW c \in Consumers, NEW l \in ConsumerLabels,
           consuming' = [consuming EXCEPT ![c] = l], UNCHANGED test
    PROVE  /\ consuming' \in [Consumers -> ConsumerLabels] /\ consuming'[c] = l
           /\ \A d \in Consumers \ {c} : /\ consuming'[d] = consuming[d]
                                         /\ Holds(d)' <=> Holds(d)
                                         /\ Uncounted(d)' <=> Uncounted(d)
           /\ Cardinality(Outgoing) \in Nat /\ Cardinality(Outgoing') \in Nat
           /\ (Uncounted(c) <=> Uncounted(c)') => Cardinality(Outgoing') = Cardinality(Outgoing)
           /\ Uncounted(c) /\ ~ Uncounted(c)' => Cardinality(Outgoing) = Cardinality(Outgoing') + 1
           /\ ~ Uncounted(c) /\ Uncounted(c)' => Cardinality(Outgoing') = Cardinality(Outgoing) + 1
<1>1. /\ consuming' \in [Consumers -> ConsumerLabels] /\ consuming'[c] = l
      /\ \A d \in Consumers \ {c} : consuming'[d] = consuming[d]
  BY Zenon DEF StressTypes
<1>2. \A d \in Consumers \ {c} : (Holds(d)' <=> Holds(d)) /\ (Uncounted(d)' <=> Uncounted(d))
  BY <1>1, Zenon DEF Holds, Uncounted
<1>3. PICK A, B : A = Outgoing /\ B = Outgoing'
  BY Zenon
<1>4. /\ A \in SUBSET Consumers /\ B \in SUBSET Consumers /\ A \ {c} = B \ {c}
      /\ (c \in A <=> Uncounted(c)) /\ (c \in B <=> Uncounted(c)')
  <2>1. /\ A \in SUBSET Consumers /\ B \in SUBSET Consumers
        /\ \A y \in Consumers : (y \in A <=> Uncounted(y)) /\ (y \in B <=> Uncounted(y)')
    BY <1>3, Zenon DEF Outgoing
  <2>2. \A y \in Consumers \ {c} : y \in A <=> y \in B
    BY <1>2, <2>1, Zenon
  <2>3. A \ {c} = B \ {c}
    BY <2>1, <2>2
  <2>. QED  BY <2>1, <2>3, Zenon
<1>5. IsFiniteSet(Consumers)
  BY WorkSharingAssumption, Zenon
<1>. HIDE <1>3
<1>6. /\ Cardinality(A) \in Nat /\ Cardinality(B) \in Nat
      /\ (c \in A <=> c \in B) => Cardinality(A) = Cardinality(B)
      /\ c \in A /\ c \notin B => Cardinality(A) = Cardinality(B) + 1
      /\ c \notin A /\ c \in B => Cardinality(B) = Cardinality(A) + 1
  BY <1>4, <1>5, OneMoves
<1>. QED  BY <1>1, <1>2, <1>3, <1>4, <1>6, Zenon

-----------------------------------------------------------------------------
LEMMA QuietKeeps ==
    ASSUME StressInv, UNCHANGED <<test, queue, producers, consumers, failed>>, expired' \in BOOLEAN
    PROVE  StressInv'
<1>1. UNCHANGED <<test, closed, claimed, sequence, producing, local, remaining, pushed, published,
                  consuming, got, last, popped, consumed, failed>>
  BY Zenon DEF queue, producers, consumers
<1>2. /\ Looping' = Looping /\ Incoming' = Incoming /\ Issued' = Issued
      /\ Outgoing' = Outgoing /\ Held' = Held /\ Waiting' = Waiting
      /\ \A c \in Consumers : Holds(c)' <=> Holds(c)
  BY <1>1, SameProducers, SameConsumers, SameClaimed, Zenon
<1>3. StressTypes'
  BY <1>1, <1>2, Zenon DEF StressInv, StressTypes
<1>4. EndInv' /\ CountInv'
  BY <1>1, <1>2, Zenon DEF StressInv, EndInv, CountInv
<1>5. PlaceInv'
  BY <1>1, <1>2, Zenon DEF StressInv, PlaceInv
<1>6. PublishedInv' /\ OrderInv' /\ DrainedAtExit'
  BY <1>1, Zenon DEF StressInv, PublishedInv, OrderInv, DrainedAtExit
<1>7. ~ failed'
  BY <1>1 DEF StressInv
<1>. QED  BY <1>3, <1>4, <1>5, <1>6, <1>7, Zenon DEF StressInv

\* A consumer that only looks keeps what there is to keep, if what it concludes
\* from what it sees is right.
LEMMA LooksKeeps ==
    ASSUME StressInv, NEW c \in Consumers,
           NEW from \in {"pop", "remaining", "counts"},
           NEW to \in {"pop", "remaining", "counts", "done"}, Looks(c, from, to),
           to \in {"remaining", "counts"} => test = "mpmc",
           to \in {"counts", "done"} => \A p \in Producers : producing[p] = "done",
           to = "done" => claimed = << >>
    PROVE  StressInv'
<1>1. /\ consuming[c] = from /\ consuming' = [consuming EXCEPT ![c] = to]
      /\ UNCHANGED <<test, expired, closed, claimed, sequence, producing, local, remaining, pushed,
                     published, got, last, popped, consumed, failed>>
  BY Zenon DEF Looks, Consume, queue, producers
<1>2. /\ StressTypes /\ EndInv /\ CountInv /\ PlaceInv /\ PublishedInv /\ OrderInv /\ ~ failed
      /\ DrainedAtExit
  BY Zenon DEF StressInv
<1>3. to \in ConsumerLabels /\ to \notin {"count", "mark"} /\ from \notin {"count", "mark"}
  BY Zenon DEF ConsumerLabels
<1>4. /\ consuming' \in [Consumers -> ConsumerLabels] /\ consuming'[c] = to
      /\ \A d \in Consumers \ {c} : /\ consuming'[d] = consuming[d]
                                    /\ Holds(d)' <=> Holds(d)
                                    /\ Uncounted(d)' <=> Uncounted(d)
      /\ (Uncounted(c) <=> Uncounted(c)') => Cardinality(Outgoing') = Cardinality(Outgoing)
  BY <1>1, <1>2, <1>3, ConsumerMoves, Zenon
<1>5. ~ Uncounted(c) /\ ~ Uncounted(c)' /\ ~ Holds(c) /\ ~ Holds(c)'
  BY <1>1, <1>3, <1>4, Zenon DEF Uncounted, Holds
<1>6. \A d \in Consumers : Holds(d)' <=> Holds(d)
  BY <1>4, <1>5, Zenon
<1>7. StressTypes'
  BY <1>1, <1>2, <1>4, <1>6, Zenon DEF StressTypes
<1>8. EndInv'
  BY <1>1, <1>2, <1>4, SameProducers, Zenon DEF EndInv
<1>9. CountInv'
  BY <1>1, <1>2, <1>4, <1>5, SameProducers, Zenon DEF CountInv
<1>10. PlaceInv'
  <2>1. Held' = Held
    BY <1>1, <1>6, Zenon DEF Held
  <2>. QED  BY <1>1, <1>2, <1>6, <2>1, SameProducers, SameClaimed, Zenon DEF PlaceInv
<1>11. PublishedInv'
  BY <1>1, <1>2, Zenon DEF PublishedInv
<1>12. OrderInv'
  <2>1. \A d \in Consumers : consuming'[d] = "count" => consuming[d] = "count"
    BY <1>3, <1>4, Zenon
  <2>. QED  BY <1>1, <1>2, <2>1, Zenon DEF OrderInv
<1>13. DrainedAtExit'
  BY <1>1, <1>2, <1>4, Zenon DEF DrainedAtExit
<1>. QED  BY <1>1, <1>2, <1>7, <1>8, <1>9, <1>10, <1>11, <1>12, <1>13, Zenon DEF StressInv

-----------------------------------------------------------------------------
LEMMA IdParts ==
    ASSUME NEW m \in Ids, NEW p \in Producers, NEW n \in Nat \ {0}
    PROVE  /\ m[1] \in Producers /\ m[2] \in Nat
           /\ m = <<p, n>> <=> m[1] = p /\ m[2] = n
           /\ <<p, n>> \in Ids /\ <<p, n>>[1] = p /\ <<p, n>>[2] = n
BY DEF Ids

LEMMA IdOf ==
    ASSUME StressTypes, NEW p \in Producers
    PROVE  /\ local[p] \in Nat \ {0} /\ Id(p) \in Ids /\ Id(p)[1] = p /\ Id(p)[2] = local[p]
           /\ \A m \in Ids : /\ m[1] \in Producers /\ m[2] \in Nat
                             /\ m = Id(p) <=> m[1] = p /\ m[2] = local[p]
<1>1. PICK n \in Nat \ {0} : n = local[p]
  BY Zenon DEF StressTypes
<1>2. Id(p) = <<p, n>>
  BY <1>1, Zenon DEF Id
<1>3. ASSUME NEW m \in Ids
      PROVE  /\ m[1] \in Producers /\ m[2] \in Nat
             /\ m = <<p, n>> <=> m[1] = p /\ m[2] = n
  BY DEF Ids
<1>4. <<p, n>> \in Ids /\ <<p, n>>[1] = p /\ <<p, n>>[2] = n
  BY DEF Ids
<1>. QED  BY <1>1, <1>2, <1>3, <1>4, Zenon

\* While a producer is in its loop the queue is open, and no consumer has seen
\* the end.
LEMMA WhileLooping ==
    ASSUME EndInv, DrainedAtExit, NEW p \in Producers, producing[p] \notin {"close", "done"}
    PROVE  /\ ~ closed
           /\ \A c \in Consumers : consuming[c] \notin {"counts", "done"}
           /\ \A q \in Producers : producing[q] # "close"
BY Zenon DEF EndInv, DrainedAtExit

LEMMA StaysInLoop ==
    ASSUME StressTypes, EndInv, DrainedAtExit, NEW p \in Producers,
           producing[p] \notin {"close", "done"},
           NEW l \in ProducerLabels, l \notin {"close", "done"},
           producing' = [producing EXCEPT ![p] = l], UNCHANGED <<test, closed, remaining, consuming>>
    PROVE  EndInv' /\ DrainedAtExit'
<1>1. /\ ~ closed
      /\ \A c \in Consumers : consuming[c] \notin {"counts", "done"}
      /\ \A q \in Producers : producing[q] # "close"
  BY WhileLooping, Zenon
<1>2. producing'[p] = l /\ \A q \in Producers \ {p} : producing'[q] = producing[q]
  BY Zenon DEF StressTypes
<1>3. Looping' = Looping
  BY <1>2, Zenon DEF Looping
<1>4. \A q \in Producers : producing'[q] # "close"
  BY <1>1, <1>2, Zenon
<1>5. EndInv'
  BY <1>1, <1>3, <1>4, Zenon DEF EndInv
<1>6. DrainedAtExit'
  BY <1>1, Zenon DEF DrainedAtExit
<1>. QED  BY <1>5, <1>6, Zenon

\* A message is put into the queue.
LEMMA EntersKeeps ==
    ASSUME StressInv, NEW p \in Producers, producing[p] = "loop",
           NEW l \in {"claimed", "published"}, producing' = [producing EXCEPT ![p] = l],
           NEW e \in Entries, e.id = Id(p), claimed' = Append(claimed, e),
           sequence' \in Nat, test = "mpmc" => sequence' = sequence + 1 /\ e.sequence = sequence + 1,
           UNCHANGED <<test, expired, closed, local, remaining, pushed, published, consumers, failed>>
    PROVE  StressInv'
<1>1. UNCHANGED <<consuming, got, last, popped, consumed>>
  BY Zenon DEF consumers
<1>2. /\ StressTypes /\ EndInv /\ CountInv /\ PlaceInv /\ PublishedInv /\ OrderInv /\ ~ failed
      /\ DrainedAtExit
  BY Zenon DEF StressInv
<1>3. l \in ProducerLabels /\ l \notin {"loop", "count", "break", "close", "done"}
  BY Zenon DEF ProducerLabels
<1>4. /\ producing' \in [Producers -> ProducerLabels] /\ producing'[p] = l
      /\ \A q \in Producers \ {p} : producing'[q] = producing[q] /\ (InPush(q)' <=> InPush(q))
      /\ Cardinality(Incoming) \in Nat
      /\ ~ InPush(p) /\ InPush(p)' => Cardinality(Incoming') = Cardinality(Incoming) + 1
  BY <1>2, <1>3, ProducerMoves, Zenon
<1>5. ~ InPush(p) /\ InPush(p)'
  BY <1>4, Zenon DEF InPush
<1>6. /\ claimed \in Seq(Entries) /\ claimed' \in Seq(Entries)
      /\ Len(claimed) \in Nat /\ Len(claimed') = Len(claimed) + 1
      /\ DOMAIN claimed' = DOMAIN claimed \union {Len(claimed) + 1}
      /\ Len(claimed) + 1 \notin DOMAIN claimed
      /\ claimed'[Len(claimed) + 1] = e
      /\ \A i \in DOMAIN claimed : /\ claimed'[i] = claimed[i] /\ claimed[i] \in Entries
                                   /\ i < Len(claimed) + 1 /\ i \in Nat
  <2>1. claimed \in Seq(Entries)
    BY <1>2, Zenon DEF StressTypes
  <2>. QED  BY <2>1, Appended
<1>7. /\ Outgoing' = Outgoing /\ Held' = Held
      /\ \A c \in Consumers : Holds(c)' <=> Holds(c)
  BY <1>1, SameConsumers, Zenon
<1>8. StressTypes'
  BY <1>1, <1>2, <1>4, <1>6, <1>7, Zenon DEF StressTypes
<1>9. EndInv' /\ DrainedAtExit'
  BY <1>1, <1>2, <1>3, StaysInLoop, Zenon
<1>10. CountInv'
  <2>1. PICK i, j, k : i = Cardinality(Incoming) /\ j = Cardinality(Incoming') /\ k = Cardinality(Outgoing)
    BY Zenon
  <2>2. j = i + 1 /\ i \in Nat /\ Cardinality(Outgoing') = k
    BY <1>4, <1>5, <1>7, <2>1, Zenon
  <2>3. Len(claimed) + popped + k = pushed + i
    BY <1>2, <2>1, Zenon DEF CountInv
  <2>4. k \in Nat
    <3>1. Outgoing \in SUBSET Consumers
      BY Zenon DEF Outgoing
    <3>2. IsFiniteSet(Outgoing)
      BY <3>1, WorkSharingAssumption, FS_Subset, Zenon
    <3>. QED  BY <2>1, <3>2, FS_CardinalityType, Zenon
  <2>5. pushed \in Nat /\ popped \in Nat
    BY <1>2, Zenon DEF StressTypes
  <2>6. Len(claimed') + popped + k = pushed + j
    BY <1>6, <2>2, <2>3, <2>4, <2>5
  <2>. QED  BY <1>1, <2>1, <2>2, <2>6, Zenon DEF CountInv
<1>11. Id(p) \notin Issued /\ Issued' = Issued \union {Id(p)}
  <2>1. /\ local[p] \in Nat \ {0} /\ Id(p) \in Ids /\ Id(p)[1] = p /\ Id(p)[2] = local[p]
        /\ \A m \in Ids : /\ m[1] \in Producers
                          /\ m = Id(p) <=> m[1] = p /\ m[2] = local[p]
    BY <1>2, IdOf, Zenon
  <2>2. ASSUME NEW m \in Ids
        PROVE  (m[2] < local[m[1]] \/ (m[2] = local[m[1]] /\ InPush(m[1])')) <=>
                   (m[2] < local[m[1]] \/ (m[2] = local[m[1]] /\ InPush(m[1])) \/ m = Id(p))
    <3>1. CASE m[1] = p
      BY <1>5, <2>1, <3>1, Zenon
    <3>2. CASE m[1] # p
      BY <1>4, <2>1, <3>2, Zenon
    <3>. QED  BY <3>1, <3>2, Zenon
  <2>3. ~ (local[p] < local[p])
    BY <2>1
  <2>4. Id(p) \notin Issued
    BY <1>5, <2>1, <2>3, Zenon DEF Issued
  <2>5. Issued' = Issued \union {Id(p)}
    BY <2>1, <2>2, Zenon DEF Issued
  <2>. QED  BY <2>4, <2>5, Zenon
<1>12. Waiting' = Waiting \union {Id(p)}
  BY <1>6 DEF Waiting
<1>13. PlaceInv'
  <2>1. /\ consumed \union Held \union Waiting = Issued
        /\ consumed \intersect Held = {} /\ (consumed \union Held) \intersect Waiting = {}
    BY <1>2, Zenon DEF PlaceInv
  <2>2. Id(p) \notin consumed \union Held /\ Id(p) \notin Waiting
    BY <1>11, <2>1, Zenon
  <2>3. /\ consumed \union Held \union (Waiting \union {Id(p)}) = Issued \union {Id(p)}
        /\ (consumed \union Held) \intersect (Waiting \union {Id(p)}) = {}
    BY <2>1, <2>2
  <2>4. \A i, j \in DOMAIN claimed' : claimed'[i].id = claimed'[j].id => i = j
    <3>1. \A i \in DOMAIN claimed : claimed[i].id # Id(p)
      BY <2>2, Zenon DEF Waiting
    <3>. QED  BY <1>2, <1>6, <3>1 DEF PlaceInv
  <2>. QED  BY <1>1, <1>2, <1>7, <1>11, <1>12, <2>1, <2>3, <2>4, Zenon DEF PlaceInv
<1>14. PublishedInv'
  <2>1. \A q \in Producers : producing'[q] = "count" <=> producing[q] = "count"
    BY <1>3, <1>4, Zenon
  <2>2. \A m \in Ids : m[1] \in Producers
    BY <1>2, IdOf, Zenon
  <2>. QED  BY <1>2, <2>1, <2>2, Zenon DEF PublishedInv
<1>15. OrderInv'
  <2>1. CASE test = "mpmc"
    <3>1. sequence \in Nat /\ sequence < sequence + 1 /\ \A n \in Nat : n <= sequence => n < sequence + 1 /\ n <= sequence + 1
      BY <1>2 DEF StressTypes
    <3>2. \A i \in DOMAIN claimed : claimed[i].sequence \in Nat
      BY <1>6, Zenon DEF Entries
    <3>3. \A c \in Consumers : last[c] \in Nat /\ (consuming[c] = "count" => got[c].sequence \in Nat)
      BY <1>2, <2>1, Zenon DEF StressTypes, Holds, Entries
    <3>4. \A i \in DOMAIN claimed : ~ (Len(claimed) + 1 < i)
      BY <1>6
    <3>5. ~ (Len(claimed) + 1 < Len(claimed) + 1) /\ sequence + 1 <= sequence + 1
      BY <1>6, <3>1
    <3>6. /\ \A i, j \in DOMAIN claimed' : i < j => claimed'[i].sequence < claimed'[j].sequence
          /\ \A i \in DOMAIN claimed' : claimed'[i].sequence <= sequence'
      BY <1>2, <1>6, <2>1, <3>1, <3>2, <3>4, <3>5 DEF OrderInv
    <3>7. ASSUME NEW c \in Consumers
          PROVE  /\ last[c] <= sequence'
                 /\ \A i \in DOMAIN claimed' : last[c] < claimed'[i].sequence
                 /\ consuming[c] = "count" =>
                       /\ last[c] < got[c].sequence /\ got[c].sequence <= sequence'
                       /\ \A i \in DOMAIN claimed' : got[c].sequence < claimed'[i].sequence
      BY <1>2, <1>6, <2>1, <3>1, <3>3 DEF OrderInv
    <3>. QED  BY <1>1, <3>6, <3>7, Zenon DEF OrderInv
  <2>. QED  BY <2>1, Zenon DEF OrderInv
<1>. QED  BY <1>2, <1>8, <1>9, <1>10, <1>13, <1>14, <1>15, Zenon DEF StressInv

\* A producer goes on with a message that is in the queue: the entries keep their
\* ids and their order.
LEMMA PushReturnsKeeps ==
    ASSUME StressInv, NEW p \in Producers, PushReturns(p)
    PROVE  StressInv'
<1>1. /\ producing[p] = "claimed" /\ producing' = [producing EXCEPT ![p] = "published"]
      /\ UNCHANGED <<test, expired, sequence, closed, local, remaining, pushed, published,
                     consuming, got, last, popped, consumed, failed>>
  BY Zenon DEF PushReturns, Produce, consumers
<1>2. /\ StressTypes /\ EndInv /\ CountInv /\ PlaceInv /\ PublishedInv /\ OrderInv /\ ~ failed
      /\ DrainedAtExit
  BY Zenon DEF StressInv
<1>3. "published" \in ProducerLabels
  BY Zenon DEF ProducerLabels
<1>4. /\ producing' \in [Producers -> ProducerLabels] /\ producing'[p] = "published"
      /\ \A q \in Producers \ {p} : producing'[q] = producing[q] /\ (InPush(q)' <=> InPush(q))
      /\ (InPush(p) <=> InPush(p)') => Cardinality(Incoming') = Cardinality(Incoming)
  BY <1>1, <1>2, <1>3, ProducerMoves, Zenon
<1>5. InPush(p) /\ InPush(p)'
  BY <1>1, <1>4, Zenon DEF InPush
<1>6. /\ claimed' \in Seq(Entries) /\ DOMAIN claimed' = DOMAIN claimed /\ Len(claimed') = Len(claimed)
      /\ \A i \in DOMAIN claimed : /\ claimed'[i].id = claimed[i].id
                                   /\ claimed'[i].sequence = claimed[i].sequence
  <2>1. claimed \in Seq(Entries)
    BY <1>2, Zenon DEF StressTypes
  <2>2. ASSUME NEW i \in DOMAIN claimed
        PROVE  /\ claimed'[i] \in Entries /\ claimed'[i].id = claimed[i].id
               /\ claimed'[i].sequence = claimed[i].sequence
    <3>1. claimed[i] \in Entries
      BY <2>1
    <3>2. claimed'[i] = IF claimed[i].id = Id(p) THEN Entry(p, TRUE, claimed[i].sequence)
                        ELSE claimed[i]
      BY Zenon DEF PushReturns
    <3>3. CASE claimed[i].id = Id(p)
      <4>1. PICK e \in Entries : e = claimed[i]
        BY <3>1, Zenon
      <4>2. claimed'[i] = [id |-> e.id, ready |-> TRUE, sequence |-> e.sequence]
        BY <3>2, <3>3, <4>1, Zenon DEF Entry
      <4>3. \A x, n : [id |-> x, ready |-> TRUE, sequence |-> n].id = x
                      /\ [id |-> x, ready |-> TRUE, sequence |-> n].sequence = n
        OBVIOUS
      <4>4. [id |-> e.id, ready |-> TRUE, sequence |-> e.sequence] \in Entries
        BY DEF Entries
      <4>. QED  BY <4>1, <4>2, <4>3, <4>4
    <3>4. CASE claimed[i].id # Id(p)
      BY <3>1, <3>2, <3>4, Zenon
    <3>. QED  BY <3>3, <3>4, Zenon
  <2>3. PICK f : f = claimed' /\ f = [i \in DOMAIN claimed |->
                      IF claimed[i].id = Id(p) THEN Entry(p, TRUE, claimed[i].sequence)
                      ELSE claimed[i]]
    BY Zenon DEF PushReturns
  <2>4. DOMAIN claimed = 1..Len(claimed) /\ Len(claimed) \in Nat
    BY <2>1
  <2>5. f \in [1..Len(claimed) -> Entries]
    BY <2>2, <2>3, <2>4, Zenon
  <2>6. f \in Seq(Entries) /\ DOMAIN f = 1..Len(claimed) /\ Len(f) = Len(claimed)
    BY <2>4, <2>5
  <2>. QED  BY <2>2, <2>3, <2>4, <2>6, Zenon
<1>7. /\ Outgoing' = Outgoing /\ Held' = Held
      /\ \A c \in Consumers : Holds(c)' <=> Holds(c)
  BY <1>1, SameConsumers, Zenon
<1>8. StressTypes'
  BY <1>1, <1>2, <1>4, <1>6, <1>7, Zenon DEF StressTypes
<1>9. EndInv' /\ DrainedAtExit'
  BY <1>1, <1>2, <1>3, StaysInLoop, Zenon
<1>10. CountInv'
  BY <1>1, <1>2, <1>4, <1>5, <1>6, <1>7, Zenon DEF CountInv
<1>11. PlaceInv'
  <2>1. \A q \in Producers : InPush(q)' <=> InPush(q)
    BY <1>4, <1>5, Zenon
  <2>2. \A m \in Ids : m[1] \in Producers
    BY <1>2, IdOf, Zenon
  <2>3. Issued' = Issued
    BY <1>1, <2>1, <2>2, Zenon DEF Issued
  <2>4. Waiting' = Waiting
    BY <1>6 DEF Waiting
  <2>. QED  BY <1>1, <1>2, <1>6, <1>7, <2>3, <2>4, Zenon DEF PlaceInv
<1>12. PublishedInv'
  <2>1. \A q \in Producers : producing'[q] = "count" <=> producing[q] = "count"
    BY <1>1, <1>4, Zenon
  <2>2. \A m \in Ids : m[1] \in Producers
    BY <1>2, IdOf, Zenon
  <2>. QED  BY <1>1, <1>2, <2>1, <2>2, Zenon DEF PublishedInv
<1>13. OrderInv'
  BY <1>1, <1>2, <1>6, Zenon DEF OrderInv
<1>. QED  BY <1>1, <1>2, <1>8, <1>9, <1>10, <1>11, <1>12, <1>13, Zenon DEF StressInv

LEMMA MarksPublishedKeeps ==
    ASSUME StressInv, NEW p \in Producers, MarksPublished(p)
    PROVE  StressInv'
<1>1. /\ producing[p] = "published" /\ producing' = [producing EXCEPT ![p] = "count"]
      /\ published' = published \union {Id(p)}
      /\ UNCHANGED <<test, expired, claimed, sequence, closed, local, remaining, pushed,
                     consuming, got, last, popped, consumed, failed>>
  BY Zenon DEF MarksPublished, Produce, queue, consumers
<1>2. /\ StressTypes /\ EndInv /\ CountInv /\ PlaceInv /\ PublishedInv /\ OrderInv /\ ~ failed
      /\ DrainedAtExit
  BY Zenon DEF StressInv
<1>3. "count" \in ProducerLabels
  BY Zenon DEF ProducerLabels
<1>4. /\ producing' \in [Producers -> ProducerLabels] /\ producing'[p] = "count"
      /\ \A q \in Producers \ {p} : producing'[q] = producing[q] /\ (InPush(q)' <=> InPush(q))
      /\ (InPush(p) <=> InPush(p)') => Cardinality(Incoming') = Cardinality(Incoming)
  BY <1>1, <1>2, <1>3, ProducerMoves, Zenon
<1>5. InPush(p) /\ InPush(p)'
  BY <1>1, <1>4, Zenon DEF InPush
<1>6. /\ Outgoing' = Outgoing /\ Held' = Held /\ Waiting' = Waiting
      /\ \A c \in Consumers : Holds(c)' <=> Holds(c)
  BY <1>1, SameConsumers, SameClaimed, Zenon
<1>7. StressTypes'
  BY <1>1, <1>2, <1>4, <1>6, Zenon DEF StressTypes
<1>8. EndInv' /\ DrainedAtExit'
  BY <1>1, <1>2, <1>3, StaysInLoop, Zenon
<1>9. CountInv'
  BY <1>1, <1>2, <1>4, <1>5, <1>6, Zenon DEF CountInv
<1>10. /\ Id(p) \in Ids /\ Id(p)[1] = p /\ Id(p)[2] = local[p]
       /\ \A m \in Ids : m[1] \in Producers /\ (m = Id(p) <=> m[1] = p /\ m[2] = local[p])
  BY <1>2, IdOf, Zenon
<1>11. PlaceInv'
  <2>1. \A q \in Producers : InPush(q)' <=> InPush(q)
    BY <1>4, <1>5, Zenon
  <2>2. Issued' = Issued
    BY <1>1, <1>10, <2>1, Zenon DEF Issued
  <2>. QED  BY <1>1, <1>2, <1>6, <2>2, Zenon DEF PlaceInv
<1>12. PublishedInv'
  <2>1. ASSUME NEW m \in Ids
        PROVE  (m[2] < local[m[1]] \/ (m[2] = local[m[1]] /\ producing'[m[1]] = "count")) <=>
                   \/ m[2] < local[m[1]] \/ (m[2] = local[m[1]] /\ producing[m[1]] = "count")
                   \/ m = Id(p)
    <3>1. CASE m[1] = p
      BY <1>1, <1>4, <1>10, <3>1, Zenon
    <3>2. CASE m[1] # p
      BY <1>4, <1>10, <3>2, Zenon
    <3>. QED  BY <3>1, <3>2, Zenon
  <2>2. published' = {m \in Ids : m[2] < local[m[1]] \/ (m[2] = local[m[1]] /\ producing'[m[1]] = "count")}
    BY <1>1, <1>2, <1>10, <2>1, Zenon DEF PublishedInv
  <2>. QED  BY <1>1, <2>2, Zenon DEF PublishedInv
<1>13. OrderInv'
  BY <1>1, <1>2, Zenon DEF OrderInv
<1>. QED  BY <1>1, <1>2, <1>7, <1>8, <1>9, <1>11, <1>12, <1>13, Zenon DEF StressInv

LEMMA CountsPushedKeeps ==
    ASSUME StressInv, NEW p \in Producers, CountsPushed(p)
    PROVE  StressInv'
<1>1. /\ producing[p] = "count" /\ producing' = [producing EXCEPT ![p] = "loop"]
      /\ pushed' = pushed + 1 /\ local' = [local EXCEPT ![p] = @ + 1]
      /\ UNCHANGED <<test, expired, claimed, sequence, closed, remaining, published,
                     consuming, got, last, popped, consumed, failed>>
  BY Zenon DEF CountsPushed, Produce, queue, consumers
<1>2. /\ StressTypes /\ EndInv /\ CountInv /\ PlaceInv /\ PublishedInv /\ OrderInv /\ ~ failed
      /\ DrainedAtExit
  BY Zenon DEF StressInv
<1>3. "loop" \in ProducerLabels
  BY Zenon DEF ProducerLabels
<1>4. /\ producing' \in [Producers -> ProducerLabels] /\ producing'[p] = "loop"
      /\ \A q \in Producers \ {p} : producing'[q] = producing[q] /\ (InPush(q)' <=> InPush(q))
      /\ Cardinality(Incoming) \in Nat /\ Cardinality(Incoming') \in Nat
      /\ InPush(p) /\ ~ InPush(p)' => Cardinality(Incoming) = Cardinality(Incoming') + 1
  BY <1>1, <1>2, <1>3, ProducerMoves, Zenon
<1>5. InPush(p) /\ ~ InPush(p)'
  BY <1>1, <1>4, Zenon DEF InPush
<1>6. /\ Outgoing' = Outgoing /\ Held' = Held /\ Waiting' = Waiting
      /\ \A c \in Consumers : Holds(c)' <=> Holds(c)
  BY <1>1, SameConsumers, SameClaimed, Zenon
<1>7. /\ local' \in [Producers -> Nat \ {0}] /\ local'[p] = local[p] + 1 /\ local[p] \in Nat
      /\ \A q \in Producers \ {p} : local'[q] = local[q]
  <2>1. local \in [Producers -> Nat \ {0}]
    BY <1>2, Zenon DEF StressTypes
  <2>2. local[p] \in Nat \ {0} /\ local[p] + 1 \in Nat \ {0}
    BY <2>1
  <2>. QED  BY <1>1, <2>1, <2>2, Zenon
<1>8. StressTypes'
  <2>1. pushed' \in Nat
    BY <1>1, <1>2 DEF StressTypes
  <2>. QED  BY <1>1, <1>2, <1>4, <1>6, <1>7, <2>1, Zenon DEF StressTypes
<1>9. EndInv' /\ DrainedAtExit'
  BY <1>1, <1>2, <1>3, StaysInLoop, Zenon
<1>10. CountInv'
  <2>1. PICK i, j, k : i = Cardinality(Incoming) /\ j = Cardinality(Incoming') /\ k = Cardinality(Outgoing)
    BY Zenon
  <2>2. i = j + 1 /\ i \in Nat /\ j \in Nat /\ Cardinality(Outgoing') = k
    BY <1>4, <1>5, <1>6, <2>1, Zenon
  <2>3. Len(claimed) + popped + k = pushed + i
    BY <1>2, <2>1, Zenon DEF CountInv
  <2>4. pushed \in Nat
    BY <1>2, Zenon DEF StressTypes
  <2>5. Len(claimed) + popped + k = (pushed + 1) + j
    BY <2>2, <2>3, <2>4
  <2>. QED  BY <1>1, <2>1, <2>2, <2>5, Zenon DEF CountInv
<1>11. \A m \in Ids : m[1] \in Producers /\ m[2] \in Nat
  BY <1>2, IdOf, Zenon
<1>12. \A m \in Ids : m[1] = p => (m[2] < local[p] + 1 <=> m[2] < local[p] \/ m[2] = local[p])
  BY <1>7, <1>11
<1>13. PlaceInv'
  <2>1. ASSUME NEW m \in Ids
        PROVE  (m[2] < local'[m[1]] \/ (m[2] = local'[m[1]] /\ InPush(m[1])')) <=>
                   (m[2] < local[m[1]] \/ (m[2] = local[m[1]] /\ InPush(m[1])))
    <3>1. CASE m[1] = p
      BY <1>5, <1>7, <1>12, <3>1, Zenon
    <3>2. CASE m[1] # p
      BY <1>4, <1>7, <1>11, <3>2, Zenon
    <3>. QED  BY <3>1, <3>2, Zenon
  <2>2. Issued' = Issued
    BY <2>1, Zenon DEF Issued
  <2>. QED  BY <1>1, <1>2, <1>6, <2>2, Zenon DEF PlaceInv
<1>14. PublishedInv'
  <2>1. ASSUME NEW m \in Ids
        PROVE  (m[2] < local'[m[1]] \/ (m[2] = local'[m[1]] /\ producing'[m[1]] = "count")) <=>
                   (m[2] < local[m[1]] \/ (m[2] = local[m[1]] /\ producing[m[1]] = "count"))
    <3>1. CASE m[1] = p
      BY <1>1, <1>4, <1>7, <1>12, <3>1, Zenon
    <3>2. CASE m[1] # p
      BY <1>4, <1>7, <1>11, <3>2, Zenon
    <3>. QED  BY <3>1, <3>2, Zenon
  <2>. QED  BY <1>1, <1>2, <2>1, Zenon DEF PublishedInv
<1>15. OrderInv'
  BY <1>1, <1>2, Zenon DEF OrderInv
<1>. QED  BY <1>1, <1>2, <1>8, <1>9, <1>10, <1>13, <1>14, <1>15, Zenon DEF StressInv

\* A producer ends.  Only the last one may go on to close the queue.
LEMMA LeavesKeeps ==
    ASSUME StressInv, NEW p \in Producers, producing[p] \in {"loop", "break"},
           NEW l \in {"close", "done"}, l = "close" => test = "blocking" /\ remaining = 1,
           producing' = [producing EXCEPT ![p] = l], remaining' = remaining - 1,
           UNCHANGED <<test, expired, queue, local, pushed, published, consumers, failed>>
    PROVE  StressInv'
<1>1. UNCHANGED <<claimed, sequence, closed, consuming, got, last, popped, consumed>>
  BY Zenon DEF queue, consumers
<1>2. /\ StressTypes /\ EndInv /\ CountInv /\ PlaceInv /\ PublishedInv /\ OrderInv /\ ~ failed
      /\ DrainedAtExit
  BY Zenon DEF StressInv
<1>3. l \in ProducerLabels
  BY Zenon DEF ProducerLabels
<1>4. /\ producing' \in [Producers -> ProducerLabels] /\ producing'[p] = l
      /\ \A q \in Producers \ {p} : producing'[q] = producing[q] /\ (InPush(q)' <=> InPush(q))
      /\ (InPush(p) <=> InPush(p)') => Cardinality(Incoming') = Cardinality(Incoming)
  BY <1>1, <1>2, <1>3, ProducerMoves, Zenon
<1>5. ~ InPush(p) /\ ~ InPush(p)'
  BY <1>4, Zenon DEF InPush
<1>6. /\ Outgoing' = Outgoing /\ Held' = Held /\ Waiting' = Waiting
      /\ \A c \in Consumers : Holds(c)' <=> Holds(c)
  BY <1>1, SameConsumers, SameClaimed, Zenon
<1>7. /\ ~ closed
      /\ \A c \in Consumers : consuming[c] \notin {"counts", "done"}
      /\ \A q \in Producers : producing[q] # "close"
  BY <1>2, WhileLooping, Zenon
<1>8. /\ remaining' \in Nat /\ remaining' = Cardinality(Looping')
      /\ remaining = 1 => Looping' = {}
  <2>1. PICK A, B : A = Looping /\ B = Looping'
    BY Zenon
  <2>2. /\ A \in SUBSET Producers /\ B \in SUBSET Producers /\ A \ {p} = B \ {p}
        /\ p \in A /\ p \notin B
    <3>1. /\ A \in SUBSET Producers /\ B \in SUBSET Producers
          /\ \A y \in Producers : (y \in A <=> producing[y] \notin {"close", "done"})
                                  /\ (y \in B <=> producing'[y] \notin {"close", "done"})
      BY <2>1, Zenon DEF Looping
    <3>2. \A y \in Producers \ {p} : y \in A <=> y \in B
      BY <1>4, <3>1, Zenon
    <3>3. A \ {p} = B \ {p}
      BY <3>1, <3>2
    <3>. QED  BY <1>4, <3>1, <3>3, Zenon
  <2>. HIDE <2>1
  <2>3. IsFiniteSet(Producers)
    BY WorkSharingAssumption, Zenon
  <2>4. Cardinality(A) \in Nat /\ Cardinality(B) \in Nat /\ Cardinality(A) = Cardinality(B) + 1
    BY <2>2, <2>3, OneMoves
  <2>5. remaining = Cardinality(A)
    BY <1>2, <2>1, Zenon DEF EndInv
  <2>6. remaining' = Cardinality(B) /\ (remaining = 1 => Cardinality(B) = 0)
    BY <2>4, <2>5
  <2>7. IsFiniteSet(B)
    BY <2>2, <2>3, FS_Subset, Zenon
  <2>. QED  BY <2>1, <2>4, <2>6, <2>7, NoneLeft, Zenon
<1>9. StressTypes'
  BY <1>1, <1>2, <1>4, <1>6, <1>8, Zenon DEF StressTypes
<1>10. EndInv'
  <2>1. ASSUME NEW q \in Producers, producing'[q] = "close"
        PROVE  test = "blocking" /\ \A r \in Producers \ {q} : producing'[r] = "done"
    <3>1. q = p /\ test = "blocking" /\ remaining = 1
      BY <1>4, <1>7, <2>1, Zenon
    <3>2. \A r \in Producers : producing'[r] \in {"close", "done"}
      BY <1>8, <3>1, Zenon DEF Looping
    <3>. QED  BY <1>4, <1>7, <3>1, <3>2, Zenon
  <2>2. \A c \in Consumers : consuming'[c] \in {"remaining", "counts"} => test' = "mpmc"
    BY <1>1, <1>2, Zenon DEF EndInv
  <2>. QED  BY <1>1, <1>7, <1>8, <2>1, <2>2, Zenon DEF EndInv
<1>11. CountInv'
  BY <1>1, <1>2, <1>4, <1>5, <1>6, Zenon DEF CountInv
<1>12. \A m \in Ids : m[1] \in Producers
  BY <1>2, IdOf, Zenon
<1>13. PlaceInv'
  <2>1. \A q \in Producers : InPush(q)' <=> InPush(q)
    BY <1>4, <1>5, Zenon
  <2>2. Issued' = Issued
    BY <1>12, <2>1, Zenon DEF Issued
  <2>. QED  BY <1>1, <1>2, <1>6, <2>2, Zenon DEF PlaceInv
<1>14. PublishedInv'
  <2>1. \A q \in Producers : producing'[q] = "count" <=> producing[q] = "count"
    BY <1>4, Zenon
  <2>. QED  BY <1>2, <1>12, <2>1, Zenon DEF PublishedInv
<1>15. OrderInv'
  BY <1>1, <1>2, Zenon DEF OrderInv
<1>16. DrainedAtExit'
  BY <1>1, <1>7, Zenon DEF DrainedAtExit
<1>. QED  BY <1>2, <1>9, <1>10, <1>11, <1>13, <1>14, <1>15, <1>16, Zenon DEF StressInv

LEMMA ClosesKeeps ==
    ASSUME StressInv, NEW p \in Producers, Closes(p)
    PROVE  StressInv'
<1>1. /\ producing[p] = "close" /\ producing' = [producing EXCEPT ![p] = "done"] /\ closed' = TRUE
      /\ UNCHANGED <<test, expired, claimed, sequence, local, remaining, pushed, published,
                     consuming, got, last, popped, consumed, failed>>
  BY Zenon DEF Closes, Produce, consumers
<1>2. /\ StressTypes /\ EndInv /\ CountInv /\ PlaceInv /\ PublishedInv /\ OrderInv /\ ~ failed
      /\ DrainedAtExit
  BY Zenon DEF StressInv
<1>3. "done" \in ProducerLabels
  BY Zenon DEF ProducerLabels
<1>4. /\ producing' \in [Producers -> ProducerLabels] /\ producing'[p] = "done"
      /\ \A q \in Producers \ {p} : producing'[q] = producing[q] /\ (InPush(q)' <=> InPush(q))
      /\ (InPush(p) <=> InPush(p)') => Cardinality(Incoming') = Cardinality(Incoming)
  BY <1>1, <1>2, <1>3, ProducerMoves, Zenon
<1>5. ~ InPush(p) /\ ~ InPush(p)'
  BY <1>1, <1>4, Zenon DEF InPush
<1>6. /\ Outgoing' = Outgoing /\ Held' = Held /\ Waiting' = Waiting
      /\ \A c \in Consumers : Holds(c)' <=> Holds(c)
  BY <1>1, SameConsumers, SameClaimed, Zenon
<1>7. \A q \in Producers : producing'[q] = "done"
  BY <1>1, <1>2, <1>4, Zenon DEF EndInv
<1>8. StressTypes'
  <2>1. closed' \in BOOLEAN
    BY <1>1, Zenon
  <2>. QED  BY <1>1, <1>2, <1>4, <1>6, <2>1, Zenon DEF StressTypes
<1>9. EndInv'
  <2>1. Looping' = Looping
    BY <1>1, <1>4, Zenon DEF Looping
  <2>2. \A q \in Producers : producing'[q] # "close"
    BY <1>7, Zenon
  <2>. QED  BY <1>1, <1>2, <1>7, <2>1, <2>2, Zenon DEF EndInv
<1>10. CountInv'
  BY <1>1, <1>2, <1>4, <1>5, <1>6, Zenon DEF CountInv
<1>11. \A m \in Ids : m[1] \in Producers
  BY <1>2, IdOf, Zenon
<1>12. PlaceInv'
  <2>1. \A q \in Producers : InPush(q)' <=> InPush(q)
    BY <1>4, <1>5, Zenon
  <2>2. Issued' = Issued
    BY <1>1, <1>11, <2>1, Zenon DEF Issued
  <2>. QED  BY <1>1, <1>2, <1>6, <2>2, Zenon DEF PlaceInv
<1>13. PublishedInv'
  <2>1. \A q \in Producers : producing'[q] = "count" <=> producing[q] = "count"
    BY <1>1, <1>4, Zenon
  <2>. QED  BY <1>1, <1>2, <1>11, <2>1, Zenon DEF PublishedInv
<1>14. OrderInv'
  BY <1>1, <1>2, Zenon DEF OrderInv
<1>15. DrainedAtExit'
  BY <1>1, <1>2, <1>7, Zenon DEF DrainedAtExit
<1>. QED  BY <1>1, <1>2, <1>8, <1>9, <1>10, <1>12, <1>13, <1>14, <1>15, Zenon DEF StressInv

-----------------------------------------------------------------------------
\* A consumer goes on among the places where the end is not in question.
LEMMA StaysPopping ==
    ASSUME StressTypes, EndInv, DrainedAtExit, NEW c \in Consumers,
           NEW l \in {"pop", "count", "mark"}, consuming' = [consuming EXCEPT ![c] = l],
           UNCHANGED <<test, closed, producing, local, remaining>>,
           claimed' = claimed \/ \A d \in Consumers : consuming[d] # "done"
    PROVE  EndInv' /\ DrainedAtExit'
<1>1. consuming'[c] = l /\ \A d \in Consumers \ {c} : consuming'[d] = consuming[d]
  BY Zenon DEF StressTypes
<1>2. Looping' = Looping
  BY SameProducers, Zenon
<1>3. \A d \in Consumers : consuming'[d] \in {"remaining", "counts", "done"} => consuming[d] = consuming'[d]
  BY <1>1, Zenon
<1>4. EndInv'
  BY <1>2, <1>3, Zenon DEF EndInv
<1>5. DrainedAtExit'
  BY <1>3, Zenon DEF DrainedAtExit
<1>. QED  BY <1>4, <1>5, Zenon

\* A message is taken out of the queue.
LEMMA TakesKeeps ==
    ASSUME StressInv, NEW c \in Consumers, NEW l \in {"count", "mark"}, Consume(c, "pop", l),
           l = "count" <=> test = "mpmc", Takes(c)
    PROVE  StressInv'
<1>1. /\ consuming[c] = "pop" /\ consuming' = [consuming EXCEPT ![c] = l]
      /\ claimed # << >> /\ got' = [got EXCEPT ![c] = Head(claimed)] /\ claimed' = Tail(claimed)
      /\ UNCHANGED <<test, expired, sequence, closed, producing, local, remaining, pushed, published,
                     last, popped, consumed, failed>>
  BY Zenon DEF Takes, Consume, producers
<1>2. /\ StressTypes /\ EndInv /\ CountInv /\ PlaceInv /\ PublishedInv /\ OrderInv /\ ~ failed
      /\ DrainedAtExit
  BY Zenon DEF StressInv
<1>3. l \in ConsumerLabels /\ (l = "mark" <=> test = "blocking")
  BY <1>2, Zenon DEF ConsumerLabels, StressTypes
<1>4. /\ consuming' \in [Consumers -> ConsumerLabels] /\ consuming'[c] = l
      /\ \A d \in Consumers \ {c} : /\ consuming'[d] = consuming[d]
                                    /\ Holds(d)' <=> Holds(d)
      /\ Cardinality(Outgoing) \in Nat
      /\ ~ Uncounted(c) /\ Uncounted(c)' => Cardinality(Outgoing') = Cardinality(Outgoing) + 1
  BY <1>1, <1>2, <1>3, ConsumerMoves, Zenon
<1>5. ~ Uncounted(c) /\ Uncounted(c)' /\ ~ Holds(c) /\ Holds(c)'
  BY <1>1, <1>3, <1>4, Zenon DEF Uncounted, Holds
<1>6. /\ claimed' \in Seq(Entries)
      /\ Len(claimed) \in Nat /\ Len(claimed') \in Nat /\ Len(claimed) = Len(claimed') + 1
      /\ Head(claimed) = claimed[1] /\ 1 \in DOMAIN claimed /\ claimed[1] \in Entries
      /\ \A i \in DOMAIN claimed' : /\ i + 1 \in DOMAIN claimed /\ claimed'[i] = claimed[i + 1]
                                    /\ 1 < i + 1 /\ i + 1 # 1 /\ i \in Nat
      /\ \A j \in DOMAIN claimed \ {1} : j - 1 \in DOMAIN claimed' /\ j = (j - 1) + 1
  <2>1. claimed \in Seq(Entries)
    BY <1>2, Zenon DEF StressTypes
  <2>2. PICK s, t : s = claimed /\ t = claimed'
    BY Zenon
  <2>3. s \in Seq(Entries) /\ s # << >> /\ t = Tail(s)
    BY <1>1, <2>1, <2>2, Zenon
  <2>. HIDE <2>2
  <2>4. /\ t \in Seq(Entries) /\ Len(s) \in Nat /\ Len(t) \in Nat /\ Len(s) = Len(t) + 1
        /\ Head(s) = s[1] /\ 1 \in DOMAIN s /\ s[1] \in Entries
        /\ \A i \in DOMAIN t : /\ i + 1 \in DOMAIN s /\ t[i] = s[i + 1] /\ 1 < i + 1 /\ i + 1 # 1
                               /\ s[i + 1] \in Entries /\ i \in Nat
        /\ \A j \in DOMAIN s \ {1} : j - 1 \in DOMAIN t /\ j = (j - 1) + 1
    BY <2>3, Shortened
  <2>. QED  BY <2>2, <2>4, Zenon
<1>7. /\ got' \in [Consumers -> Entries \union {NoMessage}] /\ got'[c] = claimed[1]
      /\ \A d \in Consumers \ {c} : got'[d] = got[d]
  BY <1>1, <1>2, <1>6, Zenon DEF StressTypes
<1>8. /\ Looping' = Looping /\ Incoming' = Incoming /\ Issued' = Issued
  BY <1>1, SameProducers, Zenon
<1>9. StressTypes'
  <2>1. \A d \in Consumers : Holds(d)' => got'[d] \in Entries
    BY <1>2, <1>4, <1>6, <1>7, Zenon DEF StressTypes
  <2>. QED  BY <1>1, <1>2, <1>4, <1>6, <1>7, <2>1, Zenon DEF StressTypes
<1>10. EndInv' /\ DrainedAtExit'
  <2>1. \A d \in Consumers : consuming[d] # "done"
    BY <1>1, <1>2, Zenon DEF DrainedAtExit
  <2>. QED  BY <1>1, <1>2, <2>1, StaysPopping, Zenon
<1>11. CountInv'
  <2>1. PICK i, j, k : i = Cardinality(Outgoing) /\ j = Cardinality(Outgoing') /\ k = pushed + Cardinality(Incoming)
    BY Zenon
  <2>2. j = i + 1 /\ i \in Nat
    BY <1>4, <1>5, <2>1, Zenon
  <2>3. Len(claimed) + popped + i = k
    BY <1>2, <2>1, Zenon DEF CountInv
  <2>4. popped \in Nat
    BY <1>2, Zenon DEF StressTypes
  <2>5. Len(claimed') + popped + j = k
    BY <1>6, <2>2, <2>3, <2>4
  <2>. QED  BY <1>1, <1>8, <2>1, <2>5, Zenon DEF CountInv
<1>12. PICK x : x = claimed[1].id
  BY Zenon
<1>13. x \in Waiting /\ Waiting' = Waiting \ {x}
  <2>1. x \in Waiting
    BY <1>6, <1>12, Zenon DEF Waiting
  <2>2. \A j \in DOMAIN claimed \ {1} : claimed[j].id # x
    BY <1>2, <1>6, <1>12, Zenon DEF PlaceInv
  <2>3. ASSUME NEW y \in Waiting' PROVE y \in Waiting \ {x}
    <3>1. PICK i \in DOMAIN claimed' : y = claimed'[i].id
      BY <2>3, Zenon DEF Waiting
    <3>. QED  BY <1>6, <2>2, <3>1, Zenon DEF Waiting
  <2>4. ASSUME NEW y \in Waiting \ {x} PROVE y \in Waiting'
    <3>1. PICK j \in DOMAIN claimed : y = claimed[j].id
      BY <2>4, Zenon DEF Waiting
    <3>2. PICK i \in DOMAIN claimed' : j = i + 1
      BY <1>6, <1>12, <2>4, <3>1, Zenon
    <3>3. y = claimed'[i].id
      BY <1>6, <3>1, <3>2, Zenon
    <3>. QED  BY <3>3, Zenon DEF Waiting
  <2>. QED  BY <2>1, <2>3, <2>4, Zenon
<1>14. Held' = Held \union {x}
  <2>1. ASSUME NEW y \in Held' PROVE y \in Held \union {x}
    <3>1. PICK d \in Consumers : Holds(d)' /\ y = got'[d].id
      BY <2>1, Zenon DEF Held
    <3>. QED  BY <1>4, <1>7, <1>12, <3>1, Zenon DEF Held
  <2>2. ASSUME NEW y \in Held PROVE y \in Held'
    <3>1. PICK d \in Consumers : Holds(d) /\ y = got[d].id
      BY <2>2, Zenon DEF Held
    <3>2. d # c /\ Holds(d)' /\ y = got'[d].id
      BY <1>4, <1>5, <1>7, <3>1, Zenon
    <3>. QED  BY <3>2, Zenon DEF Held
  <2>3. x \in Held'
    BY <1>5, <1>7, <1>12, Zenon DEF Held
  <2>. QED  BY <2>1, <2>2, <2>3, Zenon
<1>15. PlaceInv'
  <2>1. /\ consumed \union Held \union Waiting = Issued
        /\ consumed \intersect Held = {} /\ (consumed \union Held) \intersect Waiting = {}
        /\ \A i, j \in DOMAIN claimed : claimed[i].id = claimed[j].id => i = j
        /\ \A d, f \in Consumers : Holds(d) /\ Holds(f) /\ got[d].id = got[f].id => d = f
    BY <1>2, Zenon DEF PlaceInv
  <2>2. /\ consumed \union (Held \union {x}) \union (Waiting \ {x}) = Issued
        /\ consumed \intersect (Held \union {x}) = {}
        /\ (consumed \union (Held \union {x})) \intersect (Waiting \ {x}) = {}
    BY <1>13, <2>1
  <2>3. \A i, j \in DOMAIN claimed' : claimed'[i].id = claimed'[j].id => i = j
    <3>1. ASSUME NEW i \in DOMAIN claimed', NEW j \in DOMAIN claimed', claimed'[i].id = claimed'[j].id
          PROVE  i + 1 = j + 1
      <4>1. /\ i + 1 \in DOMAIN claimed /\ claimed'[i] = claimed[i + 1]
            /\ j + 1 \in DOMAIN claimed /\ claimed'[j] = claimed[j + 1]
        BY <1>6, Zenon
      <4>. QED  BY <2>1, <3>1, <4>1, Zenon
    <3>2. \A i, j \in DOMAIN claimed' : i + 1 = j + 1 => i = j
      BY <1>6
    <3>. QED  BY <3>1, <3>2, Zenon
  <2>4. \A d \in Consumers \ {c} : Holds(d) => got[d].id # x
    <3>1. x \notin Held
      BY <1>13, <2>1, Zenon
    <3>. QED  BY <3>1, Zenon DEF Held
  <2>5. ASSUME NEW d \in Consumers, NEW f \in Consumers, Holds(d)', Holds(f)', got'[d].id = got'[f].id
        PROVE  d = f
    <3>1. CASE d # c /\ f # c
      <4>1. Holds(d) /\ Holds(f) /\ got[d].id = got[f].id
        BY <1>4, <1>7, <2>5, <3>1, Zenon
      <4>. QED  BY <2>1, <4>1, Zenon
    <3>2. CASE d = c /\ f # c
      BY <1>4, <1>7, <1>12, <2>4, <2>5, <3>2, Zenon
    <3>3. CASE d # c /\ f = c
      BY <1>4, <1>7, <1>12, <2>4, <2>5, <3>3, Zenon
    <3>. QED  BY <3>1, <3>2, <3>3, Zenon
  <2>. QED  BY <1>1, <1>8, <1>13, <1>14, <2>2, <2>3, <2>5, Zenon DEF PlaceInv
<1>16. PublishedInv'
  BY <1>1, <1>2, Zenon DEF PublishedInv
<1>17. OrderInv'
  <2>1. CASE test = "mpmc"
    <3>1. /\ \A i, j \in DOMAIN claimed' : i < j => claimed'[i].sequence < claimed'[j].sequence
      <4>1. \A i, j \in DOMAIN claimed' : i < j => i + 1 < j + 1
        BY <1>6
      <4>2. \A i, j \in DOMAIN claimed : i < j => claimed[i].sequence < claimed[j].sequence
        BY <1>2, <2>1, Zenon DEF OrderInv
      <4>. QED  BY <1>6, <4>1, <4>2, Zenon
    <3>2. \A i \in DOMAIN claimed' : claimed'[i].sequence <= sequence
      BY <1>2, <1>6, <2>1, Zenon DEF OrderInv
    <3>3. ASSUME NEW d \in Consumers
          PROVE  /\ last[d] <= sequence
                 /\ \A i \in DOMAIN claimed' : last[d] < claimed'[i].sequence
      BY <1>2, <1>6, <2>1, Zenon DEF OrderInv
    <3>4. ASSUME NEW d \in Consumers, consuming'[d] = "count"
          PROVE  /\ last[d] < got'[d].sequence /\ got'[d].sequence <= sequence
                 /\ \A i \in DOMAIN claimed' : got'[d].sequence < claimed'[i].sequence
      <4>1. CASE d = c
        <5>1. /\ last[c] < claimed[1].sequence /\ claimed[1].sequence <= sequence
              /\ \A j \in DOMAIN claimed : 1 < j => claimed[1].sequence < claimed[j].sequence
          BY <1>2, <1>6, <2>1, Zenon DEF OrderInv
        <5>. QED  BY <1>6, <1>7, <4>1, <5>1, Zenon
      <4>2. CASE d # c
        <5>1. consuming[d] = "count" /\ got'[d] = got[d]
          BY <1>4, <1>7, <3>4, <4>2, Zenon
        <5>2. /\ last[d] < got[d].sequence /\ got[d].sequence <= sequence
              /\ \A j \in DOMAIN claimed : got[d].sequence < claimed[j].sequence
          BY <1>2, <2>1, <5>1, Zenon DEF OrderInv
        <5>. QED  BY <1>6, <5>1, <5>2, Zenon
      <4>. QED  BY <4>1, <4>2, Zenon
    <3>. QED  BY <1>1, <3>1, <3>2, <3>3, <3>4, Zenon DEF OrderInv
  <2>. QED  BY <1>1, <2>1, Zenon DEF OrderInv
<1>. QED  BY <1>1, <1>2, <1>9, <1>10, <1>11, <1>15, <1>16, <1>17, Zenon DEF StressInv

\* A message is marked.
LEMMA MarksKeeps ==
    ASSUME StressInv, NEW c \in Consumers, NEW l \in {"pop", "count"}, Consume(c, "mark", l),
           l = "pop" <=> test = "mpmc", Marks(c)
    PROVE  StressInv'
<1>1. /\ consuming[c] = "mark" /\ consuming' = [consuming EXCEPT ![c] = l]
      /\ failed' = (failed \/ got[c].id \in consumed) /\ consumed' = consumed \union {got[c].id}
      /\ got' = [got EXCEPT ![c] = NoMessage]
      /\ UNCHANGED <<test, expired, claimed, sequence, closed, producing, local, remaining, pushed,
                     published, last, popped>>
  BY Zenon DEF Marks, Consume, queue, producers
<1>2. /\ StressTypes /\ EndInv /\ CountInv /\ PlaceInv /\ PublishedInv /\ OrderInv /\ ~ failed
      /\ DrainedAtExit
  BY Zenon DEF StressInv
<1>3. l \in ConsumerLabels /\ (l = "count" <=> test = "blocking")
  BY <1>2, Zenon DEF ConsumerLabels, StressTypes
<1>4. /\ consuming' \in [Consumers -> ConsumerLabels] /\ consuming'[c] = l
      /\ \A d \in Consumers \ {c} : /\ consuming'[d] = consuming[d]
                                    /\ Holds(d)' <=> Holds(d)
      /\ (Uncounted(c) <=> Uncounted(c)') => Cardinality(Outgoing') = Cardinality(Outgoing)
  BY <1>1, <1>2, <1>3, ConsumerMoves, Zenon
<1>5. (Uncounted(c) <=> Uncounted(c)') /\ Holds(c) /\ ~ Holds(c)'
  BY <1>1, <1>3, <1>4, Zenon DEF Uncounted, Holds
<1>6. /\ got' \in [Consumers -> Entries \union {NoMessage}]
      /\ \A d \in Consumers \ {c} : got'[d] = got[d]
  BY <1>1, <1>2, Zenon DEF StressTypes
<1>7. /\ Looping' = Looping /\ Incoming' = Incoming /\ Issued' = Issued /\ Waiting' = Waiting
  BY <1>1, SameProducers, SameClaimed, Zenon
<1>8. StressTypes'
  <2>1. \A d \in Consumers : Holds(d)' => got'[d] \in Entries
    BY <1>2, <1>4, <1>5, <1>6, Zenon DEF StressTypes
  <2>. QED  BY <1>1, <1>2, <1>4, <1>6, <2>1, Zenon DEF StressTypes
<1>9. EndInv' /\ DrainedAtExit'
  BY <1>1, <1>2, StaysPopping, Zenon
<1>10. CountInv'
  BY <1>1, <1>2, <1>4, <1>5, <1>7, Zenon DEF CountInv
<1>11. PICK x : x = got[c].id
  BY Zenon
<1>12. /\ consumed \union Held \union Waiting = Issued
       /\ consumed \intersect Held = {} /\ (consumed \union Held) \intersect Waiting = {}
       /\ \A d, f \in Consumers : Holds(d) /\ Holds(f) /\ got[d].id = got[f].id => d = f
  BY <1>2, Zenon DEF PlaceInv
<1>13. x \in Held /\ Held' = Held \ {x}
  <2>1. x \in Held
    BY <1>5, <1>11, Zenon DEF Held
  <2>2. ASSUME NEW y \in Held' PROVE y \in Held \ {x}
    <3>1. PICK d \in Consumers : Holds(d)' /\ y = got'[d].id
      BY <2>2, Zenon DEF Held
    <3>2. d # c /\ Holds(d) /\ y = got[d].id
      BY <1>4, <1>5, <1>6, <3>1, Zenon
    <3>3. y # x
      BY <1>5, <1>11, <1>12, <3>2, Zenon
    <3>. QED  BY <3>2, <3>3, Zenon DEF Held
  <2>3. ASSUME NEW y \in Held \ {x} PROVE y \in Held'
    <3>1. PICK d \in Consumers : Holds(d) /\ y = got[d].id
      BY <2>3, Zenon DEF Held
    <3>2. d # c
      BY <1>11, <2>3, <3>1, Zenon
    <3>3. Holds(d)' /\ y = got'[d].id
      BY <1>4, <1>6, <3>1, <3>2, Zenon
    <3>. QED  BY <3>3, Zenon DEF Held
  <2>. QED  BY <2>1, <2>2, <2>3, Zenon
<1>14. x \notin consumed /\ ~ failed'
  <2>1. x \notin consumed
    BY <1>12, <1>13, Zenon
  <2>. QED  BY <1>1, <1>2, <1>11, <2>1, Zenon
<1>15. PlaceInv'
  <2>1. /\ (consumed \union {x}) \union (Held \ {x}) \union Waiting = Issued
        /\ (consumed \union {x}) \intersect (Held \ {x}) = {}
        /\ ((consumed \union {x}) \union (Held \ {x})) \intersect Waiting = {}
    BY <1>12, <1>13
  <2>2. \A d, f \in Consumers : Holds(d)' /\ Holds(f)' /\ got'[d].id = got'[f].id => d = f
    BY <1>4, <1>5, <1>6, <1>12, Zenon
  <2>3. \A i, j \in DOMAIN claimed : claimed[i].id = claimed[j].id => i = j
    BY <1>2, Zenon DEF PlaceInv
  <2>. QED  BY <1>1, <1>7, <1>11, <1>13, <2>1, <2>2, <2>3, Zenon DEF PlaceInv
<1>16. PublishedInv'
  BY <1>1, <1>2, Zenon DEF PublishedInv
<1>17. OrderInv'
  <2>1. CASE test = "mpmc"
    <3>1. \A d \in Consumers : consuming'[d] = "count" => consuming[d] = "count" /\ got'[d] = got[d]
      BY <1>4, <1>6, <2>1, Zenon
    <3>. QED  BY <1>1, <1>2, <3>1, Zenon DEF OrderInv
  <2>. QED  BY <1>1, <2>1, Zenon DEF OrderInv
<1>. QED  BY <1>8, <1>9, <1>10, <1>14, <1>15, <1>16, <1>17, Zenon DEF StressInv

\* A message is counted, before or after it is marked.
LEMMA CountedKeeps ==
    ASSUME StressInv, NEW c \in Consumers, NEW l \in {"pop", "mark"}, Consume(c, "count", l),
           l = "mark" <=> test = "mpmc", popped' = popped + 1,
           last' = IF test = "mpmc" THEN [last EXCEPT ![c] = got[c].sequence] ELSE last,
           UNCHANGED <<test, expired, queue, producers, got, consumed>>, ~ failed'
    PROVE  StressInv'
<1>1. /\ consuming[c] = "count" /\ consuming' = [consuming EXCEPT ![c] = l]
      /\ UNCHANGED <<test, expired, claimed, sequence, closed, producing, local, remaining, pushed,
                     published, got, consumed>>
  BY Zenon DEF Consume, queue, producers
<1>2. /\ StressTypes /\ EndInv /\ CountInv /\ PlaceInv /\ PublishedInv /\ OrderInv /\ ~ failed
      /\ DrainedAtExit
  BY Zenon DEF StressInv
<1>3. l \in ConsumerLabels /\ (l = "pop" <=> test = "blocking")
  BY <1>2, Zenon DEF ConsumerLabels, StressTypes
<1>4. /\ consuming' \in [Consumers -> ConsumerLabels] /\ consuming'[c] = l
      /\ \A d \in Consumers \ {c} : /\ consuming'[d] = consuming[d]
                                    /\ Holds(d)' <=> Holds(d)
      /\ Cardinality(Outgoing) \in Nat /\ Cardinality(Outgoing') \in Nat
      /\ Uncounted(c) /\ ~ Uncounted(c)' => Cardinality(Outgoing) = Cardinality(Outgoing') + 1
  BY <1>1, <1>2, <1>3, ConsumerMoves, Zenon
<1>5. Uncounted(c) /\ ~ Uncounted(c)' /\ (Holds(c)' <=> Holds(c)) /\ (test = "mpmc" => Holds(c))
  BY <1>1, <1>3, <1>4, Zenon DEF Uncounted, Holds
<1>6. \A d \in Consumers : Holds(d)' <=> Holds(d)
  BY <1>4, <1>5, Zenon
<1>7. /\ Looping' = Looping /\ Incoming' = Incoming /\ Issued' = Issued /\ Waiting' = Waiting
  BY <1>1, SameProducers, SameClaimed, Zenon
<1>8. Held' = Held
  BY <1>1, <1>6, Zenon DEF Held
<1>9. StressTypes'
  <2>1. popped' \in Nat
    BY <1>2 DEF StressTypes
  <2>2. test = "mpmc" => got[c].sequence \in Nat
    BY <1>2, <1>5, Zenon DEF StressTypes, Entries
  <2>3. last' \in [Consumers -> Nat]
    BY <1>2, <2>2, Zenon DEF StressTypes
  <2>. QED  BY <1>1, <1>2, <1>4, <1>6, <2>1, <2>3, Zenon DEF StressTypes
<1>10. EndInv' /\ DrainedAtExit'
  BY <1>1, <1>2, StaysPopping, Zenon
<1>11. CountInv'
  <2>1. PICK i, j, k : i = Cardinality(Outgoing) /\ j = Cardinality(Outgoing') /\ k = pushed + Cardinality(Incoming)
    BY Zenon
  <2>2. i = j + 1 /\ i \in Nat /\ j \in Nat
    BY <1>4, <1>5, <2>1, Zenon
  <2>3. Len(claimed) + popped + i = k
    BY <1>2, <2>1, Zenon DEF CountInv
  <2>4. popped \in Nat /\ Len(claimed) \in Nat
    BY <1>2 DEF StressTypes
  <2>5. Len(claimed) + (popped + 1) + j = k
    BY <2>2, <2>3, <2>4
  <2>. QED  BY <1>1, <1>7, <2>1, <2>5, Zenon DEF CountInv
<1>12. PlaceInv'
  BY <1>1, <1>2, <1>6, <1>7, <1>8, Zenon DEF PlaceInv
<1>13. PublishedInv'
  BY <1>1, <1>2, Zenon DEF PublishedInv
<1>14. OrderInv'
  <2>1. CASE test = "mpmc"
    <3>1. last'[c] = got[c].sequence /\ \A d \in Consumers \ {c} : last'[d] = last[d]
      BY <1>2, <2>1, Zenon DEF StressTypes
    <3>2. ASSUME NEW d \in Consumers
          PROVE  /\ last'[d] <= sequence
                 /\ \A i \in DOMAIN claimed : last'[d] < claimed[i].sequence
                 /\ consuming'[d] = "count" =>
                       /\ last'[d] < got[d].sequence /\ got[d].sequence <= sequence
                       /\ \A i \in DOMAIN claimed : got[d].sequence < claimed[i].sequence
      <4>1. CASE d = c
        BY <1>1, <1>2, <1>4, <2>1, <3>1, <4>1, Zenon DEF OrderInv
      <4>2. CASE d # c
        BY <1>2, <1>4, <2>1, <3>1, <4>2, Zenon DEF OrderInv
      <4>. QED  BY <4>1, <4>2, Zenon
    <3>. QED  BY <1>1, <1>2, <2>1, <3>2, Zenon DEF OrderInv
  <2>. QED  BY <1>1, <2>1, Zenon DEF OrderInv
<1>. QED  BY <1>9, <1>10, <1>11, <1>12, <1>13, <1>14, Zenon DEF StressInv

\* popped >= pushed, compared when no producer is left, means that the queue is
\* empty: what is still to be counted has been taken out of it already.
LEMMA ComparedCounts ==
    ASSUME StressInv, \A p \in Producers : producing[p] = "done", popped >= pushed
    PROVE  claimed = << >>
<1>1. Incoming = {}
  BY Zenon DEF Incoming, InPush
<1>2. Cardinality(Incoming) = 0
  BY <1>1, FS_EmptySet, Zenon
<1>3. PICK k : k = Cardinality(Outgoing)
  BY Zenon
<1>4. k \in Nat
  <2>1. Outgoing \in SUBSET Consumers
    BY Zenon DEF Outgoing
  <2>2. IsFiniteSet(Outgoing)
    BY <2>1, WorkSharingAssumption, FS_Subset, Zenon
  <2>. QED  BY <1>3, <2>2, FS_CardinalityType, Zenon
<1>5. Len(claimed) + popped + k = pushed + 0
  BY <1>2, <1>3, Zenon DEF StressInv, CountInv
<1>6. claimed \in Seq(Entries) /\ popped \in Nat /\ pushed \in Nat
  BY Zenon DEF StressInv, StressTypes
<1>7. Len(claimed) = 0
  BY <1>4, <1>5, <1>6
<1>. QED  BY <1>6, <1>7

-----------------------------------------------------------------------------
LEMMA ProducerStepKeeps ==
    ASSUME StressInv, NEW p \in Producers, ProducerStep(p)
    PROVE  StressInv'
<1>1. /\ StressTypes /\ EndInv /\ DrainedAtExit
  BY Zenon DEF StressInv
<1>2. Id(p) \in Ids
  BY <1>1, IdOf, Zenon
<1>3. CASE PushClaims(p)
  <2>1. PICK e : e = Entry(p, FALSE, sequence + 1)
    BY Zenon
  <2>2. sequence \in Nat
    BY <1>1, Zenon DEF StressTypes
  <2>3. e \in Entries /\ e.id = Id(p) /\ e.sequence = sequence + 1 /\ sequence' \in Nat
    BY <1>2, <1>3, <2>1, <2>2 DEF PushClaims, Entry, Entries
  <2>4. /\ producing[p] = "loop" /\ producing' = [producing EXCEPT ![p] = "claimed"]
        /\ claimed' = Append(claimed, e) /\ sequence' = sequence + 1
        /\ UNCHANGED <<test, expired, closed, local, remaining, pushed, published, consumers, failed>>
    BY <1>3, <2>1, Zenon DEF PushClaims, Produce
  <2>. QED  BY <2>3, <2>4, EntersKeeps, Zenon
<1>4. CASE BlockingPushes(p)
  <2>1. ~ closed /\ producing[p] = "loop" /\ test = "blocking"
    BY <1>1, <1>4, WhileLooping, Zenon DEF BlockingPushes
  <2>2. PICK e : e = Entry(p, TRUE, 0)
    BY Zenon
  <2>3. e \in Entries /\ e.id = Id(p)
    BY <1>2, <2>2 DEF Entry, Entries
  <2>4. /\ producing' = [producing EXCEPT ![p] = "published"]
        /\ claimed' = Append(claimed, e)
        /\ UNCHANGED <<test, expired, sequence, closed, local, remaining, pushed, published, consumers>>
    BY <1>4, <2>1, <2>2, Zenon DEF BlockingPushes
  <2>5. UNCHANGED failed
    BY <1>4, <2>1, Zenon DEF BlockingPushes
  <2>6. sequence' \in Nat /\ test # "mpmc"
    BY <1>1, <2>1, <2>4, Zenon DEF StressTypes
  <2>. QED  BY <2>1, <2>3, <2>4, <2>5, <2>6, EntersKeeps, Zenon
<1>5. CASE PushReportsFull(p)
  <2>1. UNCHANGED <<test, expired, queue, producers, consumers, failed>>
    BY <1>5, Zenon DEF PushReportsFull, vars
  <2>2. expired' \in BOOLEAN
    BY <1>1, <2>1, Zenon DEF StressTypes
  <2>. QED  BY <2>1, <2>2, QuietKeeps, Zenon
<1>6. CASE ProducerEnds(p)
  BY <1>6, LeavesKeeps, Zenon DEF ProducerEnds, Produce
<1>7. CASE BlockingProducerEnds(p)
  <2>1. PICK l \in {"close", "done"} : l = IF remaining = 1 THEN "close" ELSE "done"
    BY Zenon
  <2>2. /\ producing[p] \in {"loop", "break"} /\ producing' = [producing EXCEPT ![p] = l]
        /\ remaining' = remaining - 1 /\ test = "blocking"
        /\ UNCHANGED <<test, expired, queue, local, pushed, published, consumers, failed>>
    BY <1>7, <2>1, Zenon DEF BlockingProducerEnds
  <2>3. l = "close" => test = "blocking" /\ remaining = 1
    BY <2>1, <2>2, Zenon
  <2>. QED  BY <2>2, <2>3, LeavesKeeps, Zenon
<1>. QED  BY <1>3, <1>4, <1>5, <1>6, <1>7, PushReturnsKeeps, MarksPublishedKeeps,
             CountsPushedKeeps, ClosesKeeps, Zenon DEF ProducerStep

LEMMA ConsumerStepKeeps ==
    ASSUME StressInv, NEW c \in Consumers, ConsumerStep(c)
    PROVE  StressInv'
<1>1. /\ StressTypes /\ EndInv /\ OrderInv /\ ~ failed
  BY Zenon DEF StressInv
<1>2. CASE Pops(c)
  BY <1>2, TakesKeeps, Zenon DEF Pops
<1>3. CASE BlockingPops(c)
  BY <1>3, TakesKeeps, Zenon DEF BlockingPops
<1>4. CASE MarksConsumed(c)
  BY <1>4, MarksKeeps, Zenon DEF MarksConsumed
<1>5. CASE BlockingMarksConsumed(c)
  BY <1>5, MarksKeeps, Zenon DEF BlockingMarksConsumed
<1>6. CASE CountsPopped(c)
  <2>1. /\ test = "mpmc" /\ Consume(c, "count", "mark") /\ popped' = popped + 1
        /\ last' = [last EXCEPT ![c] = got[c].sequence]
        /\ failed' = (failed \/ got[c].sequence <= last[c])
        /\ UNCHANGED <<test, expired, queue, producers, got, consumed>>
    BY <1>6, Zenon DEF CountsPopped
  <2>2. consuming[c] = "count"
    BY <2>1, Zenon DEF Consume
  <2>3. last[c] < got[c].sequence
    BY <1>1, <2>1, <2>2, Zenon DEF OrderInv
  <2>4. got[c].sequence \in Nat /\ last[c] \in Nat
    BY <1>1, <2>1, <2>2, Zenon DEF StressTypes, Holds, Entries
  <2>5. ~ failed'
    <3>1. ~ (got[c].sequence <= last[c])
      BY <2>3, <2>4
    <3>. QED  BY <1>1, <2>1, <3>1, Zenon
  <2>6. last' = IF test = "mpmc" THEN [last EXCEPT ![c] = got[c].sequence] ELSE last
    BY <2>1, Zenon
  <2>. QED  BY <2>1, <2>5, <2>6, CountedKeeps, Zenon
<1>7. CASE BlockingCountsPopped(c)
  <2>1. ~ failed'
    BY <1>1, <1>7 DEF BlockingCountsPopped
  <2>. QED  BY <1>7, <2>1, CountedKeeps, Zenon DEF BlockingCountsPopped
<1>8. CASE PopsNothing(c)
  BY <1>8, LooksKeeps, Zenon DEF PopsNothing
<1>9. CASE ProducersRemain(c)
  BY <1>9, LooksKeeps, Zenon DEF ProducersRemain
<1>10. CASE NoProducersRemain(c)
  <2>1. /\ remaining = 0 /\ Looks(c, "remaining", "counts") /\ consuming[c] = "remaining"
    BY <1>10, Zenon DEF NoProducersRemain, Looks, Consume
  <2>2. test = "mpmc"
    BY <1>1, <2>1, Zenon DEF EndInv
  <2>3. Looping = {}
    <3>1. Looping \in SUBSET Producers
      BY Zenon DEF Looping
    <3>2. IsFiniteSet(Looping)
      BY <3>1, WorkSharingAssumption, FS_Subset, Zenon
    <3>3. Cardinality(Looping) = 0
      BY <1>1, <2>1, Zenon DEF EndInv
    <3>. QED  BY <3>2, <3>3, NoneLeft, Zenon
  <2>4. \A p \in Producers : producing[p] = "done"
    BY <1>1, <2>2, <2>3, Zenon DEF EndInv, Looping
  <2>. QED  BY <2>1, <2>2, <2>4, LooksKeeps, Zenon
<1>11. CASE ConsumerEnds(c)
  <2>1. popped >= pushed /\ Looks(c, "counts", "done") /\ consuming[c] = "counts"
    BY <1>11, Zenon DEF ConsumerEnds, Looks, Consume
  <2>2. \A p \in Producers : producing[p] = "done"
    BY <1>1, <2>1, Zenon DEF EndInv
  <2>3. claimed = << >>
    BY <2>1, <2>2, ComparedCounts, Zenon
  <2>. QED  BY <2>1, <2>2, <2>3, LooksKeeps, Zenon
<1>12. CASE MoreToPop(c)
  BY <1>12, LooksKeeps, Zenon DEF MoreToPop
<1>13. CASE BlockingConsumerEnds(c)
  <2>1. \A p \in Producers : producing[p] = "done"
    BY <1>1, <1>13, Zenon DEF BlockingConsumerEnds, EndInv
  <2>. QED  BY <1>13, <2>1, LooksKeeps, Zenon DEF BlockingConsumerEnds
<1>. QED  BY <1>2, <1>3, <1>4, <1>5, <1>6, <1>7, <1>8, <1>9, <1>10, <1>11, <1>12, <1>13, Zenon
          DEF ConsumerStep

\* StressInv is an invariant of the stress test: every message issued is in the
\* queue, held by one consumer or consumed, in the order of its producer, and the
\* counters differ from what was pushed and popped by the threads that have still
\* to count.
THEOREM StressInvariant == Spec => []StressInv
<1>1. StressInv /\ [Next]_vars => StressInv'
  <2>. SUFFICES ASSUME StressInv, [Next]_vars PROVE StressInv'
    BY Zenon
  <2>1. StressTypes
    BY Zenon DEF StressInv
  <2>2. CASE Expire
    <3>1. expired' \in BOOLEAN
      BY <2>2, Zenon DEF Expire
    <3>. QED  BY <2>2, <3>1, QuietKeeps, Zenon DEF Expire
  <2>3. CASE UNCHANGED vars
    <3>1. expired' \in BOOLEAN
      BY <2>1, <2>3, Zenon DEF vars, StressTypes
    <3>. QED  BY <2>3, <3>1, QuietKeeps, Zenon DEF vars
  <2>. QED  BY <2>2, <2>3, ProducerStepKeeps, ConsumerStepKeeps, Zenon DEF Next, Finished
<1>. QED  BY <1>1, InitInv, PTL DEF Spec

\* A consumer leaves its loop only when no producer is left and the queue is
\* empty, whichever way it found out: closed and empty, or popped >= pushed.
THEOREM ConsumersDrain == Spec => []DrainedAtExit
<1>1. StressInv => DrainedAtExit
  BY Zenon DEF StressInv
<1>. QED  BY <1>1, StressInvariant, PTL

\* The stress test never fails over a correct queue: no consumer meets a message
\* twice or out of order, and the comparisons after the joins hold.  By then
\* nothing is on its way into the queue or out of it: the counters have caught up,
\* and all that was issued is consumed.
THEOREM StressNeverFails == Spec => []StressPasses
<1>1. ASSUME StressInv PROVE StressPasses
  <2>1. ASSUME Joined PROVE ~ ComparisonFails
    <3>1. /\ \A p \in Producers : producing[p] = "done" /\ ~ InPush(p)
          /\ \A c \in Consumers : consuming[c] = "done" /\ ~ Holds(c) /\ ~ Uncounted(c)
      BY <2>1, Zenon DEF Joined, InPush, Holds, Uncounted
    <3>2. claimed = << >>
      BY <1>1, <3>1, WorkSharingAssumption, Zenon DEF StressInv, DrainedAtExit
    <3>3. Incoming = {} /\ Outgoing = {} /\ Held = {}
      BY <3>1, Zenon DEF Incoming, Outgoing, Held
    <3>4. Len(claimed) = 0 /\ DOMAIN claimed = {}
      BY <3>2
    <3>5. pushed = popped
      <4>1. Cardinality({}) = 0
        BY FS_EmptySet, Zenon
      <4>2. Len(claimed) + popped + 0 = pushed + 0
        BY <1>1, <3>3, <4>1, Zenon DEF StressInv, CountInv
      <4>3. pushed \in Nat /\ popped \in Nat
        BY <1>1, Zenon DEF StressInv, StressTypes
      <4>. QED  BY <3>4, <4>2, <4>3
    <3>6. consumed = Issued
      <4>1. Waiting = {}
        BY <3>4, Zenon DEF Waiting
      <4>2. consumed \union Held \union Waiting = Issued
        BY <1>1, Zenon DEF StressInv, PlaceInv
      <4>. QED  BY <3>3, <4>1, <4>2
    <3>7. published = Issued
      <4>1. \A m \in Ids : m[1] \in Producers
        BY DEF Ids
      <4>2. published = {m \in Ids : m[2] < local[m[1]]}
        BY <1>1, <3>1, <4>1, Zenon DEF StressInv, PublishedInv
      <4>3. Issued = {m \in Ids : m[2] < local[m[1]]}
        BY <3>1, <4>1, Zenon DEF Issued
      <4>. QED  BY <4>2, <4>3, Zenon
    <3>. QED  BY <3>5, <3>6, <3>7, Zenon DEF ComparisonFails
  <2>2. ~ failed
    BY <1>1, Zenon DEF StressInv
  <2>. QED  BY <2>1, <2>2, Zenon DEF StressPasses
<1>. QED  BY <1>1, StressInvariant, PTL

-----------------------------------------------------------------------------
(* A trial of the benchmark.                                               *)

\* The initial state.
LEMMA TrialInitInv == TrialInit => TrialInv
<1>. SUFFICES ASSUME TrialInit PROVE TrialInv
  BY Zenon
<1>1. /\ items = << >> /\ observed = << >> /\ published_ids = << >> /\ next_id = 1
      /\ messages_published = 0 /\ producers_done = FALSE /\ remaining = Cardinality(Active(Producers))
      /\ scenario \in {"closable", "not closable", "spsc"}
      /\ \A p \in Producers : producing[p] \in {"loop", "done"}
      /\ \A c \in Consumers : consuming[c] \in {"pop", "done"}
  BY Zenon DEF TrialInit
<1>2. scenario # "spsc" =>
          /\ Active(Producers) = Producers
          /\ \A p \in Producers : producing[p] = "loop"
          /\ \A c \in Consumers : consuming[c] = "pop"
  BY Zenon DEF TrialInit, Active
<1>3. /\ << >> \in Seq(Nat) /\ Len(<< >>) = 0 /\ Range(<< >>) = {} /\ IsInjective(<< >>) /\ 0 \in Nat
      /\ 1 \in Nat /\ 0 = 0 + 0
  BY DEF Range, IsInjective
<1>4. remaining \in Nat
  <2>1. CASE scenario = "spsc"
    <3>1. Active(Producers) = {CHOOSE t \in Producers : TRUE}
      BY <2>1, Zenon DEF Active
    <3>2. Cardinality(Active(Producers)) = 1
      BY <3>1, FS_Singleton, Zenon
    <3>. QED  BY <1>1, <1>3, <3>2, Zenon
  <2>2. CASE scenario # "spsc"
    BY <1>1, <1>2, <2>2, WorkSharingAssumption, FS_CardinalityType, Zenon
  <2>. QED  BY <2>1, <2>2, Zenon
<1>5. TrialTypes
  <2>1. id \in [Producers -> Nat]
    BY <1>3, Zenon DEF TrialInit
  <2>2. /\ producing \in [Producers -> TrialProducerLabels]
        /\ consuming \in [Consumers -> TrialConsumerLabels]
    BY Zenon DEF TrialInit, TrialProducerLabels, TrialConsumerLabels
  <2>. QED  BY <1>1, <1>3, <1>4, <2>1, <2>2, Zenon DEF TrialTypes
<1>6. IdInv
  <2>1. \A p \in Producers : producing[p] \notin {"push", "record"}
    BY <1>1, Zenon
  <2>2. Unrecorded = {} /\ Read = {} /\ Queued = {} /\ Recorded = {}
    BY <1>1, <1>3, <2>1, Zenon DEF Unrecorded, Recording, Read, Queued, Recorded
  <2>. QED  BY <1>1, <1>3, <2>1, <2>2, Zenon DEF IdInv
<1>7. TrialEndInv
  <2>1. CASE scenario # "spsc"
    <3>1. Working = Producers /\ Counting = {}
      BY <1>2, <2>1, Zenon DEF Working, Counting
    <3>2. Cardinality(Counting) = 0
      BY <3>1, FS_EmptySet, Zenon
    <3>. QED  BY <1>1, <1>2, <1>3, <2>1, <3>1, <3>2, Zenon DEF TrialEndInv
  <2>. QED  BY <2>1, Zenon DEF TrialEndInv
<1>. QED  BY <1>5, <1>6, <1>7, Zenon DEF TrialInv

\* One producer goes on.
LEMMA WorkerMoves ==
    ASSUME TrialTypes, NEW p \in Producers, NEW l \in TrialProducerLabels,
           producing' = [producing EXCEPT ![p] = l]
    PROVE  /\ producing' \in [Producers -> TrialProducerLabels] /\ producing'[p] = l
           /\ \A q \in Producers \ {p} : producing'[q] = producing[q]
           /\ Cardinality(Counting) \in Nat /\ Cardinality(Counting') \in Nat
           /\ producing[p] # "count" /\ l # "count" => Cardinality(Counting') = Cardinality(Counting)
           /\ producing[p] = "count" /\ l # "count" => Cardinality(Counting) = Cardinality(Counting') + 1
           /\ producing[p] # "count" /\ l = "count" => Cardinality(Counting') = Cardinality(Counting) + 1
<1>1. /\ producing' \in [Producers -> TrialProducerLabels] /\ producing'[p] = l
      /\ \A q \in Producers \ {p} : producing'[q] = producing[q]
  BY Zenon DEF TrialTypes
<1>2. PICK A, B : A = Counting /\ B = Counting'
  BY Zenon
<1>3. /\ A \in SUBSET Producers /\ B \in SUBSET Producers /\ A \ {p} = B \ {p}
      /\ (p \in A <=> producing[p] = "count") /\ (p \in B <=> l = "count")
  <2>1. /\ A \in SUBSET Producers /\ B \in SUBSET Producers
        /\ \A y \in Producers : (y \in A <=> producing[y] = "count") /\ (y \in B <=> producing'[y] = "count")
    BY <1>2, Zenon DEF Counting
  <2>2. \A y \in Producers \ {p} : y \in A <=> y \in B
    BY <1>1, <2>1, Zenon
  <2>3. A \ {p} = B \ {p}
    BY <2>1, <2>2
  <2>. QED  BY <1>1, <2>1, <2>3, Zenon
<1>4. IsFiniteSet(Producers)
  BY WorkSharingAssumption, Zenon
<1>. HIDE <1>2
<1>5. /\ Cardinality(A) \in Nat /\ Cardinality(B) \in Nat
      /\ (p \in A <=> p \in B) => Cardinality(A) = Cardinality(B)
      /\ p \in A /\ p \notin B => Cardinality(A) = Cardinality(B) + 1
      /\ p \notin A /\ p \in B => Cardinality(B) = Cardinality(A) + 1
  BY <1>3, <1>4, OneMoves
<1>. QED  BY <1>1, <1>2, <1>3, <1>5, Zenon

\* The ids are not touched when nothing is pushed, recorded or read.
LEMMA SameIdInv ==
    ASSUME IdInv, UNCHANGED <<items, observed, published_ids, next_id, id>>,
           \A p \in Producers : /\ producing'[p] = "record" <=> producing[p] = "record"
                                /\ producing'[p] = "push" => producing[p] = "push"
    PROVE  IdInv'
<1>1. Read' = Read /\ Queued' = Queued /\ Recorded' = Recorded
  BY Zenon DEF Read, Queued, Recorded
<1>2. Recording' = Recording
  BY Zenon DEF Recording
<1>3. Unrecorded' = Unrecorded
  BY <1>2, Zenon DEF Unrecorded
<1>4. \A p \in Producers : producing'[p] \in {"push", "record"} => producing[p] \in {"push", "record"}
  BY Zenon
<1>. QED  BY <1>1, <1>3, <1>4, Zenon DEF IdInv

\* While a producer works the queue is not closed, and no consumer has left.
LEMMA WhileWorking ==
    ASSUME TrialEndInv, scenario # "spsc", NEW p \in Producers, producing[p] \notin {"close", "done"}
    PROVE  /\ ~ producers_done
           /\ \A q \in Producers : producing[q] # "close"
           /\ scenario = "closable" => \A c \in Consumers : consuming[c] # "done"
BY Zenon DEF TrialEndInv

LEMMA StaysWorking ==
    ASSUME TrialTypes, TrialEndInv, NEW p \in Producers, producing[p] \notin {"close", "done"},
           NEW l \in TrialProducerLabels, l \notin {"close", "done"},
           producing' = [producing EXCEPT ![p] = l],
           UNCHANGED <<scenario, remaining, producers_done, consuming>>,
           scenario # "spsc" => Len(published_ids') = messages_published' + Cardinality(Counting')
    PROVE  TrialEndInv'
<1>1. CASE scenario # "spsc"
  <2>1. /\ ~ producers_done
        /\ \A q \in Producers : producing[q] # "close"
        /\ scenario = "closable" => \A c \in Consumers : consuming[c] # "done"
    BY <1>1, WhileWorking, Zenon
  <2>2. producing'[p] = l /\ \A q \in Producers \ {p} : producing'[q] = producing[q]
    BY Zenon DEF TrialTypes
  <2>3. Working' = Working
    BY <2>2, Zenon DEF Working
  <2>4. \A q \in Producers : producing'[q] # "close"
    BY <2>1, <2>2, Zenon
  <2>. QED  BY <1>1, <2>1, <2>3, <2>4, Zenon DEF TrialEndInv
<1>. QED  BY <1>1, Zenon DEF TrialEndInv

LEMMA TrialQuietKeeps ==
    ASSUME TrialInv, UNCHANGED <<scenario, items, publication, producers_done, consuming, observed>>
    PROVE  TrialInv'
<1>1. UNCHANGED <<scenario, items, next_id, messages_published, published_ids, remaining, producing,
                  id, producers_done, consuming, observed>>
  BY Zenon DEF publication
<1>2. TrialTypes'
  BY <1>1, Zenon DEF TrialInv, TrialTypes
<1>3. IdInv'
  <2>1. UNCHANGED <<items, observed, published_ids, next_id, id>> /\ IdInv
    BY <1>1, Zenon DEF TrialInv
  <2>2. \A p \in Producers : /\ producing'[p] = "record" <=> producing[p] = "record"
                             /\ producing'[p] = "push" => producing[p] = "push"
    BY <1>1, Zenon
  <2>. QED  BY <2>1, <2>2, SameIdInv, Zenon
<1>4. Working' = Working /\ Counting' = Counting
  BY <1>1, Zenon DEF Working, Counting
<1>5. TrialEndInv'
  BY <1>1, <1>4 DEF TrialInv, TrialEndInv
<1>. QED  BY <1>2, <1>3, <1>5, Zenon DEF TrialInv

LEMMA TakesIdKeeps ==
    ASSUME TrialInv, NEW p \in Producers, TakesId(p)
    PROVE  TrialInv'
<1>1. /\ producing[p] = "loop" /\ producing' = [producing EXCEPT ![p] = "push"]
      /\ id' = [id EXCEPT ![p] = next_id] /\ next_id' = next_id + 1
      /\ UNCHANGED <<scenario, items, messages_published, published_ids, remaining, producers_done,
                     consuming, observed>>
  BY Zenon DEF TakesId, Produce
<1>2. TrialTypes /\ IdInv /\ TrialEndInv
  BY Zenon DEF TrialInv
<1>3. "push" \in TrialProducerLabels
  BY Zenon DEF TrialProducerLabels
<1>4. /\ producing' \in [Producers -> TrialProducerLabels] /\ producing'[p] = "push"
      /\ \A q \in Producers \ {p} : producing'[q] = producing[q]
      /\ Cardinality(Counting') = Cardinality(Counting)
  BY <1>1, <1>2, <1>3, WorkerMoves, Zenon
<1>5. /\ next_id \in Nat /\ next_id' \in Nat /\ ~ (next_id < next_id) /\ next_id < next_id'
      /\ \A x \in Nat : x < next_id => x < next_id'
  <2>1. next_id \in Nat
    BY <1>2, Zenon DEF TrialTypes
  <2>. QED  BY <1>1, <2>1
<1>6. /\ id' \in [Producers -> Nat] /\ id'[p] = next_id
      /\ \A q \in Producers : id[q] \in Nat
      /\ \A q \in Producers \ {p} : id'[q] = id[q]
  BY <1>1, <1>2, <1>5, Zenon DEF TrialTypes
<1>7. TrialTypes'
  BY <1>1, <1>2, <1>4, <1>5, <1>6, Zenon DEF TrialTypes
<1>8. IdInv'
  <2>1. Read' = Read /\ Queued' = Queued /\ Recorded' = Recorded
    BY <1>1, Zenon DEF Read, Queued, Recorded
  <2>2. p \notin Recording /\ Recording' = Recording
    BY <1>1, <1>4, Zenon DEF Recording
  <2>3. \A q \in Recording : id'[q] = id[q]
    BY <1>6, <2>2, Zenon DEF Recording
  <2>4. Unrecorded' = Unrecorded
    BY <2>2, <2>3, Zenon DEF Unrecorded
  <2>5. \A x \in Read \union Queued : x \in Nat
    <3>1. observed \in Seq(Nat) /\ items \in Seq(Nat)
      BY <1>2, Zenon DEF TrialTypes
    <3>. QED  BY <3>1 DEF Read, Queued, Range
  <2>6. \A x \in Read \union Queued : x < next_id' /\ x # next_id
    BY <1>2, <1>5, <2>5, Zenon DEF IdInv
  <2>7. \A q \in Producers : producing'[q] \in {"push", "record"} => id'[q] < next_id'
    BY <1>2, <1>4, <1>5, <1>6, Zenon DEF IdInv
  <2>8. \A q \in Producers : producing'[q] = "push" => id'[q] \notin Read \union Queued
    BY <1>2, <1>4, <1>6, <2>6, Zenon DEF IdInv
  <2>9. \A q \in Producers \ {p} : producing[q] \in {"push", "record"} => id[q] # next_id
    BY <1>2, <1>5, Zenon DEF IdInv
  <2>10. ASSUME NEW q \in Producers, NEW r \in Producers,
                producing'[q] \in {"push", "record"}, producing'[r] \in {"push", "record"}, id'[q] = id'[r]
         PROVE  q = r
    <3>1. \A x, y \in Producers : producing[x] \in {"push", "record"} /\ producing[y] \in {"push", "record"}
                                      /\ id[x] = id[y] => x = y
      BY <1>2, Zenon DEF IdInv
    <3>. QED  BY <1>4, <1>6, <2>9, <2>10, <3>1, Zenon
  <2>. QED  BY <1>1, <1>2, <2>1, <2>4, <2>6, <2>7, <2>8, <2>10, Zenon DEF IdInv
<1>9. TrialEndInv'
  <2>1. scenario # "spsc" => Len(published_ids') = messages_published' + Cardinality(Counting')
    BY <1>1, <1>2, <1>4, Zenon DEF TrialEndInv
  <2>. QED  BY <1>1, <1>2, <1>3, <2>1, StaysWorking, Zenon
<1>. QED  BY <1>7, <1>8, <1>9, Zenon DEF TrialInv

LEMMA PushesKeeps ==
    ASSUME TrialInv, NEW p \in Producers, Pushes(p)
    PROVE  TrialInv'
<1>1. /\ producing[p] = "push" /\ producing' = [producing EXCEPT ![p] = "record"]
      /\ items' = Append(items, id[p])
      /\ UNCHANGED <<scenario, next_id, messages_published, published_ids, remaining, producers_done,
                     id, consuming, observed>>
  BY Zenon DEF Pushes, Produce
<1>2. TrialTypes /\ IdInv /\ TrialEndInv
  BY Zenon DEF TrialInv
<1>3. "record" \in TrialProducerLabels
  BY Zenon DEF TrialProducerLabels
<1>4. /\ producing' \in [Producers -> TrialProducerLabels] /\ producing'[p] = "record"
      /\ \A q \in Producers \ {p} : producing'[q] = producing[q]
      /\ Cardinality(Counting') = Cardinality(Counting)
  BY <1>1, <1>2, <1>3, WorkerMoves, Zenon
<1>5. id[p] \notin Read /\ id[p] \notin Queued /\ id[p] < next_id
  BY <1>1, <1>2, Zenon DEF IdInv
<1>6. /\ items' \in Seq(Nat) /\ Range(items') = Range(items) \union {id[p]}
      /\ IsInjective(items) /\ id[p] \notin Range(items) => IsInjective(items')
  <2>1. items \in Seq(Nat) /\ id[p] \in Nat
    BY <1>2, Zenon DEF TrialTypes
  <2>. QED  BY <1>1, <2>1, RangeAppended, Zenon
<1>7. TrialTypes'
  BY <1>1, <1>2, <1>4, <1>6, Zenon DEF TrialTypes
<1>8. IdInv'
  <2>1. Read' = Read /\ Queued' = Queued \union {id[p]} /\ Recorded' = Recorded
    BY <1>1, <1>6, Zenon DEF Read, Queued, Recorded
  <2>2. Recording' = Recording \union {p}
    BY <1>4, Zenon DEF Recording
  <2>3. Unrecorded' = Unrecorded \union {id[p]}
    BY <1>1, <2>2, Zenon DEF Unrecorded
  <2>4. IsInjective(items')
    BY <1>2, <1>5, <1>6, Zenon DEF IdInv, Queued
  <2>5. /\ Read \intersect Queued = {} /\ Recorded \intersect Unrecorded = {}
        /\ Read \union Queued = Recorded \union Unrecorded
    BY <1>2, Zenon DEF IdInv
  <2>6. /\ Read \intersect (Queued \union {id[p]}) = {}
        /\ Recorded \intersect (Unrecorded \union {id[p]}) = {}
        /\ Read \union (Queued \union {id[p]}) = Recorded \union (Unrecorded \union {id[p]})
    BY <1>5, <2>5
  <2>7. \A x \in Read \union (Queued \union {id[p]}) : x < next_id
    BY <1>2, <1>5, Zenon DEF IdInv
  <2>8. \A q \in Producers : producing'[q] \in {"push", "record"} => producing[q] \in {"push", "record"}
    BY <1>1, <1>4, Zenon
  <2>9. \A x, y \in Producers : producing[x] \in {"push", "record"} /\ producing[y] \in {"push", "record"}
                                    /\ id[x] = id[y] => x = y
    BY <1>2, Zenon DEF IdInv
  <2>10. \A q \in Producers : producing'[q] = "push" => id[q] \notin Read \union (Queued \union {id[p]})
    <3>1. ASSUME NEW q \in Producers, producing'[q] = "push"
          PROVE  q # p /\ producing[q] = "push"
      BY <1>4, <3>1, Zenon
    <3>2. ASSUME NEW q \in Producers, producing'[q] = "push"
          PROVE  id[q] # id[p] /\ id[q] \notin Read \union Queued
      BY <1>1, <1>2, <2>9, <3>1, <3>2, Zenon DEF IdInv
    <3>. QED  BY <3>2, Zenon
  <2>11. /\ IsInjective(observed) /\ IsInjective(published_ids)
         /\ \A q \in Producers : producing[q] \in {"push", "record"} => id[q] < next_id
    BY <1>2, Zenon DEF IdInv
  <2>. QED  BY <1>1, <2>1, <2>3, <2>4, <2>6, <2>7, <2>8, <2>9, <2>10, <2>11, Zenon DEF IdInv
<1>9. TrialEndInv'
  <2>1. scenario # "spsc" => Len(published_ids') = messages_published' + Cardinality(Counting')
    BY <1>1, <1>2, <1>4, Zenon DEF TrialEndInv
  <2>. QED  BY <1>1, <1>2, <1>3, <2>1, StaysWorking, Zenon
<1>. QED  BY <1>7, <1>8, <1>9, Zenon DEF TrialInv

LEMMA RecordsKeeps ==
    ASSUME TrialInv, NEW p \in Producers, Records(p)
    PROVE  TrialInv'
<1>1. /\ producing[p] = "record" /\ producing' = [producing EXCEPT ![p] = "count"]
      /\ published_ids' = Append(published_ids, id[p])
      /\ UNCHANGED <<scenario, items, next_id, messages_published, remaining, producers_done,
                     id, consuming, observed>>
  BY Zenon DEF Records, Produce
<1>2. TrialTypes /\ IdInv /\ TrialEndInv
  BY Zenon DEF TrialInv
<1>3. "count" \in TrialProducerLabels
  BY Zenon DEF TrialProducerLabels
<1>4. /\ producing' \in [Producers -> TrialProducerLabels] /\ producing'[p] = "count"
      /\ \A q \in Producers \ {p} : producing'[q] = producing[q]
      /\ Cardinality(Counting) \in Nat /\ Cardinality(Counting') = Cardinality(Counting) + 1
  BY <1>1, <1>2, <1>3, WorkerMoves, Zenon
<1>5. /\ published_ids' \in Seq(Nat) /\ Len(published_ids) \in Nat
      /\ Len(published_ids') = Len(published_ids) + 1
      /\ Range(published_ids') = Range(published_ids) \union {id[p]}
      /\ IsInjective(published_ids) /\ id[p] \notin Range(published_ids) => IsInjective(published_ids')
  <2>1. published_ids \in Seq(Nat) /\ id[p] \in Nat
    BY <1>2, Zenon DEF TrialTypes
  <2>. QED  BY <1>1, <2>1, RangeAppended, Zenon
<1>6. TrialTypes'
  BY <1>1, <1>2, <1>4, <1>5, Zenon DEF TrialTypes
<1>7. IdInv'
  <2>1. Read' = Read /\ Queued' = Queued /\ Recorded' = Recorded \union {id[p]}
    BY <1>1, <1>5, Zenon DEF Read, Queued, Recorded
  <2>2. p \in Recording /\ Recording' = Recording \ {p}
    BY <1>1, <1>4, Zenon DEF Recording
  <2>3. /\ \A x, y \in Producers : producing[x] \in {"push", "record"} /\ producing[y] \in {"push", "record"}
                                       /\ id[x] = id[y] => x = y
        /\ \A q \in Producers : producing[q] \in {"push", "record"} => id[q] < next_id
        /\ \A q \in Producers : producing[q] = "push" => id[q] \notin Read \union Queued
        /\ \A x \in Read \union Queued : x < next_id
        /\ IsInjective(observed) /\ IsInjective(items) /\ IsInjective(published_ids)
    BY <1>2, Zenon DEF IdInv
  <2>4. id[p] \in Unrecorded
    BY <2>2, Zenon DEF Unrecorded
  <2>5. Unrecorded' = Unrecorded \ {id[p]}
    <3>1. \A q \in Recording \ {p} : id[q] # id[p]
      BY <1>1, <2>3, Zenon DEF Recording
    <3>2. Unrecorded' = {id[q] : q \in Recording \ {p}}
      BY <1>1, <2>2, Zenon DEF Unrecorded
    <3>. QED  BY <3>1, <3>2, Zenon DEF Unrecorded
  <2>6. /\ Read \intersect Queued = {} /\ Recorded \intersect Unrecorded = {}
        /\ Read \union Queued = Recorded \union Unrecorded
    BY <1>2, Zenon DEF IdInv
  <2>7. id[p] \notin Recorded
    BY <2>4, <2>6, Zenon
  <2>8. IsInjective(published_ids')
    BY <1>5, <2>3, <2>7, Zenon DEF Recorded
  <2>9. /\ (Recorded \union {id[p]}) \intersect (Unrecorded \ {id[p]}) = {}
        /\ Read \union Queued = (Recorded \union {id[p]}) \union (Unrecorded \ {id[p]})
    BY <2>4, <2>6
  <2>10. \A q \in Producers : /\ producing'[q] \in {"push", "record"} => producing[q] \in {"push", "record"}
                              /\ producing'[q] = "push" => producing[q] = "push"
    BY <1>4, Zenon
  <2>. QED  BY <1>1, <2>1, <2>3, <2>5, <2>6, <2>8, <2>9, <2>10, Zenon DEF IdInv
<1>8. TrialEndInv'
  <2>1. ASSUME scenario # "spsc"
        PROVE  Len(published_ids') = messages_published' + Cardinality(Counting')
    <3>1. PICK n, k : n = Cardinality(Counting) /\ k = Cardinality(Counting')
      BY Zenon
    <3>2. Len(published_ids) = messages_published + n /\ n \in Nat /\ k = n + 1 /\ messages_published \in Nat
      BY <1>2, <1>4, <2>1, <3>1, Zenon DEF TrialEndInv, TrialTypes
    <3>3. Len(published_ids') = messages_published + k
      BY <1>5, <3>2
    <3>. QED  BY <1>1, <3>1, <3>3, Zenon
  <2>. QED  BY <1>1, <1>2, <1>3, <2>1, StaysWorking, Zenon
<1>. QED  BY <1>6, <1>7, <1>8, Zenon DEF TrialInv

LEMMA CountsKeeps ==
    ASSUME TrialInv, NEW p \in Producers, Counts(p)
    PROVE  TrialInv'
<1>1. /\ producing[p] = "count" /\ producing' = [producing EXCEPT ![p] = "loop"]
      /\ messages_published' = messages_published + 1
      /\ UNCHANGED <<scenario, items, next_id, published_ids, remaining, producers_done, id, consuming,
                     observed>>
  BY Zenon DEF Counts, Produce
<1>2. TrialTypes /\ IdInv /\ TrialEndInv
  BY Zenon DEF TrialInv
<1>3. "loop" \in TrialProducerLabels
  BY Zenon DEF TrialProducerLabels
<1>4. /\ producing' \in [Producers -> TrialProducerLabels] /\ producing'[p] = "loop"
      /\ \A q \in Producers \ {p} : producing'[q] = producing[q]
      /\ Cardinality(Counting') \in Nat /\ Cardinality(Counting) = Cardinality(Counting') + 1
  BY <1>1, <1>2, <1>3, WorkerMoves, Zenon
<1>5. TrialTypes'
  <2>1. messages_published \in Nat
    BY <1>2, Zenon DEF TrialTypes
  <2>2. messages_published' \in Nat
    BY <1>1, <2>1
  <2>. QED  BY <1>1, <1>2, <1>4, <2>2, Zenon DEF TrialTypes
<1>6. IdInv'
  <2>1. \A q \in Producers : /\ producing'[q] = "record" <=> producing[q] = "record"
                             /\ producing'[q] = "push" => producing[q] = "push"
    BY <1>1, <1>4, Zenon
  <2>. QED  BY <1>1, <1>2, <2>1, SameIdInv, Zenon
<1>7. TrialEndInv'
  <2>1. ASSUME scenario # "spsc"
        PROVE  Len(published_ids') = messages_published' + Cardinality(Counting')
    <3>1. PICK n, k : n = Cardinality(Counting) /\ k = Cardinality(Counting')
      BY Zenon
    <3>2. Len(published_ids) = messages_published + n /\ k \in Nat /\ n = k + 1 /\ messages_published \in Nat
      BY <1>2, <1>4, <2>1, <3>1, Zenon DEF TrialEndInv, TrialTypes
    <3>3. Len(published_ids) = (messages_published + 1) + k
      BY <3>2
    <3>. QED  BY <1>1, <3>1, <3>3, Zenon
  <2>. QED  BY <1>1, <1>2, <1>3, <2>1, StaysWorking, Zenon
<1>. QED  BY <1>5, <1>6, <1>7, Zenon DEF TrialInv

LEMMA FindsFullKeeps ==
    ASSUME TrialInv, NEW p \in Producers, FindsFull(p)
    PROVE  TrialInv'
<1>1. PICK l \in {"push", "loop"} : producing' = [producing EXCEPT ![p] = l]
  BY Zenon DEF FindsFull, Produce
<1>2. /\ producing[p] = "push"
      /\ UNCHANGED <<scenario, items, next_id, messages_published, published_ids, remaining,
                     producers_done, id, consuming, observed>>
  BY Zenon DEF FindsFull, Produce
<1>3. TrialTypes /\ IdInv /\ TrialEndInv
  BY Zenon DEF TrialInv
<1>4. l \in TrialProducerLabels /\ l \notin {"record", "count", "close", "done"}
  BY Zenon DEF TrialProducerLabels
<1>5. /\ producing' \in [Producers -> TrialProducerLabels] /\ producing'[p] = l
      /\ \A q \in Producers \ {p} : producing'[q] = producing[q]
      /\ Cardinality(Counting') = Cardinality(Counting)
  BY <1>1, <1>2, <1>3, <1>4, WorkerMoves, Zenon
<1>6. TrialTypes'
  BY <1>2, <1>3, <1>5, Zenon DEF TrialTypes
<1>7. IdInv'
  <2>1. \A q \in Producers : /\ producing'[q] = "record" <=> producing[q] = "record"
                             /\ producing'[q] = "push" => producing[q] = "push"
    BY <1>2, <1>4, <1>5, Zenon
  <2>. QED  BY <1>2, <1>3, <2>1, SameIdInv, Zenon
<1>8. TrialEndInv'
  <2>1. scenario # "spsc" => Len(published_ids') = messages_published' + Cardinality(Counting')
    BY <1>2, <1>3, <1>5, Zenon DEF TrialEndInv
  <2>. QED  BY <1>1, <1>2, <1>3, <1>4, <2>1, StaysWorking, Zenon
<1>. QED  BY <1>6, <1>7, <1>8, Zenon DEF TrialInv

\* Only the last producer that ends goes on to close the queue.
LEMMA ProducerStopsKeeps ==
    ASSUME TrialInv, NEW p \in Producers, ProducerStops(p)
    PROVE  TrialInv'
<1>1. PICK l \in {"close", "done"} : l = IF remaining = 1 THEN "close" ELSE "done"
  BY Zenon
<1>2. /\ scenario # "spsc" /\ producing[p] = "loop" /\ producing' = [producing EXCEPT ![p] = l]
      /\ remaining' = remaining - 1
      /\ UNCHANGED <<scenario, items, next_id, messages_published, published_ids,
                     producers_done, id, consuming, observed>>
  BY <1>1, Zenon DEF ProducerStops, Produce
<1>3. TrialTypes /\ IdInv /\ TrialEndInv
  BY Zenon DEF TrialInv
<1>4. l \in TrialProducerLabels /\ l \notin {"push", "record", "count"}
  BY Zenon DEF TrialProducerLabels
<1>5. /\ producing' \in [Producers -> TrialProducerLabels] /\ producing'[p] = l
      /\ \A q \in Producers \ {p} : producing'[q] = producing[q]
      /\ Cardinality(Counting') = Cardinality(Counting)
  BY <1>2, <1>3, <1>4, WorkerMoves, Zenon
<1>6. /\ ~ producers_done
      /\ \A q \in Producers : producing[q] # "close"
      /\ scenario = "closable" => \A c \in Consumers : consuming[c] # "done"
  BY <1>2, <1>3, WhileWorking, Zenon
<1>7. /\ remaining' \in Nat /\ remaining' = Cardinality(Working')
      /\ remaining = 1 => Working' = {}
  <2>1. PICK A, B : A = Working /\ B = Working'
    BY Zenon
  <2>2. /\ A \in SUBSET Producers /\ B \in SUBSET Producers /\ A \ {p} = B \ {p}
        /\ p \in A /\ p \notin B
    <3>1. /\ A \in SUBSET Producers /\ B \in SUBSET Producers
          /\ \A y \in Producers : (y \in A <=> producing[y] \notin {"close", "done"})
                                  /\ (y \in B <=> producing'[y] \notin {"close", "done"})
      BY <2>1, Zenon DEF Working
    <3>2. \A y \in Producers \ {p} : y \in A <=> y \in B
      BY <1>5, <3>1, Zenon
    <3>3. A \ {p} = B \ {p}
      BY <3>1, <3>2
    <3>. QED  BY <1>2, <1>5, <3>1, <3>3, Zenon
  <2>. HIDE <2>1
  <2>3. IsFiniteSet(Producers)
    BY WorkSharingAssumption, Zenon
  <2>4. Cardinality(A) \in Nat /\ Cardinality(B) \in Nat /\ Cardinality(A) = Cardinality(B) + 1
    BY <2>2, <2>3, OneMoves
  <2>5. remaining = Cardinality(A)
    BY <1>2, <1>3, <2>1, Zenon DEF TrialEndInv
  <2>6. remaining' = Cardinality(B) /\ (remaining = 1 => Cardinality(B) = 0)
    BY <1>2, <2>4, <2>5
  <2>7. IsFiniteSet(B)
    BY <2>2, <2>3, FS_Subset, Zenon
  <2>. QED  BY <2>1, <2>4, <2>6, <2>7, NoneLeft, Zenon
<1>8. TrialTypes'
  BY <1>2, <1>3, <1>5, <1>7, Zenon DEF TrialTypes
<1>9. IdInv'
  <2>1. \A q \in Producers : /\ producing'[q] = "record" <=> producing[q] = "record"
                             /\ producing'[q] = "push" => producing[q] = "push"
    BY <1>2, <1>4, <1>5, Zenon
  <2>. QED  BY <1>2, <1>3, <2>1, SameIdInv, Zenon
<1>10. TrialEndInv'
  <2>1. ASSUME NEW q \in Producers, producing'[q] = "close"
        PROVE  \A r \in Producers \ {q} : producing'[r] = "done"
    <3>1. q = p /\ remaining = 1
      BY <1>1, <1>5, <1>6, <2>1, Zenon
    <3>2. \A r \in Producers : producing'[r] \in {"close", "done"}
      BY <1>7, <3>1, Zenon DEF Working
    <3>. QED  BY <1>5, <1>6, <3>1, <3>2, Zenon
  <2>2. /\ Len(published_ids') = messages_published' + Cardinality(Counting')
        /\ \A c \in Consumers : consuming'[c] = "empty" => scenario' # "closable"
    BY <1>2, <1>3, <1>5, Zenon DEF TrialEndInv
  <2>3. ~ producers_done'
    BY <1>2, <1>6
  <2>. QED  BY <1>2, <1>6, <1>7, <2>1, <2>2, <2>3, Zenon DEF TrialEndInv
<1>. QED  BY <1>8, <1>9, <1>10, Zenon DEF TrialInv

\* close(), or the end of the producer of run_spsc_adapter.
LEMMA CallsCloseKeeps ==
    ASSUME TrialInv, NEW p \in Producers, producing[p] \in {"close", "loop"},
           producing[p] = "loop" => scenario = "spsc",
           producing' = [producing EXCEPT ![p] = "done"], producers_done' = TRUE,
           UNCHANGED <<scenario, items, running, next_id, messages_published, published_ids, remaining, id,
                       consuming, observed>>
    PROVE  TrialInv'
<1>1. TrialTypes /\ IdInv /\ TrialEndInv
  BY Zenon DEF TrialInv
<1>2. "done" \in TrialProducerLabels /\ producing[p] # "count"
  BY Zenon DEF TrialProducerLabels
<1>3. /\ producing' \in [Producers -> TrialProducerLabels] /\ producing'[p] = "done"
      /\ \A q \in Producers \ {p} : producing'[q] = producing[q]
      /\ Cardinality(Counting') = Cardinality(Counting)
  BY <1>1, <1>2, WorkerMoves, Zenon
<1>4. TrialTypes'
  BY <1>1, <1>3, Zenon DEF TrialTypes
<1>5. IdInv'
  <2>1. \A q \in Producers : /\ producing'[q] = "record" <=> producing[q] = "record"
                             /\ producing'[q] = "push" => producing[q] = "push"
    BY <1>3, Zenon
  <2>. QED  BY <1>1, <2>1, SameIdInv, Zenon
<1>6. TrialEndInv'
  <2>1. CASE scenario # "spsc"
    <3>1. producing[p] = "close" /\ \A q \in Producers : producing'[q] = "done"
      BY <1>1, <1>3, <2>1, Zenon DEF TrialEndInv
    <3>2. Working' = Working
      BY <1>3, <3>1, Zenon DEF Working
    <3>3. /\ Len(published_ids) = messages_published + Cardinality(Counting)
          /\ remaining = Cardinality(Working)
          /\ \A c \in Consumers : consuming[c] = "empty" => scenario # "closable"
          /\ scenario = "closable" /\ (\E c \in Consumers : consuming[c] = "done") => items = << >>
      BY <1>1, <2>1, Zenon DEF TrialEndInv
    <3>4. producers_done' /\ \A q \in Producers : producing'[q] # "close"
      BY <3>1, Zenon
    <3>. QED  BY <1>3, <2>1, <3>1, <3>2, <3>3, <3>4, Zenon DEF TrialEndInv
  <2>. QED  BY <2>1, Zenon DEF TrialEndInv
<1>. QED  BY <1>4, <1>5, <1>6, Zenon DEF TrialInv

\* The producer of run_spsc_adapter pushes and records in one step.
LEMMA SPSCPushesKeeps ==
    ASSUME TrialInv, NEW p \in Producers, SPSCPushes(p)
    PROVE  TrialInv'
<1>1. /\ scenario = "spsc" /\ items' = Append(items, next_id)
      /\ published_ids' = Append(published_ids, next_id) /\ messages_published' = next_id
      /\ next_id' = next_id + 1
      /\ UNCHANGED <<scenario, remaining, producers_done, producing, id, consuming, observed>>
  BY Zenon DEF SPSCPushes
<1>2. TrialTypes /\ IdInv /\ TrialEndInv
  BY Zenon DEF TrialInv
<1>3. items \in Seq(Nat) /\ published_ids \in Seq(Nat) /\ observed \in Seq(Nat) /\ next_id \in Nat
      /\ \A q \in Producers : id[q] \in Nat
  BY <1>2, Zenon DEF TrialTypes
<1>4. /\ next_id' \in Nat /\ ~ (next_id < next_id) /\ next_id < next_id'
      /\ \A x \in Nat : x < next_id => x < next_id'
  BY <1>1, <1>3
<1>5. /\ items' \in Seq(Nat) /\ Range(items') = Range(items) \union {next_id}
      /\ IsInjective(items) /\ next_id \notin Range(items) => IsInjective(items')
  BY <1>1, <1>3, RangeAppended, Zenon
<1>6. /\ published_ids' \in Seq(Nat) /\ Range(published_ids') = Range(published_ids) \union {next_id}
      /\ IsInjective(published_ids) /\ next_id \notin Range(published_ids) => IsInjective(published_ids')
  BY <1>1, <1>3, RangeAppended, Zenon
<1>7. TrialTypes'
  BY <1>1, <1>2, <1>3, <1>4, <1>5, <1>6, Zenon DEF TrialTypes
<1>8. IdInv'
  <2>1. Read' = Read /\ Queued' = Queued \union {next_id} /\ Recorded' = Recorded \union {next_id}
    BY <1>1, <1>5, <1>6, Zenon DEF Read, Queued, Recorded
  <2>2. Unrecorded' = Unrecorded
    BY <1>1, Zenon DEF Unrecorded, Recording
  <2>3. \A x \in Read \union Queued : x \in Nat
    BY <1>3 DEF Read, Queued, Range
  <2>4. /\ Read \intersect Queued = {} /\ Recorded \intersect Unrecorded = {}
        /\ Read \union Queued = Recorded \union Unrecorded
        /\ \A x \in Read \union Queued : x < next_id
        /\ \A q \in Producers : producing[q] \in {"push", "record"} => id[q] < next_id
        /\ \A q \in Producers : producing[q] = "push" => id[q] \notin Read \union Queued
        /\ IsInjective(observed) /\ IsInjective(items) /\ IsInjective(published_ids)
    BY <1>2, Zenon DEF IdInv
  <2>5. /\ next_id \notin Read /\ next_id \notin Queued /\ next_id \notin Recorded
        /\ next_id \notin Unrecorded
        /\ \A q \in Producers : producing[q] = "push" => id[q] # next_id
    <3>1. next_id \notin Read \union Queued
      BY <1>4, <2>4, Zenon
    <3>2. next_id \notin Recorded \union Unrecorded
      BY <2>4, <3>1, Zenon
    <3>3. \A q \in Producers : producing[q] = "push" => id[q] # next_id
      BY <1>4, <2>4, Zenon
    <3>. QED  BY <3>1, <3>2, <3>3, Zenon
  <2>6. IsInjective(items') /\ IsInjective(published_ids')
    BY <1>5, <1>6, <2>4, <2>5, Zenon DEF Queued, Recorded
  <2>7. /\ Read \intersect (Queued \union {next_id}) = {}
        /\ (Recorded \union {next_id}) \intersect Unrecorded = {}
        /\ Read \union (Queued \union {next_id}) = (Recorded \union {next_id}) \union Unrecorded
    BY <2>4, <2>5
  <2>8. \A x \in Read \union (Queued \union {next_id}) : x < next_id'
    BY <1>4, <2>3, <2>4, Zenon
  <2>9. \A q \in Producers : producing[q] \in {"push", "record"} => id[q] < next_id'
    BY <1>3, <1>4, <2>4, Zenon
  <2>10. \A q \in Producers : producing[q] = "push" => id[q] \notin Read \union (Queued \union {next_id})
    BY <2>4, <2>5, Zenon
  <2>. QED  BY <1>1, <1>2, <2>1, <2>2, <2>4, <2>6, <2>7, <2>8, <2>9, <2>10, Zenon DEF IdInv
<1>9. TrialEndInv'
  BY <1>1, Zenon DEF TrialEndInv
<1>. QED  BY <1>7, <1>8, <1>9, Zenon DEF TrialInv

LEMMA ReadsItemKeeps ==
    ASSUME TrialInv, NEW c \in Consumers, ReadsItem(c)
    PROVE  TrialInv'
<1>1. /\ consuming[c] = "pop" /\ consuming' = [consuming EXCEPT ![c] = "pop"]
      /\ items # << >> /\ items' = Tail(items) /\ observed' = Append(observed, Head(items))
      /\ UNCHANGED <<scenario, next_id, messages_published, published_ids, remaining, producing, id,
                     producers_done>>
  BY Zenon DEF ReadsItem, Consume, publication
<1>2. TrialTypes /\ IdInv /\ TrialEndInv
  BY Zenon DEF TrialInv
<1>3. UNCHANGED consuming
  <2>1. consuming \in [Consumers -> TrialConsumerLabels]
    BY <1>2, Zenon DEF TrialTypes
  <2>. QED  BY <1>1, <2>1, Zenon
<1>4. IsInjective(observed) /\ IsInjective(items) /\ IsInjective(published_ids)
  BY <1>2, Zenon DEF IdInv
<1>5. /\ items' \in Seq(Nat) /\ Head(items) \in Nat /\ Head(items) \in Range(items)
      /\ Range(items') = Range(items) \ {Head(items)} /\ IsInjective(items')
  <2>1. items \in Seq(Nat)
    BY <1>2, Zenon DEF TrialTypes
  <2>. QED  BY <1>1, <1>4, <2>1, RangeShortened, Zenon
<1>6. PICK x \in Nat : x = Head(items)
  BY <1>5, Zenon
<1>7. /\ observed' \in Seq(Nat) /\ Range(observed') = Range(observed) \union {x}
      /\ IsInjective(observed) /\ x \notin Range(observed) => IsInjective(observed')
  <2>1. observed \in Seq(Nat)
    BY <1>2, Zenon DEF TrialTypes
  <2>2. observed' = Append(observed, x)
    BY <1>1, <1>6, Zenon
  <2>. QED  BY <2>1, <2>2, RangeAppended, Zenon
<1>8. TrialTypes'
  BY <1>1, <1>2, <1>3, <1>5, <1>7, Zenon DEF TrialTypes
<1>9. IdInv'
  <2>1. /\ Read' = Read \union {x} /\ Queued' = Queued \ {x} /\ Recorded' = Recorded /\ x \in Queued
    BY <1>1, <1>5, <1>6, <1>7, Zenon DEF Read, Queued, Recorded
  <2>2. Unrecorded' = Unrecorded
    BY <1>1, Zenon DEF Unrecorded, Recording
  <2>3. /\ Read \intersect Queued = {} /\ Recorded \intersect Unrecorded = {}
        /\ Read \union Queued = Recorded \union Unrecorded
    BY <1>2, Zenon DEF IdInv
  <2>4. x \notin Read
    BY <2>1, <2>3, Zenon
  <2>5. IsInjective(observed')
    BY <1>4, <1>7, <2>4, Zenon DEF Read
  <2>6. (Read \union {x}) \intersect (Queued \ {x}) = {}
    BY <2>3
  <2>7. (Read \union {x}) \union (Queued \ {x}) = Read \union Queued
    BY <2>1
  <2>8. Read' \union Queued' = Read \union Queued /\ Read' \intersect Queued' = {}
    BY <2>1, <2>6, <2>7, Zenon
  <2>. QED  BY <1>1, <1>2, <1>4, <1>5, <2>1, <2>2, <2>5, <2>8, Zenon DEF IdInv
<1>10. TrialEndInv'
  <2>1. Working' = Working /\ Counting' = Counting
    BY <1>1, Zenon DEF Working, Counting
  <2>. QED  BY <1>1, <1>2, <1>3, <2>1 DEF TrialEndInv
<1>. QED  BY <1>8, <1>9, <1>10, Zenon DEF TrialInv

\* A consumer that only looks keeps what there is to keep, if it leaves an adapter
\* with close() only when that is closed and empty.
LEMMA TrialLooksKeeps ==
    ASSUME TrialInv, NEW c \in Consumers, NEW l \in TrialConsumerLabels,
           consuming' = [consuming EXCEPT ![c] = l],
           l = "empty" => scenario # "closable",
           l = "done" /\ scenario = "closable" => producers_done /\ items = << >>,
           UNCHANGED <<scenario, items, running, publication, producers_done, observed>>
    PROVE  TrialInv'
<1>1. UNCHANGED <<scenario, items, next_id, messages_published, published_ids, remaining, producing, id,
                  producers_done, observed>>
  BY Zenon DEF publication
<1>2. TrialTypes /\ IdInv /\ TrialEndInv
  BY Zenon DEF TrialInv
<1>3. /\ consuming' \in [Consumers -> TrialConsumerLabels] /\ consuming'[c] = l
      /\ \A d \in Consumers \ {c} : consuming'[d] = consuming[d]
  BY <1>2, Zenon DEF TrialTypes
<1>4. TrialTypes'
  BY <1>1, <1>2, <1>3, Zenon DEF TrialTypes
<1>5. IdInv'
  <2>1. \A p \in Producers : /\ producing'[p] = "record" <=> producing[p] = "record"
                             /\ producing'[p] = "push" => producing[p] = "push"
    BY <1>1, Zenon
  <2>2. UNCHANGED <<items, observed, published_ids, next_id, id>>
    BY <1>1, Zenon
  <2>. QED  BY <1>2, <2>1, <2>2, SameIdInv, Zenon
<1>6. TrialEndInv'
  <2>1. CASE scenario # "spsc"
    <3>1. Working' = Working /\ Counting' = Counting
      BY <1>1, Zenon DEF Working, Counting
    <3>2. \A d \in Consumers : consuming'[d] = "empty" => scenario # "closable"
      BY <1>2, <1>3, <2>1, Zenon DEF TrialEndInv
    <3>3. scenario = "closable" /\ (\E d \in Consumers : consuming'[d] = "done") =>
              producers_done /\ items = << >>
      BY <1>2, <1>3, <2>1, Zenon DEF TrialEndInv
    <3>4. producers_done' <=> producers_done
      BY <1>1
    <3>. QED  BY <1>1, <1>2, <2>1, <3>1, <3>2, <3>3, <3>4 DEF TrialEndInv
  <2>. QED  BY <1>1, <2>1, Zenon DEF TrialEndInv
<1>. QED  BY <1>4, <1>5, <1>6, Zenon DEF TrialInv

-----------------------------------------------------------------------------
LEMMA TrialConsumerKeeps ==
    ASSUME TrialInv, NEW c \in Consumers, TrialConsumerStep(c) \/ SPSCConsumerStep(c)
    PROVE  TrialInv'
<1>1. /\ "pop" \in TrialConsumerLabels /\ "empty" \in TrialConsumerLabels /\ "done" \in TrialConsumerLabels
  BY Zenon DEF TrialConsumerLabels
<1>2. CASE FindsEmpty(c)
  BY <1>1, <1>2, TrialLooksKeeps, Zenon DEF FindsEmpty, Consume
<1>3. CASE AsksProducersDone(c)
  <2>1. PICK l \in {"pop", "done"} : consuming' = [consuming EXCEPT ![c] = l]
    BY <1>3, Zenon DEF AsksProducersDone, Consume
  <2>2. /\ consuming[c] = "empty"
        /\ UNCHANGED <<scenario, items, running, publication, producers_done, observed>>
    BY <1>3, Zenon DEF AsksProducersDone, Consume
  <2>3. scenario # "closable"
    BY <2>2, Zenon DEF TrialInv, TrialEndInv
  <2>4. l \in TrialConsumerLabels /\ l # "empty"
    BY <1>1, Zenon
  <2>. QED  BY <2>1, <2>2, <2>3, <2>4, TrialLooksKeeps, Zenon
<1>4. CASE FindsClosed(c)
  BY <1>1, <1>4, TrialLooksKeeps, Zenon DEF FindsClosed, Consume
<1>. QED  BY <1>2, <1>3, <1>4, ReadsItemKeeps, Zenon DEF TrialConsumerStep, SPSCConsumerStep

LEMMA TrialProducerKeeps ==
    ASSUME TrialInv, NEW p \in Producers, TrialProducerStep(p)
    PROVE  TrialInv'
<1>1. CASE CallsClose(p)
  BY <1>1, CallsCloseKeeps, Zenon DEF CallsClose, Produce
<1>2. CASE SPSCProducerStops(p)
  BY <1>2, CallsCloseKeeps, Zenon DEF SPSCProducerStops, Produce
<1>3. CASE SPSCFindsFull(p)
  <2>1. UNCHANGED <<scenario, items, publication, producers_done, consuming, observed>>
    BY <1>3, Zenon DEF SPSCFindsFull, trial, publication
  <2>. QED  BY <2>1, TrialQuietKeeps, Zenon
<1>. QED  BY <1>1, <1>2, <1>3, TakesIdKeeps, PushesKeeps, FindsFullKeeps, RecordsKeeps, CountsKeeps,
             ProducerStopsKeeps, SPSCPushesKeeps, Zenon DEF TrialProducerStep

\* TrialInv is an invariant of a trial: every id taken is used once, what has been
\* read or is in the queue has been recorded or is about to be, and the count of
\* publications lags behind the record by the producers between the two.
THEOREM TrialInvariant == TrialSpec => []TrialInv
<1>1. TrialInv /\ [TrialNext]_trial => TrialInv'
  <2>. SUFFICES ASSUME TrialInv, [TrialNext]_trial PROVE TrialInv'
    BY Zenon
  <2>1. CASE Stop
    BY <2>1, TrialQuietKeeps, Zenon DEF Stop
  <2>2. CASE UNCHANGED trial
    <3>1. UNCHANGED <<scenario, items, publication, producers_done, consuming, observed>>
      BY <2>2, Zenon DEF trial, publication
    <3>. QED  BY <3>1, TrialQuietKeeps, Zenon
  <2>. QED  BY <2>1, <2>2, TrialProducerKeeps, TrialConsumerKeeps, Zenon DEF TrialNext, TrialFinished
<1>. QED  BY <1>1, TrialInitInv, PTL DEF TrialSpec

\* A trial never reads an id twice, nor, once the threads are joined, one that was
\* not published; with an adapter that has close() it validates, because a
\* consumer leaves it only closed and empty, and the last producer closes it.
THEOREM TrialsAreSound == TrialSpec => []TrialIsSound
<1>1. ASSUME TrialInv PROVE TrialIsSound
  <2>1. /\ observed \in Seq(Nat) /\ published_ids \in Seq(Nat) /\ messages_published \in Nat
        /\ IsInjective(observed) /\ IsInjective(published_ids)
        /\ Read \union Queued = Recorded \union Unrecorded
    BY <1>1, Zenon DEF TrialInv, TrialTypes, IdInv
  <2>2. /\ Len(observed) \in Nat /\ Cardinality(Range(observed)) = Len(observed)
        /\ \A x \in Range(observed) : Cardinality({i \in DOMAIN observed : observed[i] = x}) = 1
    BY <2>1, WithoutRepetition, Zenon
  <2>3. /\ Len(published_ids) \in Nat /\ Cardinality(Range(published_ids)) = Len(published_ids)
        /\ \A x \in Range(published_ids) :
               Cardinality({i \in DOMAIN published_ids : published_ids[i] = x}) = 1
    BY <2>1, WithoutRepetition, Zenon
  <2>4. Unique(observed) = Len(observed)
    BY <2>2, Zenon DEF Unique
  <2>5. ASSUME Joined PROVE Read \union Queued = Recorded
    <3>1. Unrecorded = {}
      BY <2>5, Zenon DEF Joined, Unrecorded, Recording
    <3>. QED  BY <2>1, <3>1
  <2>6. ASSUME Joined PROVE Range(observed) \subseteq Range(published_ids)
    BY <2>5, <2>6, Zenon DEF Read, Recorded
  <2>7. ASSUME scenario = "closable", Joined PROVE ValidationErrors = 0
    <3>1. items = << >>
      BY <1>1, <2>7, WorkSharingAssumption, Zenon DEF Joined, TrialInv, TrialEndInv
    <3>2. Range(observed) = Range(published_ids)
      <4>1. Queued = {}
        BY <3>1 DEF Queued, Range
      <4>2. Read = Recorded
        BY <2>5, <2>7, <4>1
      <4>. QED  BY <4>2, Zenon DEF Read, Recorded
    <3>3. Len(published_ids) = messages_published
      <4>1. Counting = {}
        BY <2>7, Zenon DEF Joined, Counting
      <4>2. Cardinality(Counting) = 0
        BY <4>1, FS_EmptySet, Zenon
      <4>3. Len(published_ids) = messages_published + 0
        BY <1>1, <2>7, <4>2, Zenon DEF TrialInv, TrialEndInv
      <4>. QED  BY <2>1, <4>3
    <3>4. Len(observed) = messages_published
      BY <2>2, <2>3, <3>2, <3>3, Zenon
    <3>5. SameIds(observed, published_ids)
      BY <2>2, <2>3, <3>2, Zenon DEF SameIds
    <3>6. PICK n \in Nat : n = messages_published
      BY <2>1, Zenon
    <3>7. ValidationErrors = (n - n) + 0
      BY <2>4, <3>3, <3>4, <3>5, <3>6, Zenon DEF ValidationErrors
    <3>. QED  BY <3>7
  <2>. QED  BY <2>4, <2>6, <2>7, Zenon DEF TrialIsSound, TrialValidates
<1>. QED  BY <1>1, TrialInvariant, PTL

=============================================================================
