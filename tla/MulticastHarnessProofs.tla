------------------------ MODULE MulticastHarnessProofs ----------------------
(***************************************************************************)
(* Proofs about the programs that drive a multicast queue, for every       *)
(* capacity and any number of consumers and publications.                  *)
(*                                                                         *)
(* HarnessInv is inductive: it ties what a consumer has marked as seen to  *)
(* its cursor, and the cursor to what was published before producer_done   *)
(* was set.  The trackers of the benchmark come first, as functions of     *)
(* their ranges and a sequence; count_unique_sequences, which merges them, *)
(* comes last.                                                             *)
(***************************************************************************)
EXTENDS MergedTrackers, FiniteSetTheorems, TLAPS

-----------------------------------------------------------------------------
(* The trackers.                                                           *)

\* A number is its remainder plus a multiple of the divisor.
LEMMA Division ==
    ASSUME NEW C \in Nat \ {0}, NEW n \in Nat
    PROVE  n \div C \in Int /\ n % C \in 0..(C - 1) /\ n = C * (n \div C) + (n % C)
OBVIOUS

\* A number below the divisor is its own remainder.
LEMMA SmallRemainder ==
    ASSUME NEW C \in Nat \ {0}, NEW n \in Nat, n < C
    PROVE  n % C = n
<1>1. PICK d \in Int, c \in 0..(C - 1) : n = C * d + c /\ c = n % C
  BY Division, Zenon
<1>2. ~ (d >= 1)
  <2>. SUFFICES ASSUME d >= 1 PROVE FALSE
    OBVIOUS
  <2>1. C * d >= C
    OBVIOUS
  <2>2. C * d \in Int
    OBVIOUS
  <2>. QED  BY <1>1, <2>1, <2>2
<1>3. ~ (d <= -1)
  <2>. SUFFICES ASSUME d <= -1 PROVE FALSE
    OBVIOUS
  <2>1. C * d <= -C
    OBVIOUS
  <2>2. C * d \in Int
    OBVIOUS
  <2>. QED  BY <1>1, <2>1, <2>2
<1>4. d = 0
  BY <1>2, <1>3
<1>. QED  BY <1>1, <1>4

\* The successor of a value below the largest is the next value.
LEMMA NoWrap ==
    ASSUME NEW l \in Nat, l < MaxSequence
    PROVE  Successor(l) = l + 1
<1>1. PICK C \in Nat \ {0} : C = MaxSequence + 1
  BY TrackerAssumption
<1>2. PICK n \in Nat : n = l + 1 /\ n < C
  BY <1>1, TrackerAssumption
<1>3. n % C = n
  BY <1>2, SmallRemainder, Zenon
<1>. QED  BY <1>1, <1>2, <1>3, Zenon DEF Successor

\* A range that is continued has one more element.
LEMMA RangeGrows ==
    ASSUME NEW a \in Nat, NEW b \in Nat, a <= b
    PROVE  a..(b + 1) = (a..b) \union {b + 1}
OBVIOUS

\* A sequence that is not below any range of a tracker is recorded: only it is
\* added, and the ranges stay in order and apart.
LEMMA RecordAdds ==
    ASSUME NEW t \in Seq(SequenceRanges), NEW s \in Nat, s # 0, s <= MaxSequence,
           OrderedBelow(t, s)
    PROVE  /\ Accepts(t, s)
           /\ Record(t, s) \in Seq(SequenceRanges)
           /\ OrderedBelow(Record(t, s), s + 1)
           /\ Covered(Record(t, s)) = Covered(t) \union {s}
<1>1. PICK n \in Nat : n = Len(t) /\ DOMAIN t = 1..n /\ (t = << >> <=> n = 0)
  <2>1. Len(t) \in Nat /\ DOMAIN t = 1..Len(t) /\ (t = << >> <=> Len(t) = 0)
    OBVIOUS
  <2>. QED  BY <2>1, Zenon
<1>2. ASSUME NEW i \in 1..n
      PROVE  /\ t[i] \in SequenceRanges /\ t[i].first \in Nat /\ t[i].last \in Nat
             /\ t[i].first <= t[i].last /\ t[i].last < s
  <2>1. t[i] \in SequenceRanges
    BY <1>1
  <2>. QED  BY <1>1, <2>1, Zenon DEF OrderedBelow, SequenceRanges
<1>3. \A i \in 1..(n - 1) : t[i].last + 1 < t[i + 1].first
  BY <1>1, Zenon DEF OrderedBelow
<1>4. PICK new \in SequenceRanges : new = SequenceRange(s, s) /\ new.first = s /\ new.last = s
  <2>1. SequenceRange(s, s) \in SequenceRanges
    BY DEF SequenceRange, SequenceRanges
  <2>2. SequenceRange(s, s).first = s /\ SequenceRange(s, s).last = s
    BY DEF SequenceRange
  <2>. QED  BY <2>1, <2>2, Zenon
<1>5. CASE Begins(t, s)
  <2>1. n # 0 => t[n].last + 1 < s
    <3>. SUFFICES ASSUME n # 0 PROVE t[n].last + 1 < s
      BY Zenon
    <3>1. n \in 1..n
      BY <1>1
    <3>2. PICK l \in Nat : l = t[n].last /\ l < s
      BY <1>2, <3>1, Zenon
    <3>3. s > Successor(l)
      BY <1>1, <1>5, <3>2, Zenon DEF Begins, LastRange
    <3>4. Successor(l) = l + 1
      <4>1. l < MaxSequence
        BY <3>2, TrackerAssumption
      <4>. QED  BY <4>1, NoWrap, Zenon
    <3>. QED  BY <3>2, <3>3, <3>4
  <2>2. Accepts(t, s)
    BY <1>5, Zenon DEF Accepts
  <2>3. Record(t, s) = Append(t, new)
    BY <1>4, <1>5, <2>2, Zenon DEF Record
  <2>4. PICK u \in Seq(SequenceRanges) : u = Append(t, new)
    <3>1. Append(t, new) \in Seq(SequenceRanges)
      OBVIOUS
    <3>. QED  BY <3>1, Zenon
  <2>5. /\ Len(u) = n + 1 /\ DOMAIN u = 1..(n + 1) /\ u[n + 1] = new
        /\ \A i \in 1..n : u[i] = t[i]
    BY <1>1, <2>4
  <2>6. OrderedBelow(u, s + 1)
    <3>1. ASSUME NEW i \in DOMAIN u PROVE u[i].first <= u[i].last /\ u[i].last < s + 1
      <4>1. CASE i = n + 1
        <5>1. u[i].first = s /\ u[i].last = s
          BY <1>4, <2>5, <4>1, Zenon
        <5>. QED  BY <5>1
      <4>2. CASE i # n + 1
        <5>1. i \in 1..n
          BY <2>5, <4>2
        <5>2. t[i].first <= t[i].last /\ t[i].last < s /\ t[i].last \in Nat /\ u[i] = t[i]
          BY <1>2, <2>5, <5>1, Zenon
        <5>. QED  BY <5>2
      <4>. QED  BY <4>1, <4>2, Zenon
    <3>2. ASSUME NEW i \in 1..(Len(u) - 1) PROVE u[i].last + 1 < u[i + 1].first
      <4>1. CASE i = n
        <5>1. n # 0 /\ n \in 1..n
          BY <1>1, <2>5, <4>1
        <5>. QED  BY <1>4, <2>1, <2>5, <4>1, <5>1, Zenon
      <4>2. CASE i # n
        <5>1. i \in 1..(n - 1) /\ i \in 1..n /\ i + 1 \in 1..n
          BY <2>5, <4>2
        <5>. QED  BY <1>3, <2>5, <5>1, Zenon
      <4>. QED  BY <4>1, <4>2, Zenon
    <3>. QED  BY <3>1, <3>2, Zenon DEF OrderedBelow
  <2>7. Covered(u) = Covered(t) \union {s}
    <3>1. s..s = {s}
      OBVIOUS
    <3>2. ASSUME NEW x \in Covered(u) PROVE x \in Covered(t) \union {s}
      <4>1. PICK i \in DOMAIN u : x \in u[i].first..u[i].last
        BY <3>2, Zenon DEF Covered
      <4>2. i \in 1..n \/ i = n + 1
        BY <2>5
      <4>. QED  BY <1>1, <1>4, <2>5, <3>1, <4>1, <4>2, Zenon DEF Covered
    <3>3. ASSUME NEW x \in Covered(t) PROVE x \in Covered(u)
      <4>1. PICK i \in 1..n : x \in t[i].first..t[i].last
        BY <1>1, <3>3, Zenon DEF Covered
      <4>2. i \in DOMAIN u
        BY <2>5
      <4>. QED  BY <2>5, <4>1, <4>2, Zenon DEF Covered
    <3>4. s \in Covered(u)
      <4>1. n + 1 \in DOMAIN u
        BY <2>5
      <4>. QED  BY <1>4, <2>5, <3>1, <4>1, Zenon DEF Covered
    <3>. QED  BY <3>2, <3>3, <3>4, Zenon
  <2>. QED  BY <2>2, <2>3, <2>4, <2>6, <2>7, Zenon
<1>6. CASE ~ Begins(t, s)
  <2>1. n # 0 /\ n \in 1..n
    BY <1>1, <1>6 DEF Begins
  <2>2. PICK l \in Nat, f \in Nat :
            l = t[n].last /\ f = t[n].first /\ l < s /\ f <= l /\ t[n] \in SequenceRanges /\ LastRange(t) = t[n]
    BY <1>1, <1>2, <2>1, Zenon DEF LastRange
  <2>3. Successor(l) = l + 1 /\ l # MaxSequence
    <3>1. l < MaxSequence /\ l # MaxSequence
      BY <2>2, TrackerAssumption
    <3>. QED  BY <3>1, NoWrap, Zenon
  <2>4. ~ (s > l + 1)
    BY <1>6, <2>2, <2>3, Zenon DEF Begins
  <2>5. s = l + 1
    BY <2>2, <2>4
  <2>6. Accepts(t, s)
    BY <1>1, <2>1, <2>2, <2>3, <2>5, Zenon DEF Accepts, Continues
  <2>7. Record(t, s) = [t EXCEPT ![n].last = s]
    BY <1>1, <1>6, <2>6, Zenon DEF Record
  <2>8. PICK r \in SequenceRanges : r = [t[n] EXCEPT !.last = s] /\ r.first = f /\ r.last = s
    <3>1. PICK e : e = t[n] /\ e \in SequenceRanges /\ e.first = f
      BY <2>2, Zenon
    <3>2. [e EXCEPT !.last = s] \in SequenceRanges
      BY <3>1, Zenon DEF SequenceRanges
    <3>3. [e EXCEPT !.last = s].first = f /\ [e EXCEPT !.last = s].last = s
      BY <3>1 DEF SequenceRanges
    <3>. QED  BY <3>1, <3>2, <3>3, Zenon
  <2>9. PICK u \in Seq(SequenceRanges) : u = Record(t, s) /\ u = [t EXCEPT ![n] = r]
    <3>1. [t EXCEPT ![n] = r] \in Seq(SequenceRanges)
      BY <1>1, <2>1
    <3>2. Record(t, s) = [t EXCEPT ![n] = r]
      BY <2>7, <2>8, Zenon
    <3>. QED  BY <3>1, <3>2, Zenon
  <2>10. /\ Len(u) = n /\ DOMAIN u = 1..n /\ u[n] = r
         /\ \A i \in 1..n : i # n => u[i] = t[i]
    BY <1>1, <2>1, <2>9
  <2>11. OrderedBelow(u, s + 1)
    <3>1. ASSUME NEW i \in DOMAIN u PROVE u[i].first <= u[i].last /\ u[i].last < s + 1
      <4>1. CASE i = n
        <5>1. u[i].first = f /\ u[i].last = s
          BY <2>8, <2>10, <4>1, Zenon
        <5>. QED  BY <2>2, <5>1
      <4>2. CASE i # n
        <5>1. i \in 1..n /\ u[i] = t[i]
          BY <2>10, <4>2, Zenon
        <5>2. t[i].first <= t[i].last /\ t[i].last < s /\ t[i].last \in Nat
          BY <1>2, <5>1, Zenon
        <5>. QED  BY <5>1, <5>2
      <4>. QED  BY <4>1, <4>2, Zenon
    <3>2. ASSUME NEW i \in 1..(Len(u) - 1) PROVE u[i].last + 1 < u[i + 1].first
      <4>1. i \in 1..(n - 1) /\ i \in 1..n /\ i # n /\ i + 1 \in 1..n
        BY <2>10
      <4>2. u[i] = t[i] /\ u[i + 1].first = t[i + 1].first
        BY <2>2, <2>8, <2>10, <4>1, Zenon
      <4>. QED  BY <1>3, <4>1, <4>2, Zenon
    <3>. QED  BY <3>1, <3>2, Zenon DEF OrderedBelow
  <2>12. Covered(u) = Covered(t) \union {s}
    <3>1. f..s = (f..l) \union {s}
      BY <2>2, <2>5, RangeGrows, Zenon
    <3>2. ASSUME NEW x \in Covered(u) PROVE x \in Covered(t) \union {s}
      <4>1. PICK i \in 1..n : x \in u[i].first..u[i].last
        BY <2>10, <3>2, Zenon DEF Covered
      <4>2. x \in t[i].first..t[i].last \/ x = s
        <5>1. CASE i = n
          <6>1. x \in f..s
            BY <2>8, <2>10, <4>1, <5>1, Zenon
          <6>. QED  BY <2>2, <3>1, <5>1, <6>1, Zenon
        <5>. QED  BY <2>10, <4>1, <5>1, Zenon
      <4>. QED  BY <1>1, <4>2, Zenon DEF Covered
    <3>3. ASSUME NEW x \in Covered(t) PROVE x \in Covered(u)
      <4>1. PICK i \in 1..n : x \in t[i].first..t[i].last
        BY <1>1, <3>3, Zenon DEF Covered
      <4>2. x \in u[i].first..u[i].last
        BY <2>2, <2>8, <2>10, <3>1, <4>1, Zenon
      <4>. QED  BY <2>10, <4>2, Zenon DEF Covered
    <3>4. s \in Covered(u)
      <4>1. s \in u[n].first..u[n].last
        BY <2>8, <2>10, <3>1, Zenon
      <4>. QED  BY <2>1, <2>10, <4>1, Zenon DEF Covered
    <3>. QED  BY <3>2, <3>3, <3>4, Zenon
  <2>. QED  BY <2>6, <2>9, <2>11, <2>12, Zenon
<1>. QED  BY <1>5, <1>6, Zenon

-----------------------------------------------------------------------------
(* The programs.                                                           *)

LEMMA HarnessInitInv == HarnessInit => HarnessInv
<1>. SUFFICES ASSUME HarnessInit PROVE HarnessInv
  BY Zenon
<1>1. /\ log = << >> /\ Len(log) = 0 /\ published = 0 /\ next = 1 /\ producing = "loop"
      /\ ~ producer_done /\ ~ failed
  BY DEF HarnessInit
<1>2. ASSUME NEW h \in Handles
      PROVE  /\ next_sequence[h] = 1 /\ loaded[h] = 0 /\ last[h] = 0 /\ seen[h] = {}
             /\ ranges[h] = << >> /\ consuming[h] = "test"
  BY Zenon DEF HarnessInit
<1>3. HarnessTypes
  <2>1. << >> \in Seq(SequenceRanges) /\ << >> \in Seq(Nat) /\ {} \in SUBSET Nat /\ 0 \in Nat /\ 1 \in Nat
    OBVIOUS
  <2>. QED  BY <2>1, Zenon DEF HarnessInit, HarnessTypes
<1>4. ProducerInv
  BY <1>1, HarnessAssumption DEF ProducerInv
<1>5. ASSUME NEW h \in Handles PROVE LoadInv(h) /\ SeenInv(h)
  <2>1. LoadInv(h)
    BY <1>1, <1>2 DEF LoadInv
  <2>2. SeenInv(h)
    BY <1>1, <1>2 DEF SeenInv
  <2>. QED  BY <2>1, <2>2, Zenon
<1>6. OrderedBelow(<< >>, 1) /\ Covered(<< >>) = {}
  BY DEF OrderedBelow, Covered
<1>. QED  BY <1>1, <1>2, <1>3, <1>4, <1>5, <1>6, Zenon DEF HarnessInv, HandleInv

\* A handle keeps its part while the ring only grows and published_ does not change.
LEMMA SameHandle ==
    ASSUME HarnessTypes, ProducerInv, HarnessTypes', NEW h \in Handles, HandleInv(h), Len(log) <= Len(log'),
           next_sequence'[h] = next_sequence[h], loaded'[h] = loaded[h], last'[h] = last[h],
           seen'[h] = seen[h], ranges'[h] = ranges[h], consuming'[h] = consuming[h],
           test' = test, published <= published',
           producer_done => producer_done' /\ published' = published
    PROVE  HandleInv(h)'
<1>1. /\ next_sequence[h] \in Nat /\ loaded[h] \in Nat /\ published \in Nat /\ published' \in Nat
      /\ log \in Seq(Nat) /\ log' \in Seq(Nat) /\ seen[h] \in SUBSET Nat
  BY Zenon DEF HarnessTypes
<1>2. Len(log) \in Nat /\ Len(log') \in Nat
  BY <1>1
<1>3. LoadInv(h)'
  <2>1. LoadInv(h)
    BY Zenon DEF HandleInv
  <2>2. loaded[h] <= published'
    BY <1>1, <2>1 DEF LoadInv
  <2>3. test = "stress" /\ consuming[h] \in {"cursor", "done"} => producer_done /\ loaded[h] = published
    BY <2>1, Zenon DEF LoadInv
  <2>4. test = "stress" /\ consuming[h] = "done" => published < next_sequence[h]
    BY <2>1, Zenon DEF LoadInv
  <2>5. test = "stress" /\ consuming[h] \in {"cursor", "done"} => producer_done' /\ published' = published
    BY <2>3, Zenon
  <2>. QED  BY <2>2, <2>3, <2>4, <2>5, Zenon DEF LoadInv
<1>4. SeenInv(h)'
  <2>1. SeenInv(h)
    BY Zenon DEF HandleInv
  <2>2. next_sequence[h] <= Len(log') + 1
    BY <1>1, <1>2, <2>1 DEF SeenInv
  <2>3. \A q \in 1..(next_sequence[h] - 1) : q \in seen[h] \/ q + Capacity <= Len(log)
    BY <2>1, Zenon DEF SeenInv
  <2>4. \A q \in 1..(next_sequence[h] - 1) : q \in seen[h] \/ q + Capacity <= Len(log')
    BY <1>1, <1>2, <2>3, HarnessAssumption
  <2>. QED  BY <2>1, <2>2, <2>4, Zenon DEF SeenInv
<1>. QED  BY <1>3, <1>4, Zenon DEF HandleInv

\* Nothing of the invariant is changed.
LEMMA HarnessQuietKeeps ==
    ASSUME HarnessInv,
           UNCHANGED <<log, attached, next_sequence, test, producer, consuming, loaded, metrics, failed>>
    PROVE  HarnessInv'
<1>1. UNCHANGED <<log, attached, next_sequence, test, published, producing, next, producer_done, consuming,
                  loaded, last, seen, ranges, failed>>
  BY Zenon DEF producer, metrics
<1>2. HarnessTypes' /\ ProducerInv' /\ (\A h \in Handles : HandleInv(h)')
  BY <1>1, Zenon DEF HarnessInv, HarnessTypes, ProducerInv, HandleInv, LoadInv, SeenInv
<1>3. ~ failed'
  BY <1>1 DEF HarnessInv
<1>. QED  BY <1>1, <1>2, <1>3, Zenon DEF HarnessInv

LEMMA PublishesKeeps ==
    ASSUME HarnessInv, Publishes
    PROVE  HarnessInv'
<1>1. /\ producing = "loop" /\ producing' = "store" /\ next <= Iterations /\ log' = Append(log, next)
      /\ UNCHANGED <<attached, next_sequence, test, published, next, producer_done, consuming, loaded,
                     last, seen, ranges, failed>>
  BY Zenon DEF Publishes, Publish, metrics
<1>2. HarnessTypes /\ ProducerInv /\ (\A h \in Handles : HandleInv(h)) /\ ~ failed
  BY Zenon DEF HarnessInv
<1>3. log \in Seq(Nat) /\ next \in Nat /\ published \in Nat
  BY <1>2, Zenon DEF HarnessTypes
<1>4. /\ log' \in Seq(Nat) /\ Len(log) \in Nat /\ Len(log') = Len(log) + 1 /\ log'[Len(log) + 1] = next
      /\ \A s \in 1..Len(log) : log'[s] = log[s]
  BY <1>1, <1>3
<1>5. /\ \A s \in 1..Len(log) : log[s] = s
      /\ Len(log) + 1 = next /\ published + 1 = next /\ (producer_done => producing = "done")
      /\ next <= Iterations + 1
  BY <1>1, <1>2, Zenon DEF ProducerInv
<1>6. HarnessTypes'
  BY <1>1, <1>2, <1>4, Zenon DEF HarnessTypes
<1>7. ProducerInv'
  <2>1. ASSUME NEW s \in 1..Len(log') PROVE log'[s] = s
    BY <1>4, <1>5
  <2>2. Len(log') = next
    BY <1>4, <1>5, Zenon
  <2>3. ~ producer_done'
    BY <1>1, <1>5
  <2>. QED  BY <1>1, <1>5, <2>1, <2>2, <2>3, Zenon DEF ProducerInv
<1>8. ASSUME NEW h \in Handles PROVE HandleInv(h)'
  <2>1. Len(log) <= Len(log') /\ published <= published'
    BY <1>1, <1>3, <1>4
  <2>2. producer_done => producer_done'
    BY <1>1
  <2>. QED  BY <1>1, <1>2, <1>6, <2>1, <2>2, SameHandle, Zenon
<1>9. ~ failed'
  BY <1>1, <1>2
<1>. QED  BY <1>6, <1>7, <1>8, <1>9, Zenon DEF HarnessInv

LEMMA PublishReturnsKeeps ==
    ASSUME HarnessInv, PublishReturns
    PROVE  HarnessInv'
<1>1. /\ producing = "store" /\ producing' = "loop" /\ published' = Len(log) /\ next' = next + 1
      /\ failed' = (failed \/ Len(log) # next)
      /\ UNCHANGED <<log, attached, next_sequence, test, producer_done, consuming, loaded, last, seen, ranges>>
  BY Zenon DEF PublishReturns, contract, metrics
<1>2. HarnessTypes /\ ProducerInv /\ (\A h \in Handles : HandleInv(h)) /\ ~ failed
  BY Zenon DEF HarnessInv
<1>3. log \in Seq(Nat) /\ next \in Nat /\ published \in Nat
  BY <1>2, Zenon DEF HarnessTypes
<1>4. Len(log) \in Nat
  BY <1>3
<1>5. /\ \A s \in 1..Len(log) : log[s] = s
      /\ Len(log) = next /\ published + 1 = next /\ (producer_done => producing = "done")
      /\ next <= Iterations
  BY <1>1, <1>2, Zenon DEF ProducerInv
<1>6. HarnessTypes'
  <2>1. next' \in Nat /\ published' \in Nat
    BY <1>1, <1>3, <1>4
  <2>. QED  BY <1>1, <1>2, <2>1, Zenon DEF HarnessTypes
<1>7. ~ producer_done /\ ~ producer_done'
  BY <1>1, <1>5
<1>8. ProducerInv'
  <2>1. next' <= Iterations + 1 /\ Len(log) + 1 = next' /\ published' + 1 = next'
    BY <1>1, <1>3, <1>5, HarnessAssumption
  <2>. QED  BY <1>1, <1>5, <1>7, <2>1, Zenon DEF ProducerInv
<1>9. ASSUME NEW h \in Handles PROVE HandleInv(h)'
  <2>1. Len(log) <= Len(log') /\ published <= published'
    BY <1>1, <1>3, <1>4, <1>5
  <2>. QED  BY <1>1, <1>2, <1>6, <1>7, <2>1, SameHandle, Zenon
<1>10. ~ failed'
  BY <1>1, <1>2, <1>5, Zenon
<1>. QED  BY <1>6, <1>8, <1>9, <1>10, Zenon DEF HarnessInv

\* The producer leaves its loop and may set producer_done.
LEMMA HarnessProducerEndsKeeps ==
    ASSUME HarnessInv, producing = "loop", producing' = "done", producer_done => producer_done',
           UNCHANGED <<log, attached, next_sequence, test, published, next, consuming, loaded, metrics, failed>>
    PROVE  HarnessInv'
<1>1. UNCHANGED <<log, attached, next_sequence, test, published, next, consuming, loaded, last, seen, ranges,
                  failed>>
  BY Zenon DEF metrics
<1>2. HarnessTypes /\ ProducerInv /\ (\A h \in Handles : HandleInv(h)) /\ ~ failed
  BY Zenon DEF HarnessInv
<1>3. HarnessTypes'
  BY <1>1, <1>2, Zenon DEF HarnessTypes
<1>4. ProducerInv'
  BY <1>1, <1>2, Zenon DEF ProducerInv
<1>5. ASSUME NEW h \in Handles PROVE HandleInv(h)'
  <2>1. Len(log) <= Len(log') /\ published <= published'
    <3>1. log \in Seq(Nat) /\ published \in Nat
      BY <1>2, Zenon DEF HarnessTypes
    <3>. QED  BY <1>1, <3>1
  <2>. QED  BY <1>1, <1>2, <1>3, <2>1, SameHandle, Zenon
<1>6. ~ failed'
  BY <1>1, <1>2
<1>. QED  BY <1>3, <1>4, <1>5, <1>6, Zenon DEF HarnessInv

-----------------------------------------------------------------------------
\* A consumer loads published_ and goes on without reading: it may leave a loop of
\* the stress test only beyond the final value.
LEMMA HarnessLooksKeeps ==
    ASSUME HarnessInv, NEW h \in Handles, NEW l \in {"test", "cursor", "read", "done"},
           NEW value \in loaded[h]..published,
           consuming' = [consuming EXCEPT ![h] = l], loaded' = [loaded EXCEPT ![h] = value],
           test = "stress" /\ l \in {"cursor", "done"} => producer_done /\ value = published,
           test = "stress" /\ l = "done" => published < next_sequence[h],
           UNCHANGED <<contract, test, producer, metrics, failed>>
    PROVE  HarnessInv'
<1>1. UNCHANGED <<log, attached, next_sequence, test, published, producing, next, producer_done, last, seen,
                  ranges, failed>>
  BY Zenon DEF contract, producer, metrics
<1>2. HarnessTypes /\ ProducerInv /\ (\A g \in Handles : HandleInv(g)) /\ ~ failed
  BY Zenon DEF HarnessInv
<1>3. loaded[h] \in Nat /\ published \in Nat /\ log \in Seq(Nat)
  BY <1>2, Zenon DEF HarnessTypes
<1>4. value \in Nat /\ value <= published
  BY <1>3
<1>5. /\ consuming'[h] = l /\ loaded'[h] = value
      /\ \A g \in Handles \ {h} : consuming'[g] = consuming[g] /\ loaded'[g] = loaded[g]
  BY <1>2, Zenon DEF HarnessTypes
<1>6. HarnessTypes'
  BY <1>1, <1>2, <1>4, Zenon DEF HarnessTypes
<1>7. ProducerInv'
  BY <1>1, <1>2, Zenon DEF ProducerInv
<1>8. ASSUME NEW g \in Handles PROVE HandleInv(g)'
  <2>1. CASE g # h
    <3>1. Len(log) <= Len(log') /\ published <= published'
      BY <1>1, <1>3
    <3>. QED  BY <1>1, <1>2, <1>5, <1>6, <2>1, <3>1, SameHandle, Zenon
  <2>2. CASE g = h
    <3>1. LoadInv(h)'
      BY <1>1, <1>4, <1>5, Zenon DEF LoadInv
    <3>2. SeenInv(h)'
      BY <1>1, <1>2, Zenon DEF HandleInv, SeenInv
    <3>. QED  BY <1>1, <1>2, <2>2, <3>1, <3>2, Zenon DEF HandleInv
  <2>. QED  BY <2>1, <2>2, Zenon
<1>9. ~ failed'
  BY <1>1, <1>2
<1>. QED  BY <1>6, <1>7, <1>8, <1>9, Zenon DEF HarnessInv

\* A consumer moves its cursor from a sequence s that is in the ring to r, and marks
\* what it is given.
LEMMA CursorMoves ==
    ASSUME HarnessInv, NEW h \in Handles, NEW value \in loaded[h]..published, NEW r \in Nat,
           next_sequence[h] <= r, r <= Len(log) + 1,
           consuming' = [consuming EXCEPT ![h] = "test"], loaded' = [loaded EXCEPT ![h] = value],
           next_sequence' = [next_sequence EXCEPT ![h] = r],
           last' \in [Handles -> Nat], last'[h] < r,
           seen' \in [Handles -> SUBSET Nat], \A s \in seen'[h] : s < r,
           \A s \in 1..(r - 1) : s \in seen'[h] \/ s + Capacity <= Len(log),
           ranges' \in [Handles -> Seq(SequenceRanges)],
           test = "benchmark" => OrderedBelow(ranges'[h], r) /\ Covered(ranges'[h]) = seen'[h],
           \A g \in Handles \ {h} : last'[g] = last[g] /\ seen'[g] = seen[g] /\ ranges'[g] = ranges[g],
           ~ failed', UNCHANGED <<log, attached, test, producer>>
    PROVE  HarnessInv'
<1>1. UNCHANGED <<log, attached, test, published, producing, next, producer_done>>
  BY Zenon DEF producer
<1>2. HarnessTypes /\ ProducerInv /\ (\A g \in Handles : HandleInv(g))
  BY Zenon DEF HarnessInv
<1>3. loaded[h] \in Nat /\ published \in Nat /\ log \in Seq(Nat) /\ next_sequence[h] \in Nat
  BY <1>2, Zenon DEF HarnessTypes
<1>4. value \in Nat /\ value <= published
  BY <1>3
<1>5. /\ consuming'[h] = "test" /\ loaded'[h] = value /\ next_sequence'[h] = r
      /\ \A g \in Handles \ {h} : /\ consuming'[g] = consuming[g] /\ loaded'[g] = loaded[g]
                                  /\ next_sequence'[g] = next_sequence[g]
  BY <1>2, Zenon DEF HarnessTypes
<1>6. HarnessTypes'
  BY <1>1, <1>2, <1>4, Zenon DEF HarnessTypes
<1>7. ProducerInv'
  BY <1>1, <1>2, Zenon DEF ProducerInv
<1>8. ASSUME NEW g \in Handles PROVE HandleInv(g)'
  <2>1. CASE g # h
    <3>1. Len(log) <= Len(log') /\ published <= published'
      BY <1>1, <1>3
    <3>. QED  BY <1>1, <1>2, <1>5, <1>6, <2>1, <3>1, SameHandle, Zenon
  <2>2. CASE g = h
    <3>1. LoadInv(h)'
      BY <1>1, <1>4, <1>5, Zenon DEF LoadInv
    <3>2. 1 <= r
      <4>1. 1 <= next_sequence[h]
        BY <1>2, Zenon DEF HandleInv, SeenInv
      <4>. QED  BY <1>3, <4>1
    <3>3. SeenInv(h)'
      BY <1>1, <1>5, <3>2, Zenon DEF SeenInv
    <3>. QED  BY <1>1, <1>5, <2>2, <3>1, <3>3, Zenon DEF HandleInv
  <2>. QED  BY <2>1, <2>2, Zenon
<1>. QED  BY <1>6, <1>7, <1>8, Zenon DEF HarnessInv

\* Ranges below a bound are below any greater one.
LEMMA LooserBound ==
    ASSUME NEW t \in Seq(SequenceRanges), NEW s \in Nat, NEW r \in Nat, s <= r, OrderedBelow(t, s)
    PROVE  OrderedBelow(t, r)
<1>1. ASSUME NEW i \in DOMAIN t PROVE t[i].first <= t[i].last /\ t[i].last < r
  <2>1. t[i] \in SequenceRanges
    OBVIOUS
  <2>2. t[i].first \in Nat /\ t[i].last \in Nat /\ t[i].first <= t[i].last /\ t[i].last < s
    BY <2>1, Zenon DEF SequenceRanges, OrderedBelow
  <2>. QED  BY <2>2
<1>. QED  BY <1>1, Zenon DEF OrderedBelow

LEMMA LagsKeeps ==
    ASSUME HarnessInv, NEW h \in Handles, Lags(h)
    PROVE  HarnessInv'
<1>1. PICK value \in 0..published :
          /\ Load(h, value) /\ Skip(h) /\ Consume(h, "read", "test")
          /\ UNCHANGED <<test, stopped, producer, metrics, failed>>
  BY Zenon DEF Lags
<1>2. PICK r \in next_sequence[h]..Len(log) :
          r - 1 + Capacity <= Len(log) /\ next_sequence' = [next_sequence EXCEPT ![h] = r]
  BY <1>1, Zenon DEF Skip
<1>3. /\ value \in loaded[h]..published /\ loaded' = [loaded EXCEPT ![h] = value]
      /\ consuming' = [consuming EXCEPT ![h] = "test"]
      /\ UNCHANGED <<log, attached, test, producer, last, seen, ranges, failed>>
  BY <1>1, Zenon DEF Load, Skip, Consume, metrics
<1>4. HarnessTypes /\ HandleInv(h) /\ ~ failed
  BY Zenon DEF HarnessInv
<1>5. /\ next_sequence[h] \in Nat /\ log \in Seq(Nat) /\ last[h] \in Nat /\ seen[h] \in SUBSET Nat
      /\ ranges[h] \in Seq(SequenceRanges)
  BY <1>4, Zenon DEF HarnessTypes
<1>6. /\ last[h] < next_sequence[h] /\ (\A s \in seen[h] : s < next_sequence[h])
      /\ \A s \in 1..(next_sequence[h] - 1) : s \in seen[h] \/ s + Capacity <= Len(log)
  BY <1>4, Zenon DEF HandleInv, SeenInv
<1>7. r \in Nat /\ next_sequence[h] <= r /\ r <= Len(log) + 1 /\ last[h] < r
  BY <1>2, <1>5, <1>6
<1>8. \A s \in seen[h] : s < r
  BY <1>5, <1>6, <1>7
<1>9. ASSUME NEW s \in 1..(r - 1) PROVE s \in seen[h] \/ s + Capacity <= Len(log)
  <2>1. CASE s < next_sequence[h]
    <3>1. s \in 1..(next_sequence[h] - 1)
      BY <1>5, <1>7, <2>1
    <3>. QED  BY <1>6, <3>1, Zenon
  <2>2. s <= r - 1 /\ s \in Nat
    BY <1>7
  <2>. QED  BY <1>2, <1>5, <1>7, <2>2, HarnessAssumption
<1>10. test = "benchmark" => OrderedBelow(ranges[h], r) /\ Covered(ranges[h]) = seen[h]
  BY <1>4, <1>5, <1>7, LooserBound, Zenon DEF HandleInv
<1>11. ~ failed'
  BY <1>3, <1>4
<1>12. last \in [Handles -> Nat] /\ seen \in [Handles -> SUBSET Nat] /\ ranges \in [Handles -> Seq(SequenceRanges)]
  BY <1>4, Zenon DEF HarnessTypes
<1>. QED  BY <1>2, <1>3, <1>7, <1>8, <1>9, <1>10, <1>11, <1>12, CursorMoves, Zenon

\* What Reads and RecordsPayload have in common.
LEMMA DeliveredMoves ==
    ASSUME HarnessInv, NEW h \in Handles, Delivered(h)
    PROVE  \E value \in loaded[h]..published, s \in Nat \ {0} :
               /\ s = next_sequence[h] /\ s <= Len(log) /\ s <= Iterations /\ log[s] = s /\ last[h] < s
               /\ s + 1 \in Nat /\ next_sequence[h] <= s + 1 /\ s + 1 <= Len(log) + 1
               /\ consuming' = [consuming EXCEPT ![h] = "test"] /\ loaded' = [loaded EXCEPT ![h] = value]
               /\ next_sequence' = [next_sequence EXCEPT ![h] = s + 1]
               /\ \A q \in seen[h] \union {s} : q < s + 1
               /\ \A q \in 1..s : q \in seen[h] \union {s} \/ q + Capacity <= Len(log)
               /\ UNCHANGED <<log, attached, test, producer>>
<1>1. PICK value \in 0..published :
          /\ Load(h, value) /\ Deliver(h) /\ Consume(h, "read", "test")
          /\ UNCHANGED <<test, stopped, producer>>
  BY Zenon DEF Delivered
<1>2. HarnessTypes /\ HandleInv(h) /\ ProducerInv
  BY Zenon DEF HarnessInv
<1>3. /\ next_sequence[h] \in Nat /\ log \in Seq(Nat) /\ last[h] \in Nat /\ seen[h] \in SUBSET Nat
      /\ next \in Nat /\ next_sequence \in [Handles -> Nat]
  BY <1>2, Zenon DEF HarnessTypes
<1>4. /\ 1 <= next_sequence[h] /\ last[h] < next_sequence[h] /\ (\A q \in seen[h] : q < next_sequence[h])
      /\ \A q \in 1..(next_sequence[h] - 1) : q \in seen[h] \/ q + Capacity <= Len(log)
  BY <1>2, Zenon DEF HandleInv, SeenInv
<1>5. PICK s \in Nat \ {0} : s = next_sequence[h]
  BY <1>3, <1>4
<1>6. s <= Len(log) /\ UNCHANGED <<log, attached>> /\ next_sequence' = [next_sequence EXCEPT ![h] = s + 1]
  <2>1. next_sequence' = [next_sequence EXCEPT ![h] = next_sequence[h] + 1]
    BY <1>1, <1>3, Zenon DEF Deliver
  <2>. QED  BY <1>1, <1>5, <2>1, Zenon DEF Deliver
<1>7. Len(log) \in Nat /\ Len(log) <= Iterations
  <2>1. Len(log) \in Nat
    BY <1>3
  <2>2. \/ Len(log) = next /\ next <= Iterations
        \/ Len(log) + 1 = next /\ next <= Iterations + 1
    BY <1>2, Zenon DEF ProducerInv
  <2>. QED  BY <1>3, <2>1, <2>2, HarnessAssumption
<1>8. s <= Iterations /\ s + 1 \in Nat /\ next_sequence[h] <= s + 1 /\ s + 1 <= Len(log) + 1
  BY <1>5, <1>6, <1>7, HarnessAssumption
<1>9. log[s] = s
  <2>1. s \in 1..Len(log)
    BY <1>6, <1>7
  <2>. QED  BY <1>2, <2>1, Zenon DEF ProducerInv
<1>10. \A q \in seen[h] \union {s} : q < s + 1
  BY <1>3, <1>4, <1>5
<1>11. ASSUME NEW q \in 1..s PROVE q \in seen[h] \union {s} \/ q + Capacity <= Len(log)
  <2>1. q = s \/ q \in 1..(next_sequence[h] - 1)
    BY <1>5
  <2>. QED  BY <1>4, <2>1, Zenon
<1>12. /\ value \in loaded[h]..published /\ loaded' = [loaded EXCEPT ![h] = value]
       /\ consuming' = [consuming EXCEPT ![h] = "test"] /\ UNCHANGED <<test, producer>>
  BY <1>1, Zenon DEF Load, Consume
<1>. QED  BY <1>4, <1>5, <1>6, <1>8, <1>9, <1>10, <1>11, <1>12, Zenon

LEMMA ReadsKeeps ==
    ASSUME HarnessInv, NEW h \in Handles, Reads(h)
    PROVE  HarnessInv'
<1>1. PICK value \in loaded[h]..published, s \in Nat \ {0} :
          /\ s = next_sequence[h] /\ s <= Len(log) /\ s <= Iterations /\ log[s] = s /\ last[h] < s
          /\ s + 1 \in Nat /\ next_sequence[h] <= s + 1 /\ s + 1 <= Len(log) + 1
          /\ consuming' = [consuming EXCEPT ![h] = "test"] /\ loaded' = [loaded EXCEPT ![h] = value]
          /\ next_sequence' = [next_sequence EXCEPT ![h] = s + 1]
          /\ \A q \in seen[h] \union {s} : q < s + 1
          /\ \A q \in 1..s : q \in seen[h] \union {s} \/ q + Capacity <= Len(log)
          /\ UNCHANGED <<log, attached, test, producer>>
  BY DeliveredMoves, Zenon DEF Reads
<1>2. HarnessTypes /\ ~ failed
  BY Zenon DEF HarnessInv
<1>3. /\ last \in [Handles -> Nat] /\ seen \in [Handles -> SUBSET Nat]
      /\ ranges \in [Handles -> Seq(SequenceRanges)] /\ last[h] \in Nat
  BY <1>2, Zenon DEF HarnessTypes
<1>4. s \in 1..Iterations /\ s > last[h] /\ log[s] = s
  BY <1>1, <1>3, HarnessAssumption
<1>5. /\ test = "stress" /\ UNCHANGED ranges /\ ~ failed'
      /\ last' = [last EXCEPT ![h] = s] /\ seen' = [seen EXCEPT ![h] = seen[h] \union {s}]
  <2>. DEFINE valid == s \in 1..Iterations /\ s > last[h] /\ log[s] = s
  <2>1. valid
    BY <1>4, Zenon
  <2>2. /\ test = "stress" /\ UNCHANGED ranges /\ failed' = (failed \/ ~ valid)
        /\ last' = [last EXCEPT ![h] = IF valid THEN s ELSE last[h]]
        /\ seen' = [seen EXCEPT ![h] = IF valid THEN seen[h] \union {s} ELSE seen[h]]
    BY <1>1, <1>3, Zenon DEF Reads
  <2>3. ~ failed'
    BY <1>2, <2>1, <2>2, Zenon
  <2>. QED  BY <2>1, <2>2, <2>3, Zenon
<1>6. /\ last' \in [Handles -> Nat] /\ seen' \in [Handles -> SUBSET Nat]
      /\ last'[h] = s /\ seen'[h] = seen[h] \union {s}
      /\ \A g \in Handles \ {h} : last'[g] = last[g] /\ seen'[g] = seen[g] /\ ranges'[g] = ranges[g]
  <2>1. s \in Nat /\ seen[h] \union {s} \in SUBSET Nat
    BY <1>3, Zenon
  <2>. QED  BY <1>3, <1>5, <2>1, Zenon
<1>7. last'[h] < s + 1 /\ (s + 1) - 1 = s
  BY <1>6
<1>8. /\ \A q \in seen'[h] : q < s + 1
      /\ \A q \in 1..((s + 1) - 1) : q \in seen'[h] \/ q + Capacity <= Len(log)
  BY <1>1, <1>6, <1>7, Zenon
<1>9. test # "benchmark" /\ ranges' \in [Handles -> Seq(SequenceRanges)]
  BY <1>3, <1>5
<1>. QED  BY <1>1, <1>5, <1>6, <1>7, <1>8, <1>9, CursorMoves, Zenon

LEMMA RecordsPayloadKeeps ==
    ASSUME HarnessInv, NEW h \in Handles, RecordsPayload(h)
    PROVE  HarnessInv'
<1>1. PICK value \in loaded[h]..published, s \in Nat \ {0} :
          /\ s = next_sequence[h] /\ s <= Len(log) /\ s <= Iterations /\ log[s] = s /\ last[h] < s
          /\ s + 1 \in Nat /\ next_sequence[h] <= s + 1 /\ s + 1 <= Len(log) + 1
          /\ consuming' = [consuming EXCEPT ![h] = "test"] /\ loaded' = [loaded EXCEPT ![h] = value]
          /\ next_sequence' = [next_sequence EXCEPT ![h] = s + 1]
          /\ \A q \in seen[h] \union {s} : q < s + 1
          /\ \A q \in 1..s : q \in seen[h] \union {s} \/ q + Capacity <= Len(log)
          /\ UNCHANGED <<log, attached, test, producer>>
  BY DeliveredMoves, Zenon DEF RecordsPayload
<1>2. HarnessTypes /\ HandleInv(h) /\ ~ failed
  BY Zenon DEF HarnessInv
<1>3. /\ last \in [Handles -> Nat] /\ seen \in [Handles -> SUBSET Nat]
      /\ ranges \in [Handles -> Seq(SequenceRanges)] /\ last[h] \in Nat
      /\ ranges[h] \in Seq(SequenceRanges)
  BY <1>2, Zenon DEF HarnessTypes
<1>4. /\ test = "benchmark" /\ UNCHANGED last /\ failed' = (failed \/ ~ Accepts(ranges[h], s))
      /\ seen' = [seen EXCEPT ![h] = seen[h] \union {s}]
      /\ ranges' = [ranges EXCEPT ![h] = Record(ranges[h], s)]
  BY <1>1, <1>3, Zenon DEF RecordsPayload
<1>5. OrderedBelow(ranges[h], s) /\ Covered(ranges[h]) = seen[h]
  BY <1>1, <1>2, <1>4, Zenon DEF HandleInv
<1>6. /\ Accepts(ranges[h], s) /\ Record(ranges[h], s) \in Seq(SequenceRanges)
      /\ OrderedBelow(Record(ranges[h], s), s + 1)
      /\ Covered(Record(ranges[h], s)) = seen[h] \union {s}
  <2>1. s \in Nat /\ s # 0 /\ s <= MaxSequence
    BY <1>1, HarnessAssumption, TrackerAssumption
  <2>. QED  BY <1>3, <1>5, <2>1, RecordAdds, Zenon
<1>7. /\ seen' \in [Handles -> SUBSET Nat] /\ ranges' \in [Handles -> Seq(SequenceRanges)]
      /\ ranges'[h] = Record(ranges[h], s) /\ seen'[h] = seen[h] \union {s}
      /\ \A g \in Handles \ {h} : last'[g] = last[g] /\ seen'[g] = seen[g] /\ ranges'[g] = ranges[g]
  <2>1. s \in Nat /\ seen[h] \union {s} \in SUBSET Nat
    BY <1>3, Zenon
  <2>. QED  BY <1>3, <1>4, <1>6, <2>1, Zenon
<1>8. last'[h] < s + 1 /\ (s + 1) - 1 = s
  BY <1>1, <1>3, <1>4
<1>9. /\ \A q \in seen'[h] : q < s + 1
      /\ \A q \in 1..((s + 1) - 1) : q \in seen'[h] \/ q + Capacity <= Len(log)
      /\ OrderedBelow(ranges'[h], s + 1) /\ Covered(ranges'[h]) = seen'[h]
  BY <1>1, <1>6, <1>7, <1>8, Zenon
<1>10. ~ failed'
  BY <1>2, <1>4, <1>6, Zenon
<1>11. last' \in [Handles -> Nat]
  BY <1>3, <1>4, Zenon
<1>. QED  BY <1>1, <1>7, <1>8, <1>9, <1>10, <1>11, CursorMoves, Zenon

-----------------------------------------------------------------------------
LEMMA HarnessProducerKeeps ==
    ASSUME HarnessInv, ProducerStep
    PROVE  HarnessInv'
<1>1. CASE ProducerEnds
  <2>1. /\ producing = "loop" /\ producing' = "done" /\ producer_done'
        /\ UNCHANGED <<log, attached, next_sequence, test, published, next, consuming, loaded, metrics, failed>>
    BY <1>1, Zenon DEF ProducerEnds, contract
  <2>. QED  BY <2>1, HarnessProducerEndsKeeps, Zenon
<1>2. CASE BenchmarkProducerEnds
  <2>1. /\ producing = "loop" /\ producing' = "done" /\ UNCHANGED producer_done
        /\ UNCHANGED <<log, attached, next_sequence, test, published, next, consuming, loaded, metrics, failed>>
    BY <1>2, Zenon DEF BenchmarkProducerEnds, contract
  <2>2. producer_done => producer_done'
    BY <2>1
  <2>. QED  BY <2>1, <2>2, HarnessProducerEndsKeeps, Zenon
<1>. QED  BY <1>1, <1>2, PublishesKeeps, PublishReturnsKeeps, Zenon DEF ProducerStep

LEMMA HarnessConsumerKeeps ==
    ASSUME HarnessInv, NEW h \in Handles, ConsumerStep(h)
    PROVE  HarnessInv'
<1>1. HarnessTypes /\ LoadInv(h)
  BY Zenon DEF HarnessInv, HandleInv
<1>2. /\ loaded \in [Handles -> Nat] /\ loaded[h] \in Nat /\ published \in Nat /\ loaded[h] <= published
      /\ next_sequence[h] \in Nat
  BY <1>1, Zenon DEF HarnessTypes, LoadInv
<1>3. /\ loaded[h] \in loaded[h]..published /\ loaded = [loaded EXCEPT ![h] = loaded[h]]
      /\ published \in loaded[h]..published
  BY <1>2
<1>4. CASE SeesRunning(h)
  <2>1. /\ consuming' = [consuming EXCEPT ![h] = "read"] /\ loaded' = [loaded EXCEPT ![h] = loaded[h]]
        /\ UNCHANGED <<contract, test, producer, metrics, failed>>
    BY <1>3, <1>4, Zenon DEF SeesRunning, Consume
  <2>. QED  BY <1>3, <2>1, HarnessLooksKeeps, Zenon
<1>5. CASE SeesDone(h)
  <2>1. /\ consuming' = [consuming EXCEPT ![h] = "cursor"] /\ loaded' = [loaded EXCEPT ![h] = published]
        /\ producer_done /\ UNCHANGED <<contract, test, producer, metrics, failed>>
    BY <1>5, Zenon DEF SeesDone, Consume, Load
  <2>. QED  BY <1>3, <2>1, HarnessLooksKeeps, Zenon
<1>6. CASE SeesStopped(h)
  <2>1. /\ consuming' = [consuming EXCEPT ![h] = "cursor"] /\ loaded' = [loaded EXCEPT ![h] = loaded[h]]
        /\ test # "stress" /\ UNCHANGED <<contract, test, producer, metrics, failed>>
    BY <1>3, <1>6, Zenon DEF SeesStopped, Consume
  <2>. QED  BY <1>3, <2>1, HarnessLooksKeeps, Zenon
<1>7. CASE TestsCursor(h)
  <2>1. PICK value \in 0..published :
            /\ Load(h, value)
            /\ Consume(h, "cursor", IF next_sequence[h] <= value THEN "read" ELSE "done")
            /\ UNCHANGED <<contract, test, stopped, producer, metrics, failed>>
    BY <1>7, Zenon DEF TestsCursor
  <2>2. PICK l \in {"test", "cursor", "read", "done"} :
            l = IF next_sequence[h] <= value THEN "read" ELSE "done"
    BY Zenon
  <2>3. /\ value \in loaded[h]..published /\ loaded' = [loaded EXCEPT ![h] = value]
        /\ consuming[h] = "cursor" /\ consuming' = [consuming EXCEPT ![h] = l]
        /\ UNCHANGED <<contract, test, producer, metrics, failed>>
    BY <2>1, <2>2, Zenon DEF Load, Consume
  <2>4. test = "stress" => producer_done /\ loaded[h] = published
    BY <1>1, <2>3, Zenon DEF LoadInv
  <2>5. test = "stress" => value = published
    BY <1>2, <2>3, <2>4
  <2>6. test = "stress" /\ l = "done" => published < next_sequence[h]
    BY <1>2, <2>2, <2>5
  <2>. QED  BY <2>3, <2>4, <2>5, <2>6, HarnessLooksKeeps, Zenon
<1>8. CASE ReadsNothing(h)
  <2>1. PICK value \in 0..published :
            /\ Load(h, value) /\ Consume(h, "read", "test")
            /\ UNCHANGED <<contract, test, stopped, producer, metrics, failed>>
    BY <1>8, Zenon DEF ReadsNothing
  <2>2. /\ value \in loaded[h]..published /\ loaded' = [loaded EXCEPT ![h] = value]
        /\ consuming' = [consuming EXCEPT ![h] = "test"]
        /\ UNCHANGED <<contract, test, producer, metrics, failed>>
    BY <2>1, Zenon DEF Load, Consume
  <2>. QED  BY <2>2, HarnessLooksKeeps, Zenon
<1>. QED  BY <1>4, <1>5, <1>6, <1>7, <1>8, LagsKeeps, ReadsKeeps, RecordsPayloadKeeps, Zenon DEF ConsumerStep

LEMMA HarnessStepKeeps ==
    ASSUME HarnessInv, [HarnessNext]_allvars
    PROVE  HarnessInv'
<1>1. CASE Stop
  <2>1. UNCHANGED <<log, attached, next_sequence, test, producer, consuming, loaded, metrics, failed>>
    BY <1>1, Zenon DEF Stop, contract
  <2>. QED  BY <2>1, HarnessQuietKeeps, Zenon
<1>2. CASE UNCHANGED allvars
  <2>1. UNCHANGED <<log, attached, next_sequence, test, producer, consuming, loaded, metrics, failed>>
    BY <1>2, Zenon DEF allvars, contract
  <2>. QED  BY <2>1, HarnessQuietKeeps, Zenon
<1>. QED  BY <1>1, <1>2, HarnessProducerKeeps, HarnessConsumerKeeps, Zenon DEF HarnessNext, Finished

\* HarnessInv is an invariant of the programs that drive a multicast queue: what a
\* cursor has passed was seen or has been replaced, and a consumer of the stress
\* test that has seen producer_done goes by the final value of published_.
THEOREM HarnessInvariant == HarnessSpec => []HarnessInv
<1>1. HarnessInv /\ [HarnessNext]_allvars => HarnessInv'
  BY HarnessStepKeeps, Zenon
<1>. QED  BY <1>1, HarnessInitInv, PTL DEF HarnessSpec

\* The multicast stress test never records a failure against a queue that keeps the
\* contract, and no consumer leaves its loop before it has seen every publication
\* that is retained: for any number of consumers and messages and every capacity.
THEOREM MulticastStressPasses == HarnessSpec => []StressPasses
<1>1. ASSUME HarnessInv PROVE StressPasses
  <2>1. ~ failed
    BY <1>1, Zenon DEF HarnessInv
  <2>2. ASSUME test = "stress", NEW h \in Handles, consuming[h] = "done"
        PROVE  /\ producer_done
               /\ \A s \in 1..Len(log) : s + Capacity > Len(log) => s \in seen[h]
    <3>1. producer_done /\ published < next_sequence[h]
      BY <1>1, <2>2, Zenon DEF HarnessInv, HandleInv, LoadInv
    <3>2. Len(log) + 1 = next /\ published + 1 = next
      BY <1>1, <3>1, Zenon DEF HarnessInv, ProducerInv
    <3>3. published \in Nat /\ log \in Seq(Nat) /\ next_sequence[h] \in Nat
      BY <1>1, Zenon DEF HarnessInv, HarnessTypes
    <3>4. Len(log) \in Nat
      BY <3>3
    <3>5. ASSUME NEW s \in 1..Len(log), s + Capacity > Len(log) PROVE s \in seen[h]
      <4>1. s \in 1..(next_sequence[h] - 1)
        BY <3>1, <3>2, <3>3, <3>4
      <4>2. s \in seen[h] \/ s + Capacity <= Len(log)
        BY <1>1, <4>1, Zenon DEF HarnessInv, HandleInv, SeenInv
      <4>3. ~ (s + Capacity <= Len(log))
        BY <3>4, <3>5, HarnessAssumption
      <4>. QED  BY <4>2, <4>3, Zenon
    <3>. QED  BY <3>1, <3>5, Zenon
  <2>. QED  BY <2>1, <2>2, Zenon DEF StressPasses
<1>. QED  BY <1>1, HarnessInvariant, PTL

\* The benchmark's tracker of a consumer stands for exactly the sequences it has
\* read, in ranges of which no two could be one, however far the consumer lags.
THEOREM TrackersLoseNothing == HarnessSpec => []EachTrackerIsExact
<1>1. HarnessInv => EachTrackerIsExact
  BY Zenon DEF HarnessInv, HandleInv, OrderedBelow, EachTrackerIsExact
<1>. QED  BY <1>1, HarnessInvariant, PTL

-----------------------------------------------------------------------------
(* count_unique_sequences: first a turn of its loop, about sets of         *)
(* sequences alone.                                                        *)

\* The sequences below a range that closes, and the range itself, are counted.
LEMMA CountClosed ==
    ASSUME NEW M \in SUBSET (1..MaxSequence), NEW a \in Nat, NEW b \in Nat, a <= b,
           {s \in M : a <= s} = a..b
    PROVE  /\ Cardinality({s \in M : s < a}) + (b - a) + 1 = Cardinality(M)
           /\ Cardinality(M) \in 0..MaxSequence
<1>1. IsFiniteSet(1..MaxSequence) /\ Cardinality(1..MaxSequence) <= MaxSequence
  BY TrackerAssumption, FS_Interval
<1>2. IsFiniteSet(M) /\ Cardinality(M) <= Cardinality(1..MaxSequence)
  BY <1>1, FS_Subset, Zenon
<1>3. Cardinality(M) \in Nat /\ Cardinality(1..MaxSequence) \in Nat
  BY <1>1, <1>2, FS_CardinalityType, Zenon
<1> DEFINE B == {s \in M : s < a}
<1>4. B \in SUBSET M
  BY Zenon
<1>5. IsFiniteSet(B)
  BY <1>2, <1>4, FS_Subset, Zenon
<1>6. Cardinality(B) \in Nat
  BY <1>5, FS_CardinalityType, Zenon
<1>7. IsFiniteSet(a..b) /\ Cardinality(a..b) = b - a + 1
  BY FS_Interval
<1>8. M = B \cup (a..b)
  <2>1. ASSUME NEW s \in M PROVE s < a \/ a <= s
    BY TrackerAssumption
  <2>2. ASSUME NEW s \in M PROVE s \in B \cup (a..b)
    BY <2>1, Zenon
  <2>3. a..b \subseteq M
    BY Zenon
  <2>. QED  BY <2>2, <2>3, Zenon
<1>9. B \cap (a..b) = {}
  <2>1. ASSUME NEW s \in a..b, s < a PROVE FALSE
    BY <2>1
  <2>. QED  BY <2>1, Zenon
<1>10. Cardinality(M) = Cardinality(B) + Cardinality(a..b) - Cardinality(B \cap (a..b))
  BY <1>5, <1>7, <1>8, FS_Union, Zenon
<1>11. Cardinality(B \cap (a..b)) = 0
  BY <1>9, FS_EmptySet, Zenon
<1>. HIDE DEF B
<1>12. Cardinality(B) + (b - a) + 1 = Cardinality(M)
  BY <1>3, <1>6, <1>7, <1>10, <1>11
<1>13. Cardinality(M) \in 0..MaxSequence
  BY <1>1, <1>2, <1>3, TrackerAssumption
<1>. QED  BY <1>12, <1>13 DEF B

\* What was merged before is all below a range beyond a gap ...
LEMMA BeforeGap ==
    ASSUME NEW M \in SUBSET (1..MaxSequence), NEW a \in Nat, NEW b \in Nat, NEW c \in Nat,
           {s \in M : a <= s} = a..b, a <= b, b < c
    PROVE  \A s \in M : s < c /\ ~ (c <= s)
<1>. SUFFICES ASSUME NEW s \in M PROVE s < c /\ ~ (c <= s)
  BY Zenon
<1>1. s \in Nat
  BY TrackerAssumption
<1>2. CASE a <= s
  <2>1. s \in a..b
    BY <1>2, Zenon
  <2>. QED  BY <1>1, <2>1
<1>3. CASE ~ (a <= s)
  BY <1>1, <1>3
<1>. QED  BY <1>2, <1>3, Zenon

\* ... and the range is all that is not.
LEMMA BeyondGap ==
    ASSUME NEW M, NEW c \in Nat, NEW d \in Nat, \A s \in M : s < c /\ ~ (c <= s)
    PROVE  /\ {s \in M \cup (c..d) : c <= s} = c..d
           /\ {s \in M \cup (c..d) : s < c} = M
<1>1. ASSUME NEW s \in c..d PROVE c <= s /\ ~ (s < c)
  OBVIOUS
<1>. QED  BY <1>1, Zenon

\* A range that touches or overlaps the current one makes it longer.
LEMMA WithoutGap ==
    ASSUME NEW M \in SUBSET (1..MaxSequence), NEW a \in Nat, NEW b \in Nat,
           {s \in M : a <= s} = a..b,
           NEW c \in Nat, NEW d \in Nat, a <= b, a <= c, c <= b + 1, c <= d
    PROVE  /\ {s \in M \cup (c..d) : a <= s} = a..(IF d > b THEN d ELSE b)
           /\ {s \in M \cup (c..d) : s < a} = {s \in M : s < a}
<1>1. ASSUME NEW s \in c..d PROVE s \in Nat /\ a <= s /\ ~ (s < a)
  OBVIOUS
<1>2. a..(IF d > b THEN d ELSE b) = (a..b) \cup (c..d)
  OBVIOUS
<1>3. {s \in M \cup (c..d) : a <= s} = (a..b) \cup (c..d)
  BY <1>1, Zenon
<1>4. {s \in M \cup (c..d) : s < a} = {s \in M : s < a}
  BY <1>1, Zenon
<1>. QED  BY <1>2, <1>3, <1>4

-----------------------------------------------------------------------------
(* The loop.                                                               *)

\* What is counted fits in the type of a sequence.
LEMMA FitsInType ==
    ASSUME NEW x \in 0..MaxSequence
    PROVE  InType(x) = x
<1>1. PICK C \in Nat \ {0} : C = MaxSequence + 1
  BY TrackerAssumption
<1>2. x \in Nat /\ x < C
  BY <1>1, TrackerAssumption
<1>3. x % C = x
  BY <1>2, SmallRemainder, Zenon
<1>. QED  BY <1>1, <1>3, Zenon DEF InType

\* What has been merged lies within the type of a sequence.
LEMMA MergedBounded ==
    ASSUME LoopInv, NEW n \in 1..Len(sorted)
    PROVE  Merged(n) \in SUBSET (1..MaxSequence)
<1>1. Len(sorted) \in Nat
  BY DEF LoopInv
<1>2. ASSUME NEW k \in 1..n PROVE sorted[k].first..sorted[k].last \subseteq 1..MaxSequence
  <2>1. k \in 1..Len(sorted)
    BY <1>1
  <2>2. /\ sorted[k] \in SequenceRanges
        /\ 1 <= sorted[k].first /\ sorted[k].last <= MaxSequence
    BY <2>1 DEF LoopInv
  <2>. QED  BY <2>2, TrackerAssumption DEF SequenceRanges
<1>. QED  BY <1>2, Zenon DEF Merged

\* The next range is all that the next turn adds.
LEMMA MergedNext ==
    ASSUME NEW n \in Nat
    PROVE  Merged(n + 1) = Merged(n) \cup (sorted[n + 1].first..sorted[n + 1].last)
<1>1. 1..(n + 1) = (1..n) \cup {n + 1}
  OBVIOUS
<1>. QED  BY <1>1, Zenon DEF Merged

\* Counted is the number of sequences merged so far.
LEMMA CountedIsMerged ==
    ASSUME LoopInv
    PROVE  Counted = Cardinality(Merged(index)) /\ Counted \in Nat
<1>1. PICK M \in SUBSET (1..MaxSequence) : M = Merged(index)
  BY MergedBounded, Zenon DEF LoopInv
<1>2. PICK a \in Nat, b \in Nat : a = current.first /\ b = current.last
  BY Zenon DEF LoopInv, SequenceRanges
<1>3. /\ a <= b /\ {s \in M : a <= s} = a..b
      /\ count = Cardinality({s \in M : s < a})
  BY <1>1, <1>2, Zenon DEF LoopInv
<1>4. /\ count + (b - a) + 1 = Cardinality(M)
      /\ Cardinality(M) \in 0..MaxSequence
  BY <1>3, CountClosed, Zenon
<1>5. Counted = Cardinality(M)
  BY <1>2, <1>4, FitsInType, Zenon DEF Counted
<1>. QED  BY <1>1, <1>4, <1>5, TrackerAssumption

\* A turn of the loop keeps its invariant.
LEMMA MergesKeeps ==
    ASSUME LoopInv, Merges
    PROVE  LoopInv'
<1> DEFINE range == sorted[index + 1]
<1>1. /\ index < Len(sorted) /\ index' = index + 1 /\ UNCHANGED <<sorted, seen>>
      /\ Gap(range) => count' = Counted /\ current' = range
      /\ ~ Gap(range) => /\ current' = IF range.last > current.last
                                       THEN [current EXCEPT !.last = range.last] ELSE current
                         /\ count' = count
  BY Zenon DEF Merges, allvars, metrics
<1>2. PICK n \in Nat : n = Len(sorted)
  BY DEF LoopInv
<1>3. /\ index \in 1..n /\ index + 1 \in 1..n /\ index \in 1..(n - 1) /\ index \in Nat
  BY <1>1, <1>2 DEF LoopInv
<1>4. PICK a \in Nat, b \in Nat : current = SequenceRange(a, b)
  BY DEF LoopInv, SequenceRanges, SequenceRange
<1>5. PICK c \in Nat, d \in Nat : range = SequenceRange(c, d)
  <2>1. sorted \in Seq(SequenceRanges)
    BY Zenon DEF LoopInv
  <2>2. range \in SequenceRanges
    BY <1>2, <1>3, <2>1
  <2>. QED  BY <2>2 DEF SequenceRanges, SequenceRange
<1>6. current.first = a /\ current.last = b /\ range.first = c /\ range.last = d
  BY <1>4, <1>5 DEF SequenceRange
<1>7. sorted[index].first \in Nat
  <2>1. sorted \in Seq(SequenceRanges)
    BY Zenon DEF LoopInv
  <2>2. sorted[index] \in SequenceRanges
    BY <1>2, <1>3, <2>1
  <2>. QED  BY <2>2, Zenon DEF SequenceRanges
<1>8. 1 <= a /\ a <= b /\ b <= MaxSequence /\ a <= sorted[index].first
  BY <1>6, Zenon DEF LoopInv
<1>9. 1 <= c /\ c <= d /\ d <= MaxSequence /\ sorted[index].first <= c
  BY <1>2, <1>3, <1>6, Zenon DEF LoopInv
<1>10. a <= c
  BY <1>7, <1>8, <1>9
<1>11. PICK M \in SUBSET (1..MaxSequence) : M = Merged(index)
  BY <1>2, <1>3, MergedBounded, Zenon
<1>12. {s \in M : a <= s} = a..b /\ count = Cardinality({s \in M : s < a})
  BY <1>6, <1>11, Zenon DEF LoopInv
<1>13. Merged(index + 1) = M \cup (c..d)
  BY <1>3, <1>6, <1>11, MergedNext, Zenon
<1>14. /\ Merged(Len(sorted))' = Merged(Len(sorted)) /\ Merged(index)' = M \cup (c..d) /\ Read' = Read
  BY <1>1, <1>13, Zenon DEF Merged, Read
<1>15. /\ current' \in SequenceRanges /\ count' \in Nat
       /\ 1 <= current'.first /\ current'.first <= c
       /\ current'.first <= current'.last /\ current'.last <= MaxSequence
       /\ {s \in M \cup (c..d) : current'.first <= s} = current'.first..current'.last
       /\ count' = Cardinality({s \in M \cup (c..d) : s < current'.first})
  <2>1. CASE Gap(range)
    <3>1. current' = range /\ count' = Counted
      BY <1>1, <2>1, Zenon
    <3>2. b < c
      <4>1. b # MaxSequence /\ c > Successor(b)
        BY <1>6, <2>1, Zenon DEF Gap
      <4>2. Successor(b) = b + 1
        BY <1>8, <4>1, NoWrap, TrackerAssumption
      <4>. QED  BY <4>1, <4>2
    <3>3. /\ {s \in M \cup (c..d) : c <= s} = c..d
          /\ {s \in M \cup (c..d) : s < c} = M
      <4>1. \A s \in M : s < c /\ ~ (c <= s)
        BY <1>8, <1>12, <3>2, BeforeGap, Zenon
      <4>. QED  BY <4>1, BeyondGap, Zenon
    <3>4. count' = Cardinality(M) /\ count' \in Nat
      BY <1>11, <3>1, CountedIsMerged, Zenon
    <3>5. current' \in SequenceRanges /\ current'.first = c /\ current'.last = d /\ c <= c
      BY <1>5, <1>6, <3>1 DEF SequenceRanges, SequenceRange
    <3>. QED  BY <1>9, <3>3, <3>4, <3>5, Zenon
  <2>2. CASE ~ Gap(range)
    <3>1. count' = count /\ count \in Nat
      BY <1>1, <2>2, Zenon DEF LoopInv
    <3>2. c <= b + 1
      <4>1. b = MaxSequence \/ ~ (c > Successor(b))
        BY <1>6, <2>2, Zenon DEF Gap
      <4>2. CASE b = MaxSequence
        BY <1>9, <4>2, TrackerAssumption
      <4>3. CASE b # MaxSequence
        <5>1. Successor(b) = b + 1
          BY <1>8, <4>3, NoWrap, TrackerAssumption
        <5>. QED  BY <4>1, <4>3, <5>1
      <4>. QED  BY <4>2, <4>3, Zenon
    <3>3. PICK e \in Nat : e = IF d > b THEN d ELSE b
      OBVIOUS
    <3>4. /\ {s \in M \cup (c..d) : a <= s} = a..e
          /\ {s \in M \cup (c..d) : s < a} = {s \in M : s < a}
      BY <1>8, <1>9, <1>10, <1>12, <3>2, <3>3, WithoutGap
    <3>5. current' = SequenceRange(a, e)
      BY <1>1, <1>4, <1>6, <2>2, <3>3 DEF SequenceRange
    <3>6. current' \in SequenceRanges /\ current'.first = a /\ current'.last = e
      BY <3>5 DEF SequenceRanges, SequenceRange
    <3>7. a <= e /\ e <= MaxSequence
      BY <1>8, <1>9, <3>3
    <3>. QED  BY <1>8, <1>10, <1>12, <3>1, <3>4, <3>6, <3>7, Zenon
  <2>. QED  BY <2>1, <2>2, Zenon
<1>16. sorted'[index'].first = c /\ index' \in 1..Len(sorted)
  BY <1>1, <1>2, <1>3, <1>6, Zenon
<1>. QED  BY <1>1, <1>14, <1>15, <1>16, Zenon DEF LoopInv

-----------------------------------------------------------------------------
(* The sort.                                                               *)

\* There are finitely many ranges.
LEMMA PlacesFinite ==
    ASSUME HarnessTypes
    PROVE  IsFiniteSet(Places)
<1> DEFINE At(h) == {h} \X DOMAIN ranges[h]
           Parts == {At(h) : h \in Handles}
           f == [h \in Handles |-> At(h)]
<1>1. f \in Surjection(Handles, Parts)
  BY Zenon DEF Surjection
<1>2. IsFiniteSet(Handles)
  BY HarnessAssumption
<1>3. IsFiniteSet(Parts)
  BY <1>1, <1>2, FS_Surjection, Zenon
<1>4. ASSUME NEW h \in Handles PROVE IsFiniteSet(At(h))
  <2>1. ranges[h] \in Seq(SequenceRanges)
    BY Zenon DEF HarnessTypes
  <2>2. Len(ranges[h]) \in Int /\ DOMAIN ranges[h] = 1..Len(ranges[h])
    BY <2>1
  <2>3. IsFiniteSet(DOMAIN ranges[h])
    BY <2>2, FS_Interval
  <2>4. IsFiniteSet({h})
    BY FS_Singleton, Zenon
  <2>. QED  BY <2>3, <2>4, FS_Product, Zenon
<1>5. \A P \in Parts : IsFiniteSet(P)
  BY <1>4, Zenon
<1>. QED  BY <1>3, <1>5, FS_UNION, Zenon DEF Places

\* Each range a trial has left lies within the type of a sequence, without 0, and
\* stands for sequences that have been read.
LEMMA RangeAtPlace ==
    ASSUME HarnessInv, 0 \notin Read, test = "benchmark", producing = "done",
           NEW p \in Places
    PROVE  LET range == ranges[p[1]][p[2]]
           IN  /\ range \in SequenceRanges
               /\ 1 <= range.first /\ range.first <= range.last /\ range.last <= MaxSequence
               /\ range.first..range.last \subseteq Read
<1>1. PICK h \in Handles : p \in {h} \X DOMAIN ranges[h]
  BY Zenon DEF Places
<1> DEFINE i == p[2]
<1>1a. p[1] = h /\ i \in DOMAIN ranges[h]
  BY <1>1
<1>2. HarnessTypes /\ HandleInv(h) /\ ProducerInv
  BY Zenon DEF HarnessInv
<1>3. ranges[h] \in Seq(SequenceRanges) /\ log \in Seq(Nat) /\ next_sequence[h] \in Nat /\ next \in Nat
  BY <1>2, Zenon DEF HarnessTypes
<1>4. ranges[h][i] \in SequenceRanges /\ Len(log) \in Nat
  BY <1>1a, <1>3
<1>5. PICK a \in Nat, b \in Nat : a = ranges[h][i].first /\ b = ranges[h][i].last
  BY <1>4, Zenon DEF SequenceRanges
<1>6. Covered(ranges[h]) = seen[h] /\ a <= b /\ b < next_sequence[h]
  BY <1>1a, <1>2, <1>5, Zenon DEF HandleInv, OrderedBelow
<1>7. next_sequence[h] <= Len(log) + 1 /\ Len(log) + 1 = next /\ next <= Iterations + 1
  BY <1>2, Zenon DEF HandleInv, SeenInv, ProducerInv
<1>8. b <= MaxSequence
  BY <1>3, <1>4, <1>6, <1>7, HarnessAssumption, TrackerAssumption
<1>9. a..b \subseteq Read
  BY <1>1a, <1>5, <1>6, Zenon DEF Covered, Read
<1>10. a \in a..b
  BY <1>6
<1>11. 1 <= a
  <2>1. a # 0
    BY <1>9, <1>10, Zenon
  <2>. QED  BY <2>1
<1>. QED  BY <1>1a, <1>4, <1>5, <1>6, <1>8, <1>9, <1>11, Zenon

\* The ranges are sorted by where they begin and stand for what has been read.
LEMMA SortsBegins ==
    ASSUME HarnessInv, 0 \notin Read, count = 0, Sorts
    PROVE  LoopInv'
<1>1. /\ test = "benchmark" /\ producing = "done" /\ Places # {}
      /\ index' = 1 /\ current' = sorted'[1] /\ count' = 0 /\ UNCHANGED seen
      /\ \A k \in 1..(Len(sorted') - 1) : ~ Before(sorted'[k + 1], sorted'[k])
  BY Zenon DEF Sorts, Calls, Joined, allvars, metrics
<1>2. PICK order \in Bijection(1..Cardinality(Places), Places) :
          sorted' = [k \in DOMAIN order |-> ranges[order[k][1]][order[k][2]]]
  BY Zenon DEF Sorts
<1>3. PICK n \in Nat : n = Cardinality(Places) /\ n # 0
  <2>1. IsFiniteSet(Places)
    BY PlacesFinite, Zenon DEF HarnessInv
  <2>. QED  BY <1>1, <2>1, FS_CardinalityType, FS_EmptySet, Zenon
<1>4. /\ order \in [1..n -> Places]
      /\ \A p \in Places : \E k \in 1..n : order[k] = p
  BY <1>3, Zenon DEF Bijection, Injection, Surjection
<1>5. sorted' = [k \in 1..n |-> ranges[order[k][1]][order[k][2]]]
  BY <1>2, <1>4, Zenon
<1>6. ASSUME NEW k \in 1..n
      PROVE  /\ sorted'[k] \in SequenceRanges
             /\ 1 <= sorted'[k].first /\ sorted'[k].first <= sorted'[k].last
             /\ sorted'[k].last <= MaxSequence
             /\ sorted'[k].first..sorted'[k].last \subseteq Read
  <2>1. order[k] \in Places /\ sorted'[k] = ranges[order[k][1]][order[k][2]]
    BY <1>4, <1>5, Zenon
  <2>. QED  BY <1>1, <2>1, RangeAtPlace, Zenon
<1>7. sorted' \in Seq(SequenceRanges) /\ Len(sorted') = n
  <2>1. sorted' = [k \in 1..n |-> sorted'[k]]
    BY <1>5, Zenon
  <2>2. sorted' \in [1..n -> SequenceRanges]
    BY <1>6, <2>1, Zenon
  <2>. QED  BY <2>2
<1>8. Merged(n)' = Read
  <2>1. Merged(n)' = UNION {sorted'[k].first..sorted'[k].last : k \in 1..n}
    BY Zenon DEF Merged
  <2>2. Merged(n)' \subseteq Read
    BY <1>6, <2>1, Zenon
  <2>3. ASSUME NEW h \in Handles, NEW s \in seen[h] PROVE s \in Merged(n)'
    <3>1. Covered(ranges[h]) = seen[h]
      BY <1>1, Zenon DEF HarnessInv, HandleInv
    <3>2. PICK i \in DOMAIN ranges[h] : s \in ranges[h][i].first..ranges[h][i].last
      BY <3>1, Zenon DEF Covered
    <3>3. <<h, i>> \in Places
      <4>1. <<h, i>> \in {h} \X DOMAIN ranges[h]
        OBVIOUS
      <4>. QED  BY <4>1, Zenon DEF Places
    <3>4. PICK k \in 1..n : order[k] = <<h, i>>
      BY <1>4, <3>3, Zenon
    <3>5. order[k][1] = h /\ order[k][2] = i
      BY <3>4
    <3>6. sorted'[k] = ranges[h][i]
      BY <1>5, <3>5, Zenon
    <3>. QED  BY <2>1, <3>2, <3>6, Zenon
  <2>. QED  BY <2>2, <2>3, Zenon DEF Read
<1>9. ASSUME NEW k \in 1..(n - 1) PROVE sorted'[k].first <= sorted'[k + 1].first
  <2>1. k \in 1..n /\ k + 1 \in 1..n
    OBVIOUS
  <2>2. sorted'[k].first \in Nat /\ sorted'[k + 1].first \in Nat
    BY <1>6, <2>1, Zenon DEF SequenceRanges
  <2>3. ~ (sorted'[k + 1].first < sorted'[k].first)
    BY <1>1, <1>7, Zenon DEF Before
  <2>. QED  BY <2>2, <2>3
<1>10. 1 \in 1..n
  BY <1>3
<1>11. PICK a \in Nat, b \in Nat : a = sorted'[1].first /\ b = sorted'[1].last
  BY <1>6, <1>10, Zenon DEF SequenceRanges
<1>12. Merged(1)' = a..b
  <2>1. 1..1 = {1}
    OBVIOUS
  <2>. QED  BY <1>11, <2>1, Zenon DEF Merged
<1>13. \A s \in a..b : a <= s /\ ~ (s < a)
  OBVIOUS
<1>14. {s \in Merged(1)' : a <= s} = a..b /\ {s \in Merged(1)' : s < a} = {}
  BY <1>12, <1>13, Zenon
<1>15. count' = Cardinality({s \in Merged(1)' : s < a}) /\ count' \in Nat
  <2>1. 0 \in Nat
    OBVIOUS
  <2>. QED  BY <1>1, <1>14, <2>1, FS_EmptySet, Zenon
<1>16. Read' = Read /\ Merged(Len(sorted))' = Merged(n)' /\ Merged(index)' = Merged(1)' /\ a <= a
  BY <1>1, <1>7, <1>11 DEF Read, Merged
<1>. QED  BY <1>1, <1>6, <1>7, <1>8, <1>9, <1>10, <1>11, <1>14, <1>15, <1>16, Zenon DEF LoopInv

-----------------------------------------------------------------------------
(* The call as a whole.                                                    *)

\* Once all threads have been joined nothing is read any more.
LEMMA JoinedIsFinal ==
    ASSUME HarnessNext, Joined
    PROVE  Joined' /\ UNCHANGED seen
<1>1. ~ ProducerStep
  BY DEF Joined, ProducerStep, Publishes, PublishReturns, ProducerEnds, BenchmarkProducerEnds
<1>2. ASSUME NEW h \in Handles, ConsumerStep(h) PROVE FALSE
  <2>1. consuming[h] = "done"
    BY Zenon DEF Joined
  <2>2. consuming[h] \in {"test", "cursor", "read"}
    BY <1>2, Zenon DEF ConsumerStep, SeesRunning, SeesDone, SeesStopped, TestsCursor, ReadsNothing,
       Lags, Reads, RecordsPayload, Delivered, Consume
  <2>. QED  BY <2>1, <2>2
<1>3. CASE Stop
  BY <1>3, Zenon DEF Stop, Joined, producer, metrics
<1>4. CASE Finished
  BY <1>4, Zenon DEF Finished, Joined, allvars, producer, metrics
<1>. QED  BY <1>1, <1>2, <1>3, <1>4, Zenon DEF HarnessNext

\* No consumer is ever given a message 0.
LEMMA NothingReadIsZero ==
    ASSUME HarnessInv, HarnessNext, 0 \notin Read
    PROVE  0 \notin Read'
<1>1. CASE UNCHANGED seen
  BY <1>1, Zenon DEF Read
<1>2. ASSUME NEW h \in Handles, Reads(h) \/ RecordsPayload(h) PROVE 0 \notin Read'
  <2>1. PICK s \in Nat : s = next_sequence[h]
    BY Zenon DEF HarnessInv, HarnessTypes
  <2>2. s \in 1..Len(log)
    <3>1. PICK value \in 0..published : next_sequence[h] <= value
      BY <1>2, Zenon DEF Reads, RecordsPayload, Delivered
    <3>2. 1 <= s
      BY <2>1, Zenon DEF HarnessInv, HandleInv, SeenInv
    <3>3. published \in Nat /\ log \in Seq(Nat)
      BY Zenon DEF HarnessInv, HarnessTypes
    <3>4. published <= Len(log)
      <4>1. next \in Nat /\ Len(log) \in Nat
        BY <3>3 DEF HarnessInv, HarnessTypes
      <4>2. \/ Len(log) = next /\ published + 1 = next
            \/ Len(log) + 1 = next /\ published + 1 = next
        BY Zenon DEF HarnessInv, ProducerInv
      <4>. QED  BY <3>3, <4>1, <4>2
    <3>. QED  BY <2>1, <3>1, <3>2, <3>3, <3>4
  <2>3. s # 0 /\ log[s] = s
    <3>1. log[s] = s
      BY <2>2, Zenon DEF HarnessInv, ProducerInv
    <3>. QED  BY <2>2, <3>1
  <2>4. seen' \in {[seen EXCEPT ![h] = @ \union {s}], [seen EXCEPT ![h] = @]}
    BY <1>2, <2>1, <2>3, Zenon DEF Reads, RecordsPayload
  <2>5. seen \in [Handles -> SUBSET Nat]
    BY Zenon DEF HarnessInv, HarnessTypes
  <2>6. ASSUME NEW g \in Handles PROVE seen'[g] \subseteq seen[g] \union {s}
    BY <2>4, <2>5, Zenon
  <2>7. Read' = UNION {seen'[g] : g \in Handles}
    BY Zenon DEF Read
  <2>8. ASSUME NEW g \in Handles, 0 \in seen'[g] PROVE FALSE
    <3>1. 0 \in seen[g] \/ 0 = s
      BY <2>6, <2>8, Zenon
    <3>. QED  BY <2>3, <3>1, Zenon DEF Read
  <2>. QED  BY <2>7, <2>8, Zenon
<1>3. CASE ProducerStep
  BY <1>1, <1>3, Zenon DEF ProducerStep, Publishes, PublishReturns, ProducerEnds, BenchmarkProducerEnds, metrics
<1>4. CASE Stop \/ Finished
  BY <1>1, <1>4, Zenon DEF Stop, Finished, allvars, metrics
<1>5. ASSUME NEW h \in Handles, ConsumerStep(h) PROVE 0 \notin Read'
  BY <1>1, <1>2, <1>5, Zenon DEF ConsumerStep, SeesRunning, SeesDone, SeesStopped, TestsCursor,
     ReadsNothing, Lags, metrics
<1>. QED  BY <1>3, <1>4, <1>5, Zenon DEF HarnessNext

\* The invariant of the loop is about its variables and what has been read.
LEMMA SameLoop ==
    ASSUME LoopInv, UNCHANGED <<sorted, index, current, count, seen>>
    PROVE  LoopInv'
<1>1. Merged(Len(sorted))' = Merged(Len(sorted)) /\ Merged(index)' = Merged(index) /\ Read' = Read
  BY Zenon DEF Merged, Read
<1>2. sorted' = sorted /\ index' = index /\ current' = current /\ count' = count
  BY Zenon
<1>. QED  BY <1>1, <1>2, Zenon DEF LoopInv

\* What the program does before or besides the call.
LEMMA ProgramKeepsCount ==
    ASSUME HarnessInv, CountInv, HarnessNext, UNCHANGED call
    PROVE  CountInv'
<1>1. 0 \notin Read'
  BY NothingReadIsZero, Zenon DEF CountInv
<1>2. UNCHANGED <<counting, sorted, index, current, count>>
  BY Zenon DEF call
<1>3. CASE counting = "no"
  BY <1>1, <1>2, <1>3 DEF CountInv
<1>4. CASE counting # "no"
  <2>1. Joined' /\ UNCHANGED seen
    BY <1>4, JoinedIsFinal, Zenon DEF CountInv
  <2>2. LoopInv => LoopInv'
    BY <1>2, <2>1, SameLoop, Zenon
  <2>3. Read' = Read
    BY <2>1, Zenon DEF Read
  <2>. QED  BY <1>1, <1>2, <1>4, <2>1, <2>2, <2>3, Zenon DEF CountInv
<1>. QED  BY <1>3, <1>4, Zenon

\* CountInv with HarnessInv is an invariant: at each turn of the loop all that was
\* merged is the current range and, below it, what was counted.
THEOREM CountInvariant == CountSpec => [](HarnessInv /\ CountInv)
<1>1. CountInit => HarnessInv /\ CountInv
  <2>. SUFFICES ASSUME CountInit PROVE HarnessInv /\ CountInv
    OBVIOUS
  <2>1. HarnessInv
    BY HarnessInitInv, Zenon DEF CountInit
  <2>2. 0 \notin Read
    BY Zenon DEF CountInit, HarnessInit, Read
  <2>3. counting = "no" /\ count = 0
    BY Zenon DEF CountInit
  <2>. QED  BY <2>1, <2>2, <2>3 DEF CountInv
<1>2. HarnessInv /\ CountInv /\ [CountNext]_countvars => (HarnessInv /\ CountInv)'
  <2>. SUFFICES ASSUME HarnessInv, CountInv, [CountNext]_countvars
                PROVE  HarnessInv' /\ CountInv'
    BY Zenon
  <2>1. [HarnessNext]_allvars
    <3>1. CASE UNCHANGED countvars
      BY <3>1, Zenon DEF countvars
    <3>2. CASE CountsNothing \/ Sorts \/ Merges \/ Returns
      <4>1. UNCHANGED allvars
        BY <3>2, Zenon DEF CountsNothing, Sorts, Merges, Returns
      <4>. QED  BY <4>1, Zenon
    <3>. QED  BY <3>1, <3>2, Zenon DEF CountNext
  <2>2. HarnessInv'
    BY <2>1, HarnessStepKeeps, Zenon
  <2>3. CASE HarnessNext /\ UNCHANGED call
    BY <2>2, <2>3, ProgramKeepsCount, Zenon
  <2>4. CASE UNCHANGED countvars
    <3>1. UNCHANGED <<seen, counting, sorted, index, current, count, producing, consuming>>
      BY <2>4, Zenon DEF countvars, allvars, metrics, producer, call
    <3>2. LoopInv => LoopInv'
      BY <3>1, SameLoop, Zenon
    <3>3. Read' = Read /\ Joined' = Joined
      BY <3>1, Zenon DEF Read, Joined
    <3>. QED  BY <2>2, <3>1, <3>2, <3>3, Zenon DEF CountInv
  <2>5. ASSUME UNCHANGED allvars
        PROVE  Read' = Read /\ Joined' = Joined
    <3>1. UNCHANGED <<seen, producing, consuming>>
      BY <2>5, Zenon DEF allvars, metrics, producer
    <3>. QED  BY <3>1, Zenon DEF Read, Joined
  <2>6. CASE CountsNothing
    <3>1. /\ test = "benchmark" /\ counting = "no" /\ Places = {} /\ Joined
          /\ counting' = "done" /\ UNCHANGED <<allvars, count>>
      BY <2>6, Zenon DEF CountsNothing, Calls
    <3>2. Read = {}
      <4>1. ASSUME NEW h \in Handles, NEW s \in seen[h] PROVE FALSE
        <5>1. Covered(ranges[h]) = seen[h]
          BY <3>1, Zenon DEF HarnessInv, HandleInv
        <5>2. PICK i \in DOMAIN ranges[h] : s \in ranges[h][i].first..ranges[h][i].last
          BY <5>1, Zenon DEF Covered
        <5>3. <<h, i>> \in {h} \X DOMAIN ranges[h]
          OBVIOUS
        <5>. QED  BY <3>1, <5>3, Zenon DEF Places
      <4>. QED  BY <4>1, Zenon DEF Read
    <3>3. count = 0
      BY <3>1, Zenon DEF CountInv
    <3>4. count' = Cardinality(Read')
      BY <2>5, <3>1, <3>2, <3>3, FS_EmptySet, Zenon
    <3>5. 0 \notin Read' /\ Joined'
      BY <2>5, <3>1, Zenon DEF CountInv
    <3>. QED  BY <2>2, <3>1, <3>4, <3>5 DEF CountInv
  <2>7. CASE Sorts
    <3>1. /\ counting = "no" /\ Joined /\ counting' = "loop" /\ UNCHANGED allvars
      BY <2>7, Zenon DEF Sorts, Calls
    <3>2. 0 \notin Read /\ count = 0
      BY <3>1, Zenon DEF CountInv
    <3>3. LoopInv'
      BY <2>7, <3>2, SortsBegins, Zenon
    <3>4. 0 \notin Read' /\ Joined'
      BY <2>5, <3>1, <3>2, Zenon
    <3>. QED  BY <2>2, <3>1, <3>3, <3>4 DEF CountInv
  <2>8. CASE Merges
    <3>1. counting = "loop" /\ counting' = "loop" /\ UNCHANGED allvars
      BY <2>8, Zenon DEF Merges
    <3>2. LoopInv /\ Joined
      BY <3>1, Zenon DEF CountInv
    <3>3. LoopInv'
      BY <2>8, <3>2, MergesKeeps, Zenon
    <3>4. 0 \notin Read' /\ Joined'
      BY <2>5, <3>1, <3>2, Zenon DEF CountInv
    <3>. QED  BY <2>2, <3>1, <3>3, <3>4 DEF CountInv
  <2>9. CASE Returns
    <3>1. /\ counting = "loop" /\ counting' = "done" /\ UNCHANGED allvars
          /\ index = Len(sorted) /\ count' = Counted
      BY <2>9, Zenon DEF Returns
    <3>2. LoopInv /\ Joined
      BY <3>1, Zenon DEF CountInv
    <3>3. Counted = Cardinality(Merged(index)) /\ Merged(Len(sorted)) = Read
      BY <3>2, CountedIsMerged, Zenon DEF LoopInv
    <3>4. count' = Cardinality(Read')
      BY <2>5, <3>1, <3>3, Zenon
    <3>5. 0 \notin Read' /\ Joined'
      BY <2>5, <3>1, <3>2, Zenon DEF CountInv
    <3>. QED  BY <2>2, <3>1, <3>4, <3>5 DEF CountInv
  <2>. QED  BY <2>2, <2>3, <2>4, <2>6, <2>7, <2>8, <2>9, Zenon DEF CountNext
<1>. QED  BY <1>1, <1>2, PTL DEF CountSpec

\* The trackers are exact, and so is what count_unique_sequences makes of them: for
\* any number of trackers, ranges that are apart, touch, overlap or lie within
\* another are counted once, and no intermediate value leaves its type.
THEOREM UniqueCountIsExact == CountSpec => []TrackersAreExact
<1>1. HarnessInv /\ CountInv => TrackersAreExact
  BY Zenon DEF HarnessInv, HandleInv, OrderedBelow, EachTrackerIsExact, CountInv, TrackersAreExact
<1>. QED  BY <1>1, CountInvariant, PTL

=============================================================================
