---------------------- MODULE VersionedPublishProofs ------------------------
(***************************************************************************)
(* Proofs about VersionedSPMCQueue, first part: the order of the stores,   *)
(* and the steps of try_publish, which keep VersionedInv.                  *)
(***************************************************************************)
EXTENDS VersionedSPMCQueue, TLAPS

-----------------------------------------------------------------------------
(* Locations, and what a store adds to them.                               *)

\* The members of a cell and published_ are different locations.
LEMMA LocationsDiffer ==
    ASSUME NEW i, NEW j, NEW b, NEW c
    PROVE  /\ Version(i) # Published
           /\ SequenceOf(i) # Published /\ SizeOf(i) # Published /\ StorageOf(i, b) # Published
           /\ Version(i) = Version(j) => i = j
           /\ Version(i) # SequenceOf(j) /\ Version(i) # SizeOf(j) /\ Version(i) # StorageOf(j, b)
           /\ SequenceOf(i) # SizeOf(j) /\ SequenceOf(i) # StorageOf(j, b)
           /\ SizeOf(i) # StorageOf(j, b)
           /\ StorageOf(i, b) = StorageOf(j, c) => b = c
           /\ SequenceOf(i) = SequenceOf(j) => i = j
           /\ SizeOf(i) = SizeOf(j) => i = j
           /\ StorageOf(i, b) = StorageOf(j, c) => i = j
BY Zenon DEF Version, Published, SequenceOf, SizeOf, StorageOf

LEMMA FieldsDiffer ==
    ASSUME NEW i, NEW j, NEW loc \in Fields(i)
    PROVE  /\ loc # Version(j) /\ loc # Published
           /\ loc \in Fields(j) => i = j
BY LocationsDiffer DEF Fields

LEMMA Division ==
    ASSUME NEW C \in Nat \ {0}, NEW n \in Nat
    PROVE  /\ n \div C \in Int /\ n % C \in Int
           /\ n = C * (n \div C) + (n % C)
OBVIOUS

\* A sequence and the capacity-th after it share their cell, and no two closer
\* ones do.
LEMMA SameCell ==
    ASSUME NEW s \in Nat \ {0}, NEW t \in Nat \ {0}, s < t, CellOf(s) = CellOf(t)
    PROVE  s + Capacity <= t
<1>1. PICK C \in Nat \ {0} : C = Capacity
  BY VersionedAssumption, Zenon
<1>2. PICK c \in Int, j \in Int, k \in Int : s - 1 = C * j + c /\ t - 1 = C * k + c
  <2>1. s - 1 \in Nat /\ t - 1 \in Nat /\ (s - 1) % C = (t - 1) % C
    BY <1>1 DEF CellOf
  <2>2. /\ (s - 1) \div C \in Int /\ (t - 1) \div C \in Int /\ (s - 1) % C \in Int
        /\ s - 1 = C * ((s - 1) \div C) + ((s - 1) % C)
        /\ t - 1 = C * ((t - 1) \div C) + ((t - 1) % C)
    BY <2>1, Division, Zenon
  <2>. QED  BY <2>1, <2>2, Zenon
<1>3. PICK d \in Int : d = k - j /\ t - s = C * d
  <2>1. C * (k - j) = C * k - C * j
    OBVIOUS
  <2>. QED  BY <1>2, <2>1
<1>4. CASE d <= 0
  <2>1. C * d <= 0
    BY <1>4
  <2>. QED  BY <1>3, <2>1
<1>5. CASE d > 0
  <2>1. PICK e \in Nat : d = e + 1
    <3>1. d - 1 \in Nat /\ d = (d - 1) + 1
      BY <1>5
    <3>. QED  BY <3>1, Zenon
  <2>2. C * d = C * e + C /\ C * e \in Nat
    BY <2>1
  <2>. QED  BY <1>1, <1>3, <2>2
<1>. QED  BY <1>4, <1>5

LEMMA CellIndex ==
    ASSUME NEW s \in Nat \ {0}
    PROVE  CellOf(s) \in Cells
<1>1. Capacity \in Nat \ {0} /\ s - 1 \in Nat
  BY VersionedAssumption
<1>2. (s - 1) % Capacity \in 0..(Capacity - 1)
  BY <1>1
<1>. QED  BY <1>2, Zenon DEF CellOf, Cells

\* A store is added behind the others and changes nothing about them.
LEMMA StoreAdded ==
    ASSUME stores \in Seq(StoreRecord), NEW r \in StoreRecord, stores' = Append(stores, r)
    PROVE  /\ stores' \in Seq(StoreRecord)
           /\ Len(stores) \in Nat /\ Len(stores') = Len(stores) + 1
           /\ \A k \in 1..Len(stores) : stores'[k] = stores[k]
           /\ stores'[Len(stores) + 1] = r
OBVIOUS

LEMMA StoresToLocation ==
    ASSUME stores \in Seq(StoreRecord), NEW loc
    PROVE  \A k \in StoresTo(loc) :
               k \in Nat /\ k <= Len(stores) /\ (k # 0 => k \in 1..Len(stores) /\ stores[k].loc = loc)
BY DEF StoresTo

\* What a location holds after the n-th store, to it or to another one.
AfterStore(loc, r, n) ==
    /\ r.loc = loc => StoresTo(loc)' = StoresTo(loc) \union {n}
    /\ r.loc # loc => StoresTo(loc)' = StoresTo(loc)
    /\ \A k \in StoresTo(loc) :
          /\ k \in Nat /\ k < n
          /\ k # 0 => stores'[k] = stores[k]
          /\ ValueAt(k, loc)' = ValueAt(k, loc)
    /\ ValueAt(n, loc)' = r.val
    /\ \A m \in Nat : m < n => Newest(loc, m)' = Newest(loc, m)
    /\ r.loc = loc => Newest(loc, n)' = {n}
    /\ r.loc # loc => Newest(loc, n)' = Newest(loc, n - 1)

LEMMA StoreToLocation ==
    ASSUME stores \in Seq(StoreRecord), NEW r \in StoreRecord, stores' = Append(stores, r),
           NEW n \in Nat, n = Len(stores) + 1, NEW loc
    PROVE  AfterStore(loc, r, n)
<1>1. /\ Len(stores) \in Nat /\ Len(stores') = n
      /\ \A k \in 1..Len(stores) : stores'[k] = stores[k]
      /\ stores'[n] = r
  BY StoreAdded, Zenon
<1>2. /\ r.loc = loc => StoresTo(loc)' = StoresTo(loc) \union {n}
      /\ r.loc # loc => StoresTo(loc)' = StoresTo(loc)
  BY <1>1 DEF StoresTo
<1>3. \A k \in StoresTo(loc) : /\ k \in Nat /\ k < n
                               /\ k # 0 => stores'[k] = stores[k]
  BY <1>1, StoresToLocation
<1>4. \A k \in StoresTo(loc) : ValueAt(k, loc)' = ValueAt(k, loc)
  BY <1>1, StoresToLocation, Zenon DEF ValueAt
<1>5. ValueAt(n, loc)' = r.val
  BY <1>1 DEF ValueAt
<1>6. ASSUME NEW m \in Nat, m < n
      PROVE  Newest(loc, m)' = Newest(loc, m)
  BY <1>2, <1>3, <1>6 DEF Newest, NotOlder
<1>7. r.loc = loc => Newest(loc, n)' = {n}
  BY <1>2, <1>3 DEF Newest, NotOlder
<1>8. r.loc # loc => Newest(loc, n)' = Newest(loc, n - 1)
  BY <1>2, <1>3 DEF Newest, NotOlder
<1>. QED
  BY <1>2, <1>3, <1>4, <1>5, <1>6, <1>7, <1>8, Zenon DEF AfterStore

LEMMA EvenStoresAfter ==
    ASSUME NEW r \in StoreRecord, NEW n \in Nat, NEW i, AfterStore(Version(i), r, n)
    PROVE  /\ r.loc = Version(i) /\ r.val % 2 = 0 => EvenStores(i)' = EvenStores(i) \union {n}
           /\ ~ (r.loc = Version(i) /\ r.val % 2 = 0) => EvenStores(i)' = EvenStores(i)
BY Zenon DEF AfterStore, EvenStores, Version

\* The values it has then.
LEMMA HoldsAfter ==
    ASSUME NEW r \in StoreRecord, NEW n \in Nat, NEW loc, AfterStore(loc, r, n), NEW val
    PROVE  /\ \A m \in Nat : m < n /\ Holds(loc, m, val) => Holds(loc, m, val)'
           /\ r.loc # loc /\ Holds(loc, n - 1, val) => Holds(loc, n, val)'
           /\ r.loc = loc /\ r.val = val => Holds(loc, n, val)'
<1>1. \A m : Newest(loc, m) \subseteq StoresTo(loc)
  BY Zenon DEF Newest, NotOlder
<1>. QED  BY <1>1 DEF AfterStore, Holds

\* The stores and the log only grow: nothing that was in them changes.
Grows ==
    /\ stores' = stores \/ \E r \in StoreRecord : stores' = Append(stores, r)
    /\ log' = log \/ \E payload \in Payloads : log' = Append(log, payload)

LEMMA Growth ==
    ASSUME TypeOK, Grows
    PROVE  /\ Len(stores) \in Nat /\ Len(stores') \in Nat /\ Len(stores) <= Len(stores')
           /\ Len(log) \in Nat /\ Len(log') \in Nat /\ Len(log) <= Len(log')
           /\ \A k \in 1..Len(stores) : stores'[k] = stores[k]
           /\ \A s \in 1..Len(log) : log'[s] = log[s]
           /\ \A loc : \A k \in StoresTo(loc) :
                 k \in StoresTo(loc)' /\ ValueAt(k, loc)' = ValueAt(k, loc)
           /\ \A i : EvenStores(i) \subseteq EvenStores(i)'
           /\ \A s, m : Completed(s, m) => Completed(s, m)'
<1>1. /\ Len(stores) \in Nat /\ Len(stores') \in Nat /\ Len(stores) <= Len(stores')
      /\ \A k \in 1..Len(stores) : stores'[k] = stores[k]
  BY StoreAdded DEF Grows, TypeOK, ProducerTypes
<1>2. /\ Len(log) \in Nat /\ Len(log') \in Nat /\ Len(log) <= Len(log')
      /\ \A s \in 1..Len(log) : log'[s] = log[s]
  <2>1. log \in Seq(Payloads)
    BY DEF TypeOK, ProducerTypes
  <2>2. ASSUME NEW payload \in Payloads, log' = Append(log, payload)
        PROVE  Len(log') = Len(log) + 1 /\ \A s \in 1..Len(log) : log'[s] = log[s]
    BY <2>1, <2>2
  <2>. QED  BY <2>1, <2>2 DEF Grows
<1>3. ASSUME NEW loc, NEW k \in StoresTo(loc)
      PROVE  /\ k \in StoresTo(loc)' /\ ValueAt(k, loc)' = ValueAt(k, loc)
             /\ k # 0 => k \in 1..Len(stores)
  BY <1>1 DEF StoresTo, ValueAt
<1>4. ASSUME NEW i PROVE EvenStores(i) \subseteq EvenStores(i)'
  <2>1. \A k \in StoresTo(Version(i)) :
            k \in StoresTo(Version(i))' /\ ValueAt(k, Version(i))' = ValueAt(k, Version(i))
    BY <1>3, Zenon DEF Version
  <2>. QED  BY <2>1, Zenon DEF EvenStores, Version
<1>5. ASSUME NEW s, NEW m, Completed(s, m) PROVE Completed(s, m)'
  <2>1. PICK k \in EvenStores(CellOf(s)) : 0 < k /\ k <= m /\ stores[k].by = s
    BY <1>5, Zenon DEF Completed
  <2>2. k \in EvenStores(CellOf(s))'
    BY <2>1, <1>4, Zenon DEF CellOf
  <2>3. k \in StoresTo(Version(CellOf(s))) /\ k # 0
    BY <2>1 DEF EvenStores
  <2>4. stores'[k] = stores[k]
    BY <1>1, <1>3, <2>3, Zenon
  <2>. QED  BY <2>1, <2>2, <2>4, Zenon DEF Completed, CellOf
<1>. QED
  BY <1>1, <1>2, <1>3, <1>4, <1>5, Zenon

\* An even store other than the initialisation is the n-th store for some n.
LEMMA EvenStoreFacts ==
    ASSUME TypeOK, NEW i, NEW j \in EvenStores(i), j # 0
    PROVE  /\ j \in 1..Len(stores) /\ j \in StoresTo(Version(i))
           /\ stores[j].loc = Version(i)
           /\ stores[j].by \in 1..Len(log) /\ stores[j].by \in Nat
           /\ ValueAt(j, Version(i)) = stores[j].val
           /\ stores[j].val % 2 = 0
BY DEF EvenStores, StoresTo, ValueAt, TypeOK, ProducerTypes

\* What a consumer relies on is about stores and publications that exist, so it
\* stays true whatever the producer does.
LEMMA FrameKept ==
    ASSUME TypeOK, Grows, NEW want \in Nat, NEW label, NEW f, NEW low, NEW high,
           FrameInv(want, label, f, low, high)
    PROVE  FrameInv(want, label, f, low, high)'
<1>. DEFINE i == CellOf(want)
<1>1. want + Capacity <= Len(log) => want + Capacity <= Len(log')
  BY Growth, VersionedAssumption
<1>2. label # "idle" => Completed(want, low)'
  BY Growth, Zenon DEF FrameInv
<1>3. ASSUME label \in {"sequence", "size", "storage", "after", "stable"}
      PROVE  \E j \in EvenStores(i)' \ {0} :
                 /\ j <= low
                 /\ f.before = ValueAt(j, Version(i))'
                 /\ stores'[j].by = want \/ want + Capacity <= Len(log')
                 /\ \/ Snapshot(label, f, j)'
                    \/ label # "stable" /\ Torn(i, j, IF label = "after" THEN low ELSE high)'
  <2>1. PICK j \in EvenStores(i) \ {0} :
                 /\ j <= low
                 /\ f.before = ValueAt(j, Version(i))
                 /\ stores[j].by = want \/ want + Capacity <= Len(log)
                 /\ \/ Snapshot(label, f, j)
                    \/ label # "stable" /\ Torn(i, j, IF label = "after" THEN low ELSE high)
    BY <1>3, Zenon DEF FrameInv
  <2>2. /\ j \in 1..Len(stores) /\ stores[j].by \in 1..Len(log)
        /\ j \in StoresTo(Version(i))
    BY <2>1, EvenStoreFacts, Zenon
  <2>3. /\ j \in EvenStores(i)' \ {0}
        /\ stores'[j] = stores[j]
        /\ log'[stores[j].by] = log[stores[j].by]
        /\ ValueAt(j, Version(i))' = ValueAt(j, Version(i))
    BY <2>1, <2>2, Growth, Zenon DEF CellOf, Version
  <2>4. Snapshot(label, f, j) => Snapshot(label, f, j)'
    BY <2>3, Zenon DEF Snapshot
  <2>5. ASSUME NEW n, Torn(i, j, n) PROVE Torn(i, j, n)'
    <3>1. \A k \in StoresTo(Version(i)) : k \in StoresTo(Version(i))'
      BY Growth, Zenon DEF Version, CellOf
    <3>. QED  BY <2>5, <3>1, Zenon DEF Torn, Version, CellOf
  <2>6. Torn(i, j, IF label = "after" THEN low ELSE high) =>
            Torn(i, j, IF label = "after" THEN low ELSE high)'
    BY <2>5, Zenon
  <2>. QED  BY <1>1, <2>1, <2>3, <2>4, <2>6, Zenon
<1>. QED
  BY <1>1, <1>2, <1>3, Zenon DEF FrameInv, Version, CellOf

\* Consumer h is left alone.
SameConsumer(h) ==
    /\ attached'[h] = attached[h] /\ next_sequence'[h] = next_sequence[h]
    /\ pc'[h] = pc[h] /\ frame'[h] = frame[h]
    /\ floor'[h] = floor[h] /\ pending'[h] = pending[h]
    /\ registration'[h] = registration[h]

LEMMA ConsumersKeep ==
    ASSUME VersionedInv, Grows, NEW h \in Handles, SameConsumer(h)
    PROVE  ConsumerInv(h)'
<1>1. PICK want, label, f, low, high :
          /\ want \in Nat
          /\ want = next_sequence[h] /\ label = pc[h] /\ f = frame[h]
          /\ low = floor[h] /\ high = pending[h]
  BY Zenon DEF VersionedInv, TypeOK, ConsumerTypes
<1>2. FrameInv(want, label, f, low, high) /\ TypeOK
  BY <1>1, Zenon DEF VersionedInv, ConsumerInv
<1>3. FrameInv(want, label, f, low, high)'
  BY <1>1, <1>2, FrameKept, Zenon
<1>4. FrameInv(next_sequence[h], pc[h], frame[h], floor[h], pending[h])'
  BY <1>1, <1>3, Zenon DEF SameConsumer
<1>. QED
  BY <1>1, <1>4, Zenon DEF ConsumerInv, SameConsumer, VersionedInv

-----------------------------------------------------------------------------
(* The producer.                                                           *)

\* What a store r has to respect so that cell i stays in order.
Respects(r, i) ==
    /\ r.loc = Version(i) =>
          /\ \A j \in StoresTo(Version(i)) : ValueAt(j, Version(i)) < r.val
          /\ \A j \in EvenStores(i) \ {0} : stores[j].by + Capacity <= r.by
    /\ r.loc \in Fields(i) =>
          \A j \in EvenStores(i) : \E o \in StoresTo(Version(i)) : j < o /\ o <= r.rel
    /\ r.loc = Version(i) /\ r.val % 2 = 0 =>
          /\ r.rel = Len(stores) + 1
          /\ Holds(SequenceOf(i), Len(stores), r.by)
          /\ Holds(SizeOf(i), Len(stores), Len(log[r.by]))
          /\ \A b \in 1..Len(log[r.by]) : Holds(StorageOf(i, b), Len(stores), log[r.by][b])

LEMMA CellKept ==
    ASSUME VersionedInv, NEW i \in Cells, NEW r \in StoreRecord, stores' = Append(stores, r),
           log' = log, Respects(r, i)
    PROVE  CellInv(i)'
<1>. DEFINE v == Version(i)
<1>0. PICK n \in Nat : n = Len(stores) + 1
  BY DEF VersionedInv, TypeOK, ProducerTypes
<1>1. /\ TypeOK /\ CellInv(i) /\ stores \in Seq(StoreRecord)
      /\ Len(stores) \in Nat /\ stores'[n] = r
      /\ \A k \in 1..Len(stores) : stores'[k] = stores[k]
  BY <1>0, StoreAdded, Zenon DEF VersionedInv, TypeOK, ProducerTypes
<1>2. ASSUME NEW loc PROVE AfterStore(loc, r, n)
  BY <1>0, <1>1, StoreToLocation, Zenon
<1>3. /\ r.loc = v /\ r.val % 2 = 0 => EvenStores(i)' = EvenStores(i) \union {n}
      /\ ~ (r.loc = v /\ r.val % 2 = 0) => EvenStores(i)' = EvenStores(i)
  BY <1>2, EvenStoresAfter, Zenon
<1>4. /\ AfterStore(v, r, n)
      /\ EvenStores(i) \subseteq StoresTo(v)
  BY <1>2, Zenon DEF EvenStores
<1>. HIDE DEF v
<1>5. \A j, k \in StoresTo(v)' : j < k => ValueAt(j, v)' < ValueAt(k, v)'
  <2>1. \A j, k \in StoresTo(v) : j < k => ValueAt(j, v) < ValueAt(k, v)
    BY <1>1, Zenon DEF CellInv, v
  <2>2. r.loc = v => \A j \in StoresTo(v) : ValueAt(j, v) < r.val
    BY Zenon DEF Respects, v
  <2>. QED  BY <1>4, <2>1, <2>2 DEF AfterStore
<1>6. ASSUME NEW j \in EvenStores(i)', NEW loc \in Fields(i), NEW k \in StoresTo(loc)', j < k
      PROVE  \E o \in StoresTo(v)' : j < o /\ o <= stores'[k].rel
  <2>1. loc # v
    BY LocationsDiffer, Zenon DEF Fields, v
  <2>0. AfterStore(loc, r, n)
    BY <1>2, Zenon
  <2>a. j \in Nat /\ k \in Nat
    BY <1>3, <1>4, <2>0, Zenon DEF AfterStore
  <2>2. CASE k \in StoresTo(loc)
    <3>0. k < n /\ k # 0 /\ j # n
      BY <1>6, <2>0, <2>a, <2>2 DEF AfterStore
    <3>1. stores'[k] = stores[k] /\ j \in EvenStores(i)
      <4>1. stores'[k] = stores[k]
        BY <2>0, <2>2, <3>0, Zenon DEF AfterStore
      <4>2. j \in EvenStores(i)
        BY <1>3, <3>0, Zenon
      <4>. QED  BY <4>1, <4>2, Zenon
    <3>2. \E o \in StoresTo(v) : j < o /\ o <= stores[k].rel
      BY <1>1, <1>6, <2>2, <3>1, Zenon DEF CellInv, v
    <3>. QED  BY <1>4, <3>1, <3>2, Zenon DEF AfterStore
  <2>3. CASE k \notin StoresTo(loc)
    <3>1. k = n /\ r.loc = loc /\ stores'[k] = r
      BY <1>1, <2>0, <2>3, Zenon DEF AfterStore
    <3>2. j \in EvenStores(i) /\ StoresTo(v)' = StoresTo(v)
      BY <1>3, <1>4, <2>1, <3>1, Zenon DEF AfterStore
    <3>. QED  BY <3>1, <3>2, Zenon DEF Respects, v
  <2>. QED  BY <2>2, <2>3, Zenon
<1>7. ASSUME NEW j \in EvenStores(i)' \ {0}, NEW s, NEW payload,
             s = stores'[j].by, payload = log'[s]
      PROVE  /\ stores'[j].rel = j
             /\ Holds(SequenceOf(i), j, s)'
             /\ Holds(SizeOf(i), j, Len(payload))'
             /\ \A b \in 1..Len(payload) : Holds(StorageOf(i, b), j, payload[b])'
             /\ \A k \in StoresTo(v)' : j < k => s + Capacity <= stores'[k].by
  <2>1. CASE j # n
    <3>1. /\ j \in EvenStores(i) \ {0} /\ j \in Nat /\ j < n /\ j \in StoresTo(v)
          /\ stores'[j] = stores[j]
      <4>1. j \in EvenStores(i) \ {0} /\ j \in StoresTo(v)
        BY <1>3, <1>4, <2>1, Zenon
      <4>. QED  BY <1>4, <4>1, Zenon DEF AfterStore
    <3>2. /\ stores[j].rel = j
          /\ Holds(SequenceOf(i), j, s)
          /\ Holds(SizeOf(i), j, Len(payload))
          /\ \A b \in 1..Len(payload) : Holds(StorageOf(i, b), j, payload[b])
          /\ \A k \in StoresTo(v) : j < k => s + Capacity <= stores[k].by
      BY <1>1, <1>7, <3>1, Zenon DEF CellInv, v
    <3>3. ASSUME NEW loc, NEW val, Holds(loc, j, val) PROVE Holds(loc, j, val)'
      BY <1>2, <3>1, <3>3, HoldsAfter, Zenon
    <3>4. r.loc = v => s + Capacity <= r.by
      BY <1>7, <3>1, Zenon DEF Respects, v
    <3>5. ASSUME NEW k \in StoresTo(v)', j < k
          PROVE  s + Capacity <= stores'[k].by
      <4>1. CASE k \in StoresTo(v)
        <5>1. k \in Nat /\ (k # 0 => stores'[k] = stores[k])
          BY <1>4, <4>1, Zenon DEF AfterStore
        <5>2. k # 0
          BY <3>1, <3>5, <5>1
        <5>. QED  BY <3>2, <3>5, <4>1, <5>1, <5>2, Zenon
      <4>2. CASE k \notin StoresTo(v)
        BY <1>1, <1>4, <3>4, <4>2, Zenon DEF AfterStore
      <4>. QED  BY <4>1, <4>2, Zenon
    <3>. QED  BY <3>1, <3>2, <3>3, <3>5, Zenon DEF SequenceOf, SizeOf, StorageOf
  <2>2. CASE j = n
    <3>1. r.loc = v /\ r.val % 2 = 0 /\ s = r.by /\ payload = log[r.by] /\ n - 1 = Len(stores)
      BY <1>0, <1>1, <1>3, <1>4, <1>7, <2>2 DEF AfterStore
    <3>2. /\ r.rel = n
          /\ Holds(SequenceOf(i), n - 1, s)
          /\ Holds(SizeOf(i), n - 1, Len(payload))
          /\ \A b \in 1..Len(payload) : Holds(StorageOf(i, b), n - 1, payload[b])
      BY <1>0, <3>1, Zenon DEF Respects, v
    <3>3. ASSUME NEW loc, NEW val, loc # v, Holds(loc, n - 1, val) PROVE Holds(loc, n, val)'
      BY <1>2, <3>1, <3>3, HoldsAfter, Zenon
    <3>4. SequenceOf(i) # v /\ SizeOf(i) # v /\ \A b : StorageOf(i, b) # v
      BY LocationsDiffer, Zenon DEF v
    <3>5. \A k \in StoresTo(v)' : ~ (n < k)
      BY <1>4 DEF AfterStore
    <3>. QED  BY <1>1, <2>2, <3>2, <3>3, <3>4, <3>5, Zenon DEF SequenceOf, SizeOf, StorageOf
  <2>. QED  BY <2>1, <2>2, Zenon
<1>. QED
  BY <1>5, <1>6, <1>7, Zenon DEF CellInv, v

\* The publication the producer is in, its cell and its payload.
LEMMA ProducerFacts ==
    ASSUME VersionedInv
    PROVE  /\ TypeOK /\ ProducerInv /\ stores \in Seq(StoreRecord) /\ Len(stores) \in Nat
           /\ fence \in 0..Len(stores)
           /\ version \in Nat /\ index \in Nat /\ produced \in Nat
<1>1. /\ TypeOK /\ ProducerInv /\ stores \in Seq(StoreRecord) /\ fence \in 0..Len(stores)
      /\ version \in Nat /\ index \in Nat /\ produced \in Nat
  BY Zenon DEF VersionedInv, TypeOK, ProducerTypes
<1>2. Len(stores) \in Nat
  BY <1>1
<1>. QED  BY <1>1, <1>2, Zenon

LEMMA Publication ==
    ASSUME VersionedInv, publishing # "idle"
    PROVE  \E s \in Nat \ {0}, i \in Cells, payload \in Payloads :
              /\ s = Sequence /\ s = Len(log) /\ s \in 1..Len(log) /\ s = produced + 1
              /\ i = Cell /\ i = CellOf(s)
              /\ payload = Payload /\ payload = log[s]
              /\ payload \in Seq(Byte) /\ Len(payload) \in 0..MaxPayloadSize
              /\ PublicationInv(i, s, payload)
<1>1. /\ TypeOK /\ ProducerInv /\ Payloads \subseteq Seq(Byte)
  BY VersionedAssumption, Zenon DEF VersionedInv
<1>2. /\ Len(log) = produced + 1 /\ produced \in Nat
      /\ log \in Seq({payload \in Payloads : Len(payload) <= MaxPayloadSize})
      /\ PublicationInv(Cell, Sequence, Payload)
  BY <1>1, Zenon DEF TypeOK, ProducerTypes, ProducerInv
<1>3. Sequence \in Nat \ {0} /\ Sequence = Len(log) /\ Sequence \in 1..Len(log)
  BY <1>2 DEF Sequence
<1>4. Cell \in Cells /\ Cell = CellOf(Sequence)
  BY <1>3, CellIndex, Zenon DEF Cell
<1>5. /\ Payload \in Payloads /\ Payload = log[Sequence]
      /\ Len(Payload) <= MaxPayloadSize
  BY <1>2, <1>3 DEF Payload
<1>6. Payload \in Seq(Byte) /\ Len(Payload) \in 0..MaxPayloadSize
  BY <1>1, <1>5, VersionedAssumption
<1>. QED
  BY <1>2, <1>3, <1>4, <1>5, <1>6, Zenon

\* A store that leaves the producer's place in the log and the consumers alone.
Stores(r) ==
    /\ r \in StoreRecord
    /\ r.val \in Values(r.loc)
    /\ r.by \in 1..Len(log)
    /\ r.rel \in 0..(Len(stores) + 1)
    /\ stores' = Append(stores, r)
    /\ UNCHANGED <<fence, version, log, consumer, history>>

LEMMA StoreTypes ==
    ASSUME TypeOK, NEW r, Stores(r), index' \in Nat, produced' \in Nat,
           publishing' \in {"idle", "odd", "fence", "sequence", "size", "storage", "even", "publish"}
    PROVE  TypeOK'
<1>1. /\ UNCHANGED <<fence, version, log>>
      /\ UNCHANGED <<attached, next_sequence, pc, frame, floor, pending>>
      /\ UNCHANGED <<registration, start, received>>
  BY Zenon DEF Stores, consumer, history
<1>2. /\ stores' \in Seq(StoreRecord)
      /\ Len(stores) \in Nat /\ Len(stores') = Len(stores) + 1
      /\ \A k \in 1..Len(stores) : stores'[k] = stores[k]
      /\ stores'[Len(stores) + 1] = r
  BY StoreAdded, Zenon DEF Stores, TypeOK, ProducerTypes
<1>3. ASSUME NEW k \in 1..Len(stores')
      PROVE  /\ stores'[k].val \in Values(stores'[k].loc)
             /\ stores'[k].by \in 1..Len(log)
             /\ stores'[k].rel \in 0..k
  <2>1. CASE k \in 1..Len(stores)
    BY <1>2, <2>1, Zenon DEF TypeOK, ProducerTypes
  <2>2. CASE k = Len(stores) + 1
    BY <1>2, <2>2, Zenon DEF Stores
  <2>. QED  BY <1>2, <2>1, <2>2
<1>4. /\ fence' \in 0..Len(stores')
      /\ floor' \in [Handles -> 0..Len(stores')] /\ pending' \in [Handles -> 0..Len(stores')]
  <2>1. /\ fence \in 0..Len(stores)
        /\ floor \in [Handles -> 0..Len(stores)] /\ pending \in [Handles -> 0..Len(stores)]
    BY Zenon DEF TypeOK, ProducerTypes, ConsumerTypes
  <2>2. 0..Len(stores) \subseteq 0..Len(stores')
    BY <1>2
  <2>. QED  BY <1>1, <2>1, <2>2, Zenon
<1>5. (\A k \in 1..Len(stores) : /\ stores[k].val \in Values(stores[k].loc)
                                 /\ stores[k].by \in 1..Len(log)
                                 /\ stores[k].rel \in 0..k)'
  BY <1>1, <1>3, Zenon DEF Values
<1>. QED
  BY <1>1, <1>2, <1>4, <1>5, Zenon DEF TypeOK, ProducerTypes, ConsumerTypes

\* A publication that was complete stays so, and published_ may count it.
LEMMA CompletedAfter ==
    ASSUME TypeOK, NEW r, Stores(r), NEW s, NEW m \in Nat, Completed(s, m)
    PROVE  /\ Completed(s, m)'
           /\ \A l \in Nat : m <= l => Completed(s, l)'
<1>1. Grows
  BY Zenon DEF Grows, Stores
<1>2. Completed(s, m)'
  BY <1>1, Growth, Zenon
<1>3. PICK k \in EvenStores(CellOf(s))' : 0 < k /\ k <= m /\ stores'[k].by = s
  BY <1>2, Zenon DEF Completed, CellOf
<1>4. k \in Nat
  BY <1>3 DEF EvenStores, StoresTo
<1>. QED  BY <1>2, <1>3, <1>4 DEF Completed, CellOf

LEMMA PublishedKept ==
    ASSUME VersionedInv, NEW r, Stores(r),
           r.loc = Published =>
              /\ r.rel = Len(stores) + 1 /\ r.val \in 0..Len(log)
              /\ \A s \in 1..r.val : Completed(s, Len(stores))
    PROVE  PublishedInv'
<1>0. PICK n \in Nat : n = Len(stores) + 1
  BY DEF VersionedInv, TypeOK, ProducerTypes
<1>1. /\ TypeOK /\ PublishedInv /\ stores \in Seq(StoreRecord)
      /\ Len(stores) \in Nat /\ stores'[n] = r /\ log' = log
      /\ r \in StoreRecord /\ stores' = Append(stores, r)
  BY <1>0, StoreAdded, Zenon DEF VersionedInv, TypeOK, ProducerTypes, Stores
<1>2. AfterStore(Published, r, n)
  BY <1>0, <1>1, StoreToLocation, Zenon
<1>3. ASSUME NEW k \in StoresTo(Published)' \ {0}
      PROVE  /\ stores'[k].rel = k
             /\ stores'[k].val <= Len(log)
             /\ \A s \in 1..stores'[k].val : Completed(s, k)'
  <2>1. CASE k \in StoresTo(Published)
    <3>1. k \in Nat /\ stores'[k] = stores[k]
      BY <1>2, <1>3, <2>1, Zenon DEF AfterStore
    <3>2. /\ stores[k].rel = k /\ stores[k].val <= Len(log)
          /\ \A s \in 1..stores[k].val : Completed(s, k)
      BY <1>1, <1>3, <2>1, Zenon DEF PublishedInv
    <3>3. \A s \in 1..stores[k].val : Completed(s, k)'
      BY <1>1, <3>1, <3>2, CompletedAfter, Zenon
    <3>. QED  BY <3>1, <3>2, <3>3, Zenon
  <2>2. CASE k \notin StoresTo(Published)
    <3>1. k = n /\ r.loc = Published
      BY <1>2, <2>2, Zenon DEF AfterStore
    <3>2. \A s \in 1..r.val : Completed(s, n)'
      BY <1>0, <1>1, <3>1, CompletedAfter
    <3>. QED  BY <1>0, <1>1, <3>1, <3>2
  <2>. QED  BY <2>1, <2>2, Zenon
<1>. QED  BY <1>1, <1>3, Zenon DEF PublishedInv, Published

\* The cells whose version is not stored to stay stable.
LEMMA StableAfter ==
    ASSUME NEW r \in StoreRecord, NEW n \in Nat, NEW i, AfterStore(Version(i), r, n),
           r.loc = Version(i) => r.val % 2 = 0,
           r.loc = Version(i) \/ Newest(Version(i), n - 1) \subseteq EvenStores(i)
    PROVE  Newest(Version(i), n)' \subseteq EvenStores(i)'
<1>1. /\ r.loc = Version(i) /\ r.val % 2 = 0 => EvenStores(i)' = EvenStores(i) \union {n}
      /\ ~ (r.loc = Version(i) /\ r.val % 2 = 0) => EvenStores(i)' = EvenStores(i)
  BY EvenStoresAfter, Zenon
<1>2. /\ r.loc = Version(i) => Newest(Version(i), n)' = {n}
      /\ r.loc # Version(i) => Newest(Version(i), n)' = Newest(Version(i), n - 1)
  BY Zenon DEF AfterStore, Version
<1>. QED  BY <1>1, <1>2, Zenon

\* What is left to show of a store, when it respects every cell, is the
\* producer's own invariant.
LEMMA StoreKeeps ==
    ASSUME VersionedInv, NEW r, Stores(r), \A i \in Cells : Respects(r, i),
           r.loc = Published =>
              /\ r.rel = Len(stores) + 1 /\ r.val \in 0..Len(log)
              /\ \A s \in 1..r.val : Completed(s, Len(stores)),
           index' \in Nat, produced' \in Nat,
           publishing' \in {"idle", "odd", "fence", "sequence", "size", "storage", "even", "publish"},
           ProducerInv'
    PROVE  VersionedInv'
<1>1. TypeOK'
  BY StoreTypes, Zenon DEF VersionedInv
<1>2. r \in StoreRecord /\ stores' = Append(stores, r) /\ log' = log
  BY Zenon DEF Stores
<1>3. \A i \in Cells : CellInv(i)'
  BY <1>2, CellKept, Zenon
<1>4. PublishedInv'
  BY PublishedKept, Zenon
<1>5. Grows /\ \A h \in Handles : SameConsumer(h)
  BY <1>2, Zenon DEF Grows, Stores, SameConsumer, consumer, history
<1>6. \A h \in Handles : ConsumerInv(h)'
  BY <1>5, ConsumersKeep, Zenon
<1>. QED  BY <1>1, <1>3, <1>4, <1>6, Zenon DEF VersionedInv, Cells

\* The producer stores r, for publication s, of a payload, to cell i.
Writes(r, i, s, payload) ==
    /\ Stores(r)
    /\ i \in Cells /\ i = Cell /\ i = CellOf(s)
    /\ s \in Nat \ {0} /\ s = Sequence /\ s = Len(log)
    /\ payload = Payload
    /\ r.by = s
    /\ r.loc = Version(i) \/ r.loc \in Fields(i)
    /\ publishing # "idle"
    /\ UNCHANGED produced

LEMMA WriteKeepsProducer ==
    ASSUME VersionedInv, NEW r, NEW i, NEW s, NEW payload, Writes(r, i, s, payload),
           publishing' # "idle",
           publishing' \in Writing \/ (r.loc = Version(i) /\ r.val % 2 = 0),
           PublicationInv(i, s, payload)'
    PROVE  ProducerInv'
<1>0. PICK n \in Nat : n = Len(stores) + 1
  BY DEF VersionedInv, TypeOK, ProducerTypes
<1>1. /\ TypeOK /\ ProducerInv /\ stores \in Seq(StoreRecord)
      /\ Len(stores) \in Nat /\ stores'[n] = r /\ log' = log /\ Len(stores') = n
      /\ r \in StoreRecord /\ stores' = Append(stores, r)
  BY <1>0, StoreAdded, Zenon DEF VersionedInv, TypeOK, ProducerTypes, Writes, Stores
<1>2. ASSUME NEW loc PROVE AfterStore(loc, r, n)
  BY <1>0, <1>1, StoreToLocation, Zenon
<1>3. Cell' = i /\ Sequence' = s /\ Payload' = payload
  BY <1>1, Zenon DEF Writes, Cell, Sequence, Payload, CellOf
<1>4. (Len(log) = IF publishing = "idle" THEN produced ELSE produced + 1)'
  BY <1>1, Zenon DEF ProducerInv, Writes
<1>5. (\A q \in 1..produced : Completed(q, Len(stores)))'
  <2>1. \A q \in 1..produced : Completed(q, Len(stores))
    BY <1>1, Zenon DEF ProducerInv
  <2>2. \A q \in 1..produced : Completed(q, n)'
    BY <1>0, <1>1, <2>1, CompletedAfter DEF Writes
  <2>. QED  BY <1>1, <2>2, Zenon DEF Writes
<1>6. ASSUME NEW c \in Cells, NEW k \in StoresTo(Version(c))' \ {0}
      PROVE  CellOf(stores'[k].by) = c
  <2>1. AfterStore(Version(c), r, n)
    BY <1>2, Zenon
  <2>2. CASE k \in StoresTo(Version(c))
    BY <1>1, <1>6, <2>1, <2>2, Zenon DEF AfterStore, ProducerInv
  <2>3. CASE k \notin StoresTo(Version(c))
    <3>1. k = n /\ r.loc = Version(c)
      BY <2>1, <2>3, Zenon DEF AfterStore, Version
    <3>2. c = i
      BY <3>1, LocationsDiffer, FieldsDiffer, Zenon DEF Writes
    <3>. QED  BY <1>1, <3>1, <3>2, Zenon DEF Writes
  <2>. QED  BY <2>2, <2>3, Zenon
<1>7. ASSUME NEW c \in Cells
      PROVE  (publishing' \in Writing /\ c = i) \/ Newest(Version(c), n)' \subseteq EvenStores(c)'
  <2>1. CASE c = i /\ publishing' \in Writing
    BY <2>1, Zenon
  <2>2. CASE c = i /\ r.loc = Version(i) /\ r.val % 2 = 0
    BY <1>1, <1>2, <2>2, StableAfter, Zenon
  <2>3. CASE c # i
    <3>1. r.loc # Version(c)
      BY <2>3, LocationsDiffer, FieldsDiffer, Zenon DEF Writes
    <3>2. Newest(Version(c), n - 1) \subseteq EvenStores(c)
      BY <1>0, <1>1, <2>3 DEF ProducerInv, Writes
    <3>. QED  BY <1>1, <1>2, <3>1, <3>2, StableAfter, Zenon
  <2>. QED  BY <2>1, <2>2, <2>3, Zenon
<1>8. (\A c \in Cells : \/ publishing \in Writing /\ c = Cell
                        \/ Newest(Version(c), Len(stores)) \subseteq EvenStores(c))'
  BY <1>1, <1>3, <1>7, Zenon DEF Cells, Writing, Version
<1>9. (\A c \in Cells : \A k \in StoresTo(Version(c)) \ {0} : CellOf(stores[k].by) = c)'
  BY <1>6, Zenon DEF Cells, CellOf, Version
<1>10. PublicationInv(Cell, Sequence, Payload)'
  BY <1>3, Zenon
<1>. QED
  BY <1>4, <1>5, <1>8, <1>9, <1>10, Zenon DEF ProducerInv

LEMMA LocationTypes ==
    ASSUME NEW i \in Cells, NEW b
    PROVE  /\ Published \in Locations /\ Version(i) \in Locations /\ Fields(i) \subseteq Locations
           /\ SequenceOf(i) \in Fields(i) /\ SizeOf(i) \in Fields(i)
           /\ b \in 1..MaxPayloadSize => StorageOf(i, b) \in Fields(i)
           /\ Values(Published) = Nat /\ Values(Version(i)) = Nat /\ Values(SequenceOf(i)) = Nat
           /\ Values(SizeOf(i)) = 0..MaxPayloadSize
           /\ Values(StorageOf(i, b)) = Byte
<1>1. Published \in Locations /\ Version(i) \in Locations /\ Fields(i) \subseteq Locations
  BY DEF Locations
<1>2. /\ SequenceOf(i) \in Fields(i) /\ SizeOf(i) \in Fields(i)
      /\ b \in 1..MaxPayloadSize => StorageOf(i, b) \in Fields(i)
  BY Zenon DEF Fields
<1>3. /\ Values(Published) = Nat /\ Values(Version(i)) = Nat /\ Values(SequenceOf(i)) = Nat
      /\ Values(SizeOf(i)) = 0..MaxPayloadSize
      /\ Values(StorageOf(i, b)) = Byte
  BY Zenon DEF Values, Published, Version, SequenceOf, SizeOf, StorageOf
<1>. QED  BY <1>1, <1>2, <1>3, Zenon

LEMMA VersionValues ==
    ASSUME TypeOK, NEW i \in Cells
    PROVE  \A j \in StoresTo(Version(i)) : ValueAt(j, Version(i)) \in Nat
<1>1. ASSUME NEW j \in StoresTo(Version(i)), j # 0
      PROVE  stores[j].val \in Nat
  <2>1. j \in 1..Len(stores) /\ stores[j].loc = Version(i)
    BY <1>1, StoresToLocation, Zenon DEF TypeOK, ProducerTypes
  <2>. QED  BY <2>1, LocationTypes, Zenon DEF TypeOK, ProducerTypes
<1>2. Initial(Version(i)) = 0
  BY Zenon DEF Initial, Version
<1>. QED  BY <1>1, <1>2 DEF ValueAt

LEMMA PublishedValues ==
    ASSUME TypeOK
    PROVE  \A k \in StoresTo(Published) : ValueAt(k, Published) \in Nat
<1>1. ASSUME NEW k \in StoresTo(Published), k # 0
      PROVE  stores[k].val \in Nat
  <2>1. k \in 1..Len(stores) /\ stores[k].loc = Published
    BY <1>1, StoresToLocation, Zenon DEF TypeOK, ProducerTypes
  <2>2. Values(Published) = Nat
    BY Zenon DEF Values, Published
  <2>. QED  BY <2>1, <2>2, Zenon DEF TypeOK, ProducerTypes
<1>2. Initial(Published) = 0
  BY Zenon DEF Initial, Published
<1>. QED  BY <1>1, <1>2 DEF ValueAt

\* The version the producer has found, or left odd, is the newest one.
LEMMA NewestVersion ==
    ASSUME VersionedInv, NEW i \in Cells, NEW k \in Newest(Version(i), Len(stores))
    PROVE  /\ k \in StoresTo(Version(i))
           /\ \A j \in StoresTo(Version(i)) : j <= k /\ ValueAt(j, Version(i)) <= ValueAt(k, Version(i))
<1>1. TypeOK /\ CellInv(i) /\ Len(stores) \in Nat /\ stores \in Seq(StoreRecord)
  BY DEF VersionedInv, TypeOK, ProducerTypes
<1>2. \A j \in StoresTo(Version(i)) : j \in Nat /\ j <= Len(stores)
  BY <1>1, StoresToLocation, Zenon
<1>3. k \in StoresTo(Version(i)) /\ \A j \in StoresTo(Version(i)) : j <= k
  BY <1>2, Zenon DEF Newest, NotOlder
<1>4. \A j \in StoresTo(Version(i)) : ValueAt(j, Version(i)) \in Nat
  BY <1>1, VersionValues, Zenon
<1>5. ASSUME NEW j \in StoresTo(Version(i))
      PROVE  ValueAt(j, Version(i)) <= ValueAt(k, Version(i))
  <2>1. CASE j = k
    BY <1>4, <2>1
  <2>2. CASE j # k
    <3>1. j < k
      BY <1>2, <1>3, <2>2
    <3>2. ValueAt(j, Version(i)) < ValueAt(k, Version(i))
      BY <1>1, <1>3, <3>1, Zenon DEF CellInv
    <3>. QED  BY <1>3, <1>4, <3>2
  <2>. QED  BY <2>1, <2>2, Zenon
<1>. QED  BY <1>3, <1>5, Zenon

\* An older publication in the same cell is a whole lap behind.
LEMMA LapBehind ==
    ASSUME VersionedInv, NEW i \in Cells, NEW s \in Nat \ {0}, CellOf(s) = i,
           NEW j \in EvenStores(i) \ {0}, stores[j].by < s
    PROVE  stores[j].by + Capacity <= s
<1>1. stores[j].by \in Nat \ {0} /\ j \in StoresTo(Version(i)) \ {0}
  BY EvenStoreFacts DEF VersionedInv
<1>2. CellOf(stores[j].by) = i
  BY <1>1, Zenon DEF VersionedInv, ProducerInv
<1>. QED  BY <1>1, <1>2, SameCell, Zenon

LEMMA StoreOddKeeps ==
    ASSUME VersionedInv, StoreOdd
    PROVE  VersionedInv'
<1>1. PICK s \in Nat \ {0}, i \in Cells, payload \in Payloads :
              /\ s = Sequence /\ s = Len(log) /\ s \in 1..Len(log)
              /\ i = Cell /\ i = CellOf(s) /\ payload = Payload
              /\ PublicationInv(i, s, payload)
  BY Publication, Zenon DEF StoreOdd
<1>2. /\ version % 2 = 0 /\ version \in Nat /\ fence \in 0..Len(stores) /\ Len(stores) \in Nat
      /\ \A j \in EvenStores(i) \ {0} : stores[j].by < s
      /\ \E k \in Newest(Version(i), Len(stores)) : ValueAt(k, Version(i)) = version
  BY <1>1 DEF PublicationInv, StoreOdd, VersionedInv, TypeOK, ProducerTypes
<1>3. PICK n \in Nat : n = Len(stores) + 1
  BY <1>2
<1>4. PICK r : r = [loc |-> Version(i), val |-> version + 1, by |-> s, rel |-> fence]
  BY Zenon
<1>5. /\ r.loc = Version(i) /\ r.val = version + 1 /\ r.by = s /\ r.rel = fence
      /\ r.val \in Nat /\ r.val % 2 = 1
      /\ r \in StoreRecord /\ r.val \in Values(r.loc)
  BY <1>1, <1>2, <1>4, LocationTypes DEF StoreRecord
<1>6. /\ stores' = Append(stores, r) /\ publishing = "odd" /\ publishing' = "fence"
      /\ UNCHANGED <<fence, version, index, produced, log, consumer, history>>
  BY <1>1, <1>4, Zenon DEF StoreOdd, Store
<1>7. Stores(r)
  BY <1>1, <1>2, <1>5, <1>6 DEF Stores
<1>8. Writes(r, i, s, payload)
  BY <1>1, <1>5, <1>6, <1>7, Zenon DEF Writes
<1>9. ASSUME NEW c \in Cells PROVE Respects(r, c)
  <2>1. r.loc = Version(c) => c = i
    BY <1>5, LocationsDiffer, Zenon
  <2>2. r.loc \notin Fields(c)
    BY <1>5, FieldsDiffer, Zenon
  <2>3. \A j \in StoresTo(Version(i)) : ValueAt(j, Version(i)) < r.val
    <3>1. PICK k \in Newest(Version(i), Len(stores)) : ValueAt(k, Version(i)) = version
      BY <1>2, Zenon
    <3>2. \A j \in StoresTo(Version(i)) : ValueAt(j, Version(i)) <= version
      BY <3>1, NewestVersion, Zenon
    <3>3. \A j \in StoresTo(Version(i)) : ValueAt(j, Version(i)) \in Int
      BY VersionValues DEF VersionedInv
    <3>. QED  BY <1>2, <1>5, <3>2, <3>3
  <2>4. \A j \in EvenStores(i) \ {0} : stores[j].by + Capacity <= r.by
    BY <1>1, <1>2, <1>5, LapBehind, Zenon
  <2>. QED  BY <1>5, <2>1, <2>2, <2>3, <2>4 DEF Respects
<1>10. PublicationInv(i, s, payload)'
  <2>1. stores \in Seq(StoreRecord)
    BY Zenon DEF VersionedInv, TypeOK, ProducerTypes
  <2>2. AfterStore(Version(i), r, n)
    BY <1>3, <1>5, <1>6, <2>1, StoreToLocation, Zenon
  <2>3. EvenStores(i)' = EvenStores(i)
    BY <1>5, <2>2, EvenStoresAfter
  <2>4. \A j \in EvenStores(i)' \ {0} : stores'[j].by < s
    BY <1>2, <2>2, <2>3, Zenon DEF AfterStore, EvenStores
  <2>5. Newest(Version(i), n)' = {n} /\ ValueAt(n, Version(i))' = version + 1
    BY <1>5, <2>2, Zenon DEF AfterStore, Version
  <2>6. Len(stores') = n
    BY <1>3, <1>5, <1>6, <2>1, StoreAdded, Zenon
  <2>7. (\E k \in Newest(Version(i), Len(stores)) : ValueAt(k, Version(i)) = version + 1)'
    BY <1>6, <2>5, <2>6, Zenon DEF Version
  <2>. QED  BY <1>2, <1>6, <2>4, <2>7, Zenon DEF PublicationInv, WrittenInv, Writing, Version
<1>11. ProducerInv'
  BY <1>6, <1>8, <1>10, WriteKeepsProducer, Zenon DEF Writing
<1>12. r.loc # Published /\ index' \in Nat /\ produced' \in Nat
  BY <1>5, <1>6, LocationsDiffer, Zenon DEF VersionedInv, TypeOK, ProducerTypes
<1>. QED
  BY <1>6, <1>7, <1>9, <1>11, <1>12, StoreKeeps, Zenon

\* A store to a field is made between the two stores to the version, behind the
\* fence, so that it disturbs no snapshot.
LEMMA FieldStoreKeeps ==
    ASSUME VersionedInv, NEW r, NEW i, NEW s, NEW payload, Writes(r, i, s, payload),
           r.loc \in Fields(i), r.rel = fence,
           publishing \in {"sequence", "size", "storage"},
           publishing' \in {"size", "storage"},
           PublicationInv(i, s, payload), WrittenInv(i, s, payload)', index' \in Nat
    PROVE  VersionedInv'
<1>1. /\ version % 2 = 0 /\ version \in Nat /\ stores \in Seq(StoreRecord)
      /\ r \in StoreRecord /\ stores' = Append(stores, r) /\ UNCHANGED <<fence, version>>
      /\ Len(stores) \in Nat /\ i \in Cells /\ produced' \in Nat
  BY DEF PublicationInv, VersionedInv, TypeOK, ProducerTypes, Writes, Writing, Stores
<1>2. /\ \A j \in EvenStores(i) \ {0} : stores[j].by < s
      /\ \E k \in Newest(Version(i), Len(stores)) :
            ValueAt(k, Version(i)) = version + 1 /\ k <= fence
  BY Zenon DEF PublicationInv, Writing
<1>3. PICK k \in Newest(Version(i), Len(stores)) : ValueAt(k, Version(i)) = version + 1 /\ k <= fence
  BY <1>2, Zenon
<1>4. /\ k \in StoresTo(Version(i)) /\ k \notin EvenStores(i)
      /\ \A j \in StoresTo(Version(i)) : j <= k
  BY <1>1, <1>3, NewestVersion DEF EvenStores
<1>5. \A c \in Cells : r.loc # Version(c)
  BY FieldsDiffer, Zenon
<1>6. ASSUME NEW c \in Cells PROVE Respects(r, c)
  <2>1. r.loc \in Fields(c) => c = i
    BY FieldsDiffer, Zenon
  <2>2. ASSUME NEW j \in EvenStores(i)
        PROVE  \E o \in StoresTo(Version(i)) : j < o /\ o <= r.rel
    <3>1. j \in StoresTo(Version(i)) /\ j # k
      BY <1>4, <2>2, Zenon DEF EvenStores
    <3>2. j \in Nat /\ k \in Nat
      BY <1>1, <1>4, <3>1, StoresToLocation, Zenon
    <3>3. j < k
      BY <1>4, <3>1, <3>2
    <3>. QED  BY <1>3, <1>4, <3>3, Zenon
  <2>. QED  BY <1>5, <2>1, <2>2, Zenon DEF Respects
<1>7. PICK n \in Nat : n = Len(stores) + 1
  BY <1>1
<1>8. AfterStore(Version(i), r, n) /\ Len(stores') = n
  BY <1>1, <1>7, StoreToLocation, StoreAdded, Zenon
<1>9. EvenStores(i)' = EvenStores(i)
  BY <1>1, <1>5, <1>8, EvenStoresAfter, Zenon
<1>10. \A j \in EvenStores(i)' \ {0} : stores'[j].by < s
  BY <1>2, <1>8, <1>9, Zenon DEF AfterStore, EvenStores
<1>11. k \in Newest(Version(i), n)' /\ ValueAt(k, Version(i))' = version + 1
  <2>1. r.loc # Version(i) /\ n - 1 = Len(stores)
    BY <1>1, <1>5, <1>7
  <2>2. Newest(Version(i), n)' = Newest(Version(i), n - 1)
    BY <1>8, <2>1, Zenon DEF AfterStore, Version
  <2>3. ValueAt(k, Version(i))' = ValueAt(k, Version(i))
    BY <1>4, <1>8, Zenon DEF AfterStore, Version
  <2>. QED  BY <1>3, <2>1, <2>2, <2>3, Zenon
<1>12. PublicationInv(i, s, payload)'
  <2>1. (\E l \in Newest(Version(i), Len(stores)) :
            ValueAt(l, Version(i)) = version + 1 /\ l <= fence)'
    BY <1>1, <1>3, <1>8, <1>11, Zenon DEF Version
  <2>. QED  BY <1>1, <1>10, <2>1, Zenon DEF PublicationInv, Writing, Version
<1>13. ProducerInv'
  BY <1>12, WriteKeepsProducer, Zenon DEF Writing
<1>14. r.loc # Published /\ Stores(r)
  BY FieldsDiffer, Zenon DEF Writes
<1>. QED
  BY <1>1, <1>6, <1>13, <1>14, StoreKeeps, Zenon

LEMMA StoreSequenceKeeps ==
    ASSUME VersionedInv, StoreSequence
    PROVE  VersionedInv'
<1>1. PICK s \in Nat \ {0}, i \in Cells, payload \in Payloads :
              /\ s = Sequence /\ s = Len(log) /\ s \in 1..Len(log)
              /\ i = Cell /\ i = CellOf(s) /\ payload = Payload
              /\ PublicationInv(i, s, payload)
  BY Publication, Zenon DEF StoreSequence
<1>2. /\ fence \in 0..Len(stores) /\ Len(stores) \in Nat /\ stores \in Seq(StoreRecord)
      /\ index \in Nat
  BY DEF VersionedInv, TypeOK, ProducerTypes
<1>3. PICK n \in Nat : n = Len(stores) + 1
  BY <1>2
<1>4. PICK r : r = [loc |-> SequenceOf(i), val |-> s, by |-> s, rel |-> fence]
  BY Zenon
<1>5. /\ r.loc = SequenceOf(i) /\ r.val = s /\ r.by = s /\ r.rel = fence
      /\ r.loc \in Fields(i) /\ r \in StoreRecord /\ r.val \in Values(r.loc)
  BY <1>1, <1>2, <1>4, LocationTypes DEF StoreRecord
<1>6. /\ stores' = Append(stores, r) /\ publishing = "sequence" /\ publishing' = "size"
      /\ UNCHANGED <<fence, version, index, produced, log, consumer, history>>
  BY <1>1, <1>4, Zenon DEF StoreSequence, Store
<1>7. Writes(r, i, s, payload)
  BY <1>1, <1>2, <1>5, <1>6 DEF Writes, Stores
<1>8. AfterStore(SequenceOf(i), r, n) /\ Len(stores') = n
  BY <1>2, <1>3, <1>5, <1>6, StoreToLocation, StoreAdded, Zenon
<1>9. Holds(SequenceOf(i), n, s)'
  BY <1>5, <1>8, HoldsAfter, Zenon
<1>10. WrittenInv(i, s, payload)'
  BY <1>6, <1>8, <1>9, Zenon DEF WrittenInv, SequenceOf
<1>. QED
  BY <1>1, <1>2, <1>5, <1>6, <1>7, <1>10, FieldStoreKeeps, Zenon

LEMMA StoreSizeKeeps ==
    ASSUME VersionedInv, StoreSize
    PROVE  VersionedInv'
<1>1. PICK s \in Nat \ {0}, i \in Cells, payload \in Payloads :
              /\ s = Sequence /\ s = Len(log) /\ s \in 1..Len(log)
              /\ i = Cell /\ i = CellOf(s) /\ payload = Payload
              /\ Len(payload) \in 0..MaxPayloadSize
              /\ PublicationInv(i, s, payload)
  BY Publication, Zenon DEF StoreSize
<1>2. /\ fence \in 0..Len(stores) /\ Len(stores) \in Nat /\ stores \in Seq(StoreRecord)
      /\ Holds(SequenceOf(i), Len(stores), s)
  BY <1>1, ProducerFacts, Zenon DEF PublicationInv, WrittenInv, StoreSize
<1>3. PICK n \in Nat : n = Len(stores) + 1 /\ Len(stores) = n - 1
  BY <1>2
<1>4. PICK r : r = [loc |-> SizeOf(i), val |-> Len(payload), by |-> s, rel |-> fence]
  BY Zenon
<1>5. /\ r.loc = SizeOf(i) /\ r.val = Len(payload) /\ r.by = s /\ r.rel = fence
      /\ r.loc \in Fields(i) /\ r \in StoreRecord /\ r.val \in Values(r.loc)
  BY <1>1, <1>2, <1>4, LocationTypes, VersionedAssumption DEF StoreRecord
<1>6. /\ stores' = Append(stores, r) /\ publishing = "size" /\ publishing' = "storage"
      /\ index' = 0
      /\ UNCHANGED <<fence, version, produced, log, consumer, history>>
  BY <1>1, <1>4, Zenon DEF StoreSize, Store
<1>7. Writes(r, i, s, payload)
  BY <1>1, <1>2, <1>5, <1>6 DEF Writes, Stores
<1>8. /\ AfterStore(SizeOf(i), r, n) /\ AfterStore(SequenceOf(i), r, n) /\ Len(stores') = n
  BY <1>2, <1>3, <1>5, <1>6, StoreToLocation, StoreAdded, Zenon
<1>9. Holds(SizeOf(i), n, Len(payload))'
  BY <1>5, <1>8, HoldsAfter, Zenon
<1>10. Holds(SequenceOf(i), n, s)'
  <2>1. r.loc # SequenceOf(i)
    BY <1>5, LocationsDiffer, Zenon
  <2>. QED  BY <1>2, <1>3, <1>5, <1>8, <2>1, HoldsAfter, Zenon
<1>11. WrittenInv(i, s, payload)'
  BY <1>1, <1>6, <1>8, <1>9, <1>10 DEF WrittenInv, SequenceOf, SizeOf
<1>. QED
  BY <1>1, <1>5, <1>6, <1>7, <1>11, FieldStoreKeeps, Zenon

LEMMA StoreByteKeeps ==
    ASSUME VersionedInv, StoreByte
    PROVE  VersionedInv'
<1>1. PICK s \in Nat \ {0}, i \in Cells, payload \in Payloads :
              /\ s = Sequence /\ s = Len(log) /\ s \in 1..Len(log)
              /\ i = Cell /\ i = CellOf(s) /\ payload = Payload
              /\ payload \in Seq(Byte) /\ Len(payload) \in 0..MaxPayloadSize
              /\ PublicationInv(i, s, payload)
  BY Publication, Zenon DEF StoreByte
<1>2. /\ fence \in 0..Len(stores) /\ Len(stores) \in Nat /\ stores \in Seq(StoreRecord)
      /\ index \in Nat /\ index < Len(payload)
      /\ Holds(SequenceOf(i), Len(stores), s)
      /\ Holds(SizeOf(i), Len(stores), Len(payload))
      /\ \A b \in 1..index : Holds(StorageOf(i, b), Len(stores), payload[b])
  <2>1. publishing = "storage" /\ index < Len(payload)
    BY <1>1, Zenon DEF StoreByte
  <2>2. WrittenInv(i, s, payload)
    BY <1>1, Zenon DEF PublicationInv
  <2>3. /\ fence \in 0..Len(stores) /\ Len(stores) \in Nat /\ stores \in Seq(StoreRecord)
        /\ index \in Nat
    BY DEF VersionedInv, TypeOK, ProducerTypes
  <2>. QED  BY <2>1, <2>2, <2>3, Zenon DEF WrittenInv
<1>3. PICK n \in Nat, d \in Nat : n = Len(stores) + 1 /\ Len(stores) = n - 1 /\ d = index + 1
  BY <1>2
<1>4. PICK r : r = [loc |-> StorageOf(i, d), val |-> payload[d], by |-> s, rel |-> fence]
  BY Zenon
<1>5. /\ r.loc = StorageOf(i, d) /\ r.val = payload[d] /\ r.by = s /\ r.rel = fence
      /\ r.loc \in Fields(i) /\ r \in StoreRecord /\ r.val \in Values(r.loc)
  <2>1. d \in 1..MaxPayloadSize /\ payload[d] \in Byte
    BY <1>1, <1>2, <1>3, VersionedAssumption
  <2>2. StorageOf(i, d) \in Fields(i) /\ StorageOf(i, d) \in Locations
    BY <2>1, LocationTypes, Zenon
  <2>3. Values(StorageOf(i, d)) = Byte
    BY LocationTypes, Zenon
  <2>4. fence \in Nat
    BY <1>2
  <2>. QED
    BY <1>4, <2>1, <2>2, <2>3, <2>4, Zenon DEF StoreRecord
<1>6. /\ stores' = Append(stores, r) /\ publishing = "storage" /\ publishing' = "storage"
      /\ index' = d
      /\ UNCHANGED <<fence, version, produced, log, consumer, history>>
  BY <1>1, <1>3, <1>4, Zenon DEF StoreByte, Store
<1>7. Writes(r, i, s, payload)
  BY <1>1, <1>2, <1>5, <1>6 DEF Writes, Stores
<1>8. Len(stores') = n /\ \A loc : AfterStore(loc, r, n)
  BY <1>2, <1>3, <1>5, <1>6, StoreToLocation, StoreAdded, Zenon
<1>9. /\ r.loc # SizeOf(i) /\ AfterStore(SizeOf(i), r, n)
      /\ r.loc # SequenceOf(i) /\ AfterStore(SequenceOf(i), r, n)
  BY <1>5, <1>8, LocationsDiffer, Zenon
<1>10. Holds(SizeOf(i), n, Len(payload))' /\ Holds(SequenceOf(i), n, s)'
  BY <1>2, <1>3, <1>5, <1>9, HoldsAfter, Zenon
<1>11. ASSUME NEW b \in 1..d PROVE Holds(StorageOf(i, b), n, payload[b])'
  <2>1. CASE b = d
    BY <1>5, <1>8, <2>1, HoldsAfter, Zenon
  <2>2. CASE b # d
    <3>1. b \in 1..index /\ StorageOf(i, b) # StorageOf(i, d)
      BY <1>2, <1>3, <2>2, LocationsDiffer
    <3>2. Holds(StorageOf(i, b), n - 1, payload[b])
      BY <1>2, <1>3, <3>1, Zenon
    <3>. QED  BY <1>5, <1>8, <3>1, <3>2, HoldsAfter, Zenon
  <2>. QED  BY <2>1, <2>2, Zenon
<1>12. WrittenInv(i, s, payload)'
  BY <1>1, <1>2, <1>3, <1>6, <1>8, <1>10, <1>11 DEF WrittenInv, SequenceOf, SizeOf, StorageOf
<1>. QED
  BY <1>1, <1>5, <1>6, <1>7, <1>12, FieldStoreKeeps, Zenon

-----------------------------------------------------------------------------
(* Steps without a store.                                                  *)

LEMMA SameStores ==
    ASSUME UNCHANGED stores
    PROVE  /\ \A loc : StoresTo(loc)' = StoresTo(loc)
           /\ \A loc, n : Newest(loc, n)' = Newest(loc, n)
           /\ \A loc, k : ValueAt(k, loc)' = ValueAt(k, loc)
           /\ \A i : EvenStores(i)' = EvenStores(i)
           /\ \A loc, n, val : Holds(loc, n, val)' = Holds(loc, n, val)
           /\ \A s, n : Completed(s, n)' = Completed(s, n)
<1>1. \A loc : StoresTo(loc)' = StoresTo(loc)
  BY Zenon DEF StoresTo
<1>2. \A loc, n : Newest(loc, n)' = Newest(loc, n)
  BY <1>1, Zenon DEF Newest, NotOlder
<1>3. \A loc, k : ValueAt(k, loc)' = ValueAt(k, loc)
  BY Zenon DEF ValueAt, Initial
<1>4. \A i : EvenStores(i)' = EvenStores(i)
  BY <1>1, <1>3, Zenon DEF EvenStores, Version
<1>5. \A loc, n, val : Holds(loc, n, val)' = Holds(loc, n, val)
  BY <1>2, <1>3, Zenon DEF Holds
<1>6. \A s, n : Completed(s, n)' = Completed(s, n)
  BY <1>4, Zenon DEF Completed, CellOf
<1>. QED  BY <1>1, <1>2, <1>3, <1>4, <1>5, <1>6, Zenon

LEMMA SameFields ==
    ASSUME UNCHANGED stores, NEW i, NEW b, NEW n, NEW val
    PROVE  /\ Holds(SequenceOf(i), n, val)' = Holds(SequenceOf(i), n, val)
           /\ Holds(SizeOf(i), n, val)' = Holds(SizeOf(i), n, val)
           /\ Holds(StorageOf(i, b), n, val)' = Holds(StorageOf(i, b), n, val)
BY SameStores DEF SequenceOf, SizeOf, StorageOf

LEMMA CellsKeep ==
    ASSUME VersionedInv, UNCHANGED stores, Grows
    PROVE  (\A i \in Cells : CellInv(i))' /\ PublishedInv'
<1>1. TypeOK /\ PublishedInv
  BY Zenon DEF VersionedInv
<1>2. /\ Len(log) \in Nat /\ Len(log') \in Nat /\ Len(log) <= Len(log')
      /\ \A s \in 1..Len(log) : log'[s] = log[s]
  BY <1>1, Growth, Zenon
<1>3. ASSUME NEW i \in Cells
      PROVE  CellInv(i)'
  <2>1. CellInv(i)
    BY Zenon DEF VersionedInv
  <2>2. /\ \A j, k \in StoresTo(Version(i))' :
              j < k => ValueAt(j, Version(i))' < ValueAt(k, Version(i))'
        /\ \A j \in EvenStores(i)' : \A loc \in Fields(i) : \A k \in StoresTo(loc)' :
              j < k => \E o \in StoresTo(Version(i))' : j < o /\ o <= stores'[k].rel
    BY <2>1, SameStores DEF CellInv, Version
  <2>3. ASSUME NEW j \in EvenStores(i)' \ {0}, NEW s, NEW payload, s = stores'[j].by, payload = log'[s]
        PROVE  /\ stores'[j].rel = j
               /\ Holds(SequenceOf(i), j, s)'
               /\ Holds(SizeOf(i), j, Len(payload))'
               /\ \A b \in 1..Len(payload) : Holds(StorageOf(i, b), j, payload[b])'
               /\ \A k \in StoresTo(Version(i))' : j < k => s + Capacity <= stores'[k].by
    <3>1. j \in EvenStores(i) \ {0} /\ s = stores[j].by
      BY <2>3, SameStores, Zenon
    <3>2. s \in 1..Len(log)
      BY <1>1, <3>1, EvenStoreFacts, Zenon
    <3>3. payload = log[s]
      BY <1>2, <2>3, <3>2, Zenon
    <3>4. /\ stores[j].rel = j
          /\ Holds(SequenceOf(i), j, s)
          /\ Holds(SizeOf(i), j, Len(payload))
          /\ \A b \in 1..Len(payload) : Holds(StorageOf(i, b), j, payload[b])
          /\ \A k \in StoresTo(Version(i)) : j < k => s + Capacity <= stores[k].by
      BY <2>1, <3>1, <3>3, Zenon DEF CellInv
    <3>5. /\ stores'[j].rel = j
          /\ \A k \in StoresTo(Version(i))' : j < k => s + Capacity <= stores'[k].by
      BY <3>4, SameStores, Zenon DEF Version
    <3>6. Holds(SequenceOf(i), j, s)' /\ Holds(SizeOf(i), j, Len(payload))'
      BY <3>4, SameFields
    <3>7. \A b \in 1..Len(payload) : Holds(StorageOf(i, b), j, payload[b])'
      BY <3>4, SameFields
    <3>. QED  BY <3>5, <3>6, <3>7, Zenon
  <2>. QED  BY <2>2, <2>3, Zenon DEF CellInv, Version, Fields, SequenceOf, SizeOf, StorageOf
<1>4. PublishedInv'
  <2>1. ASSUME NEW k \in StoresTo(Published)' \ {0}
        PROVE  /\ stores'[k].rel = k
               /\ stores'[k].val <= Len(log')
               /\ \A s \in 1..stores'[k].val : Completed(s, k)'
    <3>1. /\ stores[k].rel = k /\ stores[k].val <= Len(log)
          /\ \A s \in 1..stores[k].val : Completed(s, k)
          /\ k \in StoresTo(Published) \ {0}
      BY <1>1, <2>1, SameStores, Zenon DEF PublishedInv
    <3>2. stores[k].val \in Nat
      BY <1>1, <3>1, PublishedValues, Zenon DEF ValueAt
    <3>3. stores[k].val <= Len(log')
      BY <1>2, <3>1, <3>2
    <3>. QED  BY <3>1, <3>3, SameStores, Zenon
  <2>. QED  BY <2>1, Zenon DEF PublishedInv, Published
<1>. QED  BY <1>3, <1>4, Zenon DEF Cells

LEMMA FenceKeeps ==
    ASSUME VersionedInv, FenceAfterOdd \/ FenceBeforeEven
    PROVE  VersionedInv'
<1>1. PICK s \in Nat \ {0}, i \in Cells, payload \in Payloads :
              /\ s = Sequence /\ s = Len(log) /\ i = Cell /\ i = CellOf(s) /\ payload = Payload
              /\ PublicationInv(i, s, payload)
  BY Publication, Zenon DEF FenceAfterOdd, FenceBeforeEven
<1>2. /\ UNCHANGED <<stores, version, index, produced, log, consumer, history>>
      /\ fence' = Len(stores)
      /\ \/ publishing = "fence" /\ publishing' = "sequence"
         \/ publishing = "storage" /\ publishing' = "even" /\ index = Len(payload)
  BY <1>1, Zenon DEF FenceAfterOdd, FenceBeforeEven
<1>3. TypeOK /\ ProducerInv /\ Grows
  BY <1>2, Zenon DEF VersionedInv, Grows
<1>4. /\ UNCHANGED <<attached, next_sequence, pc, frame, floor, pending>>
      /\ UNCHANGED <<registration, start, received>>
  BY <1>2, Zenon DEF consumer, history
<1>5. TypeOK'
  BY <1>2, <1>3, <1>4 DEF TypeOK, ProducerTypes, ConsumerTypes, Values
<1>6. (\A c \in Cells : CellInv(c))' /\ PublishedInv'
  BY <1>2, <1>3, CellsKeep, Zenon
<1>7. \A h \in Handles : ConsumerInv(h)'
  BY <1>3, <1>4, ConsumersKeep, Zenon DEF SameConsumer
<1>8. Cell' = i /\ Sequence' = s /\ Payload' = payload
  BY <1>1, <1>2, Zenon DEF Cell, Sequence, Payload, CellOf
<1>9. WrittenInv(i, s, payload)'
  <2>1. CASE publishing' = "sequence"
    BY <2>1, Zenon DEF WrittenInv
  <2>2. CASE publishing = "storage" /\ publishing' = "even" /\ index = Len(payload)
    <3>1. /\ Holds(SequenceOf(i), Len(stores), s) /\ index <= Len(payload)
          /\ Holds(SizeOf(i), Len(stores), Len(payload))
          /\ \A b \in 1..index : Holds(StorageOf(i, b), Len(stores), payload[b])
      BY <1>1, <2>2, Zenon DEF PublicationInv, WrittenInv
    <3>2. /\ Holds(SequenceOf(i), Len(stores), s)'
          /\ Holds(SizeOf(i), Len(stores), Len(payload))'
          /\ \A b \in 1..index' : Holds(StorageOf(i, b), Len(stores), payload[b])'
      <4>1. PICK n : n = Len(stores)
        BY Zenon
      <4>2. Len(stores') = n
        BY <1>2, <4>1, Zenon
      <4>3. /\ Holds(SequenceOf(i), n, s) /\ Holds(SizeOf(i), n, Len(payload))
            /\ \A b \in 1..index : Holds(StorageOf(i, b), n, payload[b])
        BY <3>1, <4>1, Zenon
      <4>4. Holds(SequenceOf(i), n, s)' /\ Holds(SizeOf(i), n, Len(payload))'
        BY <1>2, <4>3, SameFields
      <4>5. \A b \in 1..index : Holds(StorageOf(i, b), n, payload[b])'
        BY <1>2, <4>3, SameFields
      <4>. QED  BY <1>2, <4>2, <4>4, <4>5, Zenon
    <3>. QED  BY <1>2, <2>2, <3>1, <3>2, Zenon DEF WrittenInv
  <2>. QED  BY <1>2, <2>1, <2>2, Zenon
<1>10. PublicationInv(i, s, payload)'
  <2>1. /\ version % 2 = 0
        /\ \A j \in EvenStores(i) \ {0} : stores[j].by < s
        /\ \E k \in Newest(Version(i), Len(stores)) : ValueAt(k, Version(i)) = version + 1
    BY <1>1, <1>2, Zenon DEF PublicationInv, Writing
  <2>2. \A k \in Newest(Version(i), Len(stores)) : k <= Len(stores)
    BY Zenon DEF Newest
  <2>3. \A j \in EvenStores(i)' \ {0} : stores'[j].by < s
    BY <1>2, <2>1, SameStores, Zenon
  <2>4. (\E k \in Newest(Version(i), Len(stores)) :
            ValueAt(k, Version(i)) = version + 1 /\ k <= fence)'
    BY <1>2, <2>1, <2>2, SameStores, Zenon DEF Version
  <2>. QED  BY <1>2, <1>9, <2>1, <2>3, <2>4, Zenon DEF PublicationInv, Writing, Version
<1>11. ProducerInv'
  <2>1. (\A q \in 1..produced : Completed(q, Len(stores)))'
    BY <1>2, <1>3, SameStores, Zenon DEF ProducerInv
  <2>2. (\A c \in Cells : \A k \in StoresTo(Version(c)) \ {0} : CellOf(stores[k].by) = c)'
    BY <1>2, <1>3, SameStores, Zenon DEF ProducerInv, Cells, CellOf, Version
  <2>3. (\A c \in Cells : \/ publishing \in Writing /\ c = Cell
                          \/ Newest(Version(c), Len(stores)) \subseteq EvenStores(c))'
    <3>1. ASSUME NEW c \in Cells
          PROVE  \/ publishing' \in Writing /\ c = i
                 \/ Newest(Version(c), Len(stores)) \subseteq EvenStores(c)
      <4>1. publishing \in Writing => publishing' \in Writing
        BY <1>2, Zenon DEF Writing
      <4>. QED  BY <1>1, <1>3, <4>1, Zenon DEF ProducerInv
    <3>2. ASSUME NEW c \in Cells
          PROVE  /\ Newest(Version(c), Len(stores))' = Newest(Version(c), Len(stores))
                 /\ EvenStores(c)' = EvenStores(c)
      BY <1>2, SameStores, Zenon DEF Version
    <3>. QED  BY <1>8, <3>1, <3>2, Zenon DEF Cells, Writing
  <2>4. PublicationInv(Cell, Sequence, Payload)'
    BY <1>8, <1>10, Zenon
  <2>5. (Len(log) = IF publishing = "idle" THEN produced ELSE produced + 1)'
    BY <1>2, <1>3, Zenon DEF ProducerInv
  <2>. QED  BY <2>1, <2>2, <2>3, <2>4, <2>5, Zenon DEF ProducerInv
<1>. QED  BY <1>5, <1>6, <1>7, <1>11, Zenon DEF VersionedInv

LEMMA PublishCallKeeps ==
    ASSUME VersionedInv, NEW payload \in Payloads, PublishCall(payload)
    PROVE  VersionedInv'
<1>1. /\ TypeOK /\ ProducerInv /\ publishing = "idle" /\ publishing' = "odd"
      /\ Len(payload) <= MaxPayloadSize /\ log' = Append(log, payload)
      /\ UNCHANGED <<stores, fence, index, produced>>
      /\ UNCHANGED <<attached, next_sequence, pc, frame, floor, pending>>
      /\ UNCHANGED <<registration, start, received>>
  BY Zenon DEF VersionedInv, PublishCall, consumer, history
<1>2. PICK s \in Nat \ {0} : s = produced + 1 /\ s = Len(log) + 1 /\ Len(log) \in Nat
  <2>1. produced \in Nat /\ Len(log) = produced
    BY <1>1, ProducerFacts, Zenon DEF ProducerInv
  <2>. QED  BY <2>1
<1>3. PICK i \in Cells : i = CellOf(s)
  BY CellIndex, Zenon
<1>4. /\ log' \in Seq({p \in Payloads : Len(p) <= MaxPayloadSize})
      /\ Len(log') = s /\ log'[s] = payload
  BY <1>1, <1>2 DEF TypeOK, ProducerTypes
<1>5. Cell' = i /\ Sequence' = s /\ Payload' = payload
  BY <1>3, <1>4, Zenon DEF Cell, Sequence, Payload, CellOf
<1>6. PICK k \in Newest(Version(i), Len(stores)) : version' = ValueAt(k, Version(i))
  <2>1. PICK k \in NotOlder(Version(i), Len(stores)) : version' = ValueAt(k, Version(i))
    BY <1>2, <1>3, Zenon DEF PublishCall
  <2>2. k <= Len(stores)
    BY <1>1, StoresToLocation, Zenon DEF NotOlder, TypeOK, ProducerTypes
  <2>. QED  BY <2>1, <2>2, Zenon DEF Newest
<1>7. Newest(Version(i), Len(stores)) \subseteq EvenStores(i)
  BY <1>1, Zenon DEF ProducerInv, Writing
<1>8. version' \in Nat /\ version' % 2 = 0
  BY <1>1, <1>6, <1>7, VersionValues, Zenon DEF EvenStores
<1>9. TypeOK'
  <2>1. (\A l \in 1..Len(stores) : /\ stores[l].val \in Values(stores[l].loc)
                                   /\ stores[l].by \in 1..Len(log)
                                   /\ stores[l].rel \in 0..l)'
    BY <1>1, <1>2, <1>4 DEF TypeOK, ProducerTypes, Values
  <2>2. /\ stores' \in Seq(StoreRecord) /\ fence' \in 0..Len(stores')
        /\ index' \in Nat /\ produced' \in Nat
        /\ floor' \in [Handles -> 0..Len(stores')] /\ pending' \in [Handles -> 0..Len(stores')]
    BY <1>1, Zenon DEF TypeOK, ProducerTypes, ConsumerTypes
  <2>. QED  BY <1>1, <1>4, <1>8, <2>1, <2>2, Zenon DEF TypeOK, ProducerTypes, ConsumerTypes
<1>10. Grows
  BY <1>1, Zenon DEF Grows
<1>11. (\A c \in Cells : CellInv(c))' /\ PublishedInv'
  BY <1>1, <1>10, CellsKeep, Zenon
<1>12. \A h \in Handles : ConsumerInv(h)'
  BY <1>1, <1>10, ConsumersKeep, Zenon DEF SameConsumer
<1>13. PublicationInv(i, s, payload)'
  <2>1. \A j \in EvenStores(i)' \ {0} : stores'[j].by < s
    <3>1. \A j \in EvenStores(i) \ {0} : stores[j].by \in 1..Len(log)
      BY <1>1, EvenStoreFacts, Zenon
    <3>2. \A q \in 1..Len(log) : q < s
      BY <1>2
    <3>. QED  BY <1>1, <3>1, <3>2, SameStores, Zenon
  <2>2. (\E l \in Newest(Version(i), Len(stores)) : ValueAt(l, Version(i)) = version + 0)'
    <3>1. \A v \in Nat : v + 0 = v
      OBVIOUS
    <3>. QED  BY <1>1, <1>6, <1>8, <3>1, SameStores, Zenon DEF Version
  <2>3. publishing' = "odd" /\ publishing' \notin Writing /\ WrittenInv(i, s, payload)'
    BY <1>1, Zenon DEF WrittenInv, Writing
  <2>. QED  BY <1>8, <2>1, <2>2, <2>3, Zenon DEF PublicationInv, Writing, Version
<1>14. ProducerInv'
  <2>1. (\A q \in 1..produced : Completed(q, Len(stores)))'
    BY <1>1, SameStores, Zenon DEF ProducerInv
  <2>2. (\A c \in Cells : \A l \in StoresTo(Version(c)) \ {0} : CellOf(stores[l].by) = c)'
    BY <1>1, SameStores, Zenon DEF ProducerInv, Cells, CellOf, Version
  <2>3. (\A c \in Cells : Newest(Version(c), Len(stores)) \subseteq EvenStores(c))'
    BY <1>1, SameStores DEF ProducerInv, Cells, Writing, Version
  <2>4. PublicationInv(Cell, Sequence, Payload)'
    BY <1>5, <1>13, Zenon
  <2>. QED  BY <1>1, <1>2, <1>4, <2>1, <2>2, <2>3, <2>4, Zenon DEF ProducerInv
<1>. QED  BY <1>9, <1>11, <1>12, <1>14, Zenon DEF VersionedInv

-----------------------------------------------------------------------------
(* The last two stores.                                                    *)

LEMMA StoreEvenKeeps ==
    ASSUME VersionedInv, StoreEven
    PROVE  VersionedInv'
<1>1. PICK s \in Nat \ {0}, i \in Cells, payload \in Payloads :
              /\ s = Sequence /\ s = Len(log) /\ s \in 1..Len(log)
              /\ i = Cell /\ i = CellOf(s) /\ payload = Payload /\ payload = log[s]
              /\ PublicationInv(i, s, payload)
  BY Publication, Zenon DEF StoreEven
<1>2. /\ version % 2 = 0 /\ version \in Nat /\ Len(stores) \in Nat /\ stores \in Seq(StoreRecord)
      /\ \A j \in EvenStores(i) \ {0} : stores[j].by < s
      /\ \E k \in Newest(Version(i), Len(stores)) : ValueAt(k, Version(i)) = version + 1
  <2>1. publishing = "even" /\ publishing # "odd" /\ publishing \in {"odd"} \union Writing
    BY Zenon DEF StoreEven, Writing
  <2>. QED  BY <1>1, <2>1, ProducerFacts, Zenon DEF PublicationInv
<1>3. PICK n \in Nat : n = Len(stores) + 1
  BY <1>2
<1>4. PICK r : r = [loc |-> Version(i), val |-> version + 2, by |-> s, rel |-> n]
  BY Zenon
<1>5. /\ r.loc = Version(i) /\ r.val = version + 2 /\ r.by = s /\ r.rel = n
      /\ r.val \in Nat /\ r.val % 2 = 0
      /\ r \in StoreRecord /\ r.val \in Values(r.loc)
  <2>1. version + 2 \in Nat /\ (version + 2) % 2 = 0
    BY <1>2
  <2>. QED  BY <1>1, <1>3, <1>4, <2>1, LocationTypes, Zenon DEF StoreRecord
<1>6. /\ stores' = Append(stores, r) /\ publishing = "even" /\ publishing' = "publish"
      /\ UNCHANGED <<fence, version, index, produced, log, consumer, history>>
  BY <1>1, <1>3, <1>4, Zenon DEF StoreEven, Store
<1>7. Stores(r)
  <2>1. n \in 0..(Len(stores) + 1)
    BY <1>2, <1>3
  <2>. QED  BY <1>1, <1>5, <1>6, <2>1, Zenon DEF Stores
<1>8. Writes(r, i, s, payload)
  BY <1>1, <1>5, <1>6, <1>7, Zenon DEF Writes
<1>9. ASSUME NEW c \in Cells PROVE Respects(r, c)
  <2>1. r.loc = Version(c) => c = i
    BY <1>5, LocationsDiffer, Zenon
  <2>2. r.loc \notin Fields(c)
    BY <1>5, FieldsDiffer, Zenon
  <2>3. \A j \in StoresTo(Version(i)) : ValueAt(j, Version(i)) < r.val
    <3>1. PICK k \in Newest(Version(i), Len(stores)) : ValueAt(k, Version(i)) = version + 1
      BY <1>2, Zenon
    <3>2. \A j \in StoresTo(Version(i)) : ValueAt(j, Version(i)) <= version + 1
      BY <3>1, NewestVersion, Zenon
    <3>3. \A j \in StoresTo(Version(i)) : ValueAt(j, Version(i)) \in Int
      BY VersionValues DEF VersionedInv
    <3>. QED  BY <1>2, <1>5, <3>2, <3>3
  <2>4. \A j \in EvenStores(i) \ {0} : stores[j].by + Capacity <= r.by
    BY <1>1, <1>2, <1>5, LapBehind, Zenon
  <2>5. /\ Holds(SequenceOf(i), Len(stores), s)
        /\ Holds(SizeOf(i), Len(stores), Len(payload))
        /\ \A b \in 1..Len(payload) : Holds(StorageOf(i, b), Len(stores), payload[b])
    BY <1>1, <1>6, Zenon DEF PublicationInv, WrittenInv
  <2>. QED  BY <1>1, <1>3, <1>5, <2>1, <2>2, <2>3, <2>4, <2>5, Zenon DEF Respects
<1>10. PublicationInv(i, s, payload)'
  <2>1. AfterStore(Version(i), r, n)
    BY <1>2, <1>3, <1>5, <1>6, StoreToLocation, Zenon
  <2>2. n \in EvenStores(i)'
    BY <1>5, <2>1, EvenStoresAfter
  <2>3. Len(stores') = n /\ stores'[n] = r
    BY <1>2, <1>3, <1>5, <1>6, StoreAdded, Zenon
  <2>4. Completed(s, n)'
    BY <1>1, <1>2, <1>3, <1>5, <2>2, <2>3 DEF Completed, CellOf
  <2>5. Completed(s, Len(stores))'
    BY <2>3, <2>4, Zenon
  <2>6. publishing' \notin {"odd"} \union Writing /\ WrittenInv(i, s, payload)'
    BY <1>6, Zenon DEF Writing, WrittenInv
  <2>. QED  BY <1>6, <2>5, <2>6, Zenon DEF PublicationInv, Writing
<1>11. ProducerInv'
  BY <1>5, <1>6, <1>8, <1>10, WriteKeepsProducer, Zenon
<1>12. r.loc # Published /\ index' \in Nat /\ produced' \in Nat
  BY <1>5, <1>6, LocationsDiffer, Zenon DEF VersionedInv, TypeOK, ProducerTypes
<1>. QED
  BY <1>6, <1>7, <1>9, <1>11, <1>12, StoreKeeps, Zenon

LEMMA StorePublishedKeeps ==
    ASSUME VersionedInv, StorePublished
    PROVE  VersionedInv'
<1>1. PICK s \in Nat \ {0}, i \in Cells, payload \in Payloads :
              /\ s = Sequence /\ s = Len(log) /\ s \in 1..Len(log) /\ s = produced + 1
              /\ PublicationInv(i, s, payload)
  BY Publication, Zenon DEF StorePublished
<1>2. /\ TypeOK /\ ProducerInv /\ produced \in Nat /\ index \in Nat
      /\ Len(stores) \in Nat /\ stores \in Seq(StoreRecord)
      /\ Completed(s, Len(stores)) /\ \A q \in 1..produced : Completed(q, Len(stores))
  BY <1>1, ProducerFacts, Zenon DEF PublicationInv, StorePublished, ProducerInv
<1>3. PICK n \in Nat : n = Len(stores) + 1
  BY <1>2
<1>4. PICK r : r = [loc |-> Published, val |-> s, by |-> s, rel |-> n]
  BY Zenon
<1>5. /\ r.loc = Published /\ r.val = s /\ r.by = s /\ r.rel = n
      /\ r \in StoreRecord /\ r.val \in Values(r.loc)
  BY <1>1, <1>2, <1>4, LocationTypes, Zenon DEF StoreRecord
<1>6. /\ stores' = Append(stores, r) /\ publishing = "publish" /\ publishing' = "idle"
      /\ produced' = s
      /\ UNCHANGED <<fence, version, index, log, consumer, history>>
  BY <1>1, <1>3, <1>4, Zenon DEF StorePublished, Store
<1>7. Stores(r)
  <2>1. n \in 0..(Len(stores) + 1)
    BY <1>2, <1>3
  <2>. QED  BY <1>1, <1>5, <1>6, <2>1, Zenon DEF Stores
<1>8. ASSUME NEW c \in Cells PROVE r.loc # Version(c) /\ Respects(r, c)
  <2>1. r.loc # Version(c) /\ r.loc \notin Fields(c)
    BY <1>5, LocationsDiffer, FieldsDiffer, Zenon
  <2>. QED  BY <2>1, Zenon DEF Respects
<1>9. \A q \in 1..s : Completed(q, Len(stores))
  BY <1>1, <1>2
<1>10. Len(stores') = n
  BY <1>2, <1>3, <1>5, <1>6, StoreAdded, Zenon
<1>11. ProducerInv'
  <2>1. (\A q \in 1..produced : Completed(q, Len(stores)))'
    <3>1. \A q \in 1..s : Completed(q, n)'
      BY <1>2, <1>3, <1>7, <1>9, CompletedAfter
    <3>. QED  BY <1>6, <1>10, <3>1, Zenon
  <2>2. ASSUME NEW c \in Cells
        PROVE  /\ \A k \in StoresTo(Version(c))' \ {0} : CellOf(stores'[k].by) = c
               /\ Newest(Version(c), n)' \subseteq EvenStores(c)'
    <3>1. AfterStore(Version(c), r, n) /\ r.loc # Version(c)
      BY <1>2, <1>3, <1>5, <1>6, <1>8, StoreToLocation, Zenon
    <3>2. \A k \in StoresTo(Version(c))' \ {0} : CellOf(stores'[k].by) = c
      BY <1>2, <3>1, Zenon DEF ProducerInv, AfterStore, Version
    <3>3. Newest(Version(c), n - 1) \subseteq EvenStores(c)
      BY <1>2, <1>3, <1>6 DEF ProducerInv, Writing
    <3>4. Newest(Version(c), n)' \subseteq EvenStores(c)'
      BY <1>5, <3>1, <3>3, StableAfter, Zenon
    <3>. QED  BY <3>2, <3>4, Zenon
  <2>3. (\A c \in Cells : \A k \in StoresTo(Version(c)) \ {0} : CellOf(stores[k].by) = c)'
    BY <2>2, Zenon DEF Cells, CellOf, Version
  <2>4. (\A c \in Cells : Newest(Version(c), Len(stores)) \subseteq EvenStores(c))'
    BY <1>10, <2>2, Zenon DEF Cells, Version
  <2>. QED  BY <1>1, <1>6, <2>1, <2>3, <2>4, Zenon DEF ProducerInv
<1>12. r.val \in 0..Len(log) /\ index' \in Nat /\ produced' \in Nat
  BY <1>1, <1>2, <1>5, <1>6
<1>. QED
  BY <1>3, <1>5, <1>6, <1>7, <1>8, <1>9, <1>11, <1>12, StoreKeeps, Zenon

\* The whole of try_publish.
LEMMA PublishKeeps ==
    ASSUME VersionedInv, Publish
    PROVE  VersionedInv' \/ UNCHANGED vars
BY StoreOddKeeps, FenceKeeps, StoreSequenceKeeps, StoreSizeKeeps, StoreByteKeeps, StoreEvenKeeps,
   StorePublishedKeeps, PublishCallKeeps, Zenon DEF Publish, PublishStep, PublishTooLarge

=============================================================================
