------------------------ MODULE VersionedSPMCProofs -------------------------
(***************************************************************************)
(* Proofs about VersionedSPMCQueue, for every capacity, payload size and   *)
(* number of attempts, any set of Consumer objects, and loads that may     *)
(* return old values: VersionedInv is inductive, so the queue implements   *)
(* MulticastContract and reports overwritten only when it is true.         *)
(***************************************************************************)
EXTENDS VersionedPublishProofs, VersionedContract

-----------------------------------------------------------------------------
(* The consumers.                                                          *)

\* A consumer's step leaves the producer's side as it is.
LEMMA ProducerKeeps ==
    ASSUME VersionedInv, UNCHANGED producer
    PROVE  (\A i \in Cells : CellInv(i))' /\ PublishedInv' /\ ProducerInv' /\ Grows
<1>1. /\ UNCHANGED <<stores, fence, publishing, version, index, produced, log>>
      /\ TypeOK /\ ProducerInv
  BY Zenon DEF producer, VersionedInv
<1>2. Grows
  BY <1>1, Zenon DEF Grows
<1>3. (\A i \in Cells : CellInv(i))' /\ PublishedInv'
  BY <1>1, <1>2, CellsKeep, Zenon
<1>4. Cell' = Cell /\ Sequence' = Sequence /\ Payload' = Payload
  BY <1>1, Zenon DEF Cell, Sequence, Payload, CellOf
<1>5. ProducerInv'
  <2>1. (\A q \in 1..produced : Completed(q, Len(stores)))'
    BY <1>1, SameStores, Zenon DEF ProducerInv
  <2>2. (\A c \in Cells : \A k \in StoresTo(Version(c)) \ {0} : CellOf(stores[k].by) = c)'
    BY <1>1, SameStores, Zenon DEF ProducerInv, Cells, CellOf, Version
  <2>3. (\A c \in Cells : \/ publishing \in Writing /\ c = Cell
                          \/ Newest(Version(c), Len(stores)) \subseteq EvenStores(c))'
    BY <1>1, <1>4, SameStores, Zenon DEF ProducerInv, Cells, Writing, Version
  <2>4. ASSUME publishing' # "idle" PROVE PublicationInv(Cell, Sequence, Payload)'
    <3>1. PICK s \in Nat \ {0}, i \in Cells, payload \in Payloads :
                  /\ s = Sequence /\ i = Cell /\ payload = Payload
                  /\ PublicationInv(i, s, payload)
      BY <1>1, <2>4, Publication, Zenon
    <3>2. WrittenInv(i, s, payload)'
      BY <1>1, <3>1, SameStores DEF PublicationInv, WrittenInv, SequenceOf, SizeOf, StorageOf
    <3>3. (publishing = "publish" => Completed(s, Len(stores)))'
      BY <1>1, <3>1, SameStores, Zenon DEF PublicationInv
    <3>4. (publishing \in {"odd"} \union Writing =>
              /\ version % 2 = 0
              /\ \A j \in EvenStores(i) \ {0} : stores[j].by < s
              /\ \E k \in Newest(Version(i), Len(stores)) :
                    /\ ValueAt(k, Version(i)) = version + (IF publishing = "odd" THEN 0 ELSE 1)
                    /\ publishing \in Writing \ {"fence"} => k <= fence)'
      BY <1>1, <3>1, SameStores, Zenon DEF PublicationInv, Writing, Version
    <3>5. PublicationInv(i, s, payload)'
      BY <3>2, <3>3, <3>4, Zenon DEF PublicationInv
    <3>. QED  BY <1>4, <3>1, <3>5, Zenon
  <2>5. (Len(log) = IF publishing = "idle" THEN produced ELSE produced + 1)'
    BY <1>1, Zenon DEF ProducerInv
  <2>. QED  BY <2>1, <2>2, <2>3, <2>4, <2>5, Zenon DEF ProducerInv
<1>. QED  BY <1>2, <1>3, <1>5, Zenon

\* What is left to show of a step of the consumers.
LEMMA OnlyConsumers ==
    ASSUME VersionedInv, UNCHANGED producer, ConsumerTypes',
           \A g \in Handles : SameConsumer(g) \/ ConsumerInv(g)'
    PROVE  VersionedInv'
<1>1. TypeOK'
  <2>1. /\ UNCHANGED <<stores, fence, publishing, version, index, produced, log>> /\ TypeOK
    BY Zenon DEF producer, VersionedInv
  <2>2. (\A l \in 1..Len(stores) : /\ stores[l].val \in Values(stores[l].loc)
                                   /\ stores[l].by \in 1..Len(log)
                                   /\ stores[l].rel \in 0..l)'
    BY <2>1, Zenon DEF TypeOK, ProducerTypes, Values
  <2>3. ProducerTypes'
    BY <2>1, <2>2, Zenon DEF TypeOK, ProducerTypes
  <2>. QED  BY <2>3, Zenon DEF TypeOK
<1>2. (\A i \in Cells : CellInv(i))' /\ PublishedInv' /\ ProducerInv' /\ Grows
  BY ProducerKeeps, Zenon
<1>3. \A g \in Handles : ConsumerInv(g)'
  BY <1>2, ConsumersKeep, Zenon
<1>. QED  BY <1>1, <1>2, <1>3, Zenon DEF VersionedInv

LEMMA ConsumerStepKeeps ==
    ASSUME VersionedInv, UNCHANGED producer, NEW h \in Handles, ConsumerTypes', ConsumerInv(h)',
           \A g \in Handles \ {h} : SameConsumer(g) \/ ConsumerInv(g)'
    PROVE  VersionedInv'
BY OnlyConsumers, Zenon

\* A call that does nothing.
LEMMA StutterKeeps ==
    ASSUME VersionedInv, UNCHANGED vars
    PROVE  VersionedInv'
<1>1. UNCHANGED producer /\ \A g \in Handles : SameConsumer(g)
  BY Zenon DEF vars, producer, SameConsumer
<1>2. ConsumerTypes'
  <2>1. ConsumerTypes
    BY Zenon DEF VersionedInv, TypeOK
  <2>. QED  BY <2>1, Zenon DEF vars, ConsumerTypes
<1>. QED  BY <1>1, <1>2, OnlyConsumers, Zenon

\* A consumer outside read() has nothing to rely on.
LEMMA IdleConsumer ==
    ASSUME NEW h \in Handles, pc'[h] = "idle", frame'[h] = NoFrame,
           attached'[h] => registration'[h] # 0 /\ next_sequence'[h] # 0
    PROVE  ConsumerInv(h)'
<1>1. /\ frame'[h].attempt = 0 /\ frame'[h].scratch = << >> /\ Len(<< >>) = 0
      /\ 0 < ReadAttempts /\ 0 <= MaxPayloadSize
  BY VersionedAssumption DEF NoFrame
<1>. QED  BY <1>1 DEF ConsumerInv, FrameInv

\* A load reads a store to its location, none older than one below the floor.
LEMMA LoadFacts ==
    ASSUME TypeOK, NEW h \in Handles, NEW loc, NEW k \in Loads(h, loc)
    PROVE  /\ k \in StoresTo(loc) /\ k \in 0..Len(stores)
           /\ \A j \in StoresTo(loc) : j <= floor[h] => j <= k
           /\ RelAt(k) \in 0..Len(stores)
<1>1. /\ stores \in Seq(StoreRecord) /\ floor[h] \in 0..Len(stores) /\ Len(stores) \in Nat
      /\ \A l \in 1..Len(stores) : stores[l].rel \in 0..l
  BY DEF TypeOK, ProducerTypes, ConsumerTypes
<1>2. \A j \in StoresTo(loc) : j \in 0..Len(stores)
  BY <1>1, StoresToLocation
<1>3. /\ k \in StoresTo(loc)
      /\ \A j \in StoresTo(loc) : j <= floor[h] => j <= k
  BY <1>1, <1>2 DEF Loads, NotOlder
<1>4. RelAt(k) \in 0..Len(stores)
  BY <1>1, <1>2, <1>3 DEF RelAt
<1>. QED  BY <1>2, <1>3, <1>4, Zenon

LEMMA AcquireFacts ==
    ASSUME TypeOK, NEW h \in Handles, NEW loc, NEW k \in Loads(h, loc), Acquire(h, k)
    PROVE  /\ floor' \in [Handles -> 0..Len(stores)] /\ pending' = pending
           /\ floor[h] <= floor'[h] /\ RelAt(k) <= floor'[h]
           /\ floor[h] \in Nat /\ floor'[h] \in Nat
           /\ \A g \in Handles \ {h} : floor'[g] = floor[g]
<1>0. RelAt(k) \in 0..Len(stores)
  BY LoadFacts, Zenon
<1>1. floor \in [Handles -> 0..Len(stores)] /\ Len(stores) \in Nat
  BY DEF TypeOK, ConsumerTypes, ProducerTypes
<1>2. /\ floor' = [floor EXCEPT ![h] = Larger(floor[h], RelAt(k))] /\ pending' = pending
  BY Zenon DEF Acquire
<1>3. /\ Larger(floor[h], RelAt(k)) \in 0..Len(stores)
      /\ floor[h] <= Larger(floor[h], RelAt(k)) /\ RelAt(k) <= Larger(floor[h], RelAt(k))
  BY <1>0, <1>1 DEF Larger
<1>. QED  BY <1>0, <1>1, <1>2, <1>3

LEMMA RelaxedFacts ==
    ASSUME TypeOK, NEW h \in Handles, NEW loc, NEW k \in Loads(h, loc), Relaxed(h, k)
    PROVE  /\ pending' \in [Handles -> 0..Len(stores)] /\ floor' = floor
           /\ pending[h] <= pending'[h] /\ RelAt(k) <= pending'[h]
           /\ pending[h] \in Nat /\ pending'[h] \in Nat
           /\ \A g \in Handles \ {h} : pending'[g] = pending[g]
<1>0. RelAt(k) \in 0..Len(stores)
  BY LoadFacts, Zenon
<1>1. pending \in [Handles -> 0..Len(stores)] /\ Len(stores) \in Nat
  BY DEF TypeOK, ConsumerTypes, ProducerTypes
<1>2. /\ pending' = [pending EXCEPT ![h] = Larger(pending[h], RelAt(k))] /\ floor' = floor
  BY Zenon DEF Relaxed
<1>3. /\ Larger(pending[h], RelAt(k)) \in 0..Len(stores)
      /\ pending[h] <= Larger(pending[h], RelAt(k)) /\ RelAt(k) <= Larger(pending[h], RelAt(k))
  BY <1>0, <1>1 DEF Larger
<1>. QED  BY <1>0, <1>1, <1>2, <1>3

\* What published_ counts is complete below the floor of the consumer that has
\* loaded it.
LEMMA LoadPublished ==
    ASSUME VersionedInv, NEW h \in Handles, NEW k \in Loads(h, Published), Acquire(h, k)
    PROVE  /\ ValueAt(k, Published) \in Nat /\ ValueAt(k, Published) <= Len(log)
           /\ \A s \in 1..ValueAt(k, Published) : Completed(s, floor'[h])
<1>1. /\ TypeOK /\ PublishedInv /\ k \in StoresTo(Published) /\ k \in Nat
      /\ RelAt(k) <= floor'[h] /\ floor'[h] \in Nat /\ Len(log) \in Nat
  BY LoadFacts, AcquireFacts DEF VersionedInv, TypeOK, ProducerTypes
<1>2. CASE k = 0
  <2>1. ValueAt(k, Published) = 0
    BY <1>2, Zenon DEF ValueAt, Initial, Published
  <2>. QED  BY <1>1, <2>1
<1>3. CASE k # 0
  <2>1. /\ ValueAt(k, Published) = stores[k].val /\ RelAt(k) = k
        /\ stores[k].val <= Len(log) /\ \A s \in 1..stores[k].val : Completed(s, k)
    BY <1>1, <1>3, Zenon DEF PublishedInv, ValueAt, RelAt
  <2>2. ValueAt(k, Published) \in Nat
    BY <1>1, PublishedValues, Zenon
  <2>3. ASSUME NEW s, Completed(s, k) PROVE Completed(s, floor'[h])
    <3>1. PICK l \in EvenStores(CellOf(s)) : 0 < l /\ l <= k /\ stores[l].by = s
      BY <2>3, Zenon DEF Completed
    <3>2. l \in Nat
      BY <3>1 DEF EvenStores, StoresTo
    <3>3. l <= floor'[h]
      BY <1>1, <2>1, <3>1, <3>2
    <3>. QED  BY <3>1, <3>3, Zenon DEF Completed
  <2>. QED  BY <2>1, <2>2, <2>3, Zenon
<1>. QED  BY <1>2, <1>3, Zenon

LEMMA OldestRetainedFacts ==
    ASSUME NEW published \in Nat, NEW want \in Nat \ {0}
    PROVE  /\ OldestRetained(published) \in Nat \ {0}
           /\ ResumeAfterOverwrite(published, want) \in Nat \ {0}
           /\ want <= ResumeAfterOverwrite(published, want)
           /\ ResumeAfterOverwrite(published, want) <= published + 1 \/ ResumeAfterOverwrite(published, want) = want
BY VersionedAssumption DEF OldestRetained, ResumeAfterOverwrite, Larger

LEMMA RegisterKeeps ==
    ASSUME VersionedInv, NEW h \in Handles, Register(h)
    PROVE  VersionedInv'
<1>1. TypeOK /\ ConsumerTypes /\ ConsumerInv(h)
  BY Zenon DEF VersionedInv, TypeOK
<1>2. PICK k \in Loads(h, Published) :
           /\ Acquire(h, k)
           /\ next_sequence' = [next_sequence EXCEPT ![h] = ValueAt(k, Published) + 1]
           /\ start' = Append(start, ValueAt(k, Published) + 1)
  BY Zenon DEF Register
<1>3. ValueAt(k, Published) \in Nat
  BY <1>2, LoadPublished, Zenon
<1>4. /\ floor' \in [Handles -> 0..Len(stores)] /\ pending' = pending
      /\ \A g \in Handles \ {h} : floor'[g] = floor[g]
  BY <1>1, <1>2, AcquireFacts, Zenon
<1>5. /\ pc[h] = "idle" /\ UNCHANGED <<producer, stores, pc, frame>>
      /\ attached' = [attached EXCEPT ![h] = TRUE]
      /\ registration' = [registration EXCEPT ![h] = Len(start) + 1]
      /\ received' = Append(received, << >>)
  BY Zenon DEF Register, producer
<1>6. ConsumerTypes'
  <2>1. /\ next_sequence' \in [Handles -> Nat] /\ attached' \in [Handles -> BOOLEAN]
    BY <1>1, <1>2, <1>3, <1>5 DEF ConsumerTypes
  <2>2. start' \in Seq(Nat) /\ Len(start') = Len(start) + 1 /\ Len(start) \in Nat
    BY <1>1, <1>2, <1>3 DEF ConsumerTypes
  <2>3. registration' \in [Handles -> 0..Len(start')]
    <3>1. registration \in [Handles -> 0..Len(start)]
      BY <1>1, Zenon DEF ConsumerTypes
    <3>2. Len(start) + 1 \in 0..Len(start') /\ 0..Len(start) \subseteq 0..Len(start')
      BY <2>2
    <3>. QED  BY <1>5, <3>1, <3>2
  <2>4. /\ received' \in Seq(Deliveries)
        /\ Len(received') = Len(start')
    <3>1. << >> \in Deliveries
      BY DEF Deliveries
    <3>2. received \in Seq(Deliveries) /\ Len(received) = Len(start)
      BY <1>1, Zenon DEF ConsumerTypes
    <3>. QED  BY <1>5, <2>2, <3>1, <3>2
  <2>5. /\ pc' \in [Handles -> Labels] /\ floor' \in [Handles -> 0..Len(stores')]
        /\ pending' \in [Handles -> 0..Len(stores')] /\ frame' \in [Handles -> Frames]
    BY <1>1, <1>4, <1>5, Zenon DEF ConsumerTypes
  <2>. QED  BY <2>1, <2>2, <2>3, <2>4, <2>5, Zenon DEF ConsumerTypes
<1>7. ConsumerInv(h)'
  <2>1. pc'[h] = "idle" /\ frame'[h] = NoFrame
    BY <1>1, <1>5, Zenon DEF ConsumerInv, FrameInv
  <2>2. registration'[h] # 0 /\ next_sequence'[h] # 0
    BY <1>1, <1>2, <1>3, <1>5 DEF ConsumerTypes
  <2>. QED  BY <2>1, <2>2, IdleConsumer, Zenon
<1>8. \A g \in Handles \ {h} : SameConsumer(g)
  BY <1>1, <1>2, <1>4, <1>5, Zenon DEF SameConsumer, ConsumerTypes
<1>. QED  BY <1>5, <1>6, <1>7, <1>8, ConsumerStepKeeps, Zenon

LEMMA MoveKeeps ==
    ASSUME VersionedInv, NEW h \in Handles, NEW g \in Handles, MoveConsumer(h, g)
    PROVE  VersionedInv'
<1>1. TypeOK /\ ConsumerTypes /\ ConsumerInv(h) /\ ConsumerInv(g) /\ Len(stores) \in Nat
  BY DEF VersionedInv, TypeOK, ProducerTypes
<1>2. /\ g # h /\ pc[h] = "idle" /\ pc[g] = "idle" /\ registration[h] # 0
      /\ attached' = [attached EXCEPT ![g] = attached[h], ![h] = FALSE]
      /\ next_sequence' = [next_sequence EXCEPT ![g] = next_sequence[h]]
      /\ floor' = [floor EXCEPT ![g] = Larger(@, floor[h])]
      /\ pending' = [pending EXCEPT ![g] = Larger(@, pending[h])]
      /\ registration' = [registration EXCEPT ![g] = registration[h]]
      /\ UNCHANGED <<producer, stores, pc, frame, start, received>>
  BY Zenon DEF MoveConsumer, producer
<1>0. /\ attached \in [Handles -> BOOLEAN] /\ next_sequence \in [Handles -> Nat]
      /\ registration \in [Handles -> 0..Len(start)]
      /\ floor \in [Handles -> 0..Len(stores)] /\ pending \in [Handles -> 0..Len(stores)]
  BY <1>1, Zenon DEF ConsumerTypes
<1>3. ConsumerTypes'
  <2>0. attached' \in [Handles -> BOOLEAN]
    BY <1>0, <1>2, Zenon
  <2>1. next_sequence' \in [Handles -> Nat] /\ registration' \in [Handles -> 0..Len(start')]
    BY <1>0, <1>2, Zenon
  <2>2. /\ Larger(floor[g], floor[h]) \in 0..Len(stores)
        /\ Larger(pending[g], pending[h]) \in 0..Len(stores)
    BY <1>0, <1>1, Zenon DEF Larger
  <2>3. floor' \in [Handles -> 0..Len(stores')] /\ pending' \in [Handles -> 0..Len(stores')]
    BY <1>0, <1>2, <2>2, Zenon
  <2>4. /\ pc' \in [Handles -> Labels] /\ frame' \in [Handles -> Frames] /\ start' \in Seq(Nat)
        /\ received' \in Seq(Deliveries) /\ Len(received') = Len(start')
    BY <1>1, <1>2, Zenon DEF ConsumerTypes
  <2>. QED  BY <2>0, <2>1, <2>3, <2>4, Zenon DEF ConsumerTypes
<1>4. /\ pc'[h] = "idle" /\ frame'[h] = NoFrame /\ pc'[g] = "idle" /\ frame'[g] = NoFrame
      /\ ~ attached'[h]
  BY <1>0, <1>1, <1>2, Zenon DEF ConsumerInv, FrameInv
<1>5. attached'[g] => registration'[g] # 0 /\ next_sequence'[g] # 0
  <2>1. attached'[g] = attached[h]
    BY <1>0, <1>2, Zenon
  <2>2. registration'[g] = registration[h] /\ next_sequence'[g] = next_sequence[h]
    BY <1>0, <1>2, Zenon
  <2>. QED  BY <1>1, <2>1, <2>2, Zenon DEF ConsumerInv, FrameInv
<1>6. ConsumerInv(h)' /\ ConsumerInv(g)'
  BY <1>4, <1>5, IdleConsumer, Zenon
<1>7. ASSUME NEW f \in Handles \ {h, g} PROVE SameConsumer(f)
  <2>1. attached'[f] = attached[f]
    BY <1>0, <1>2, <1>7, Zenon
  <2>2. /\ next_sequence'[f] = next_sequence[f] /\ registration'[f] = registration[f]
        /\ floor'[f] = floor[f] /\ pending'[f] = pending[f]
    BY <1>0, <1>2, <1>7, Zenon
  <2>3. pc' = pc /\ frame' = frame
    BY <1>2, Zenon
  <2>. QED  BY <2>1, <2>2, <2>3, Zenon DEF SameConsumer
<1>. QED  BY <1>2, <1>3, <1>6, <1>7, ConsumerStepKeeps, Zenon

LEMMA ReadCallKeeps ==
    ASSUME VersionedInv, NEW h \in Handles, ReadCall(h)
    PROVE  VersionedInv' \/ UNCHANGED vars
<1>1. TypeOK /\ ConsumerTypes /\ ConsumerInv(h)
  BY Zenon DEF VersionedInv, TypeOK
<1>2. CASE ReadInvalid(h)
  BY <1>2, Zenon DEF ReadInvalid
<1>3. CASE ReadEmpty(h) \/ ReadLagged(h)
  <2>1. PICK k \in Loads(h, Published) :
             /\ Acquire(h, k)
             /\ \/ next_sequence' = next_sequence
                \/ next_sequence' = [next_sequence EXCEPT ![h] = OldestRetained(ValueAt(k, Published))]
    BY <1>3, Zenon DEF ReadEmpty, ReadLagged
  <2>2. ValueAt(k, Published) \in Nat
    BY <2>1, LoadPublished, Zenon
  <2>3. OldestRetained(ValueAt(k, Published)) \in Nat \ {0}
    BY <2>2, OldestRetainedFacts
  <2>4. /\ pc[h] = "idle" /\ attached[h]
        /\ UNCHANGED <<producer, stores, attached, registration, start, pc, frame, received>>
    BY <1>3, Zenon DEF ReadEmpty, ReadLagged, Keep, producer
  <2>5. /\ floor' \in [Handles -> 0..Len(stores)] /\ pending' = pending
        /\ \A g \in Handles \ {h} : floor'[g] = floor[g]
    BY <1>1, <2>1, AcquireFacts, Zenon
  <2>6. next_sequence' \in [Handles -> Nat] /\ next_sequence'[h] # 0
    BY <1>1, <2>1, <2>3, <2>4, Zenon DEF ConsumerTypes, ConsumerInv, FrameInv
  <2>7. ConsumerTypes'
    BY <1>1, <2>4, <2>5, <2>6, Zenon DEF ConsumerTypes
  <2>8. ConsumerInv(h)'
    <3>1. pc'[h] = "idle" /\ frame'[h] = NoFrame /\ registration'[h] # 0
      BY <1>1, <2>4, Zenon DEF ConsumerInv, FrameInv
    <3>. QED  BY <2>6, <3>1, IdleConsumer, Zenon
  <2>9. \A g \in Handles \ {h} : SameConsumer(g)
    BY <1>1, <2>1, <2>4, <2>5, Zenon DEF SameConsumer, ConsumerTypes
  <2>. QED  BY <2>4, <2>7, <2>8, <2>9, ConsumerStepKeeps, Zenon
<1>4. ASSUME NEW destination \in Destinations, ReadBegin(h, destination)
      PROVE  VersionedInv'
  <2>1. PICK k \in Loads(h, Published) :
             /\ Acquire(h, k)
             /\ next_sequence[h] <= ValueAt(k, Published)
    BY <1>4, Zenon DEF ReadBegin
  <2>2. /\ pc[h] = "idle" /\ attached[h] /\ pc' = [pc EXCEPT ![h] = "before"]
        /\ UNCHANGED <<producer, stores, attached, registration, start, next_sequence, received>>
        /\ frame' = [frame EXCEPT ![h] = [NoFrame EXCEPT !.destination = destination]]
    BY <1>4, Zenon DEF ReadBegin, Keep, Goto, producer
  <2>3. /\ floor' \in [Handles -> 0..Len(stores)] /\ pending' = pending
        /\ \A g \in Handles \ {h} : floor'[g] = floor[g]
        /\ floor'[h] \in Nat
    BY <1>1, <2>1, AcquireFacts, Zenon
  <2>4. PICK w \in Nat \ {0}, f \in Nat : w = next_sequence[h] /\ f = floor'[h]
    BY <1>1, <2>2, <2>3, Zenon DEF ConsumerInv, FrameInv, ConsumerTypes
  <2>5. Completed(w, f)
    BY <2>1, <2>4, LoadPublished
  <2>6. Completed(w, f)'
    BY <2>2, <2>5, SameStores, Zenon
  <2>7. Completed(next_sequence[h], floor[h])'
    BY <2>2, <2>4, <2>6, Zenon
  <2>8. PICK fr : fr = [NoFrame EXCEPT !.destination = destination]
    BY Zenon
  <2>r. fr = [destination |-> destination, attempt |-> 0, before |-> 0, sequence |-> 0,
              size |-> 0, scratch |-> << >>]
    BY <2>8, Zenon DEF NoFrame
  <2>9. /\ fr \in Frames
        /\ fr.attempt = 0 /\ fr.scratch = << >> /\ Len(<< >>) = 0
    BY <2>r, VersionedAssumption DEF Frames
  <2>f. frame' \in [Handles -> Frames] /\ frame'[h] = fr
    BY <1>1, <2>2, <2>8, <2>9, Zenon DEF ConsumerTypes
  <2>10. ConsumerTypes'
    <3>1. pc' \in [Handles -> Labels] /\ pc'[h] = "before"
      BY <1>1, <2>2, Zenon DEF ConsumerTypes, Labels
    <3>. QED  BY <1>1, <2>2, <2>3, <2>f, <3>1, Zenon DEF ConsumerTypes
  <2>11. ConsumerInv(h)'
    <3>1. pc'[h] = "before" /\ attached'[h] /\ registration'[h] # 0 /\ next_sequence'[h] # 0
      BY <1>1, <2>2, Zenon DEF ConsumerTypes, ConsumerInv, FrameInv
    <3>. QED  BY <2>7, <2>9, <2>f, <3>1, VersionedAssumption DEF ConsumerInv, FrameInv
  <2>12. \A g \in Handles \ {h} : SameConsumer(g)
    BY <1>1, <2>2, <2>3, Zenon DEF SameConsumer, ConsumerTypes
  <2>. QED  BY <2>2, <2>10, <2>11, <2>12, ConsumerStepKeeps, Zenon
<1>. QED  BY <1>2, <1>3, <1>4, Zenon DEF ReadCall

\* Consumer h gets on with its read(), to label and with frame f.
ReadsOn(h, label, f) ==
    /\ UNCHANGED <<producer, attached, next_sequence, registration, start, received>>
    /\ pc' = [pc EXCEPT ![h] = label]
    /\ frame' = [frame EXCEPT ![h] = f]
    /\ floor' \in [Handles -> 0..Len(stores)] /\ pending' \in [Handles -> 0..Len(stores)]
    /\ \A g \in Handles \ {h} : floor'[g] = floor[g] /\ pending'[g] = pending[g]

LEMMA ReadsOnKeeps ==
    ASSUME VersionedInv, NEW h \in Handles, pc[h] # "idle",
           NEW label \in Labels, NEW f \in Frames, ReadsOn(h, label, f),
           NEW want \in Nat, want = next_sequence[h], NEW low, low = floor'[h],
           NEW high, high = pending'[h], FrameInv(want, label, f, low, high)
    PROVE  VersionedInv'
<1>0. UNCHANGED <<producer, stores, log>>
  BY Zenon DEF ReadsOn, producer
<1>1. /\ TypeOK /\ ConsumerTypes /\ ConsumerInv(h) /\ Grows
      /\ pc \in [Handles -> Labels] /\ frame \in [Handles -> Frames]
  BY <1>0, Zenon DEF VersionedInv, TypeOK, ConsumerTypes, Grows
<1>2. /\ UNCHANGED <<producer, stores, attached, next_sequence, registration, start, received>>
      /\ pc' \in [Handles -> Labels] /\ frame' \in [Handles -> Frames]
      /\ pc'[h] = label /\ frame'[h] = f
      /\ \A g \in Handles \ {h} : pc'[g] = pc[g] /\ frame'[g] = frame[g]
  BY <1>1, Zenon DEF ReadsOn, producer
<1>3. ConsumerTypes'
  BY <1>1, <1>2, Zenon DEF ConsumerTypes, ReadsOn
<1>4. FrameInv(want, label, f, low, high)'
  BY <1>1, FrameKept, Zenon
<1>5. FrameInv(next_sequence[h], pc[h], frame[h], floor[h], pending[h])'
  BY <1>2, <1>4, Zenon
<1>6. ConsumerInv(h)'
  BY <1>1, <1>2, <1>5, Zenon DEF ConsumerInv
<1>7. \A g \in Handles \ {h} : SameConsumer(g)
  BY <1>2, Zenon DEF SameConsumer, ReadsOn
<1>. QED  BY <1>2, <1>3, <1>6, <1>7, ConsumerStepKeeps, Zenon

\* One field of a frame is set.
LEMMA AttemptSet ==
    ASSUME NEW g \in Frames, NEW n \in 0..ReadAttempts, NEW f, f = [g EXCEPT !.attempt = n]
    PROVE  f \in Frames /\ f.attempt = n /\ f.scratch = g.scratch
BY Zenon DEF Frames

LEMMA BeforeSet ==
    ASSUME NEW g \in Frames, NEW n \in Nat, NEW f, f = [g EXCEPT !.before = n]
    PROVE  f \in Frames /\ f.before = n /\ f.attempt = g.attempt
BY Zenon DEF Frames

LEMMA SequenceSet ==
    ASSUME NEW g \in Frames, NEW n \in Nat, NEW f, f = [g EXCEPT !.sequence = n]
    PROVE  /\ f \in Frames /\ f.sequence = n /\ f.attempt = g.attempt
           /\ f.before = g.before /\ f.scratch = g.scratch
BY Zenon DEF Frames

LEMMA SizeSet ==
    ASSUME NEW g \in Frames, NEW n \in 0..MaxPayloadSize, NEW f, f = [g EXCEPT !.size = n]
    PROVE  /\ f \in Frames /\ f.size = n /\ f.attempt = g.attempt
           /\ f.before = g.before /\ f.scratch = g.scratch /\ f.sequence = g.sequence
BY Zenon DEF Frames

LEMMA ScratchSet ==
    ASSUME NEW g \in Frames, NEW bytes \in Seq(Byte), NEW f, f = [g EXCEPT !.scratch = bytes]
    PROVE  /\ f \in Frames /\ f.scratch = bytes /\ f.attempt = g.attempt
           /\ f.before = g.before /\ f.sequence = g.sequence /\ f.size = g.size
BY Zenon DEF Frames

\* An attempt fails only when the wanted publication is being written over.
LEMMA RetryFacts ==
    ASSUME TypeOK, NEW h \in Handles, Retry(h), NEW want, NEW low, NEW high,
           Completed(want, low), want + Capacity <= Len(log),
           frame[h].attempt < ReadAttempts, Len(frame[h].scratch) <= MaxPayloadSize
    PROVE  \E label \in Labels, f \in Frames :
              /\ pc' = [pc EXCEPT ![h] = label] /\ frame' = [frame EXCEPT ![h] = f]
              /\ FrameInv(want, label, f, low, high)
<1>1. PICK label : label = IF frame[h].attempt + 1 < ReadAttempts THEN "before" ELSE "unstable"
  BY Zenon
<1>2. PICK f : f = [frame[h] EXCEPT !.attempt = frame[h].attempt + 1]
  BY Zenon
<1>3. frame[h] \in Frames /\ frame[h].attempt \in Nat
  BY DEF TypeOK, ConsumerTypes, Frames
<1>4. /\ f \in Frames /\ f.attempt = frame[h].attempt + 1 /\ f.scratch = frame[h].scratch
  <2>1. frame[h].attempt + 1 \in 0..ReadAttempts
    BY <1>3, VersionedAssumption
  <2>2. PICK g \in Frames, a \in 0..ReadAttempts : g = frame[h] /\ a = frame[h].attempt + 1
    BY <1>3, <2>1, Zenon
  <2>3. f = [g EXCEPT !.attempt = a]
    BY <1>2, <2>2, Zenon
  <2>4. f \in Frames /\ f.attempt = a /\ f.scratch = g.scratch
    BY <2>3, AttemptSet
  <2>. QED  BY <2>2, <2>4, Zenon
<1>5. /\ pc' = [pc EXCEPT ![h] = label] /\ frame' = [frame EXCEPT ![h] = f]
  BY <1>1, <1>2, Zenon DEF Retry, Goto
<1>6. label \in {"before", "unstable"} /\ (label # "unstable" => f.attempt < ReadAttempts)
  BY <1>1, <1>3, <1>4, Zenon
<1>7. FrameInv(want, label, f, low, high)
  BY <1>4, <1>6, Zenon DEF FrameInv
<1>8. label \in Labels
  BY <1>6, Zenon DEF Labels
<1>. QED  BY <1>4, <1>5, <1>7, <1>8, Zenon

\* A load of the version returns the one of a publication that was complete
\* below the floor, or a later one, and then the publication is lost.
LEMMA VersionLoaded ==
    ASSUME VersionedInv, NEW i \in Cells, NEW j \in EvenStores(i) \ {0},
           NEW k \in StoresTo(Version(i)), j <= k, k # j
    PROVE  /\ stores[j].by + Capacity <= Len(log)
           /\ ValueAt(j, Version(i)) < ValueAt(k, Version(i))
<1>1. TypeOK /\ CellInv(i) /\ Len(log) \in Nat /\ stores \in Seq(StoreRecord)
  BY DEF VersionedInv, TypeOK, ProducerTypes
<1>2. j \in Nat /\ j \in StoresTo(Version(i)) /\ stores[j].by \in Nat
  BY <1>1, EvenStoreFacts
<1>3. k \in 1..Len(stores) /\ j < k
  <2>1. k \in Nat /\ k <= Len(stores) /\ (k # 0 => k \in 1..Len(stores))
    BY <1>1, StoresToLocation, Zenon
  <2>. QED  BY <1>2, <2>1
<1>4. stores[k].by \in 1..Len(log)
  BY <1>1, <1>3, Zenon DEF TypeOK, ProducerTypes
<1>5. stores[j].by + Capacity <= stores[k].by
  BY <1>1, <1>3, Zenon DEF CellInv
<1>6. ValueAt(j, Version(i)) < ValueAt(k, Version(i))
  BY <1>1, <1>2, <1>3, Zenon DEF CellInv
<1>. QED  BY <1>1, <1>2, <1>4, <1>5, <1>6, VersionedAssumption

\* The wanted publication, its cell and the store that completed it.
LEMMA Wanted ==
    ASSUME VersionedInv, NEW h \in Handles, pc[h] # "idle"
    PROVE  \E want \in Nat \ {0}, i \in Cells :
              /\ want = next_sequence[h] /\ i = CellOf(want) /\ i = WantedCell(h)
              /\ attached[h] /\ Completed(want, floor[h])
              /\ FrameInv(want, pc[h], frame[h], floor[h], pending[h])
<1>1. ConsumerInv(h) /\ next_sequence[h] \in Nat
  BY Zenon DEF VersionedInv, TypeOK, ConsumerTypes
<1>2. /\ next_sequence[h] \in Nat \ {0} /\ attached[h]
      /\ FrameInv(next_sequence[h], pc[h], frame[h], floor[h], pending[h])
      /\ Completed(next_sequence[h], floor[h])
  BY <1>1, Zenon DEF ConsumerInv, FrameInv
<1>. QED  BY <1>2, CellIndex, Zenon DEF WantedCell

LEMMA ReaderTypes ==
    ASSUME VersionedInv, NEW h \in Handles
    PROVE  /\ TypeOK /\ stores \in Seq(StoreRecord) /\ Len(stores) \in Nat /\ Len(log) \in Nat
           /\ frame \in [Handles -> Frames] /\ frame[h] \in Frames
           /\ floor \in [Handles -> 0..Len(stores)] /\ pending \in [Handles -> 0..Len(stores)]
           /\ floor[h] \in Nat /\ pending[h] \in Nat
<1>1. ProducerTypes /\ ConsumerTypes /\ TypeOK
  BY Zenon DEF VersionedInv, TypeOK
<1>2. stores \in Seq(StoreRecord) /\ Len(stores) \in Nat /\ Len(log) \in Nat
  BY <1>1 DEF ProducerTypes
<1>3. /\ frame \in [Handles -> Frames]
      /\ floor \in [Handles -> 0..Len(stores)] /\ pending \in [Handles -> 0..Len(stores)]
  BY <1>1, Zenon DEF ConsumerTypes
<1>. QED  BY <1>1, <1>2, <1>3

LEMMA LoadBeforeKeeps ==
    ASSUME VersionedInv, NEW h \in Handles, LoadBefore(h)
    PROVE  VersionedInv'
<1>1. PICK want \in Nat \ {0}, i \in Cells :
          /\ want = next_sequence[h] /\ i = CellOf(want) /\ i = WantedCell(h)
          /\ Completed(want, floor[h])
          /\ FrameInv(want, pc[h], frame[h], floor[h], pending[h])
  BY Wanted, Zenon DEF LoadBefore
<1>2. PICK k, before :
          /\ k \in Loads(h, Version(i))
          /\ before = ValueAt(k, Version(i)) /\ Acquire(h, k)
          /\ IF before % 2 # 0
             THEN Retry(h)
             ELSE /\ frame' = [frame EXCEPT ![h] = [@ EXCEPT !.before = before, !.scratch = << >>]]
                  /\ Goto(h, "sequence")
  BY <1>1, Zenon DEF LoadBefore
<1>3. /\ pc[h] = "before"
      /\ UNCHANGED <<producer, attached, next_sequence, registration, start, received>>
  BY Zenon DEF LoadBefore, Keep
<1>4. /\ TypeOK /\ frame[h] \in Frames /\ frame \in [Handles -> Frames] /\ stores \in Seq(StoreRecord)
  BY ReaderTypes, Zenon
<1>5. /\ k \in StoresTo(Version(i)) /\ k \in 0..Len(stores)
      /\ \A j \in StoresTo(Version(i)) : j <= floor[h] => j <= k
  BY <1>2, <1>4, LoadFacts, Zenon
<1>6. /\ floor' \in [Handles -> 0..Len(stores)] /\ pending' = pending
      /\ floor[h] <= floor'[h] /\ RelAt(k) <= floor'[h]
      /\ floor[h] \in Nat /\ floor'[h] \in Nat
      /\ \A g \in Handles \ {h} : floor'[g] = floor[g]
  BY <1>2, <1>4, AcquireFacts, Zenon
<1>7. pending' \in [Handles -> 0..Len(stores)]
  BY <1>6, ReaderTypes, Zenon
<1>8. PICK low, high :
          /\ low \in Nat
          /\ low = floor'[h] /\ high = pending'[h]
  BY <1>6, Zenon
<1>9. PICK e \in EvenStores(i) : 0 < e /\ e <= floor[h] /\ stores[e].by = want
  BY <1>1, Zenon DEF Completed
<1>10. e \in StoresTo(Version(i)) /\ e \in Nat /\ e # 0 /\ e <= k /\ e <= low /\ ValueAt(e, Version(i)) % 2 = 0
  <2>1. e \in StoresTo(Version(i)) /\ ValueAt(e, Version(i)) % 2 = 0
    BY Zenon DEF EvenStores
  <2>2. e \in Nat
    BY <1>4, <2>1, StoresToLocation, Zenon
  <2>. QED  BY <1>5, <1>6, <1>8, <1>9, <2>1, <2>2
<1>11. Completed(want, low)
  BY <1>1, <1>9, <1>10, Zenon DEF Completed
<1>12. /\ frame[h].attempt < ReadAttempts /\ Len(frame[h].scratch) <= MaxPayloadSize
       /\ frame[h].attempt > 0 => want + Capacity <= Len(log)
  BY <1>1, <1>3, Zenon DEF FrameInv
<1>13. k # e => want + Capacity <= Len(log)
  BY <1>5, <1>9, <1>10, VersionLoaded, Zenon
<1>14. CASE before % 2 # 0
  <2>1. k # e
    BY <1>2, <1>10, <1>14, Zenon
  <2>2. PICK label \in Labels, f \in Frames :
              /\ pc' = [pc EXCEPT ![h] = label] /\ frame' = [frame EXCEPT ![h] = f]
              /\ FrameInv(want, label, f, low, high)
    <3>1. Retry(h) /\ want + Capacity <= Len(log)
      BY <1>2, <1>13, <1>14, <2>1, Zenon
    <3>. QED  BY <1>4, <1>11, <1>12, <3>1, RetryFacts, Zenon
  <2>3. ReadsOn(h, label, f)
    BY <1>3, <1>6, <1>7, <2>2, Zenon DEF ReadsOn
  <2>. QED  BY <1>1, <1>3, <1>8, <2>2, <2>3, ReadsOnKeeps, Zenon
<1>15. CASE ~ (before % 2 # 0)
  <2>1. k \in EvenStores(i) \ {0} /\ before = ValueAt(k, Version(i)) /\ before \in Nat
    <3>1. before \in Nat
      BY <1>2, <1>4, <1>5, VersionValues, Zenon
    <3>. QED  BY <1>2, <1>5, <1>9, <1>10, <1>15, <3>1 DEF EvenStores
  <2>2. PICK f : f = [frame[h] EXCEPT !.before = before, !.scratch = << >>]
    BY Zenon
  <2>3. /\ f \in Frames /\ f.before = before /\ f.scratch = << >> /\ f.attempt = frame[h].attempt
    <3>1. PICK g \in Frames : g = frame[h]
      BY <1>4, Zenon
    <3>0. << >> \in Seq(Byte)
      OBVIOUS
    <3>2. PICK empty \in Seq(Byte) : empty = << >>
      BY <3>0, Zenon
    <3>3. PICK g1 : g1 = [g EXCEPT !.before = before]
      BY Zenon
    <3>4. g1 \in Frames /\ g1.before = before /\ g1.attempt = g.attempt
      BY <2>1, <3>3, BeforeSet
    <3>5. f = [g1 EXCEPT !.scratch = empty]
      BY <2>2, <3>1, <3>2, <3>3, Zenon
    <3>6. f \in Frames /\ f.before = g1.before /\ f.scratch = empty /\ f.attempt = g1.attempt
      BY <3>4, <3>5, ScratchSet
    <3>. QED  BY <3>1, <3>2, <3>4, <3>6, Zenon
  <2>4. /\ frame' = [frame EXCEPT ![h] = f] /\ pc' = [pc EXCEPT ![h] = "sequence"]
    BY <1>2, <1>4, <1>15, <2>2, Zenon DEF Goto
  <2>5. k <= low
    <3>1. stores[k].rel = k
      BY <2>1, Zenon DEF VersionedInv, CellInv
    <3>. QED  BY <1>5, <1>6, <1>8, <2>1, <3>1, Zenon DEF RelAt
  <2>6. stores[k].by = want \/ want + Capacity <= Len(log)
    BY <1>9, <1>13, Zenon
  <2>7. Snapshot("sequence", f, k)
    BY <2>3 DEF Snapshot
  <2>8. FrameInv(want, "sequence", f, low, high)
    BY <1>1, <1>11, <1>12, <2>1, <2>3, <2>5, <2>6, <2>7, VersionedAssumption DEF FrameInv
  <2>9. ReadsOn(h, "sequence", f)
    BY <1>3, <1>6, <1>7, <2>4, Zenon DEF ReadsOn
  <2>. QED  BY <1>1, <1>3, <1>8, <2>3, <2>8, <2>9, ReadsOnKeeps, Zenon DEF Labels
<1>. QED  BY <1>14, <1>15, Zenon

LEMMA FieldTypes ==
    ASSUME TypeOK, NEW h \in Handles, NEW i \in Cells, NEW b
    PROVE  /\ \A k \in Loads(h, SequenceOf(i)) : ValueAt(k, SequenceOf(i)) \in Nat
           /\ \A k \in Loads(h, SizeOf(i)) : ValueAt(k, SizeOf(i)) \in 0..MaxPayloadSize
           /\ \A k \in Loads(h, StorageOf(i, b)) : ValueAt(k, StorageOf(i, b)) \in Byte
<1>1. ASSUME NEW loc, NEW k \in Loads(h, loc)
      PROVE  ValueAt(k, loc) = Initial(loc) \/ ValueAt(k, loc) \in Values(loc)
  <2>1. k \in StoresTo(loc) /\ stores \in Seq(StoreRecord)
    BY <1>1, LoadFacts, Zenon DEF TypeOK, ProducerTypes
  <2>2. k # 0 => k \in 1..Len(stores) /\ stores[k].loc = loc
    BY <2>1, StoresToLocation, Zenon
  <2>. QED  BY <2>2, Zenon DEF ValueAt, TypeOK, ProducerTypes
<1>2. /\ Initial(SequenceOf(i)) = 0 /\ Initial(SizeOf(i)) = 0
      /\ Initial(StorageOf(i, b)) = ZeroByte
  BY Zenon DEF Initial, SequenceOf, SizeOf, StorageOf
<1>3. /\ Values(SequenceOf(i)) = Nat /\ Values(SizeOf(i)) = 0..MaxPayloadSize
      /\ Values(StorageOf(i, b)) = Byte
  BY LocationTypes, Zenon
<1>4. 0 \in Nat /\ 0 \in 0..MaxPayloadSize /\ ZeroByte \in Byte
  BY VersionedAssumption
<1>5. \A k \in Loads(h, SequenceOf(i)) : ValueAt(k, SequenceOf(i)) \in Nat
  BY <1>1, <1>2, <1>3, <1>4, Zenon
<1>6. \A k \in Loads(h, SizeOf(i)) : ValueAt(k, SizeOf(i)) \in 0..MaxPayloadSize
  <2>1. PICK sizes : sizes = 0..MaxPayloadSize
    BY Zenon
  <2>. QED  BY <1>1, <1>2, <1>3, <1>4, <2>1, Zenon
<1>7. \A k \in Loads(h, StorageOf(i, b)) : ValueAt(k, StorageOf(i, b)) \in Byte
  BY <1>1, <1>2, <1>3, <1>4, Zenon
<1>. QED  BY <1>5, <1>6, <1>7, Zenon

\* A load of a field returns what store j left there, or is from a publication
\* whose odd version is covered by the fence that precedes the store.
LEMMA FieldLoaded ==
    ASSUME VersionedInv, NEW h \in Handles, NEW i \in Cells, NEW j \in EvenStores(i) \ {0},
           j <= floor[h], NEW loc \in Fields(i), NEW k \in Loads(h, loc), NEW val, Holds(loc, j, val)
    PROVE  ValueAt(k, loc) = val \/ Torn(i, j, RelAt(k))
<1>1. /\ TypeOK /\ CellInv(i) /\ stores \in Seq(StoreRecord) /\ floor[h] \in Nat
  BY ReaderTypes, Zenon DEF VersionedInv
<1>2. /\ k \in StoresTo(loc) /\ k \in Nat
      /\ \A l \in StoresTo(loc) : l <= floor[h] => l <= k
  BY <1>1, LoadFacts
<1>3. j \in Nat
  BY <1>1, EvenStoreFacts
<1>4. \A l \in StoresTo(loc) : l \in Nat
  BY <1>1, StoresToLocation, Zenon
<1>5. CASE k <= j
  <2>1. k \in Newest(loc, j)
    BY <1>1, <1>2, <1>3, <1>4, <1>5 DEF Newest, NotOlder
  <2>. QED  BY <2>1, Zenon DEF Holds
<1>6. CASE j < k
  <2>1. \E o \in StoresTo(Version(i)) : j < o /\ o <= stores[k].rel
    BY <1>1, <1>2, <1>6, Zenon DEF CellInv
  <2>2. RelAt(k) = stores[k].rel
    BY <1>2, <1>3, <1>6 DEF RelAt
  <2>. QED  BY <2>1, <2>2, Zenon DEF Torn
<1>. QED  BY <1>2, <1>3, <1>5, <1>6

LEMMA TornMore ==
    ASSUME TypeOK, NEW i, NEW j, NEW m \in Nat, NEW n \in Nat, m <= n, Torn(i, j, m)
    PROVE  Torn(i, j, n)
<1>1. PICK k \in StoresTo(Version(i)) : j < k /\ k <= m
  BY Zenon DEF Torn
<1>2. k \in Nat
  BY StoresToLocation, Zenon DEF TypeOK, ProducerTypes
<1>3. k <= n
  BY <1>1, <1>2
<1>. QED  BY <1>1, <1>3, Zenon DEF Torn

\* A field is loaded: what is read is still the snapshot that store j left, or
\* the check of the version will fail.
Rereads(i, label, g, to, f, low, high) ==
    \A j \in EvenStores(i) \ {0} :
        j <= low /\ Snapshot(label, g, j) => Snapshot(to, f, j) \/ Torn(i, j, high)

LEMMA FieldStep ==
    ASSUME TypeOK, NEW want \in Nat, NEW i, i = CellOf(want), NEW low \in Nat, NEW high \in Nat,
           NEW label \in {"sequence", "size", "storage"}, NEW g, FrameInv(want, label, g, low, high),
           NEW to \in {"size", "storage"}, NEW f, f.before = g.before, f.attempt = g.attempt,
           Len(f.scratch) <= MaxPayloadSize, to = "size" => f.scratch = << >>,
           NEW higher \in Nat, high <= higher, Rereads(i, label, g, to, f, low, higher)
    PROVE  FrameInv(want, to, f, low, higher)
<1>1. /\ Completed(want, low) /\ g.attempt < ReadAttempts
      /\ g.attempt > 0 => want + Capacity <= Len(log)
  BY Zenon DEF FrameInv
<1>2. PICK j \in EvenStores(i) \ {0} :
             /\ j <= low
             /\ g.before = ValueAt(j, Version(i))
             /\ stores[j].by = want \/ want + Capacity <= Len(log)
             /\ Snapshot(label, g, j) \/ Torn(i, j, high)
  BY Zenon DEF FrameInv
<1>3. Snapshot(to, f, j) \/ Torn(i, j, higher)
  BY <1>2, TornMore, Zenon DEF Rereads
<1>4. \E l \in EvenStores(i) \ {0} :
             /\ l <= low
             /\ f.before = ValueAt(l, Version(i))
             /\ stores[l].by = want \/ want + Capacity <= Len(log)
             /\ Snapshot(to, f, l) \/ Torn(i, l, higher)
  BY <1>2, <1>3, Zenon
<1>. QED  BY <1>1, <1>4, Zenon DEF FrameInv

LEMMA LoadSequenceKeeps ==
    ASSUME VersionedInv, NEW h \in Handles, LoadSequence(h)
    PROVE  VersionedInv'
<1>1. PICK want \in Nat \ {0}, i \in Cells :
          /\ want = next_sequence[h] /\ i = CellOf(want) /\ i = WantedCell(h)
          /\ FrameInv(want, pc[h], frame[h], floor[h], pending[h])
  BY Wanted, Zenon DEF LoadSequence
<1>2. PICK k, val :
          /\ k \in Loads(h, SequenceOf(i))
          /\ val = ValueAt(k, SequenceOf(i)) /\ Relaxed(h, k)
          /\ frame' = [frame EXCEPT ![h].sequence = val]
  BY <1>1, Zenon DEF LoadSequence
<1>3. /\ pc[h] = "sequence" /\ pc' = [pc EXCEPT ![h] = "size"]
      /\ UNCHANGED <<producer, attached, next_sequence, registration, start, received>>
  BY Zenon DEF LoadSequence, Keep, Goto
<1>4. /\ TypeOK /\ frame \in [Handles -> Frames] /\ floor[h] \in Nat
      /\ floor \in [Handles -> 0..Len(stores)]
  BY ReaderTypes, Zenon
<1>5. /\ pending' \in [Handles -> 0..Len(stores)] /\ floor' = floor
      /\ pending[h] <= pending'[h] /\ RelAt(k) <= pending'[h]
      /\ pending[h] \in Nat /\ pending'[h] \in Nat /\ RelAt(k) \in Nat
      /\ \A e \in Handles \ {h} : pending'[e] = pending[e]
  BY <1>2, <1>4, RelaxedFacts, LoadFacts
<1>6. PICK g \in Frames, low \in Nat, high \in Nat, higher \in Nat :
          g = frame[h] /\ low = floor[h] /\ high = pending[h] /\ higher = pending'[h]
  BY <1>4, <1>5, Zenon
<1>7. val \in Nat
  BY <1>2, <1>4, FieldTypes, Zenon
<1>8. PICK f : f = [g EXCEPT !.sequence = val]
  BY Zenon
<1>9. /\ f \in Frames /\ f.sequence = val /\ f.attempt = g.attempt
      /\ f.before = g.before /\ f.scratch = g.scratch
  BY <1>7, <1>8, SequenceSet
<1>10. FrameInv(want, "sequence", g, low, high)
  BY <1>1, <1>3, <1>6, Zenon
<1>11. ASSUME NEW j \in EvenStores(i) \ {0}, j <= low, Snapshot("sequence", g, j)
       PROVE  Snapshot("size", f, j) \/ Torn(i, j, higher)
  <2>1. Holds(SequenceOf(i), j, stores[j].by)
    BY Zenon DEF VersionedInv, CellInv
  <2>2. val = stores[j].by \/ Torn(i, j, RelAt(k))
    BY <1>2, <1>6, <1>11, <2>1, FieldLoaded, LocationTypes, Zenon
  <2>3. val = stores[j].by => Snapshot("size", f, j)
    BY <1>9, <1>11, Zenon DEF Snapshot
  <2>. QED  BY <1>4, <1>5, <1>6, <2>2, <2>3, TornMore, Zenon
<1>12. FrameInv(want, "size", f, low, higher)
  <2>1. f.scratch = << >> /\ Len(f.scratch) <= MaxPayloadSize
    BY <1>9, <1>10, Zenon DEF FrameInv
  <2>2. Rereads(i, "sequence", g, "size", f, low, higher)
    BY <1>11, Zenon DEF Rereads
  <2>3. want \in Nat /\ high <= higher /\ TypeOK
    BY <1>1, <1>4, <1>5, <1>6, Zenon
  <2>. QED  BY <1>1, <1>9, <1>10, <2>1, <2>2, <2>3, FieldStep, ZenonT(40)
<1>13. ReadsOn(h, "size", f)
  BY <1>2, <1>3, <1>4, <1>5, <1>6, <1>8, Zenon DEF ReadsOn
<1>. QED
  BY <1>1, <1>3, <1>5, <1>6, <1>9, <1>12, <1>13, ReadsOnKeeps, Zenon DEF Labels

LEMMA LoadSizeKeeps ==
    ASSUME VersionedInv, NEW h \in Handles, LoadSize(h)
    PROVE  VersionedInv'
<1>1. PICK want \in Nat \ {0}, i \in Cells :
          /\ want = next_sequence[h] /\ i = CellOf(want) /\ i = WantedCell(h)
          /\ FrameInv(want, pc[h], frame[h], floor[h], pending[h])
  BY Wanted, Zenon DEF LoadSize
<1>2. PICK k, val :
          /\ k \in Loads(h, SizeOf(i))
          /\ val = ValueAt(k, SizeOf(i)) /\ Relaxed(h, k)
          /\ frame' = [frame EXCEPT ![h].size = val]
  BY <1>1, Zenon DEF LoadSize
<1>3. /\ pc[h] = "size" /\ pc' = [pc EXCEPT ![h] = "storage"]
      /\ UNCHANGED <<producer, attached, next_sequence, registration, start, received>>
  BY Zenon DEF LoadSize, Keep, Goto
<1>4. /\ TypeOK /\ frame \in [Handles -> Frames] /\ floor[h] \in Nat
      /\ floor \in [Handles -> 0..Len(stores)]
  BY ReaderTypes, Zenon
<1>5. /\ pending' \in [Handles -> 0..Len(stores)] /\ floor' = floor
      /\ pending[h] <= pending'[h] /\ RelAt(k) <= pending'[h]
      /\ pending[h] \in Nat /\ pending'[h] \in Nat /\ RelAt(k) \in Nat
      /\ \A e \in Handles \ {h} : pending'[e] = pending[e]
  BY <1>2, <1>4, RelaxedFacts, LoadFacts
<1>6. PICK g \in Frames, low \in Nat, high \in Nat, higher \in Nat :
          g = frame[h] /\ low = floor[h] /\ high = pending[h] /\ higher = pending'[h]
  BY <1>4, <1>5, Zenon
<1>7. val \in 0..MaxPayloadSize
  BY <1>2, <1>4, FieldTypes, Zenon
<1>8. PICK f : f = [g EXCEPT !.size = val]
  BY Zenon
<1>9. /\ f \in Frames /\ f.size = val /\ f.sequence = g.sequence /\ f.attempt = g.attempt
      /\ f.before = g.before /\ f.scratch = g.scratch
  BY <1>7, <1>8, SizeSet
<1>10. FrameInv(want, "size", g, low, high)
  BY <1>1, <1>3, <1>6, Zenon
<1>11. ASSUME NEW j \in EvenStores(i) \ {0}, j <= low, Snapshot("size", g, j)
       PROVE  Snapshot("storage", f, j) \/ Torn(i, j, higher)
  <2>1. Holds(SizeOf(i), j, Len(log[stores[j].by]))
    BY Zenon DEF VersionedInv, CellInv
  <2>2. val = Len(log[stores[j].by]) \/ Torn(i, j, RelAt(k))
    BY <1>2, <1>6, <1>11, <2>1, FieldLoaded, LocationTypes, Zenon
  <2>3. f.scratch = << >>
    BY <1>9, <1>10, Zenon DEF FrameInv
  <2>4. val = Len(log[stores[j].by]) => Snapshot("storage", f, j)
    BY <1>9, <1>11, <2>3, Zenon DEF Snapshot
  <2>. QED  BY <1>4, <1>5, <1>6, <2>2, <2>4, TornMore, Zenon
<1>12. FrameInv(want, "storage", f, low, higher)
  <2>1. f.scratch = << >> /\ Len(f.scratch) <= MaxPayloadSize
    BY <1>9, <1>10, Zenon DEF FrameInv
  <2>2. Rereads(i, "size", g, "storage", f, low, higher)
    BY <1>11, Zenon DEF Rereads
  <2>3. want \in Nat /\ high <= higher /\ TypeOK
    BY <1>1, <1>4, <1>5, <1>6, Zenon
  <2>. QED  BY <1>1, <1>9, <1>10, <2>1, <2>2, <2>3, FieldStep, ZenonT(40)
<1>13. ReadsOn(h, "storage", f)
  BY <1>2, <1>3, <1>4, <1>5, <1>6, <1>8, Zenon DEF ReadsOn
<1>. QED
  BY <1>1, <1>3, <1>5, <1>6, <1>9, <1>12, <1>13, ReadsOnKeeps, Zenon DEF Labels

LEMMA PublicationFields ==
    ASSUME VersionedInv, NEW i \in Cells, NEW j \in EvenStores(i) \ {0}
    PROVE  \A b \in Nat \ {0} : b <= Len(log[stores[j].by]) =>
               Holds(StorageOf(i, b), j, log[stores[j].by][b])
<1>1. CellInv(i) /\ TypeOK
  BY Zenon DEF VersionedInv
<1>2. \A b \in 1..Len(log[stores[j].by]) : Holds(StorageOf(i, b), j, log[stores[j].by][b])
  BY <1>1, Zenon DEF CellInv
<1>3. Len(log[stores[j].by]) \in Nat
  <2>1. j \in 1..Len(stores)
    BY <1>1, StoresToLocation, Zenon DEF EvenStores, TypeOK, ProducerTypes
  <2>. QED  BY <1>1, <2>1 DEF TypeOK, ProducerTypes
<1>. QED  BY <1>2, <1>3

LEMMA LoadByteKeeps ==
    ASSUME VersionedInv, NEW h \in Handles, LoadByte(h)
    PROVE  VersionedInv'
<1>1. PICK want \in Nat \ {0}, i \in Cells :
          /\ want = next_sequence[h] /\ i = CellOf(want) /\ i = WantedCell(h)
          /\ FrameInv(want, pc[h], frame[h], floor[h], pending[h])
  BY Wanted, Zenon DEF LoadByte
<1>2. /\ TypeOK /\ frame \in [Handles -> Frames] /\ floor[h] \in Nat
      /\ floor \in [Handles -> 0..Len(stores)] /\ pc \in [Handles -> Labels]
  BY ReaderTypes, Zenon DEF TypeOK, ConsumerTypes
<1>3. PICK g \in Frames : g = frame[h]
  BY <1>2, Zenon
<1>4. g.scratch \in Seq(Byte)
  BY Zenon DEF Frames
<1>5. PICK old \in Seq(Byte), b \in Nat : old = g.scratch /\ b = Len(frame[h].scratch) + 1 /\ b = Len(old) + 1
  BY <1>3, <1>4
<1>6. PICK k, val :
          /\ k \in Loads(h, StorageOf(i, b))
          /\ val = ValueAt(k, StorageOf(i, b)) /\ Relaxed(h, k)
          /\ frame' = [frame EXCEPT ![h].scratch = Append(@, val)]
  BY <1>1, <1>5, Zenon DEF LoadByte
<1>7. /\ pc[h] = "storage" /\ pc' = pc /\ b \in 1..MaxPayloadSize
      /\ UNCHANGED <<producer, attached, next_sequence, registration, start, received>>
  BY <1>5 DEF LoadByte, Keep
<1>8. /\ pending' \in [Handles -> 0..Len(stores)] /\ floor' = floor
      /\ pending[h] <= pending'[h] /\ RelAt(k) <= pending'[h]
      /\ pending[h] \in Nat /\ pending'[h] \in Nat /\ RelAt(k) \in Nat
      /\ \A e \in Handles \ {h} : pending'[e] = pending[e]
  BY <1>2, <1>6, RelaxedFacts, LoadFacts
<1>9. PICK low \in Nat, high \in Nat, higher \in Nat :
          low = floor[h] /\ high = pending[h] /\ higher = pending'[h]
  BY <1>2, <1>8, Zenon
<1>10. val \in Byte
  BY <1>2, <1>6, FieldTypes, Zenon
<1>11. PICK bytes \in Seq(Byte) : bytes = Append(old, val)
  <2>1. Append(old, val) \in Seq(Byte)
    BY <1>10
  <2>. QED  BY <2>1, Zenon
<1>12. Len(bytes) = b /\ bytes[b] = val /\ \A c \in 1..Len(old) : bytes[c] = old[c]
  BY <1>5, <1>10, <1>11
<1>13. PICK f : f = [g EXCEPT !.scratch = bytes]
  BY Zenon
<1>14. /\ f \in Frames /\ f.scratch = bytes /\ f.attempt = g.attempt
       /\ f.before = g.before /\ f.sequence = g.sequence /\ f.size = g.size
  BY <1>13, ScratchSet
<1>15. FrameInv(want, "storage", g, low, high)
  BY <1>1, <1>3, <1>7, <1>9, Zenon
<1>16. ASSUME NEW j \in EvenStores(i) \ {0}, j <= low, Snapshot("storage", g, j)
       PROVE  Snapshot("storage", f, j) \/ Torn(i, j, higher)
  <2>1. PICK s, payload : s = stores[j].by /\ payload = log[s]
    BY Zenon
  <2>2. b <= Len(payload) => Holds(StorageOf(i, b), j, payload[b])
    BY <1>7, <2>1, PublicationFields
  <2>3. StorageOf(i, b) \in Fields(i)
    BY <1>7, LocationTypes, Zenon
  <2>4. b <= Len(payload) => val = payload[b] \/ Torn(i, j, RelAt(k))
    BY <1>6, <1>9, <1>16, <2>2, <2>3, FieldLoaded, Zenon
  <2>5. /\ g.sequence = s /\ g.size = Len(payload)
        /\ \A c \in 1..Len(old) : c <= Len(payload) => old[c] = payload[c]
    BY <1>5, <1>16, <2>1, Zenon DEF Snapshot
  <2>6. ASSUME b <= Len(payload) => val = payload[b]
        PROVE  Snapshot("storage", f, j)
    <3>1. \A c \in 1..b : c <= Len(payload) => bytes[c] = payload[c]
      <4>1. \A c \in 1..b : c = b \/ c \in 1..Len(old)
        BY <1>5
      <4>. QED  BY <1>12, <2>5, <2>6, <4>1, Zenon
    <3>. QED  BY <1>12, <1>14, <2>1, <2>5, <3>1, Zenon DEF Snapshot
  <2>. QED  BY <1>2, <1>8, <1>9, <2>4, <2>6, TornMore, Zenon
<1>17. FrameInv(want, "storage", f, low, higher)
  <2>1. Len(f.scratch) <= MaxPayloadSize
    BY <1>7, <1>12, <1>14
  <2>2. Rereads(i, "storage", g, "storage", f, low, higher)
    BY <1>16, Zenon DEF Rereads
  <2>3. want \in Nat /\ high <= higher /\ TypeOK /\ "storage" # "size"
    BY <1>1, <1>2, <1>8, <1>9, Zenon
  <2>. QED  BY <1>1, <1>14, <1>15, <2>1, <2>2, <2>3, FieldStep, ZenonT(40)
<1>18. ReadsOn(h, "storage", f)
  <2>1. frame' = [frame EXCEPT ![h] = f]
    BY <1>2, <1>3, <1>5, <1>6, <1>11, <1>13, Zenon
  <2>2. pc' = [pc EXCEPT ![h] = "storage"]
    BY <1>2, <1>7, Zenon
  <2>3. /\ floor' \in [Handles -> 0..Len(stores)] /\ pending' \in [Handles -> 0..Len(stores)]
        /\ \A e \in Handles \ {h} : floor'[e] = floor[e] /\ pending'[e] = pending[e]
    BY <1>2, <1>8, Zenon
  <2>. QED  BY <1>7, <2>1, <2>2, <2>3, Zenon DEF ReadsOn
<1>19. "storage" \in Labels /\ pc[h] # "idle" /\ low = floor'[h]
  BY <1>7, <1>8, <1>9, Zenon DEF Labels
<1>. QED
  BY <1>1, <1>9, <1>14, <1>17, <1>18, <1>19, ReadsOnKeeps, Zenon

\* After the acquire fence a version that is newer than the one read before is
\* no longer missed.
LEMMA AcquireFenceKeeps ==
    ASSUME VersionedInv, NEW h \in Handles, AcquireFence(h)
    PROVE  VersionedInv'
<1>1. PICK want \in Nat \ {0}, i \in Cells :
          /\ want = next_sequence[h] /\ i = CellOf(want)
          /\ FrameInv(want, pc[h], frame[h], floor[h], pending[h])
  BY Wanted, Zenon DEF AcquireFence
<1>2. /\ TypeOK /\ frame \in [Handles -> Frames]
      /\ floor \in [Handles -> 0..Len(stores)] /\ pending \in [Handles -> 0..Len(stores)]
      /\ stores \in Seq(StoreRecord)
  BY ReaderTypes, Zenon
<1>3. /\ pc[h] = "storage" /\ Len(frame[h].scratch) = MaxPayloadSize
      /\ floor' = [floor EXCEPT ![h] = Larger(@, pending[h])]
      /\ pc' = [pc EXCEPT ![h] = "after"] /\ frame' = frame /\ pending' = pending
      /\ UNCHANGED <<producer, attached, next_sequence, registration, start, received>>
  BY Zenon DEF AcquireFence, Keep, Goto
<1>4. /\ floor' \in [Handles -> 0..Len(stores)]
      /\ floor'[h] \in Nat /\ floor[h] \in Nat /\ pending[h] \in Nat
      /\ floor[h] <= floor'[h] /\ pending[h] <= floor'[h]
      /\ \A e \in Handles \ {h} : floor'[e] = floor[e]
  BY <1>2, <1>3 DEF Larger
<1>5. PICK g \in Frames, low \in Nat, lower \in Nat, high \in Nat :
          g = frame[h] /\ low = floor'[h] /\ lower = floor[h] /\ high = pending[h]
  BY <1>2, <1>4, Zenon
<1>6. lower <= low /\ high <= low /\ FrameInv(want, "storage", g, lower, high)
  BY <1>1, <1>3, <1>4, <1>5, Zenon
<1>7. \A j \in EvenStores(i) : j \in Nat
  BY <1>2, StoresToLocation, Zenon DEF EvenStores
<1>8. Completed(want, low)
  BY <1>1, <1>6, <1>7 DEF FrameInv, Completed
<1>9. PICK j \in EvenStores(i) \ {0} :
             /\ j <= lower
             /\ g.before = ValueAt(j, Version(i))
             /\ stores[j].by = want \/ want + Capacity <= Len(log)
             /\ Snapshot("storage", g, j) \/ Torn(i, j, high)
  BY <1>1, <1>6, Zenon DEF FrameInv
<1>10. j <= low
  <2>1. j \in Nat /\ j <= lower /\ lower <= low
    BY <1>6, <1>7, <1>9, Zenon
  <2>. QED  BY <2>1
<1>11. Snapshot("after", g, j) \/ Torn(i, j, low)
  BY <1>2, <1>6, <1>9, TornMore, Zenon DEF Snapshot
<1>12. FrameInv(want, "after", g, low, high)
  <2>1. \E l \in EvenStores(i) \ {0} :
             /\ l <= low
             /\ g.before = ValueAt(l, Version(i))
             /\ stores[l].by = want \/ want + Capacity <= Len(log)
             /\ Snapshot("after", g, l) \/ Torn(i, l, low)
    BY <1>9, <1>10, <1>11, Zenon
  <2>2. /\ g.attempt < ReadAttempts
        /\ g.attempt > 0 => want + Capacity <= Len(log)
        /\ Len(g.scratch) = MaxPayloadSize /\ Len(g.scratch) <= MaxPayloadSize
    BY <1>3, <1>5, <1>6, VersionedAssumption, Zenon DEF FrameInv
  <2>. QED  BY <1>1, <1>8, <2>1, <2>2, Zenon DEF FrameInv
<1>13. ReadsOn(h, "after", g)
  <2>1. frame' = [frame EXCEPT ![h] = g]
    BY <1>2, <1>3, <1>5, Zenon
  <2>2. pending' \in [Handles -> 0..Len(stores)]
    BY <1>2, <1>3, Zenon
  <2>3. \A e \in Handles \ {h} : floor'[e] = floor[e] /\ pending'[e] = pending[e]
    BY <1>3, <1>4, Zenon
  <2>. QED  BY <1>3, <1>4, <2>1, <2>2, <2>3, Zenon DEF ReadsOn
<1>14. "after" \in Labels /\ pc[h] # "idle" /\ high = pending'[h]
  BY <1>3, <1>5, Zenon DEF Labels
<1>. QED
  BY <1>1, <1>5, <1>12, <1>13, <1>14, ReadsOnKeeps, Zenon

\* The version is still the one read before: nothing was written in between.
\* It has changed: the wanted publication is being written over.
LEMMA LoadAfterKeeps ==
    ASSUME VersionedInv, NEW h \in Handles, LoadAfter(h)
    PROVE  VersionedInv'
<1>1. PICK want \in Nat \ {0}, i \in Cells :
          /\ want = next_sequence[h] /\ i = CellOf(want) /\ i = WantedCell(h)
          /\ FrameInv(want, pc[h], frame[h], floor[h], pending[h])
  BY Wanted, Zenon DEF LoadAfter
<1>2. PICK k, after :
          /\ k \in Loads(h, Version(i))
          /\ after = ValueAt(k, Version(i)) /\ Relaxed(h, k)
          /\ IF after = frame[h].before
             THEN Goto(h, "stable") /\ UNCHANGED frame
             ELSE Retry(h)
  BY <1>1, Zenon DEF LoadAfter
<1>3. /\ pc[h] = "after"
      /\ UNCHANGED <<producer, attached, next_sequence, registration, start, received>>
  BY Zenon DEF LoadAfter, Keep
<1>4. /\ TypeOK /\ frame \in [Handles -> Frames] /\ stores \in Seq(StoreRecord)
      /\ floor \in [Handles -> 0..Len(stores)] /\ floor[h] \in Nat
  BY ReaderTypes, Zenon
<1>5. /\ pending' \in [Handles -> 0..Len(stores)] /\ floor' = floor
      /\ \A e \in Handles \ {h} : pending'[e] = pending[e]
  BY <1>2, <1>4, RelaxedFacts, LoadFacts, Zenon
<1>6. PICK g, low, high, higher :
          /\ g \in Frames /\ low \in Nat
          /\ g = frame[h] /\ low = floor[h] /\ high = pending[h] /\ higher = pending'[h]
  BY <1>4, Zenon
<1>7. FrameInv(want, "after", g, low, high)
  BY <1>1, <1>3, <1>6, Zenon
<1>8. /\ k \in StoresTo(Version(i)) /\ k \in 0..Len(stores)
      /\ \A j \in StoresTo(Version(i)) : j <= low => j <= k
  BY <1>2, <1>4, <1>6, LoadFacts, Zenon
<1>9. PICK j \in EvenStores(i) \ {0} :
             /\ j <= low
             /\ g.before = ValueAt(j, Version(i))
             /\ stores[j].by = want \/ want + Capacity <= Len(log)
             /\ Snapshot("after", g, j) \/ Torn(i, j, low)
  BY <1>1, <1>7, Zenon DEF FrameInv
<1>10. j \in StoresTo(Version(i)) /\ j \in Nat /\ j <= k
  <2>1. j \in StoresTo(Version(i))
    BY <1>9, Zenon DEF EvenStores
  <2>2. j \in Nat
    BY <1>4, <2>1, StoresToLocation, Zenon
  <2>. QED  BY <1>8, <1>9, <2>1, <2>2, Zenon
<1>11. k # j => stores[j].by + Capacity <= Len(log) /\ g.before < after
  BY <1>2, <1>8, <1>9, <1>10, VersionLoaded, Zenon
<1>12. /\ Completed(want, low) /\ g.attempt < ReadAttempts /\ Len(g.scratch) = MaxPayloadSize
       /\ g.attempt > 0 => want + Capacity <= Len(log)
  BY <1>7, Zenon DEF FrameInv
<1>13. CASE after = frame[h].before
  <2>1. k = j
    <3>1. after \in Nat
      BY <1>2, <1>4, <1>8, VersionValues, Zenon
    <3>. QED  BY <1>6, <1>11, <1>13, <3>1
  <2>2. ~ Torn(i, j, low)
    <3>1. ASSUME NEW o \in StoresTo(Version(i)), j < o, o <= low
          PROVE  FALSE
      <4>1. o <= j /\ o \in Nat
        BY <1>4, <1>8, <2>1, <3>1, StoresToLocation, Zenon
      <4>. QED  BY <1>10, <3>1, <4>1
    <3>. QED  BY <3>1, Zenon DEF Torn
  <2>3. Snapshot("stable", g, j)
    BY <1>9, <2>2, Zenon DEF Snapshot
  <2>4. FrameInv(want, "stable", g, low, higher)
    BY <1>1, <1>9, <1>12, <2>3, VersionedAssumption DEF FrameInv
  <2>5. ReadsOn(h, "stable", g)
    <3>1. frame' = [frame EXCEPT ![h] = g] /\ pc' = [pc EXCEPT ![h] = "stable"]
      BY <1>2, <1>4, <1>6, <1>13, Zenon DEF Goto
    <3>. QED  BY <1>3, <1>4, <1>5, <3>1, Zenon DEF ReadsOn
  <2>6. "stable" \in Labels /\ pc[h] # "idle" /\ low = floor'[h]
    BY <1>3, <1>5, <1>6, Zenon DEF Labels
  <2>. QED  BY <1>1, <1>6, <2>4, <2>5, <2>6, ReadsOnKeeps, Zenon
<1>14. CASE after # frame[h].before
  <2>1. want + Capacity <= Len(log)
    <3>1. k # j
      BY <1>2, <1>6, <1>9, <1>14, Zenon
    <3>. QED  BY <1>9, <1>11, <3>1, Zenon
  <2>2. PICK label \in Labels, f \in Frames :
              /\ pc' = [pc EXCEPT ![h] = label] /\ frame' = [frame EXCEPT ![h] = f]
              /\ FrameInv(want, label, f, low, higher)
    <3>1. /\ Retry(h) /\ frame[h].attempt < ReadAttempts
          /\ Len(frame[h].scratch) <= MaxPayloadSize
      <4>1. Retry(h) /\ frame[h].attempt < ReadAttempts
        BY <1>2, <1>6, <1>12, <1>14, Zenon
      <4>2. Len(frame[h].scratch) = MaxPayloadSize
        BY <1>6, <1>12, Zenon
      <4>. QED  BY <4>1, <4>2, VersionedAssumption
    <3>. QED  BY <1>4, <1>12, <2>1, <3>1, RetryFacts, Zenon
  <2>3. ReadsOn(h, label, f)
    BY <1>3, <1>4, <1>5, <2>2, Zenon DEF ReadsOn
  <2>4. pc[h] # "idle" /\ low = floor'[h]
    BY <1>3, <1>5, <1>6, Zenon
  <2>. QED  BY <1>1, <1>6, <2>2, <2>3, <2>4, ReadsOnKeeps, Zenon
<1>. QED  BY <1>13, <1>14, Zenon

\* try_read returns: the consumer is idle, its cursor has not gone back to 0.
LEMMA ReturnKeeps ==
    ASSUME VersionedInv, NEW h \in Handles, pc[h] # "idle", Return(h), UNCHANGED Keep,
           floor' \in [Handles -> 0..Len(stores)], pending' = pending,
           \A g \in Handles \ {h} : floor'[g] = floor[g],
           NEW cursor \in Nat \ {0}, next_sequence' = [next_sequence EXCEPT ![h] = cursor],
           received' \in Seq(Deliveries), Len(received') = Len(received)
    PROVE  VersionedInv'
<1>1. TypeOK /\ ConsumerTypes /\ ConsumerInv(h)
  BY Zenon DEF VersionedInv, TypeOK
<1>2. /\ UNCHANGED <<producer, stores, attached, registration, start>>
      /\ pc' = [pc EXCEPT ![h] = "idle"] /\ frame' = [frame EXCEPT ![h] = NoFrame]
  BY Zenon DEF Return, Goto, Keep, producer
<1>3. NoFrame \in Frames /\ "idle" \in Labels
  <2>1. << >> \in Seq(Byte) /\ 0 \in 0..ReadAttempts /\ 0 \in 0..MaxPayloadSize
    BY VersionedAssumption
  <2>. QED  BY <2>1, Zenon DEF NoFrame, Frames, Labels
<1>4. /\ pc' \in [Handles -> Labels] /\ frame' \in [Handles -> Frames]
      /\ pc'[h] = "idle" /\ frame'[h] = NoFrame
      /\ \A g \in Handles \ {h} : pc'[g] = pc[g] /\ frame'[g] = frame[g]
  <2>1. pc \in [Handles -> Labels] /\ frame \in [Handles -> Frames]
    BY <1>1, Zenon DEF ConsumerTypes
  <2>. QED  BY <1>2, <1>3, <2>1, Zenon
<1>5. /\ next_sequence' \in [Handles -> Nat] /\ next_sequence'[h] # 0
      /\ \A g \in Handles \ {h} : next_sequence'[g] = next_sequence[g]
  <2>1. next_sequence \in [Handles -> Nat]
    BY <1>1, Zenon DEF ConsumerTypes
  <2>. QED  BY <2>1, Zenon
<1>6. ConsumerTypes'
  BY <1>1, <1>2, <1>4, <1>5, Zenon DEF ConsumerTypes
<1>7. ConsumerInv(h)'
  <2>1. registration'[h] # 0
    BY <1>1, <1>2, Zenon DEF ConsumerInv
  <2>. QED  BY <1>4, <1>5, <2>1, IdleConsumer, Zenon
<1>8. \A g \in Handles \ {h} : SameConsumer(g)
  BY <1>2, <1>4, <1>5, Zenon DEF SameConsumer
<1>. QED  BY <1>2, <1>6, <1>7, <1>8, ConsumerStepKeeps, Zenon

LEMMA ReadOverwrittenKeeps ==
    ASSUME VersionedInv, NEW h \in Handles, ReadOverwritten(h)
    PROVE  VersionedInv'
<1>1. /\ pc[h] # "idle" /\ Return(h) /\ UNCHANGED Keep /\ UNCHANGED received
  BY Zenon DEF ReadOverwritten
<1>2. PICK want \in Nat \ {0} : want = next_sequence[h]
  BY <1>1, Wanted, Zenon
<1>3. PICK k \in Loads(h, Published) :
          /\ Acquire(h, k)
          /\ next_sequence' = [next_sequence EXCEPT ![h] =
                                  ResumeAfterOverwrite(ValueAt(k, Published), next_sequence[h])]
  BY Zenon DEF ReadOverwritten
<1>4. PICK cursor \in Nat \ {0} : cursor = ResumeAfterOverwrite(ValueAt(k, Published), want)
  <2>1. ValueAt(k, Published) \in Nat
    BY <1>3, LoadPublished, Zenon
  <2>. QED  BY <2>1, OldestRetainedFacts, Zenon
<1>5. /\ floor' \in [Handles -> 0..Len(stores)] /\ pending' = pending
      /\ \A g \in Handles \ {h} : floor'[g] = floor[g]
  <2>1. TypeOK
    BY Zenon DEF VersionedInv
  <2>. QED  BY <1>3, <2>1, AcquireFacts, Zenon
<1>6. next_sequence' = [next_sequence EXCEPT ![h] = cursor]
  BY <1>2, <1>3, <1>4, Zenon
<1>7. received' \in Seq(Deliveries) /\ Len(received') = Len(received)
  BY <1>1, Zenon DEF VersionedInv, TypeOK, ConsumerTypes
<1>. QED  BY <1>1, <1>5, <1>6, <1>7, ReturnKeeps, Zenon

LEMMA ReadTooLargeKeeps ==
    ASSUME VersionedInv, NEW h \in Handles, ReadTooLarge(h)
    PROVE  VersionedInv'
<1>1. /\ pc[h] # "idle" /\ Return(h) /\ UNCHANGED Keep
      /\ UNCHANGED <<next_sequence, floor, pending, received>>
  BY Zenon DEF ReadTooLarge
<1>2. PICK want \in Nat \ {0} : want = next_sequence[h]
  BY <1>1, Wanted, Zenon
<1>3. /\ next_sequence \in [Handles -> Nat] /\ received \in Seq(Deliveries)
      /\ floor \in [Handles -> 0..Len(stores)]
  BY Zenon DEF VersionedInv, TypeOK, ConsumerTypes
<1>4. next_sequence' = [next_sequence EXCEPT ![h] = want]
  BY <1>1, <1>2, <1>3, Zenon
<1>5. /\ floor' \in [Handles -> 0..Len(stores)] /\ pending' = pending
      /\ \A g \in Handles \ {h} : floor'[g] = floor[g]
      /\ received' \in Seq(Deliveries) /\ Len(received') = Len(received)
  BY <1>1, <1>3, Zenon
<1>. QED  BY <1>1, <1>4, <1>5, ReturnKeeps, Zenon

\* What a successful read has in its frame is the payload published under the
\* sequence it wants.
LEMMA StableFacts ==
    ASSUME VersionedInv, NEW h \in Handles, pc[h] = "stable",
           frame[h].sequence = next_sequence[h]
    PROVE  /\ next_sequence[h] \in 1..Len(log) /\ log[next_sequence[h]] \in Seq(Byte)
           /\ SubSeq(frame[h].scratch, 1, frame[h].size) = log[next_sequence[h]]
<1>1. PICK want \in Nat \ {0}, i \in Cells :
          /\ want = next_sequence[h] /\ i = CellOf(want)
          /\ FrameInv(want, pc[h], frame[h], floor[h], pending[h])
  BY Wanted, Zenon
<1>2. PICK g, low :
          /\ g \in Frames
          /\ g = frame[h] /\ low = floor[h]
  BY ReaderTypes, Zenon
<1>3. g.sequence = want /\ FrameInv(want, "stable", g, low, pending[h])
  BY <1>1, <1>2, Zenon
<1>4. PICK j \in EvenStores(i) \ {0} : Snapshot("stable", g, j)
  BY <1>1, <1>3, Zenon DEF FrameInv
<1>5. stores[j].by = want
  BY <1>3, <1>4, Zenon DEF Snapshot
<1>6. want \in 1..Len(log) /\ log[want] \in Seq(Byte) /\ Len(log[want]) <= MaxPayloadSize
  <2>1. stores \in Seq(StoreRecord) /\ TypeOK
    BY ReaderTypes, Zenon
  <2>2. j \in 1..Len(stores)
    BY <2>1, StoresToLocation, Zenon DEF EvenStores
  <2>3. want \in 1..Len(log) /\ log \in Seq({payload \in Payloads : Len(payload) <= MaxPayloadSize})
    BY <1>5, <2>1, <2>2, Zenon DEF TypeOK, ProducerTypes
  <2>. QED  BY <2>3, VersionedAssumption
<1>7. PICK payload \in Seq(Byte), bytes \in Seq(Byte) : payload = log[want] /\ bytes = g.scratch
  <2>1. g.scratch \in Seq(Byte)
    BY <1>2, Zenon DEF Frames
  <2>. QED  BY <1>6, <2>1, Zenon
<1>8. /\ g.size = Len(payload) /\ Len(bytes) = MaxPayloadSize
      /\ \A b \in 1..Len(bytes) : b <= Len(payload) => bytes[b] = payload[b]
  BY <1>3, <1>4, <1>5, <1>7, Zenon DEF Snapshot, FrameInv
<1>9. SubSeq(bytes, 1, Len(payload)) = payload
  BY <1>6, <1>7, <1>8, VersionedAssumption
<1>. QED  BY <1>1, <1>2, <1>6, <1>7, <1>8, <1>9, Zenon

LEMMA ReadSuccessKeeps ==
    ASSUME VersionedInv, NEW h \in Handles, ReadSuccess(h)
    PROVE  VersionedInv'
<1>1. /\ pc[h] = "stable" /\ frame[h].sequence = next_sequence[h] /\ Return(h)
      /\ UNCHANGED Keep /\ UNCHANGED <<floor, pending>>
  BY Zenon DEF ReadSuccess
<1>2. PICK want \in Nat \ {0} : want = next_sequence[h] /\ attached[h]
  BY <1>1, Wanted, Zenon
<1>3. /\ next_sequence \in [Handles -> Nat] /\ received \in Seq(Deliveries)
      /\ floor \in [Handles -> 0..Len(stores)] /\ registration[h] \in 0..Len(received)
      /\ log \in Seq({payload \in Payloads : Len(payload) <= MaxPayloadSize})
  BY Zenon DEF VersionedInv, TypeOK, ConsumerTypes, ProducerTypes
<1>4. registration[h] \in 1..Len(received)
  BY <1>2, <1>3 DEF VersionedInv, ConsumerInv
<1>5. PICK payload \in Seq(Byte) :
          payload = log[want] /\ payload = SubSeq(frame[h].scratch, 1, frame[h].size)
  <2>1. log[want] \in Seq(Byte) /\ log[want] = SubSeq(frame[h].scratch, 1, frame[h].size)
    BY <1>1, <1>2, StableFacts, Zenon
  <2>. QED  BY <2>1, Zenon
<1>6. PICK delivery \in [sequence : Nat, payload : Seq(Byte)], r \in 1..Len(received) :
          /\ delivery = [sequence |-> want, payload |-> payload] /\ r = registration[h]
  <2>1. [sequence |-> want, payload |-> payload] \in [sequence : Nat, payload : Seq(Byte)]
    BY Zenon
  <2>. QED  BY <1>4, <2>1, Zenon
<1>7. received' = [received EXCEPT ![r] = Append(received[r], delivery)]
  BY <1>2, <1>3, <1>5, <1>6, Zenon DEF ReadSuccess
<1>8. PICK deliveries \in Deliveries : deliveries = Append(received[r], delivery)
  <2>1. received[r] \in Deliveries
    BY <1>3, <1>6
  <2>2. Append(received[r], delivery) \in Deliveries
    BY <1>6, <2>1 DEF Deliveries
  <2>. QED  BY <2>2, Zenon
<1>9. received' \in Seq(Deliveries) /\ Len(received') = Len(received)
  BY <1>3, <1>6, <1>7, <1>8
<1>10. PICK cursor \in Nat \ {0} : cursor = want + 1
  OBVIOUS
<1>11. next_sequence' = [next_sequence EXCEPT ![h] = cursor]
  BY <1>2, <1>10, Zenon DEF ReadSuccess
<1>12. floor' \in [Handles -> 0..Len(stores)] /\ \A g \in Handles \ {h} : floor'[g] = floor[g]
  BY <1>1, <1>3, Zenon
<1>13. pc[h] # "idle" /\ pending' = pending
  BY <1>1, Zenon
<1>. QED  BY <1>1, <1>9, <1>11, <1>12, <1>13, ReturnKeeps, Zenon

LEMMA ReadStepKeeps ==
    ASSUME VersionedInv, NEW h \in Handles, ReadStep(h)
    PROVE  VersionedInv'
BY LoadBeforeKeeps, LoadSequenceKeeps, LoadSizeKeeps, LoadByteKeeps, AcquireFenceKeeps,
   LoadAfterKeeps,
   ReadOverwrittenKeeps, ReadTooLargeKeeps, ReadSuccessKeeps, Zenon DEF ReadStep

-----------------------------------------------------------------------------
(* VersionedInv is inductive.                                              *)

LEMMA InitInv == Init => VersionedInv
<1>. SUFFICES ASSUME Init PROVE VersionedInv
  BY Zenon
<1>1. stores = << >> /\ log = << >> /\ Len(stores) = 0 /\ Len(log) = 0
  BY Zenon DEF Init
<1>2. \A loc : StoresTo(loc) = {0}
  BY <1>1 DEF StoresTo
<1>3. ProducerTypes
  BY <1>1 DEF Init, ProducerTypes
<1>4. ConsumerTypes
  <2>1. NoFrame \in Frames
    <3>1. << >> \in Seq(Byte) /\ 0 \in 0..ReadAttempts /\ 0 \in 0..MaxPayloadSize
      BY VersionedAssumption
    <3>. QED  BY <3>1, Zenon DEF NoFrame, Frames
  <2>2. received = << >> /\ start = << >> /\ Len(start) = 0 /\ Len(received) = 0
    BY Zenon DEF Init
  <2>3. received \in Seq(Deliveries) /\ start \in Seq(Nat)
    BY <2>2
  <2>4. /\ attached \in [Handles -> BOOLEAN] /\ next_sequence \in [Handles -> Nat]
        /\ pc \in [Handles -> Labels] /\ frame \in [Handles -> Frames]
    BY <2>1, Zenon DEF Init, Labels
  <2>5. /\ floor \in [Handles -> 0..Len(stores)] /\ pending \in [Handles -> 0..Len(stores)]
        /\ registration \in [Handles -> 0..Len(start)]
    BY <1>1, <2>2 DEF Init
  <2>. QED  BY <2>2, <2>3, <2>4, <2>5, Zenon DEF ConsumerTypes
<1>5. ASSUME NEW i \in Cells
      PROVE  /\ EvenStores(i) = {0} /\ StoresTo(Version(i)) = {0}
             /\ \A n \in Nat : Newest(Version(i), n) \subseteq {0}
  <2>1. ValueAt(0, Version(i)) = 0 /\ 0 % 2 = 0
    BY DEF ValueAt, Initial, Version
  <2>. QED  BY <1>2, <2>1, Zenon DEF EvenStores, Newest, NotOlder
<1>6. \A i \in Cells : CellInv(i)
  BY <1>2, <1>5 DEF CellInv
<1>7. PublishedInv
  BY <1>2, Zenon DEF PublishedInv
<1>8. ProducerInv
  <2>1. publishing = "idle" /\ produced = 0
    BY Zenon DEF Init
  <2>. QED  BY <1>1, <1>5, <2>1 DEF ProducerInv
<1>9. \A h \in Handles : ConsumerInv(h)
  <2>. SUFFICES ASSUME NEW h \in Handles PROVE ConsumerInv(h)
    BY Zenon
  <2>1. pc[h] = "idle" /\ frame[h] = NoFrame /\ attached[h] = FALSE
    BY Zenon DEF Init
  <2>2. NoFrame.attempt = 0 /\ NoFrame.scratch = << >> /\ Len(<< >>) = 0
    BY Zenon DEF NoFrame
  <2>3. /\ NoFrame.attempt < ReadAttempts /\ ~ (NoFrame.attempt > 0)
        /\ Len(NoFrame.scratch) <= MaxPayloadSize
    BY <2>2, VersionedAssumption
  <2>. QED  BY <2>1, <2>3, Zenon DEF ConsumerInv, FrameInv
<1>. QED  BY <1>3, <1>4, <1>6, <1>7, <1>8, <1>9, Zenon DEF VersionedInv, TypeOK

LEMMA NextInv == VersionedInv /\ [Next]_vars => VersionedInv'
<1>. SUFFICES ASSUME VersionedInv, [Next]_vars PROVE VersionedInv'
  BY Zenon
<1>1. CASE Publish
  BY <1>1, PublishKeeps, StutterKeeps, Zenon
<1>2. ASSUME NEW h \in Handles,
             Register(h) \/ (\E g \in Handles : MoveConsumer(h, g)) \/ ReadCall(h) \/ ReadStep(h)
      PROVE  VersionedInv'
  BY <1>2, RegisterKeeps, MoveKeeps, ReadCallKeeps, ReadStepKeeps, StutterKeeps, Zenon
<1>3. CASE UNCHANGED vars
  BY <1>3, StutterKeeps, Zenon
<1>. QED  BY <1>1, <1>2, <1>3, Zenon DEF Next

\* Under every interleaving of the producer's stores with the loads of the
\* consumers, and with every value a load may return, each cell that is stable holds
\* one whole publication and what a consumer has read of it is that publication or
\* will be found out.
THEOREM Invariance == Spec => []VersionedInv
BY InitInv, NextInv, PTL DEF Spec

-----------------------------------------------------------------------------
(* What try_read reports.                                                  *)

LEMMA OverwrittenGone ==
    ASSUME VersionedInv, NEW h \in Handles, ReadOverwritten(h)
    PROVE  next_sequence[h] + Capacity <= Len(log)
<1>1. /\ pc[h] # "idle"
      /\ pc[h] = "unstable" \/ (pc[h] = "stable" /\ frame[h].sequence # next_sequence[h])
  BY Zenon DEF ReadOverwritten
<1>2. PICK want \in Nat \ {0}, i \in Cells :
          /\ want = next_sequence[h] /\ i = CellOf(want)
          /\ FrameInv(want, pc[h], frame[h], floor[h], pending[h])
  BY <1>1, Wanted, Zenon
<1>3. PICK f, low, high : f = frame[h] /\ FrameInv(want, pc[h], f, low, high)
  BY <1>2, Zenon
<1>4. CASE pc[h] = "unstable"
  BY <1>2, <1>3, <1>4, Zenon DEF FrameInv
<1>5. CASE pc[h] = "stable" /\ f.sequence # want
  <2>1. FrameInv(want, "stable", f, low, high)
    BY <1>3, <1>5, Zenon
  <2>2. PICK j \in EvenStores(i) :
             /\ stores[j].by = want \/ want + Capacity <= Len(log)
             /\ Snapshot("stable", f, j)
    BY <1>2, <2>1, Zenon DEF FrameInv
  <2>3. f.sequence = stores[j].by
    BY <2>2, Zenon DEF Snapshot
  <2>. QED  BY <1>2, <1>5, <2>2, <2>3, Zenon
<1>. QED  BY <1>1, <1>2, <1>3, <1>4, <1>5, Zenon

\* try_read reports overwritten only when the producer has begun to write over
\* the wanted sequence, whatever the loads of read() return and however many
\* attempts it is given.
THEOREM HonestOverwritten == Spec => OverwrittenIsHonest
<1>1. VersionedInv /\ [Next]_vars =>
          [\A h \in Handles : ReadOverwritten(h) => next_sequence[h] + Capacity <= Len(log)]_vars
  BY OverwrittenGone, Zenon
<1>. QED  BY <1>1, Invariance, PTL DEF Spec, OverwrittenIsHonest

-----------------------------------------------------------------------------
(* The queue implements the multicast contract.                            *)

LEMMA InitContract == Init => Contract!Init
BY Zenon DEF Init, Contract!Init

\* The producer shows a publication when it begins.
LEMMA PublishContract ==
    ASSUME VersionedInv, Publish
    PROVE  Contract!Publish \/ UNCHANGED Contract!vars
<1>1. CASE \E payload \in Payloads : PublishCall(payload)
  <2>1. PICK payload \in Payloads : PublishCall(payload)
    BY <1>1, Zenon
  <2>2. /\ log' = Append(log, payload) /\ Len(payload) <= MaxPayloadSize
        /\ UNCHANGED <<attached, next_sequence, registration, start, received>>
    BY <2>1, Zenon DEF PublishCall, consumer, history
  <2>. QED  BY <2>2, Zenon DEF Contract!Publish
<1>2. CASE PublishStep \/ \E payload \in Payloads : PublishTooLarge(payload)
  <2>1. UNCHANGED <<log, attached, next_sequence, registration, start, received>>
    BY <1>2, Zenon DEF PublishStep, PublishTooLarge, StoreOdd, FenceAfterOdd, StoreSequence,
       StoreSize,
                StoreByte, FenceBeforeEven, StoreEven, StorePublished, consumer, history, vars
  <2>. QED  BY <2>1, Zenon DEF Contract!vars
<1>. QED  BY <1>1, <1>2, Zenon DEF Publish

LEMMA RegisterContract ==
    ASSUME VersionedInv, NEW h \in Handles, Register(h)
    PROVE  Contract!Register(h)
<1>1. PICK k \in Loads(h, Published) :
          /\ Acquire(h, k)
          /\ next_sequence' = [next_sequence EXCEPT ![h] = ValueAt(k, Published) + 1]
          /\ start' = Append(start, ValueAt(k, Published) + 1)
  BY Zenon DEF Register
<1>2. ValueAt(k, Published) + 1 \in 1..(Len(log) + 1)
  <2>1. Len(log) \in Nat
    BY ReaderTypes, Zenon
  <2>. QED  BY <1>1, <2>1, LoadPublished
<1>3. /\ attached' = [attached EXCEPT ![h] = TRUE]
      /\ registration' = [registration EXCEPT ![h] = Len(start) + 1]
      /\ received' = Append(received, << >>) /\ UNCHANGED log
  BY Zenon DEF Register, producer
<1>. QED  BY <1>1, <1>2, <1>3, Zenon DEF Contract!Register

LEMMA MoveContract ==
    ASSUME NEW h \in Handles, NEW g \in Handles, MoveConsumer(h, g)
    PROVE  Contract!Move(h, g)
BY Zenon DEF MoveConsumer, Contract!Move, producer

\* A cursor is only set ahead, over what the producer has begun to write over.
LEMMA SkipContract ==
    ASSUME VersionedInv, NEW h \in Handles, attached[h], NEW want \in Nat \ {0}, want = next_sequence[h],
           NEW published \in Nat, published <= Len(log), NEW s,
           s = OldestRetained(published) \/ s = ResumeAfterOverwrite(published, want), want < s,
           next_sequence' = [next_sequence EXCEPT ![h] = s],
           UNCHANGED <<log, attached, registration, start, received>>
    PROVE  Contract!Skip(h)
<1>1. Len(log) \in Nat /\ Capacity \in Nat \ {0}
  BY ReaderTypes, VersionedAssumption, Zenon
<1>2. s \in want..Len(log) /\ s - 1 + Capacity <= Len(log)
  BY <1>1 DEF OldestRetained, ResumeAfterOverwrite, Larger
<1>3. s \in next_sequence[h]..Len(log)
  BY <1>2, Zenon
<1>. QED  BY <1>2, <1>3, Zenon DEF Contract!Skip

LEMMA ReadCallContract ==
    ASSUME VersionedInv, NEW h \in Handles, ReadCall(h)
    PROVE  Contract!Skip(h) \/ UNCHANGED Contract!vars
<1>1. CASE ReadLagged(h)
  <2>1. PICK k, published :
            /\ k \in Loads(h, Published)
            /\ published = ValueAt(k, Published) /\ Acquire(h, k)
            /\ next_sequence[h] < OldestRetained(published)
            /\ next_sequence' = [next_sequence EXCEPT ![h] = OldestRetained(published)]
    BY <1>1, Zenon DEF ReadLagged
  <2>2. published \in Nat /\ published <= Len(log)
    BY <2>1, LoadPublished, Zenon
  <2>3. /\ attached[h] /\ UNCHANGED <<log, attached, registration, start, received>>
    BY <1>1, Zenon DEF ReadLagged, Keep, producer
  <2>4. PICK want \in Nat \ {0} : want = next_sequence[h]
    BY <2>3, Zenon DEF VersionedInv, TypeOK, ConsumerTypes, ConsumerInv
  <2>5. PICK s : s = OldestRetained(published)
    BY Zenon
  <2>6. want < s /\ next_sequence' = [next_sequence EXCEPT ![h] = s]
    BY <2>1, <2>4, <2>5, Zenon
  <2>. QED  BY <2>2, <2>3, <2>4, <2>5, <2>6, SkipContract, Zenon
<1>2. CASE ReadInvalid(h) \/ ReadEmpty(h) \/ \E destination \in Destinations : ReadBegin(h, destination)
  BY <1>2, Zenon DEF ReadInvalid, ReadEmpty, ReadBegin, Keep, producer, vars, Contract!vars
<1>. QED  BY <1>1, <1>2, Zenon DEF ReadCall

LEMMA ReadStepContract ==
    ASSUME VersionedInv, NEW h \in Handles, ReadStep(h)
    PROVE  Contract!Skip(h) \/ Contract!Deliver(h) \/ UNCHANGED Contract!vars
<1>1. CASE ReadOverwritten(h)
  <2>1. pc[h] # "idle" /\ UNCHANGED <<log, attached, registration, start, received>>
    BY <1>1, Zenon DEF ReadOverwritten, Keep, producer
  <2>2. PICK want \in Nat \ {0} : want = next_sequence[h] /\ attached[h]
    BY <2>1, Wanted, Zenon
  <2>3. PICK k, published, s :
            /\ k \in Loads(h, Published)
            /\ published = ValueAt(k, Published) /\ Acquire(h, k)
            /\ s = ResumeAfterOverwrite(published, want)
            /\ next_sequence' = [next_sequence EXCEPT ![h] = s]
    BY <1>1, <2>2, Zenon DEF ReadOverwritten
  <2>4. published \in Nat /\ published <= Len(log)
    BY <2>3, LoadPublished, Zenon
  <2>5. s \in Nat /\ want <= s
    BY <2>3, <2>4, OldestRetainedFacts, Zenon
  <2>6. CASE want < s
    BY <2>1, <2>2, <2>3, <2>4, <2>6, SkipContract, Zenon
  <2>7. CASE want = s
    <3>1. next_sequence' = next_sequence
      <4>1. next_sequence \in [Handles -> Nat]
        BY Zenon DEF VersionedInv, TypeOK, ConsumerTypes
      <4>2. next_sequence' = [next_sequence EXCEPT ![h] = next_sequence[h]]
        BY <2>2, <2>3, <2>7, Zenon
      <4>. QED  BY <4>1, <4>2, Zenon
    <3>. QED  BY <2>1, <3>1, Zenon DEF Contract!vars
  <2>. QED  BY <2>5, <2>6, <2>7
<1>2. CASE ReadSuccess(h)
  <2>1. /\ pc[h] = "stable" /\ frame[h].sequence = next_sequence[h]
        /\ UNCHANGED <<log, attached, registration, start>>
        /\ next_sequence' = [next_sequence EXCEPT ![h] = @ + 1]
        /\ received' = [received EXCEPT ![registration[h]] =
                           Append(@, [sequence |-> next_sequence[h],
                                      payload |-> SubSeq(frame[h].scratch, 1, frame[h].size)])]
    BY <1>2, Zenon DEF ReadSuccess, Keep, producer
  <2>2. next_sequence[h] \in 1..Len(log) /\ attached[h]
    BY <2>1, StableFacts, Wanted, Zenon
  <2>3. SubSeq(frame[h].scratch, 1, frame[h].size) = log[next_sequence[h]]
    BY <2>1, StableFacts, Zenon
  <2>4. received' = [received EXCEPT ![registration[h]] =
                        Append(@, [sequence |-> next_sequence[h],
                                   payload |-> log[next_sequence[h]]])]
    BY <2>1, <2>3, Zenon
  <2>5. next_sequence[h] <= Len(log)
    BY <2>2
  <2>. QED  BY <2>1, <2>2, <2>4, <2>5, Zenon DEF Contract!Deliver
<1>3. CASE \/ LoadBefore(h) \/ LoadSequence(h) \/ LoadSize(h) \/ LoadByte(h) \/ AcquireFence(h)
           \/ LoadAfter(h) \/ ReadTooLarge(h)
  <2>1. UNCHANGED <<Keep, next_sequence, received>>
    BY <1>3, Zenon DEF LoadBefore, LoadSequence, LoadSize, LoadByte, AcquireFence, LoadAfter,
                       ReadTooLarge
  <2>. QED  BY <2>1, Zenon DEF Keep, producer, Contract!vars
<1>. QED  BY <1>1, <1>2, <1>3, Zenon DEF ReadStep

LEMMA NextContract == VersionedInv /\ [Next]_vars => [Contract!Next]_(Contract!vars)
<1>. SUFFICES ASSUME VersionedInv, [Next]_vars PROVE [Contract!Next]_(Contract!vars)
  BY Zenon
<1>1. CASE Publish
  BY <1>1, PublishContract, Zenon DEF Contract!Next
<1>2. ASSUME NEW h \in Handles, Register(h)
      PROVE  Contract!Next
  BY <1>2, RegisterContract, Zenon DEF Contract!Next
<1>3. ASSUME NEW h \in Handles, NEW g \in Handles, MoveConsumer(h, g)
      PROVE  Contract!Next
  BY <1>3, MoveContract, Zenon DEF Contract!Next
<1>4. ASSUME NEW h \in Handles, ReadCall(h) \/ ReadStep(h)
      PROVE  Contract!Next \/ UNCHANGED Contract!vars
  BY <1>4, ReadCallContract, ReadStepContract, Zenon DEF Contract!Next
<1>5. CASE UNCHANGED vars
  BY <1>5, Zenon DEF vars, Contract!vars
<1>. QED  BY <1>1, <1>2, <1>3, <1>4, <1>5, Zenon DEF Next

\* Every step of the seqlock queue is a step of the multicast contract or changes
\* nothing that its callers see: no torn payload is delivered and no cursor is
\* moved over a sequence the producer has not begun to write over.
THEOREM SeqlockKeepsContract == Spec => ImplementsContract
BY InitContract, NextContract, Invariance, PTL DEF Spec, ImplementsContract, Contract!Spec

-----------------------------------------------------------------------------
(* What the contract promises.                                             *)

Promises == INSTANCE MulticastContractProofs WITH
                Payloads <- {payload \in Payloads : Len(payload) <= MaxPayloadSize}

LEMMA SameContract ==
    /\ Contract!Init => Promises!Init
    /\ [Contract!Next]_(Contract!vars) => [Promises!Next]_(Promises!vars)
<1>1. Contract!Publish => Promises!Publish
  BY Zenon DEF Promises!Publish, Contract!Publish
<1>2. ASSUME NEW h \in Handles
      PROVE  /\ Contract!Register(h) => Promises!Register(h)
             /\ \A g \in Handles : Contract!Move(h, g) => Promises!Move(h, g)
             /\ Contract!Deliver(h) => Promises!Deliver(h)
             /\ Contract!Skip(h) => Promises!Skip(h)
  BY Zenon DEF Promises!Register, Contract!Register, Promises!Move, Contract!Move,
               Promises!Deliver, Contract!Deliver, Promises!Skip, Contract!Skip
<1>3. Contract!Next => Promises!Next
  BY <1>1, <1>2, Zenon DEF Promises!Next, Contract!Next
<1>. QED  BY <1>3, Zenon DEF Promises!Init, Contract!Init, Promises!vars, Contract!vars

\* What the contract promises, with what makes it inductive, is an invariant of the
\* queue's steps.
THEOREM ContractKept == Spec => []Promises!ContractInv
<1>1. Capacity \in Nat
  BY VersionedAssumption, Zenon
<1>2. Init => Promises!ContractInv
  BY InitContract, SameContract, Promises!InitInv, Zenon
<1>3. VersionedInv /\ Promises!ContractInv /\ [Next]_vars => Promises!ContractInv'
  BY <1>1, NextContract, SameContract, Promises!NextInv, Zenon
<1>. QED  BY <1>2, <1>3, Invariance, PTL DEF Spec

\* Whatever the loads of read() return, a registration is given exactly what was
\* published under the sequences it is told: no torn and no stale payload.
THEOREM PayloadsAreThosePublished == Spec => []DeliveredAsPublished
<1>1. Promises!ContractInv => DeliveredAsPublished
  BY Zenon DEF Promises!ContractInv, Promises!DeliveredAsPublished, DeliveredAsPublished,
               Contract!DeliveredAsPublished
<1>. QED  BY <1>1, ContractKept, PTL

\* A registration is given its messages in order and each at most once, whatever
\* retries and moves of the Consumer object come between.
THEOREM DeliveriesAreInOrder == Spec => []DeliveredInOrder
<1>1. Promises!ContractInv => DeliveredInOrder
  BY Zenon DEF Promises!ContractInv, Promises!DeliveredInOrder, DeliveredInOrder,
               Contract!DeliveredInOrder
<1>. QED  BY <1>1, ContractKept, PTL

\* A cursor is not moved over a sequence that was neither delivered nor begun to be
\* written over by the producer.
THEOREM LossesAreReported == Spec => []NoSilentLoss
<1>1. Promises!ContractInv => NoSilentLoss
  BY Zenon DEF Promises!ContractInv, Promises!NoSilentLoss, NoSilentLoss, Contract!NoSilentLoss
<1>. QED  BY <1>1, ContractKept, PTL

=============================================================================
