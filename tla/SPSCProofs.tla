----------------------------- MODULE SPSCProofs -----------------------------
(***************************************************************************)
(* Proofs about SPSCQueue and its stress test, for every capacity, all     *)
(* payloads and any number of messages: SPSCInv is inductive, so slots are *)
(* free of data races, and every step of the ring is a step of the FIFO or *)
(* leaves what its callers see unchanged.                                  *)
(***************************************************************************)
EXTENDS StressSPSC, SequenceTheorems, TLAPS

-----------------------------------------------------------------------------
(* The slots of a ring of any capacity C, and what a FixedMessage returns. *)

\* A position is its cell plus a multiple of the capacity.
LEMMA Division ==
    ASSUME NEW C \in Nat \ {0}, NEW n \in Nat
    PROVE  n \div C \in Int /\ n % C \in 0..(C - 1) /\ n = C * (n \div C) + (n % C)
OBVIOUS

\* Positions less than the capacity apart are served by different cells.
LEMMA DistinctCells ==
    ASSUME NEW C \in Nat \ {0}, NEW q \in Nat, NEW r \in Nat, q < r, r < q + C
    PROVE  q % C # r % C
<1>1. PICK j \in Int, c \in 0..(C - 1) : q = C * j + c /\ c = q % C
  BY Division, Zenon
<1>2. PICK k \in Int, e \in 0..(C - 1) : r = C * k + e /\ e = r % C
  BY Division, Zenon
<1>3. PICK d \in Int : d = k - j /\ C * d = C * k - C * j
  OBVIOUS
<1>4. (d <= 0 => C * d <= 0) /\ (d > 0 => C * d >= C) /\ C * j \in Int /\ C * k \in Int
  OBVIOUS
<1>5. c = e => C * d = r - q
  BY <1>1, <1>2, <1>3, <1>4
<1>. QED  BY <1>1, <1>2, <1>4, <1>5

\* copy_to returns exactly the bytes assign was given, whatever an earlier
\* and longer message left in the buffer.
LEMMA AssignContents ==
    ASSUME NEW m \in Message, NEW p \in Seq(Byte), Fits(p), NEW s \in Nat
    PROVE  /\ Assign(m, p, s) \in Message
           /\ Assign(m, p, s).sequence = s
           /\ Contents(Assign(m, p, s)) = p
BY MaxPayloadSizeAssumption DEF Assign, Contents, Fits, Message, Storage

\* The length of what copy_to returns is the size recorded by assign.
LEMMA ContentsLength ==
    ASSUME NEW m \in Message
    PROVE  Contents(m) \in Seq(Byte) /\ Len(Contents(m)) = m.size
BY MaxPayloadSizeAssumption DEF Contents, Message, Storage

-----------------------------------------------------------------------------
(* Facts about the ring.                                                   *)

\* Slots of indices less than the capacity apart differ.
LEMMA SlotsDiffer ==
    ASSUME NEW q \in Nat, NEW r \in Nat, q < r, r < q + Capacity
    PROVE  SlotOf(q) # SlotOf(r)
<1>1. Capacity \in Nat \ {0}
  BY SPSCAssumption, Zenon
<1>. QED
  BY <1>1, DistinctCells, Zenon DEF SlotOf

LEMMA SlotIndex ==
    ASSUME NEW q \in Nat
    PROVE  SlotOf(q) \in Slots
BY Division, SPSCAssumption, Zenon DEF SlotOf, Slots

\* try_push accepts only payloads that fit, which are byte sequences.
LEMMA AcceptedFits ==
    ASSUME NEW data \in Accepted
    PROVE  data \in Seq(Byte) /\ Fits(data)
BY SPSCAssumption, Zenon DEF Accepted

-----------------------------------------------------------------------------
(* SPSCInv is inductive.                                                   *)

LEMMA InitInv == Init => SPSCInv
<1>. SUFFICES ASSUME Init PROVE SPSCInv
  BY Zenon
<1>1. EmptyMessage \in Message
  BY ByteAssumption, MaxPayloadSizeAssumption DEF EmptyMessage, Message, Storage
<1>2. slots \in [Slots -> Message]
  BY <1>1, Zenon DEF Init
<1>3. result \in [status : {"none", "success"}, payload : Seq(Byte), sequence : Nat]
  BY DEF Init, NoResult
<1>4. TypeOK
  BY <1>2, <1>3 DEF Init, TypeOK
<1>. QED
  BY <1>4, SPSCAssumption DEF Init, SPSCInv

\* A later value of tail_ bounds head_ as well.
LEMMA StillWithin ==
    ASSUME NEW h \in Nat, NEW t \in Nat, NEW u \in Nat, NEW C \in Nat, h <= t + C, t <= u
    PROVE  h <= u + C
OBVIOUS

\* A load of tail_ by the producer keeps the invariant if nothing is claimed
\* from it.
LEMMA ProducerLoads ==
    ASSUME SPSCInv, pushing = "idle", seen_tail' \in TailLoads,
           UNCHANGED <<slots, head, tail, pushing, payload, consumer, log, received>>
    PROVE  SPSCInv'
<1>1. seen_tail' \in 0..tail /\ seen_tail <= seen_tail' /\ seen_tail' \in Nat
  BY DEF SPSCInv, TypeOK, TailLoads
<1>2. TypeOK'
  BY <1>1, Zenon DEF SPSCInv, TypeOK, consumer
<1>3. /\ head \in Nat /\ seen_tail \in Nat /\ Capacity \in Nat
      /\ head <= seen_tail + Capacity /\ head' = head
  BY SPSCAssumption DEF SPSCInv, TypeOK
<1>4. head <= seen_tail' + Capacity
  BY <1>1, <1>3, StillWithin, Zenon
<1>. QED
  BY <1>2, <1>3, <1>4, Zenon DEF SPSCInv, consumer

\* The same for a load of head_ by the consumer.
LEMMA ConsumerLoads ==
    ASSUME SPSCInv, popping = "idle", seen_head' \in HeadLoads,
           UNCHANGED <<slots, head, tail, producer, popping, destination, result, log, received>>
    PROVE  SPSCInv'
<1>1. seen_head' \in 0..head /\ seen_head <= seen_head' /\ seen_head' \in Nat
  BY DEF SPSCInv, TypeOK, HeadLoads
<1>2. TypeOK'
  BY <1>1, Zenon DEF SPSCInv, TypeOK, producer
<1>3. tail' <= seen_head' /\ seen_head' <= head'
  BY <1>1 DEF SPSCInv, TypeOK, HeadLoads
<1>. QED
  BY <1>2, <1>3, Zenon DEF SPSCInv, producer

\* The test for equality, on indices that are at most the capacity apart.
LEMMA RoomLeft ==
    ASSUME NEW h \in Nat, NEW t \in Nat, NEW u \in Nat, NEW C \in Nat,
           h <= t + C, t <= u, h - u # C
    PROVE  h < u + C /\ h <= u + C
OBVIOUS

\* try_push finds room: the equality test is enough, because the tail loaded
\* is never more than the capacity behind the head.
LEMMA PushCallInv ==
    ASSUME SPSCInv, NEW data \in Payloads, PushCall(data)
    PROVE  SPSCInv'
<1>1. seen_tail' \in 0..tail /\ seen_tail <= seen_tail' /\ seen_tail' \in Nat /\ tail \in Nat
  BY DEF SPSCInv, TypeOK, TailLoads, PushCall
<1>2. data \in Accepted
  BY Zenon DEF PushCall, Accepted
<1>3. TypeOK'
  BY <1>1, <1>2, Zenon DEF SPSCInv, TypeOK, PushCall, consumer
<1>4. UNCHANGED <<slots, head, tail, seen_head, popping, destination, result, log, received>>
      /\ pushing' = "assign" /\ payload' = data
  BY Zenon DEF PushCall, consumer
<1>5. /\ head \in Nat /\ seen_tail \in Nat /\ head <= seen_tail + Capacity
      /\ head - seen_tail' # Capacity /\ Capacity \in Nat
  BY SPSCAssumption DEF SPSCInv, TypeOK, PushCall
<1>6. head < seen_tail' + Capacity /\ head <= seen_tail' + Capacity
  BY <1>1, <1>5, RoomLeft, Zenon
<1>. QED
  BY <1>2, <1>3, <1>4, <1>6, Zenon DEF SPSCInv

\* assign() writes the slot behind the queued messages: it is none of theirs.
LEMMA PushAssignInv ==
    ASSUME SPSCInv, PushAssign
    PROVE  SPSCInv'
<1>. DEFINE filled == Assign(slots[SlotOf(head)], payload, head + 1)
<1>1. /\ head \in Nat /\ tail \in Nat /\ seen_tail \in Nat /\ seen_tail <= tail
      /\ slots \in [Slots -> Message] /\ payload \in Accepted
      /\ head < seen_tail + Capacity
  BY DEF SPSCInv, TypeOK, PushAssign
<1>2. SlotOf(head) \in Slots
  BY <1>1, SlotIndex, Zenon
<1>3. filled \in Message /\ filled.sequence = head + 1 /\ Contents(filled) = payload
  BY <1>1, <1>2, AcceptedFits, AssignContents
<1>4. /\ slots' = [slots EXCEPT ![SlotOf(head)] = filled]
      /\ pushing' = "publish"
      /\ UNCHANGED <<head, tail, seen_tail, payload, seen_head, popping, destination, result,
                     log, received>>
  BY Zenon DEF PushAssign, consumer
<1>. HIDE DEF filled
<1>5. TypeOK'
  BY <1>3, <1>4, Zenon DEF SPSCInv, TypeOK
<1>6. slots'[SlotOf(head)] = filled
  BY <1>1, <1>2, <1>4, Zenon
<1>7. ASSUME NEW q \in tail..(head - 1)
      PROVE  slots'[SlotOf(q)] = slots[SlotOf(q)]
  <2>1. q \in Nat /\ q < head /\ head < q + Capacity
    BY <1>1, SPSCAssumption
  <2>2. SlotOf(q) # SlotOf(head) /\ SlotOf(q) \in Slots
    BY <1>1, <2>1, SlotsDiffer, SlotIndex, Zenon
  <2>. QED  BY <1>1, <1>4, <2>2, Zenon
<1>8. SlotOf(head)' = SlotOf(head) /\ (tail..(head - 1))' = tail..(head - 1)
  BY <1>4, Zenon DEF SlotOf
<1>9. pushing' = "publish" =>
          /\ Contents(slots[SlotOf(head)])' = payload'
          /\ slots'[SlotOf(head')] = filled /\ filled.sequence = head' + 1
  BY <1>3, <1>4, <1>6, <1>8 DEF Contents
<1>10. \A q \in tail'..(head' - 1) :
           /\ Contents(slots'[SlotOf(q)]) = log'[q + 1]
           /\ slots'[SlotOf(q)].sequence = q + 1
  BY <1>4, <1>7, Zenon DEF SPSCInv
<1>. QED
  BY <1>1, <1>4, <1>5, <1>9, <1>10, Zenon DEF SPSCInv

\* The store of head_ makes the message in the slot the newest one queued.
LEMMA PushPublishInv ==
    ASSUME SPSCInv, PushPublish
    PROVE  SPSCInv'
<1>1. /\ head \in Nat /\ tail \in Nat /\ seen_tail \in 0..tail /\ seen_head \in 0..head
      /\ tail <= seen_head /\ seen_head <= head
      /\ payload \in Accepted /\ head < seen_tail + Capacity
      /\ log \in Seq(Accepted) /\ Len(log) = head
      /\ Contents(slots[SlotOf(head)]) = payload
      /\ slots[SlotOf(head)].sequence = head + 1
  BY Zenon DEF SPSCInv, TypeOK, PushPublish
<1>2. /\ head' = head + 1 /\ log' = Append(log, payload)
      /\ pushing' = "idle" /\ payload' = NoPayload
      /\ UNCHANGED <<slots, tail, seen_tail, seen_head, popping, destination, result, received>>
  BY Zenon DEF PushPublish, consumer
<1>3. /\ log' \in Seq(Accepted) /\ Len(log') = head' /\ log'[head + 1] = payload
      /\ \A i \in 1..head : log'[i] = log[i]
  BY <1>1, <1>2
<1>4. seen_head \in 0..head'
  BY <1>1, <1>2
<1>5. TypeOK'
  BY <1>1, <1>2, <1>3, <1>4 DEF SPSCInv, TypeOK
<1>6. head' <= seen_tail' + Capacity /\ seen_head' <= head' /\ tail' <= seen_head'
  BY <1>1, <1>2, SPSCAssumption
<1>7. ASSUME NEW q \in tail'..(head' - 1)
      PROVE  Contents(slots'[SlotOf(q)]) = log'[q + 1] /\ slots'[SlotOf(q)].sequence = q + 1
  <2>1. CASE q = head
    BY <1>1, <1>2, <1>3, <2>1, Zenon
  <2>2. CASE q # head
    <3>1. q \in tail..(head - 1) /\ q + 1 \in 1..head
      BY <1>1, <1>2, <2>2
    <3>2. Contents(slots[SlotOf(q)]) = log[q + 1] /\ slots[SlotOf(q)].sequence = q + 1
      BY <3>1, Zenon DEF SPSCInv
    <3>. QED  BY <1>2, <1>3, <3>1, <3>2, Zenon
  <2>. QED  BY <2>1, <2>2, Zenon
<1>8. ASSUME NEW q \in 0..(tail' - 1)
      PROVE  received'[q + 1] = log'[q + 1]
  <2>1. q \in 0..(tail - 1) /\ q + 1 \in 1..head
    BY <1>1, <1>2
  <2>. QED  BY <1>2, <1>3, <2>1, Zenon DEF SPSCInv
<1>9. popping' = "release" => result'.payload = log'[tail' + 1]
  <2>. SUFFICES ASSUME popping' = "release" PROVE result'.payload = log'[tail' + 1]
    BY Zenon
  <2>1. tail < seen_head /\ result.payload = log[tail + 1]
    BY <1>2, Zenon DEF SPSCInv
  <2>2. tail + 1 \in 1..head
    BY <1>1, <2>1
  <2>. QED  BY <1>2, <1>3, <2>1, <2>2, Zenon
<1>10. /\ pushing' \notin {"assign", "publish"}
       /\ popping' \in {"copy", "release"} => tail' < seen_head'
  BY <1>2, Zenon DEF SPSCInv
<1>. QED
  BY <1>5, <1>6, <1>7, <1>8, <1>9, <1>10, Zenon DEF SPSCInv

\* try_pop finds a message.
LEMMA PopCallInv ==
    ASSUME SPSCInv, NEW size \in Destinations, PopCall(size)
    PROVE  SPSCInv'
<1>1. /\ seen_head' \in 0..head /\ seen_head <= seen_head' /\ seen_head' \in Nat
      /\ tail \in Nat /\ head \in Nat /\ seen_head \in Nat /\ tail <= seen_head
      /\ tail # seen_head' /\ seen_head' <= head
  BY DEF SPSCInv, TypeOK, HeadLoads, PopCall
<1>2. /\ popping' = "copy" /\ destination' = size
      /\ UNCHANGED <<slots, head, tail, seen_tail, pushing, payload, result, log, received>>
  BY Zenon DEF PopCall, producer
<1>3. TypeOK'
  BY <1>1, <1>2, Zenon DEF SPSCInv, TypeOK
<1>4. tail < seen_head' /\ tail <= seen_head'
  BY <1>1
<1>. QED
  BY <1>1, <1>2, <1>3, <1>4, Zenon DEF SPSCInv

\* copy_to() returns the message at the tail, or leaves everything as it was.
LEMMA PopCopyInv ==
    ASSUME SPSCInv, PopCopy
    PROVE  SPSCInv'
<1>. DEFINE copied == CopyTo(slots[SlotOf(tail)], destination)
<1>1. /\ head \in Nat /\ tail \in Nat /\ seen_head \in Nat /\ tail < seen_head
      /\ seen_head <= head /\ slots \in [Slots -> Message]
  BY DEF SPSCInv, TypeOK, PopCopy
<1>2. /\ destination' = NoDestination
      /\ UNCHANGED <<slots, head, tail, seen_tail, pushing, payload, seen_head, log, received>>
  BY Zenon DEF PopCopy, producer
<1>3. tail \in tail..(head - 1) /\ SlotOf(tail) \in Slots
  BY <1>1, SlotIndex
<1>4. Contents(slots[SlotOf(tail)]) = log[tail + 1]
  BY <1>3, Zenon DEF SPSCInv
<1>5. CASE copied.status = "success"
  <2>1. popping' = "release" /\ result' = copied
    BY <1>5, Zenon DEF PopCopy
  <2>2. copied = [status |-> "success", payload |-> Contents(slots[SlotOf(tail)]),
                  sequence |-> slots[SlotOf(tail)].sequence]
    BY <1>5, Zenon DEF CopyTo
  <2>3. Contents(slots[SlotOf(tail)]) \in Seq(Byte) /\ slots[SlotOf(tail)].sequence \in Nat
    BY <1>1, <1>3, ContentsLength, Zenon DEF Message
  <2>4. result' \in [status : {"none", "success"}, payload : Seq(Byte), sequence : Nat]
    BY <2>1, <2>2, <2>3
  <2>5. result'.payload = log[tail + 1]
    BY <1>4, <2>1, <2>2
  <2>6. TypeOK'
    BY <1>2, <2>1, <2>4, Zenon DEF SPSCInv, TypeOK
  <2>. QED
    BY <1>1, <1>2, <2>1, <2>5, <2>6, Zenon DEF SPSCInv
<1>6. CASE copied.status # "success"
  <2>1. popping' = "idle" /\ result' = result
    BY <1>6, Zenon DEF PopCopy
  <2>2. TypeOK'
    BY <1>2, <2>1, Zenon DEF SPSCInv, TypeOK
  <2>. QED
    BY <1>2, <2>1, <2>2, Zenon DEF SPSCInv
<1>. QED  BY <1>5, <1>6, Zenon

\* The store of tail_ takes the message.
LEMMA PopReleaseInv ==
    ASSUME SPSCInv, PopRelease
    PROVE  SPSCInv'
<1>1. /\ head \in Nat /\ tail \in Nat /\ seen_head \in 0..head /\ seen_tail \in 0..tail
      /\ tail < seen_head /\ result.payload = log[tail + 1]
      /\ result.payload \in Seq(Byte)
      /\ received \in Seq(Seq(Byte)) /\ Len(received) = tail
  BY Zenon DEF SPSCInv, TypeOK, PopRelease
<1>2. /\ tail' = tail + 1 /\ received' = Append(received, result.payload)
      /\ popping' = "idle" /\ result' = NoResult
      /\ UNCHANGED <<slots, head, seen_tail, pushing, payload, seen_head, destination, log>>
  BY Zenon DEF PopRelease, producer
<1>3. /\ received' \in Seq(Seq(Byte)) /\ Len(received') = tail'
      /\ received'[tail + 1] = result.payload
      /\ \A i \in 1..tail : received'[i] = received[i]
  BY <1>1, <1>2
<1>4. seen_tail \in 0..tail' /\ tail' \in Nat /\ tail' <= seen_head
  BY <1>1, <1>2
<1>5. result' \in [status : {"none", "success"}, payload : Seq(Byte), sequence : Nat]
  BY <1>2 DEF NoResult
<1>6. TypeOK'
  BY <1>2, <1>3, <1>4, <1>5, Zenon DEF SPSCInv, TypeOK
<1>7. ASSUME NEW q \in 0..(tail' - 1)
      PROVE  received'[q + 1] = log[q + 1]
  <2>1. CASE q = tail
    BY <1>1, <1>3, <2>1, Zenon
  <2>2. CASE q # tail
    <3>1. q \in 0..(tail - 1) /\ q + 1 \in 1..tail
      BY <1>1, <1>2, <2>2
    <3>. QED  BY <1>3, <3>1, Zenon DEF SPSCInv
  <2>. QED  BY <2>1, <2>2, Zenon
<1>8. ASSUME NEW q \in tail'..(head - 1)
      PROVE  Contents(slots[SlotOf(q)]) = log[q + 1] /\ slots[SlotOf(q)].sequence = q + 1
  <2>1. q \in tail..(head - 1)
    BY <1>1, <1>2
  <2>. QED  BY <2>1, Zenon DEF SPSCInv
<1>. QED
  BY <1>2, <1>4, <1>6, <1>7, <1>8, Zenon DEF SPSCInv

\* SPSCInv is preserved by every step.
LEMMA NextInv == SPSCInv /\ [Next]_vars => SPSCInv'
<1>. SUFFICES ASSUME SPSCInv, [Next]_vars PROVE SPSCInv'
  BY Zenon
<1>1. CASE UNCHANGED vars
  <2>1. TypeOK'
    BY <1>1, Zenon DEF SPSCInv, TypeOK, vars
  <2>. QED  BY <1>1, <2>1, Zenon DEF SPSCInv, vars
<1>2. ASSUME NEW data \in Payloads, PushTooLarge(data) PROVE SPSCInv'
  <2>1. UNCHANGED vars
    BY <1>2, Zenon DEF PushTooLarge
  <2>. QED  BY <1>1, <2>1, Zenon
<1>3. ASSUME NEW data \in Payloads, PushFull(data) PROVE SPSCInv'
  BY <1>3, ProducerLoads, Zenon DEF PushFull
<1>4. CASE PopEmpty
  BY <1>4, ConsumerLoads, Zenon DEF PopEmpty
<1>5. CASE ProducerAsks
  BY <1>5, ProducerLoads, Zenon DEF ProducerAsks
<1>6. CASE ConsumerAsks
  BY <1>6, ConsumerLoads, Zenon DEF ConsumerAsks
<1>. QED
  BY <1>1, <1>2, <1>3, <1>4, <1>5, <1>6, PushCallInv, PushAssignInv, PushPublishInv,
     PopCallInv, PopCopyInv, PopReleaseInv, Zenon DEF Next, Push, Pop

-----------------------------------------------------------------------------
(* What follows.                                                           *)

\* SPSCInv is an invariant of the ring.
THEOREM Invariance == Spec => []SPSCInv
BY InitInv, NextInv, PTL DEF Spec

\* The variables keep their types, and log and received are as long as the
\* indices say.
THEOREM TypeCorrect == Spec => []TypeOK
<1>1. SPSCInv => TypeOK
  BY Zenon DEF SPSCInv
<1>. QED  BY <1>1, Invariance, PTL

\* assign() and copy_to() never meet in one slot, and each is ordered after
\* the other side's last use of it by the index value that was acquired.
THEOREM SlotsRaceFree == Spec => []NoDataRace
<1>1. ASSUME SPSCInv PROVE NoDataRace
  <2>1. /\ head \in Nat /\ tail \in Nat /\ seen_tail \in 0..tail /\ seen_head \in 0..head
        /\ Capacity \in Nat
    BY <1>1, SPSCAssumption, Zenon DEF SPSCInv, TypeOK
  <2>2. pushing = "assign" => head < seen_tail + Capacity
    BY <1>1, Zenon DEF SPSCInv
  <2>3. popping = "copy" => tail < seen_head
    BY <1>1, Zenon DEF SPSCInv
  <2>4. ASSUME pushing = "assign", popping = "copy" PROVE SlotOf(head) # SlotOf(tail)
    <3>1. tail < head /\ head < tail + Capacity
      BY <2>1, <2>2, <2>3, <2>4
    <3>. QED  BY <2>1, <3>1, SlotsDiffer, Zenon
  <2>. QED  BY <2>2, <2>3, <2>4, Zenon DEF NoDataRace
<1>. QED  BY <1>1, Invariance, PTL

-----------------------------------------------------------------------------
(* The ring implements BoundedFifo.                                        *)

\* Elements of a part of a sequence.
LEMMA Part ==
    ASSUME NEW S, NEW s \in Seq(S), NEW m \in Nat, NEW n \in Nat, m <= n, n <= Len(s)
    PROVE  /\ SubSeq(s, m + 1, n) \in Seq(S)
           /\ Len(SubSeq(s, m + 1, n)) = n - m
           /\ \A i \in 1..(n - m) : SubSeq(s, m + 1, n)[i] = s[m + i]
OBVIOUS

\* A message appended to the log is appended to what is queued.
LEMMA PartOfAppend ==
    ASSUME NEW S, NEW s \in Seq(S), NEW x \in S, NEW m \in Nat, m <= Len(s)
    PROVE  SubSeq(Append(s, x), m + 1, Len(s) + 1) = Append(SubSeq(s, m + 1, Len(s)), x)
<1>1. PICK n \in Nat, k \in Nat, t \in Seq(S) :
          /\ n = Len(s) /\ k = n + 1 /\ t = Append(s, x) /\ Len(t) = k /\ t[k] = x
          /\ \A i \in 1..n : t[i] = s[i]
  <2>1. /\ Len(s) \in Nat /\ Append(s, x) \in Seq(S) /\ Len(Append(s, x)) = Len(s) + 1
        /\ Append(s, x)[Len(s) + 1] = x /\ \A i \in 1..Len(s) : Append(s, x)[i] = s[i]
    OBVIOUS
  <2>2. Len(s) + 1 \in Nat
    BY <2>1
  <2>. QED  BY <2>1, <2>2, Zenon
<1>. DEFINE old == SubSeq(s, m + 1, n)
            new == SubSeq(t, m + 1, k)
<1>2. /\ old \in Seq(S) /\ Len(old) = n - m
      /\ \A i \in 1..(n - m) : old[i] = s[m + i]
  <2>1. n <= Len(s) /\ m <= n
    BY <1>1
  <2>. QED  BY <2>1, Part, Zenon
<1>3. /\ new \in Seq(S) /\ Len(new) = k - m
      /\ \A i \in 1..(k - m) : new[i] = t[m + i]
  <2>1. k <= Len(t) /\ m <= k
    BY <1>1
  <2>. QED  BY <2>1, Part, Zenon
<1>. HIDE DEF old, new
<1>4. /\ Append(old, x) \in Seq(S) /\ Len(Append(old, x)) = k - m
      /\ Append(old, x)[k - m] = x
      /\ \A i \in 1..(n - m) : Append(old, x)[i] = old[i]
  BY <1>1, <1>2
<1>5. ASSUME NEW i \in 1..(k - m) PROVE new[i] = Append(old, x)[i]
  <2>1. CASE i = k - m
    <3>1. m + i = k
      BY <2>1
    <3>. QED  BY <1>1, <1>3, <1>4, <2>1, <3>1, Zenon
  <2>2. CASE i # k - m
    <3>1. i \in 1..(n - m) /\ m + i \in 1..n
      BY <1>1, <2>2
    <3>. QED  BY <1>1, <1>2, <1>3, <1>4, <3>1, Zenon
  <2>. QED  BY <2>1, <2>2, Zenon
<1>6. new = Append(old, x)
  BY <1>3, <1>4, <1>5, SeqEqual, Zenon
<1>. QED  BY <1>1, <1>6, Zenon DEF old, new

\* What is queued when the oldest message is taken.
LEMMA PartWithoutFirst ==
    ASSUME NEW S, NEW s \in Seq(S), NEW m \in Nat, m < Len(s)
    PROVE  /\ SubSeq(s, m + 1, Len(s)) # << >>
           /\ Head(SubSeq(s, m + 1, Len(s))) = s[m + 1]
           /\ Tail(SubSeq(s, m + 1, Len(s))) = SubSeq(s, m + 2, Len(s))
<1>1. Len(SubSeq(s, m + 1, Len(s))) = Len(s) - m
  BY Part
<1>2. SubSeq(s, m + 1, Len(s)) # << >>
  <2>1. Len(s) \in Nat /\ Len(s) - m # 0
    OBVIOUS
  <2>2. Len(<< >>) = 0
    BY EmptySeq, Zenon
  <2>. QED  BY <1>1, <2>1, <2>2, Zenon
<1>3. m + 1 \in 1..Len(s) /\ (m + 1) + 1 = m + 2
  OBVIOUS
<1>. QED  BY <1>2, <1>3, HeadTailOfSubSeq

\* A new ring is an empty queue.
LEMMA InitFifo == Init => Fifo!Init
<1>. SUFFICES ASSUME Init PROVE Queued = << >> /\ received = << >>
  BY SPSCAssumption, Zenon DEF Fifo!Init
<1>1. head = 0 /\ tail = 0 /\ received = << >>
  BY Zenon DEF Init
<1>. QED  BY <1>1, SubSeqEmpty DEF Queued

\* The store of head_ enqueues, the store of tail_ dequeues, and every other
\* step leaves the queue as it is.
LEMMA NextFifo == SPSCInv /\ [Next]_vars => [Fifo!Next]_(Fifo!vars)
<1>. SUFFICES ASSUME SPSCInv, [Next]_vars PROVE [Fifo!Next]_(Fifo!vars)
  BY Zenon
<1>1. /\ head \in Nat /\ tail \in Nat /\ tail <= head /\ log \in Seq(Accepted)
      /\ Len(log) = head
  BY DEF SPSCInv, TypeOK
<1>2. CASE PushPublish
  <2>1. /\ payload \in Accepted /\ head' = head + 1 /\ tail' = tail
        /\ log' = Append(log, payload) /\ received' = received
    BY <1>2, Zenon DEF SPSCInv, PushPublish
  <2>2. Queued' = Append(Queued, payload)
    BY <1>1, <2>1, PartOfAppend, Zenon DEF Queued
  <2>3. Len(Queued) < Capacity
    <3>1. Len(Queued) = head - tail
      BY <1>1, Part DEF Queued
    <3>2. seen_tail \in 0..tail /\ head < seen_tail + Capacity
      BY <1>2, Zenon DEF SPSCInv, TypeOK, PushPublish
    <3>. QED  BY <1>1, <3>1, <3>2, SPSCAssumption
  <2>4. Fifo!Enqueue
    BY <2>1, <2>2, <2>3, Zenon DEF Fifo!Enqueue
  <2>. QED  BY <2>4, Zenon DEF Fifo!Next
<1>3. CASE PopRelease
  <2>1. /\ head' = head /\ tail' = tail + 1 /\ log' = log
        /\ received' = Append(received, log[tail + 1])
        /\ tail < head
    BY <1>1, <1>3 DEF SPSCInv, TypeOK, PopRelease
  <2>2. Queued # << >> /\ Head(Queued) = log[tail + 1] /\ Queued' = Tail(Queued)
    <3>1. tail' + 1 = tail + 2
      BY <1>1, <2>1
    <3>. QED  BY <1>1, <2>1, <3>1, PartWithoutFirst, Zenon DEF Queued
  <2>3. Fifo!Dequeue
    BY <2>1, <2>2, Zenon DEF Fifo!Dequeue
  <2>. QED  BY <2>3, Zenon DEF Fifo!Next
<1>4. CASE ~ PushPublish /\ ~ PopRelease
  <2>1. UNCHANGED <<head, tail, log, received>>
    BY <1>4, Zenon DEF Next, Push, Pop, vars, PushTooLarge, PushFull, PushCall, PushAssign,
       PopEmpty, PopCall, PopCopy, ProducerAsks, ConsumerAsks
  <2>2. Queued' = Queued
    BY <2>1, Zenon DEF Queued
  <2>. QED  BY <2>1, <2>2, Zenon DEF Fifo!vars
<1>. QED  BY <1>2, <1>3, <1>4, Zenon

\* The ring implements a bounded FIFO: messages come out once, whole and in the
\* order of the stores of head_, and never more than capacity_ are queued.
THEOREM RingIsFifo == Spec => ImplementsFifo
BY InitFifo, NextFifo, Invariance, PTL DEF Spec, ImplementsFifo, Fifo!Spec

-----------------------------------------------------------------------------
(* The stress test.                                                        *)

\* The payloads of the test are among those the queue is proved correct for.
LEMMA PayloadsOfTest ==
    /\ Iterations \in Nat /\ 1 \in 1..Iterations
    /\ \A s \in 1..Iterations :
           PayloadOf(s) \in Payloads /\ PayloadOf(s) \in Seq(Byte) /\ Len(PayloadOf(s)) <= MaxPayloadSize
    /\ Len(PayloadOf(1)) \in Nat \ {0}
    /\ MaxPayloadSize \in Destinations /\ Len(PayloadOf(1)) \in Destinations
    /\ Len(PayloadOf(1)) - 1 \in Destinations
<1>1. Iterations \in Nat /\ 1 \in 1..Iterations
  BY StressAssumption, SPSCAssumption
<1>2. ASSUME NEW s \in 1..Iterations
      PROVE  PayloadOf(s) \in Payloads /\ PayloadOf(s) \in Seq(Byte) /\ Len(PayloadOf(s)) <= MaxPayloadSize
  BY StressAssumption, SPSCAssumption, Zenon DEF Fits
<1>3. PICK p \in Seq(Byte) : p = PayloadOf(1) /\ p # << >>
  BY <1>1, <1>2, StressAssumption, Zenon
<1>4. Len(p) \in Nat \ {0}
  BY <1>3
<1>5. /\ MaxPayloadSize \in Destinations /\ Len(PayloadOf(1)) \in Destinations
      /\ Len(PayloadOf(1)) - 1 \in Destinations
  BY StressAssumption, Zenon
<1>. QED  BY <1>1, <1>2, <1>3, <1>4, <1>5, Zenon

\* The test takes only steps of the queue, with arguments the queue is proved
\* correct for.  Seeing producer_done is to the queue a load of head_.
LEMMA TestSteps ==
    ASSUME SPSCInv, StressInv, [StressNext]_allvars
    PROVE  [Next]_vars
<1>1. CASE ProducerStep
  <2>1. next \in Nat
    BY <1>1 DEF StressInv, ProducerStep, RunSPSC, ProducerInv, SPSCInv, TypeOK
  <2>2. CASE ProducerPushes
    <3>1. PushFull(PayloadOf(next)) \/ PushCall(PayloadOf(next))
      BY <2>2, Zenon DEF ProducerPushes
    <3>2. next >= 1
      BY <1>1 DEF StressInv, ProducerStep, RunSPSC, ProducerInv, SPSCInv, TypeOK
    <3>3. next \in 1..Iterations
      BY <2>1, <2>2, <3>2, PayloadsOfTest DEF ProducerPushes
    <3>. QED  BY <3>1, <3>3, PayloadsOfTest, Zenon DEF Next, Push
  <2>. QED  BY <1>1, <2>2, Zenon DEF ProducerStep, ProducerAssigns, ProducerPublishes, ProducerEnds, Next, Push
<1>2. CASE ConsumerStep
  <2>1. CASE SeesDone
    <3>1. consuming = "test" /\ ConsumerInv
      BY <1>2, <2>1, Zenon DEF ConsumerStep, RunSPSC, SeesDone, StressInv
    <3>2. popping = "idle"
      BY <3>1 DEF ConsumerInv
    <3>3. head \in HeadLoads
      BY DEF SPSCInv, TypeOK, HeadLoads
    <3>4. ConsumerAsks
      BY <2>1, <3>2, <3>3, Zenon DEF SeesDone, ConsumerAsks
    <3>. QED  BY <3>4, Zenon DEF Next
  <2>. QED
    BY <1>2, <2>1, PayloadsOfTest, Zenon DEF ConsumerStep, SeesRunning, AsksEmpty, ConsumerFindsNothing,
       ConsumerPops, ConsumerCopies, ConsumerChecks, Next, Pop
<1>3. CASE RetryStep
  BY <1>3, PayloadsOfTest, Zenon DEF RetryStep, RetryPushes, RetryPushed, RetryPops, RetryCopies,
     RetryValidates, Next, Push, Pop
<1>4. CASE AnyClient
  BY <1>4, Zenon DEF AnyClient
<1>5. CASE RunSPSC /\ Expire
  BY <1>5, Zenon DEF Expire
<1>6. CASE UNCHANGED allvars
  BY <1>6, Zenon DEF allvars
<1>. QED  BY <1>1, <1>2, <1>3, <1>4, <1>5, <1>6, Zenon DEF StressNext, Finished

\* What try_pop makes of the oldest message depends on the destination alone.
LEMMA CopiesOldest ==
    ASSUME SPSCInv, PopCopy
    PROVE  /\ Len(log[tail + 1]) <= destination => popping' = "release" /\ result'.sequence = tail + 1
           /\ destination < Len(log[tail + 1]) => popping' = "idle"
<1> DEFINE m == slots[SlotOf(tail)]
           copied == CopyTo(m, destination)
<1>1. /\ popping = "copy"
      /\ copied.status = "success" => popping' = "release" /\ result' = copied
      /\ copied.status # "success" => popping' = "idle"
  BY Zenon DEF PopCopy
<1>2. tail \in Nat /\ head \in Nat /\ seen_head \in Nat /\ slots \in [Slots -> Message]
  BY DEF SPSCInv, TypeOK
<1>3. tail \in tail..(head - 1)
  BY <1>1, <1>2 DEF SPSCInv
<1>4. m \in Message
  BY <1>2, SlotIndex, Zenon
<1>5. Contents(m) = log[tail + 1] /\ m.sequence = tail + 1
  BY <1>3, Zenon DEF SPSCInv
<1>6. m.size = Len(log[tail + 1])
  BY <1>4, <1>5, ContentsLength, Zenon
<1>7. m.size \in Nat /\ destination \in Nat
  <2>1. m.size \in Nat
    BY <1>4, MaxPayloadSizeAssumption DEF Message
  <2>2. destination \in Destinations \union {0}
    BY Zenon DEF SPSCInv, TypeOK, NoDestination
  <2>. QED  BY <2>1, <2>2, SPSCAssumption
<1>8. CASE destination < m.size
  <2>1. copied.status = "message_too_large"
    BY <1>8 DEF CopyTo
  <2>. QED  BY <1>1, <1>6, <1>7, <1>8, <2>1
<1>9. CASE ~ (destination < m.size)
  <2>1. copied.status = "success" /\ copied.sequence = m.sequence
    BY <1>9 DEF CopyTo
  <2>. QED  BY <1>1, <1>5, <1>6, <1>7, <1>9, <2>1
<1>. QED  BY <1>8, <1>9, Zenon

\* The test of run_spsc before a step.
LEMMA RunTypes ==
    ASSUME SPSCInv, ProducerInv, ConsumerInv
    PROVE  /\ head \in Nat /\ tail \in Nat /\ seen_head \in Nat /\ tail <= seen_head /\ seen_head <= head
           /\ next \in Nat /\ next >= 1 /\ log \in Seq(Accepted) /\ Len(log) = head
           /\ pushing \in {"idle", "assign", "publish"} /\ popping \in {"idle", "copy", "release"}
<1>1. TypeOK /\ tail <= seen_head /\ seen_head <= head
  BY Zenon DEF SPSCInv
<1>2. head \in Nat /\ tail \in Nat /\ seen_head \in 0..head /\ next = head + 1
  BY <1>1, Zenon DEF TypeOK, ProducerInv
<1>3. seen_head \in Nat /\ next \in Nat /\ next >= 1
  BY <1>2
<1>. QED  BY <1>1, <1>2, <1>3, Zenon DEF TypeOK

\* The steps of the producer: it is told the sequence it expects.
LEMMA ProducerStepKeeps ==
    ASSUME SPSCInv, ~ failed, ProducerInv, ConsumerInv, ProducerStep
    PROVE  ~ failed' /\ ProducerInv' /\ ConsumerInv'
<1>1. /\ head \in Nat /\ tail \in Nat /\ seen_head \in Nat /\ tail <= seen_head /\ seen_head <= head
      /\ next \in Nat /\ next >= 1 /\ log \in Seq(Accepted) /\ Len(log) = head
      /\ pushing \in {"idle", "assign", "publish"}
  BY RunTypes, Zenon
<1>2. CASE ProducerPushes
  <2>1. /\ producing = "loop" /\ next <= Iterations
        /\ pushing' = pushing \/ (pushing' = "assign" /\ payload' = PayloadOf(next))
        /\ pushing = "idle"
        /\ UNCHANGED <<head, tail, log, seen_head, popping, destination, result>> /\ UNCHANGED harness
    BY <1>2, Zenon DEF ProducerPushes, PushFull, PushCall, consumer
  <2>. QED  BY <2>1 DEF harness, ProducerInv, ConsumerInv
<1>3. CASE ProducerAssigns
  <2>1. /\ pushing = "assign" /\ pushing' = "publish"
        /\ UNCHANGED <<head, tail, log, payload, seen_head, popping, destination, result>> /\ UNCHANGED harness
    BY <1>3, Zenon DEF ProducerAssigns, PushAssign, consumer
  <2>. QED  BY <2>1 DEF harness, ProducerInv, ConsumerInv
<1>4. CASE ProducerPublishes
  <2>1. /\ pushing = "publish" /\ pushing' = "idle" /\ head' = head + 1 /\ log' = Append(log, payload)
        /\ UNCHANGED <<tail, seen_head, popping, destination, result>>
        /\ UNCHANGED <<expired, producer_done, consuming, popped>>
        /\ head' = next => published' = next /\ next' = next + 1 /\ UNCHANGED <<failed, producing>>
    BY <1>4, Zenon DEF ProducerPublishes, PushPublish, consumer
  <2>2. head' = next /\ producing = "loop" /\ next <= Iterations /\ payload = PayloadOf(next)
    BY <2>1 DEF ProducerInv
  <2>3. published' = next /\ next' = next + 1 /\ UNCHANGED <<failed, producing>>
    BY <2>1, <2>2, Zenon
  <2>4. ~ producer_done
    BY <2>2 DEF ProducerInv
  <2>5. ASSUME NEW s \in 1..head' PROVE log'[s] = PayloadOf(s)
    <3>1. CASE s = head + 1
      BY <1>1, <2>1, <2>2, <3>1
    <3>2. CASE s # head + 1
      <4>1. s \in 1..head /\ log'[s] = log[s]
        BY <1>1, <2>1, <3>2
      <4>. QED  BY <4>1, Zenon DEF ProducerInv
    <3>. QED  BY <3>1, <3>2, Zenon
  <2>6. ProducerInv'
    BY <1>1, <2>1, <2>2, <2>3, <2>4, <2>5 DEF ProducerInv
  <2>7. ConsumerInv'
    BY <2>1, <2>4 DEF ConsumerInv
  <2>. QED  BY <2>3, <2>6, <2>7, Zenon
<1>5. CASE ProducerEnds
  <2>1. /\ pushing = "idle" /\ producing' = "done" /\ producer_done'
        /\ UNCHANGED <<head, tail, log, pushing, payload, seen_head, popping, destination, result>>
        /\ UNCHANGED <<next, expired, published, consuming, popped, failed>>
    BY <1>5, Zenon DEF ProducerEnds, vars
  <2>. QED  BY <2>1 DEF ProducerInv, ConsumerInv
<1>. QED  BY <1>2, <1>3, <1>4, <1>5, Zenon DEF ProducerStep

\* The steps of the consumer: every message is the one it expects, and it leaves
\* its loop when all of them have been popped.
LEMMA ConsumerStepKeeps ==
    ASSUME SPSCInv, ~ failed, ProducerInv, ConsumerInv, ConsumerStep
    PROVE  ~ failed' /\ ProducerInv' /\ ConsumerInv'
<1>1. /\ head \in Nat /\ tail \in Nat /\ seen_head \in Nat /\ tail <= seen_head /\ seen_head <= head
      /\ popping \in {"idle", "copy", "release"}
  BY RunTypes, Zenon
<1>2. UNCHANGED <<head, log, pushing, payload>>
        /\ UNCHANGED <<producing, next, expired, producer_done, published>>
  BY Zenon DEF ConsumerStep, SeesRunning, SeesDone, AsksEmpty, ConsumerFindsNothing, ConsumerPops,
     ConsumerCopies, ConsumerChecks, ConsumerAsks, PopEmpty, PopCall, PopCopy, PopRelease,
     producer, harness, vars
<1>3. ProducerInv'
  BY <1>2, Zenon DEF ProducerInv
<1>4. CASE SeesRunning
  <2>1. /\ consuming = "test" /\ consuming' = "pop" /\ UNCHANGED <<popped, failed>>
        /\ UNCHANGED <<tail, seen_head, popping, destination, result>>
    BY <1>4, Zenon DEF SeesRunning, vars
  <2>. QED  BY <1>2, <1>3, <2>1 DEF ConsumerInv
<1>5. CASE SeesDone
  <2>1. /\ consuming = "test" /\ consuming' = "empty" /\ producer_done /\ seen_head' = head
        /\ UNCHANGED <<popped, failed>> /\ UNCHANGED <<tail, popping, destination, result>>
    BY <1>5, Zenon DEF SeesDone
  <2>. QED  BY <1>2, <1>3, <2>1 DEF ConsumerInv
<1>6. CASE AsksEmpty
  <2>1. /\ consuming = "empty" /\ consuming' = IF seen_head' = tail THEN "done" ELSE "pop"
        /\ popping = "idle" /\ seen_head' \in seen_head..head
        /\ UNCHANGED <<popped, failed>> /\ UNCHANGED <<tail, popping, destination, result>>
    BY <1>6, Zenon DEF AsksEmpty, ConsumerAsks, HeadLoads
  <2>. QED  BY <1>1, <1>2, <1>3, <2>1 DEF ConsumerInv
<1>7. CASE ConsumerFindsNothing
  <2>1. /\ consuming = "pop" /\ consuming' = "test" /\ popping = "idle"
        /\ UNCHANGED <<popped, failed>> /\ UNCHANGED <<tail, popping, destination, result>>
    BY <1>7, Zenon DEF ConsumerFindsNothing, PopEmpty
  <2>. QED  BY <1>2, <1>3, <2>1 DEF ConsumerInv
<1>8. CASE ConsumerPops
  <2>1. /\ consuming = "pop" /\ popping' = "copy" /\ destination' = MaxPayloadSize
        /\ UNCHANGED <<consuming, popped, failed>> /\ UNCHANGED <<tail, result>>
    BY <1>8, Zenon DEF ConsumerPops, PopCall, harness
  <2>. QED  BY <1>2, <1>3, <2>1 DEF ConsumerInv
<1>9. CASE ConsumerCopies
  <2>1. /\ popping = "copy" /\ PopCopy /\ UNCHANGED <<popped, tail>>
        /\ popping' # "idle" => UNCHANGED <<failed, consuming>>
    BY <1>9, Zenon DEF ConsumerCopies, PopCopy
  <2>2. consuming = "pop" /\ destination = MaxPayloadSize
    BY <2>1 DEF ConsumerInv
  <2>3. tail < seen_head
    BY <2>1, Zenon DEF SPSCInv
  <2>4. tail + 1 \in 1..Len(log) /\ log \in Seq(Accepted)
    BY <1>1, <2>3 DEF SPSCInv, TypeOK
  <2>5. log[tail + 1] \in Accepted
    BY <2>4
  <2>6. Len(log[tail + 1]) <= MaxPayloadSize
    BY <2>5, Zenon DEF Accepted, Fits
  <2>7. popping' = "release" /\ result'.sequence = tail + 1
    BY <2>1, <2>2, <2>6, CopiesOldest, Zenon
  <2>. QED  BY <1>2, <1>3, <2>1, <2>2, <2>7 DEF ConsumerInv
<1>10. CASE ConsumerChecks
  <2>1. /\ popping = "release" /\ popping' = "idle" /\ tail' = tail + 1
        /\ result.sequence = popped + 1 /\ result.payload = PayloadOf(popped + 1)
              => popped' = popped + 1 /\ consuming' = "test" /\ UNCHANGED failed
    BY <1>10, Zenon DEF ConsumerChecks, PopRelease
  <2>2. popped = tail /\ result.sequence = tail + 1
    BY <2>1 DEF ConsumerInv
  <2>3. tail < seen_head /\ result.payload = log[tail + 1]
    BY <2>1, Zenon DEF SPSCInv
  <2>4. tail + 1 \in 1..head
    BY <1>1, <2>3
  <2>5. result.payload = PayloadOf(popped + 1)
    BY <2>2, <2>3, <2>4, Zenon DEF ProducerInv
  <2>6. popped' = popped + 1 /\ consuming' = "test" /\ UNCHANGED failed
    BY <2>1, <2>2, <2>5, Zenon
  <2>. QED  BY <1>2, <1>3, <2>1, <2>2, <2>6 DEF ConsumerInv
<1>. QED  BY <1>4, <1>5, <1>6, <1>7, <1>8, <1>9, <1>10, Zenon DEF ConsumerStep

\* The check of an undersized read: the message is still there for the second one.
LEMMA RetryStepKeeps ==
    ASSUME SPSCInv, ~ failed, RetryInv, RetryStep
    PROVE  ~ failed' /\ RetryInv'
<1>1. /\ head \in Nat /\ tail \in Nat /\ log \in Seq(Accepted) /\ Len(log) = head
      /\ pushing \in {"idle", "assign", "publish"} /\ popping \in {"idle", "copy", "release"}
      /\ tail <= head
  BY DEF SPSCInv, TypeOK
<1>2. Len(PayloadOf(1)) \in Nat \ {0}
  BY PayloadsOfTest, Zenon
<1>3. UNCHANGED retried
  BY Zenon DEF RetryStep, RetryPushes, RetryPushed, RetryPops, RetryCopies, RetryValidates, harness, retried
<1>4. CASE RetryPushes
  <2>1. /\ consuming = "push" /\ UNCHANGED <<consuming, failed>>
        /\ pushing' # "idle" => payload' = PayloadOf(1) \/ (payload' = payload /\ pushing # "idle")
        /\ UNCHANGED <<head, tail, log, popping, destination>>
    BY <1>4, Zenon DEF RetryPushes, PushCall, PushAssign, consumer, harness
  <2>. QED  BY <1>3, <2>1 DEF RetryInv, retried
<1>5. CASE RetryPushed
  <2>1. /\ consuming = "push" /\ consuming' = "short" /\ UNCHANGED failed
        /\ pushing = "publish" /\ pushing' = "idle" /\ head' = head + 1 /\ log' = Append(log, payload)
        /\ UNCHANGED <<tail, popping, destination>>
    BY <1>5, Zenon DEF RetryPushed, PushPublish, consumer
  <2>2. head = 0 /\ popping = "idle" /\ payload = PayloadOf(1)
    BY <2>1 DEF RetryInv
  <2>3. tail = 0 /\ log = << >>
    BY <1>1, <2>2
  <2>4. head' = 1 /\ tail' = 0 /\ log' = <<PayloadOf(1)>> /\ popping' = "idle"
    BY <2>1, <2>2, <2>3
  <2>. QED  BY <1>3, <2>1, <2>4 DEF RetryInv, retried
<1>6. CASE RetryPops
  <2>1. /\ popping = "idle" /\ popping' = "copy" /\ UNCHANGED <<consuming, failed>>
        /\ UNCHANGED <<head, tail, log, pushing, payload>>
        /\ \/ consuming = "short" /\ destination' = Len(PayloadOf(1)) - 1
           \/ consuming = "again" /\ destination' = Len(PayloadOf(1))
    BY <1>6, Zenon DEF RetryPops, PopCall, producer, harness
  <2>. QED  BY <1>3, <2>1 DEF RetryInv, retried
<1>7. CASE RetryCopies
  <2>1. /\ PopCopy /\ popping = "copy" /\ UNCHANGED <<head, tail, log, pushing, payload>>
        /\ popping' = (IF consuming = "short" THEN "idle" ELSE "release") =>
              /\ consuming' = IF consuming = "short" THEN "again" ELSE "validate"
              /\ UNCHANGED failed
    BY <1>7, Zenon DEF RetryCopies, PopCopy, producer
  <2>2. /\ \/ consuming = "short" /\ destination = Len(PayloadOf(1)) - 1
           \/ consuming = "again" /\ destination = Len(PayloadOf(1))
        /\ tail = 0 /\ head = 1 /\ log = <<PayloadOf(1)>>
    BY <2>1 DEF RetryInv
  <2>3. log[tail + 1] = PayloadOf(1)
    BY <2>2
  <2>4. /\ Len(PayloadOf(1)) <= destination => popping' = "release"
        /\ destination < Len(PayloadOf(1)) => popping' = "idle"
    BY <2>1, <2>3, CopiesOldest, Zenon
  <2>5. CASE consuming = "short"
    <3>1. popping' = "idle"
      BY <1>2, <2>2, <2>4, <2>5
    <3>2. consuming' = "again" /\ UNCHANGED failed
      BY <2>1, <2>5, <3>1, Zenon
    <3>. QED  BY <1>3, <2>1, <2>2, <2>5, <3>1, <3>2 DEF RetryInv, retried
  <2>6. CASE consuming # "short"
    <3>1. popping' = "release"
      BY <1>2, <2>2, <2>4, <2>6
    <3>2. consuming' = "validate" /\ UNCHANGED failed
      BY <2>1, <2>6, <3>1, Zenon
    <3>. QED  BY <1>3, <2>1, <2>2, <2>6, <3>1, <3>2 DEF RetryInv, retried
  <2>. QED  BY <2>5, <2>6, Zenon
<1>8. CASE RetryValidates
  <2>1. /\ popping = "release" /\ popping' = "idle" /\ consuming' = "done"
        /\ failed' = (result.payload # PayloadOf(1))
        /\ UNCHANGED <<head, log, pushing, payload>>
    BY <1>8, Zenon DEF RetryValidates, PopRelease, producer
  <2>2. consuming = "validate" /\ log = <<PayloadOf(1)>> /\ tail = 0
    BY <2>1 DEF RetryInv
  <2>3. result.payload = log[tail + 1]
    BY <2>1, Zenon DEF SPSCInv
  <2>4. ~ failed'
    <3>1. result.payload = PayloadOf(1)
      BY <2>2, <2>3
    <3>. QED  BY <2>1, <3>1, Zenon
  <2>. QED  BY <1>3, <2>1, <2>2, <2>4 DEF RetryInv, retried
<1>. QED  BY <1>4, <1>5, <1>6, <1>7, <1>8, Zenon DEF RetryStep

LEMMA StressInitInv == StressInit => SPSCInv /\ StressInv
<1>. SUFFICES ASSUME StressInit PROVE SPSCInv /\ StressInv
  OBVIOUS
<1>1. Init /\ client \in {"retry", "run_spsc", "any"}
  BY Zenon DEF StressInit
<1>2. SPSCInv
  BY <1>1, InitInv, Zenon
<1>3. /\ head = 0 /\ tail = 0 /\ pushing = "idle" /\ popping = "idle"
  BY <1>1, Zenon DEF Init
<1>4. ~ failed /\ ~ producer_done /\ next = 1 /\ published = 0 /\ popped = 0
  BY Zenon DEF StressInit
<1>5. CASE client = "retry"
  <2>1. producing = "done" /\ consuming = "push"
    BY <1>5, Zenon DEF StressInit
  <2>2. RetryInv
    BY <1>3, <1>4, <2>1 DEF RetryInv
  <2>3. client # "run_spsc"
    BY <1>5
  <2>. QED  BY <1>1, <1>2, <1>4, <2>2, <2>3, Zenon DEF StressInv
<1>6. CASE client # "retry"
  <2>1. producing = "loop" /\ consuming = "test"
    BY <1>6, Zenon DEF StressInit
  <2>2. ProducerInv
    BY <1>3, <1>4, <2>1 DEF ProducerInv
  <2>3. ConsumerInv
    BY <1>3, <1>4, <2>1 DEF ConsumerInv
  <2>. QED  BY <1>1, <1>2, <1>4, <1>6, <2>2, <2>3, Zenon DEF StressInv
<1>. QED  BY <1>2, <1>5, <1>6, Zenon

LEMMA StressStepInv ==
    ASSUME SPSCInv, StressInv, [StressNext]_allvars
    PROVE  SPSCInv' /\ StressInv'
<1>1. SPSCInv'
  BY TestSteps, NextInv, Zenon
<1>2. client' = client /\ client \in {"retry", "run_spsc", "any"}
  BY Zenon DEF StressInv, StressNext, RunSPSC, ProducerStep, ConsumerStep, RetryStep, Finished, AnyClient, allvars
<1>3. CASE UNCHANGED allvars
  <2>1. /\ UNCHANGED <<client, harness>>
        /\ UNCHANGED <<head, tail, seen_head, pushing, popping, payload, destination, result, log>>
    BY <1>3, Zenon DEF allvars, vars
  <2>2. ProducerInv => ProducerInv'
    BY <2>1, Zenon DEF harness, ProducerInv
  <2>3. ConsumerInv => ConsumerInv'
    BY <2>1, Zenon DEF harness, ConsumerInv
  <2>4. RetryInv => RetryInv'
    BY <2>1, Zenon DEF harness, RetryInv
  <2>. QED  BY <1>1, <2>1, <2>2, <2>3, <2>4, Zenon DEF harness, StressInv
<1>4. CASE client = "run_spsc" /\ (ProducerStep \/ ConsumerStep)
  <2>1. ~ failed /\ ProducerInv /\ ConsumerInv
    BY <1>4, Zenon DEF StressInv
  <2>2. ~ failed' /\ ProducerInv' /\ ConsumerInv'
    BY <1>4, <2>1, ProducerStepKeeps, ConsumerStepKeeps, Zenon
  <2>3. client' = "run_spsc" /\ client' # "retry"
    BY <1>2, <1>4
  <2>. QED  BY <1>1, <1>2, <2>2, <2>3, Zenon DEF StressInv
<1>5. CASE RunSPSC /\ Expire
  <2>1. /\ client = "run_spsc" /\ client' # "retry"
        /\ UNCHANGED <<producing, next, producer_done, published, consuming, popped, failed>>
        /\ UNCHANGED <<head, tail, seen_head, pushing, popping, payload, destination, result, log>>
    <3>1. client = "run_spsc" /\ client' # "retry"
      BY <1>2, <1>5 DEF RunSPSC
    <3>. QED  BY <1>5, <3>1, Zenon DEF Expire, vars
  <2>2. ~ failed /\ ProducerInv /\ ConsumerInv
    BY <2>1, Zenon DEF StressInv
  <2>3. ProducerInv'
    BY <2>1, <2>2, Zenon DEF ProducerInv
  <2>4. ConsumerInv'
    BY <2>1, <2>2, Zenon DEF ConsumerInv
  <2>. QED  BY <1>1, <1>2, <2>1, <2>2, <2>3, <2>4, Zenon DEF StressInv
<1>6. CASE RetryStep
  <2>1. client = "retry" /\ client' # "run_spsc"
    BY <1>2, <1>6 DEF RetryStep
  <2>2. ~ failed' /\ RetryInv'
    BY <1>6, <2>1, RetryStepKeeps, Zenon DEF StressInv
  <2>. QED  BY <1>1, <1>2, <2>1, <2>2, Zenon DEF StressInv
<1>7. CASE AnyClient
  <2>1. client' = "any" /\ client' # "run_spsc" /\ client' # "retry"
    BY <1>2, <1>7 DEF AnyClient
  <2>. QED  BY <1>1, <1>2, <2>1, Zenon DEF StressInv
<1>. QED
  BY <1>3, <1>4, <1>5, <1>6, <1>7, Zenon
  DEF StressNext, ProducerStep, ConsumerStep, RunSPSC, Finished

\* All that the stress test does to the queue is what its two sides may do, so that
\* each theorem about the queue holds of it in the test.
THEOREM StressUsesQueue == StressSpec => Spec
<1>1. StressInit => Init
  BY Zenon DEF StressInit
<1>2. SPSCInv /\ StressInv /\ [StressNext]_allvars => (SPSCInv /\ StressInv)' /\ [Next]_vars
  BY StressStepInv, TestSteps, Zenon
<1>. QED  BY <1>1, <1>2, StressInitInv, PTL DEF StressSpec, Spec

\* The stress test records no failure against this queue, however many messages and
\* slots there are and however old the index values are that the two threads go by:
\* sequences and payloads are as expected, an undersized read loses nothing, and
\* the consumer leaves its loop only when all that was pushed has been popped.
THEOREM StressNeverFails == StressSpec => []NeverFails
<1>1. SPSCInv /\ StressInv /\ [StressNext]_allvars => (SPSCInv /\ StressInv)'
  BY StressStepInv, Zenon
<1>2. SPSCInv /\ StressInv => NeverFails
  <2>. SUFFICES ASSUME SPSCInv, StressInv, client # "any"
                PROVE  ~ failed /\ (Joined => popped = published)
    BY Zenon DEF NeverFails
  <2>. QED  BY DEF StressInv, ProducerInv, ConsumerInv, RetryInv, Joined
<1>. QED  BY <1>1, <1>2, StressInitInv, PTL DEF StressSpec

=============================================================================
