-------------------------- MODULE MPMCQueueProofs --------------------------
(***************************************************************************)
(* Proofs about MPMCQueue, for every set of threads, every capacity        *)
(* greater than one, all payloads and destinations, and loads that may     *)
(* return old values.  QueueInv is inductive: first come cells and         *)
(* positions, the initial state and ownership, then the steps of try_push  *)
(* and try_pop that change the queue, then the steps that change only      *)
(* locals of their thread, though with values that may be old.             *)
(***************************************************************************)
EXTENDS MPMCQueue, SequenceTheorems, TLAPS

-----------------------------------------------------------------------------
(* The cells of a ring of any capacity C, and what a FixedMessage returns. *)

\* A position is its cell plus a multiple of the capacity.
LEMMA Division ==
    ASSUME NEW C \in Nat \ {0}, NEW n \in Nat
    PROVE  n \div C \in Int /\ n % C \in 0..(C - 1) /\ n = C * (n \div C) + (n % C)
OBVIOUS

\* Positions less than the capacity apart are served by different cells.
LEMMA DistinctCells ==
    ASSUME NEW C \in Nat \ {0}, NEW q \in Nat, NEW r \in Nat, q < r, r < q + C
    PROVE  q % C # r % C
<1>1. PICK j \in Int, c \in 0..(C - 1) : q = C * j + c /\ c = q % C
  BY Division, Zenon
<1>2. PICK k \in Int, e \in 0..(C - 1) : r = C * k + e /\ e = r % C
  BY Division, Zenon
<1>3. PICK d \in Int : d = k - j /\ C * d = C * k - C * j
  OBVIOUS
<1>4. (d <= 0 => C * d <= 0) /\ (d > 0 => C * d >= C) /\ C * j \in Int /\ C * k \in Int
  OBVIOUS
<1>5. c = e => C * d = r - q
  BY <1>1, <1>2, <1>3, <1>4
<1>. QED  BY <1>1, <1>2, <1>4, <1>5

\* The next generation of a position is served by the same cell.
LEMMA NextGeneration ==
    ASSUME NEW C \in Nat \ {0}, NEW q \in Nat
    PROVE  (q + C) % C = q % C
<1>1. PICK j \in Int, c \in 0..(C - 1) : q = C * j + c /\ c = q % C
  BY Division, Zenon
<1>2. PICK k \in Int, e \in 0..(C - 1) : q + C = C * k + e /\ e = (q + C) % C
  <2>1. q + C \in Nat
    OBVIOUS
  <2>. QED  BY <2>1, Division, Zenon
<1>3. PICK d \in Int : d = k - j - 1 /\ C * d = C * k - C * j - C
  OBVIOUS
<1>4. /\ (d < 0 => C * d <= -C) /\ (d > 0 => C * d >= C) /\ (d = 0 => C * d = 0)
      /\ C * j \in Int /\ C * k \in Int
  OBVIOUS
<1>5. C * d = c - e
  BY <1>1, <1>2, <1>3, <1>4
<1>6. PICK x \in Int : x = C * d
  OBVIOUS
<1>7. c = e
  BY <1>4, <1>5, <1>6
<1>. QED  BY <1>1, <1>2, <1>7, Zenon

\* copy_to returns exactly the bytes assign was given, whatever an earlier
\* and longer message left in the buffer.
LEMMA AssignContents ==
    ASSUME NEW m \in Message, NEW p \in Seq(Byte), Fits(p), NEW s \in Nat
    PROVE  /\ Assign(m, p, s) \in Message
           /\ Assign(m, p, s).sequence = s
           /\ Contents(Assign(m, p, s)) = p
BY MaxPayloadSizeAssumption DEF Assign, Contents, Fits, Message, Storage

\* The length of what copy_to returns is the size recorded by assign.
LEMMA ContentsLength ==
    ASSUME NEW m \in Message
    PROVE  Contents(m) \in Seq(Byte) /\ Len(Contents(m)) = m.size
BY MaxPayloadSizeAssumption DEF Contents, Message, Storage

-----------------------------------------------------------------------------
(* Positions and cells.                                                    *)

\* How position & mask_ distributes positions over cells.
LEMMA CellFacts ==
    /\ \A q \in Nat : CellOf(q) \in Cells
    /\ \A q \in Nat : CellOf(q + Capacity) = CellOf(q)
    /\ \A q, r \in Nat : q < r /\ r < q + Capacity => CellOf(q) # CellOf(r)
<1>0. Capacity \in Nat \ {0}
  BY CapacityAssumption
<1>1. ASSUME NEW q \in Nat PROVE CellOf(q) \in Cells
  BY <1>0, Division, Zenon DEF CellOf, Cells
<1>2. ASSUME NEW q \in Nat PROVE CellOf(q + Capacity) = CellOf(q)
  BY <1>0, NextGeneration, Zenon DEF CellOf
<1>3. ASSUME NEW q \in Nat, NEW r \in Nat, q < r, r < q + Capacity
      PROVE  CellOf(q) # CellOf(r)
  BY <1>0, <1>3, DistinctCells, Zenon DEF CellOf
<1>. QED
  BY <1>1, <1>2, <1>3, Zenon

\* The state of the cell that serves a position of the current generation.
LEMMA Serving ==
    ASSUME QueueInv, NEW q \in Nat, q < enqueue_pos, enqueue_pos <= q + Capacity
    PROVE  /\ \/ Free(q + Capacity)
              \/ BeingWritten(q)
              \/ Published(q)
           /\ CellOf(q + Capacity) = CellOf(q)
<1>1. q + Capacity \in Upcoming /\ q + Capacity >= Capacity /\ (q + Capacity) - Capacity = q
  BY CapacityAssumption DEF Upcoming, QueueInv, TypeOK
<1>2. CellOf(q + Capacity) = CellOf(q)
  BY CellFacts, Zenon
<1>. QED
  BY <1>1, <1>2, Zenon DEF QueueInv, CellsInv

-----------------------------------------------------------------------------
(* The invariant holds initially.                                          *)

\* The message of a new cell has the type of a message.
LEMMA EmptyMessageType == EmptyMessage \in Message
BY ByteAssumption, MaxPayloadSizeAssumption DEF EmptyMessage, Message, Storage

\* The constructor establishes the invariant: every cell is free for the
\* position equal to its index.
LEMMA InitInv == Init => QueueInv
<1>. SUFFICES ASSUME Init PROVE QueueInv
  BY Zenon
<1>1. TypeOK
  BY EmptyMessageType, CapacityAssumption
  DEF Init, TypeOK, Cells, Labels
<1>2. CellsInv
  <2>. SUFFICES ASSUME NEW q \in 0..(Capacity - 1) PROVE Free(q)
    BY CapacityAssumption DEF CellsInv, Upcoming, Init
  <2>1. CellOf(q) = q
    BY CapacityAssumption DEF CellOf
  <2>. QED
    BY <2>1, CapacityAssumption DEF Free, Init, Cells
<1>3. \A t \in Threads : PushInv(t) /\ PopInv(t)
  BY Zenon DEF Init, PushInv, PopInv, Writing, Reading
<1>4. ClaimsInv /\ PoppedInv
  BY Zenon DEF Init, ClaimsInv, PoppedInv, Writing, Reading
<1>5. Len(log) = enqueue_pos /\ WithinCapacity
  BY CapacityAssumption DEF Init, WithinCapacity
<1>. QED
  BY <1>1, <1>2, <1>3, <1>4, <1>5, Zenon DEF QueueInv

-----------------------------------------------------------------------------
(* Steps that read the shared state and change only a thread's locals.     *)

Owns(t) == Writing(t) \/ Reading(t)

\* Whoever owns a cell owns it alone.
LEMMA OwnershipIsExclusive == QueueInv => ExclusiveOwnership
<1>. SUFFICES ASSUME QueueInv, NEW t \in Threads, NEW u \in Threads, t # u,
                     Writing(t) \/ Reading(t), Writing(u) \/ Reading(u)
              PROVE  CellOf(position[t]) # CellOf(position[u])
  BY Zenon DEF ExclusiveOwnership
<1>1. position[t] \in Nat /\ position[u] \in Nat /\ enqueue_pos \in Nat /\ dequeue_pos \in Nat
  BY Zenon DEF QueueInv, TypeOK
<1>2. ASSUME NEW q \in Nat, NEW r \in Nat, q # r,
             q < enqueue_pos, enqueue_pos <= q + Capacity,
             r < enqueue_pos, enqueue_pos <= r + Capacity
      PROVE  CellOf(q) # CellOf(r)
  <2>1. CASE q < r
    BY <1>1, <1>2, <2>1, CellFacts, CapacityAssumption
  <2>2. CASE r < q
    BY <1>1, <1>2, <2>2, CellFacts, CapacityAssumption
  <2>. QED  BY <1>2, <2>1, <2>2
<1>3. ASSUME NEW q \in Nat PROVE CellOf(q) # CellOf(q + 1)
  BY CellFacts, CapacityAssumption
<1>4. dequeue_pos <= enqueue_pos
  BY Zenon DEF QueueInv, WithinCapacity
<1>5. CASE Writing(t) /\ Writing(u)
  BY <1>1, <1>2, <1>5, Zenon DEF QueueInv, PushInv, ClaimsInv
<1>6. CASE Reading(t) /\ Reading(u)
  <2>1. position[t] # position[u]
    BY <1>6, Zenon DEF QueueInv, ClaimsInv
  <2>2. PopInv(t) /\ PopInv(u)
    BY Zenon DEF QueueInv
  <2>. QED
    BY <1>1, <1>2, <1>4, <1>6, <2>1, <2>2, SMTT(30) DEF PopInv
<1>7. CASE Writing(t) /\ Reading(u)
  BY <1>1, <1>3, <1>7, Zenon DEF QueueInv, PushInv, PopInv
<1>8. CASE Reading(t) /\ Writing(u)
  BY <1>1, <1>3, <1>8, Zenon DEF QueueInv, PushInv, PopInv
<1>. QED
  BY <1>5, <1>6, <1>7, <1>8, Zenon

\* The result of a pop carries the sequence of the message, of either outcome.
LEMMA ExpectedSequence ==
    ASSUME NEW s, NEW size
    PROVE  Expected(s, size).sequence = s /\ "sequence" \in DOMAIN Expected(s, size)
BY Zenon DEF Expected

\* What the invariant says of a thread stays true when another thread takes a
\* step that moves no counter: sequences only grow, and a cell the thread owns
\* is left alone.
LEMMA Bystander ==
    ASSUME QueueInv, NEW u \in Threads, NEW i \in Cells, i = CellOf(position[u]),
           pc'[u] = pc[u], position'[u] = position[u], payload'[u] = payload[u],
           destination'[u] = destination[u], result'[u] = result[u],
           UNCHANGED <<enqueue_pos, dequeue_pos, log>>,
           sequence'[i] \in Nat, sequence[i] <= sequence'[i],
           Owns(u) => sequence'[i] = sequence[i] /\ message'[i] = message[i]
    PROVE  PushInv(u)' /\ PopInv(u)'
<1>1. /\ PushInv(u) /\ PopInv(u)
      /\ position[u] \in Nat /\ sequence[i] \in Nat /\ CellOf(position[u])' = i
  BY Zenon DEF QueueInv, TypeOK
<1>2. (Writing(u)' <=> Writing(u)) /\ (Reading(u)' <=> Reading(u))
  BY Zenon DEF Writing, Reading
<1>3. pc[u] = "push_publish" /\ Holds(position[u]) => Holds(position[u])'
  BY <1>1, Zenon DEF Holds, Owns, Writing
<1>4. Expected(position[u] + 1, destination[u])' = Expected(position[u] + 1, destination[u])
  BY Zenon DEF Expected
<1>5. PushInv(u)'
  BY <1>1, <1>2, <1>3 DEF PushInv, Owns
<1>6. PopInv(u)'
  BY <1>1, <1>2, <1>4 DEF PopInv, Owns
<1>. QED  BY <1>5, <1>6, Zenon

\* A thread that owns no cell before or after a step, and leaves the shared
\* state and the other threads alone, preserves the invariant if what the
\* invariant says of the thread itself is true after the step.
LEMMA LocalStep ==
    ASSUME QueueInv, TypeOK', UNCHANGED <<shared, log, popped>>,
           NEW t \in Threads, ~ Owns(t), ~ Owns(t)', PushInv(t)', PopInv(t)',
           \A u \in Threads \ {t} :
               /\ pc'[u] = pc[u] /\ position'[u] = position[u] /\ payload'[u] = payload[u]
               /\ destination'[u] = destination[u] /\ result'[u] = result[u]
    PROVE  QueueInv'
<1>. USE DEF shared
<1>1. \A u \in Threads : /\ Writing(u)' <=> Writing(u)
                         /\ Reading(u)' <=> Reading(u)
                         /\ Owns(u) => position'[u] = position[u]
  BY Zenon DEF Owns, Writing, Reading
<1>2. Len(log') = enqueue_pos' /\ WithinCapacity'
  BY Zenon DEF QueueInv, WithinCapacity
<1>3. CellsInv'
  <2>. SUFFICES ASSUME NEW q \in Upcoming
                PROVE  \/ Free(q)'
                       \/ q >= Capacity /\ BeingWritten(q - Capacity)'
                       \/ q >= Capacity /\ Published(q - Capacity)'
    BY Zenon DEF CellsInv, Upcoming
  <2>1. Free(q) => Free(q)'
    BY Zenon DEF Free
  <2>2. BeingWritten(q - Capacity) => BeingWritten(q - Capacity)'
    BY <1>1, Zenon DEF BeingWritten, Owns
  <2>3. Published(q - Capacity) => Published(q - Capacity)'
    BY <1>1, Zenon DEF Published, Holds, Owns
  <2>. QED
    BY <2>1, <2>2, <2>3, Zenon DEF QueueInv, CellsInv
<1>4. ASSUME NEW u \in Threads PROVE PushInv(u)' /\ PopInv(u)'
  <2>1. CASE u = t
    BY <2>1, Zenon
  <2>2. CASE u # t
    <3>1. CellOf(position[u]) \in Cells /\ sequence[CellOf(position[u])] \in Nat
      BY CellFacts, Zenon DEF QueueInv, TypeOK
    <3>. QED
      BY <2>2, <3>1, Bystander
  <2>. QED  BY <2>1, <2>2, Zenon
<1>5. ClaimsInv'
  BY <1>1 DEF QueueInv, ClaimsInv, Owns
<1>6. PoppedInv'
  BY <1>1, ZenonT(30) DEF QueueInv, PoppedInv, Owns, Expected
<1>. QED
  BY <1>2, <1>3, <1>4, <1>5, <1>6, Zenon DEF QueueInv

-----------------------------------------------------------------------------
(* The steps of try_push that change the queue.                            *)

\* Appending to the history leaves what was there.
LEMMA LogGrows ==
    ASSUME QueueInv, NEW data \in Payloads, log' = Append(log, data)
    PROVE  /\ log' \in Seq(Payloads)
           /\ Len(log') = enqueue_pos + 1
           /\ \A s \in 1..enqueue_pos : log'[s] = log[s]
           /\ log'[enqueue_pos + 1] = data
BY DEF QueueInv, TypeOK

\* The compare-exchange on enqueue_pos_ can only succeed on a free cell: a
\* cell that still serves the previous generation carries a smaller sequence
\* than the one the producer loaded.
LEMMA PushClaimFree ==
    ASSUME QueueInv, NEW t \in Threads, PushClaim(t)
    PROVE  Free(enqueue_pos)
<1>1. /\ enqueue_pos \in Nat /\ enqueue_pos \in Upcoming
      /\ sequence[CellOf(enqueue_pos)] >= enqueue_pos
  BY CapacityAssumption DEF QueueInv, TypeOK, PushInv, PushClaim, Move, Upcoming
<1>2. ASSUME enqueue_pos >= Capacity
      PROVE  /\ ~ BeingWritten(enqueue_pos - Capacity)
             /\ ~ Published(enqueue_pos - Capacity)
  <2>1. enqueue_pos - Capacity \in Nat /\ (enqueue_pos - Capacity) + Capacity = enqueue_pos
    BY <1>1, <1>2, CapacityAssumption
  <2>2. CellOf(enqueue_pos - Capacity) = CellOf(enqueue_pos)
    BY <2>1, CellFacts, Zenon
  <2>. QED
    BY <1>1, <2>1, <2>2, CapacityAssumption DEF BeingWritten, Published
<1>. QED
  BY <1>1, <1>2, Zenon DEF QueueInv, CellsInv

\* A claim for push preserves the invariant.
LEMMA PushClaimStep ==
    ASSUME QueueInv, NEW t \in Threads, PushClaim(t)
    PROVE  QueueInv'
<1>0. PICK e \in Nat : e = enqueue_pos
  BY Zenon DEF QueueInv, TypeOK
<1>. USE DEF args
<1>1. /\ e \in Nat /\ dequeue_pos \in Nat /\ dequeue_pos <= e
      /\ position[t] = e /\ position' = position /\ position \in [Threads -> Nat]
      /\ enqueue_pos' = e + 1
      /\ pc[t] = "push_cas" /\ pc' = [pc EXCEPT ![t] = "push_assign"]
      /\ UNCHANGED <<dequeue_pos, sequence, message, payload, destination, result, popped>>
  BY <1>0, Zenon DEF QueueInv, TypeOK, WithinCapacity, PushClaim, Move
<1>2. sequence[CellOf(e)] = e /\ e < dequeue_pos + Capacity
  BY <1>0, PushClaimFree, Zenon DEF Free
<1>3. payload[t] \in Payloads /\ Fits(payload[t])
  BY <1>0, <1>1, Zenon DEF QueueInv, PushInv
<1>4. /\ log' \in Seq(Payloads)
      /\ Len(log') = e + 1
      /\ \A s \in 1..e : log'[s] = log[s]
      /\ log'[e + 1] = payload[t]
  BY <1>0, <1>3, LogGrows, Zenon DEF PushClaim
<1>5. TypeOK'
  BY <1>0, <1>1, <1>4 DEF QueueInv, TypeOK, Labels
<1>6. \A u \in Threads : /\ u # t => (Writing(u)' <=> Writing(u))
                         /\ Reading(u)' <=> Reading(u)
                         /\ u # t => pc'[u] = pc[u]
  BY <1>0, <1>1, Zenon DEF QueueInv, TypeOK, Writing, Reading
<1>7. Writing(t)' /\ ~ Writing(t) /\ ~ Reading(t)
  BY <1>0, <1>1, Zenon DEF QueueInv, TypeOK, Writing, Reading
<1>8. WithinCapacity'
  BY <1>0, <1>1, <1>2, CapacityAssumption DEF WithinCapacity
<1>9. CellsInv'
  <2>. SUFFICES ASSUME NEW q \in (e + 1)..(e + Capacity)
                PROVE  \/ Free(q)'
                       \/ q >= Capacity /\ BeingWritten(q - Capacity)'
                       \/ q >= Capacity /\ Published(q - Capacity)'
    BY <1>0, <1>1, CapacityAssumption DEF CellsInv, Upcoming
  <2>1. CASE q = e + Capacity
    <3>1. q - Capacity = e /\ q >= Capacity
      BY <2>1, <1>0, <1>1, CapacityAssumption
    <3>2. BeingWritten(e)'
      BY <1>0, <1>1, <1>2, <1>7, Zenon DEF BeingWritten
    <3>. QED  BY <3>1, <3>2, Zenon
  <2>2. CASE q < e + Capacity
    <3>1. q \in Upcoming /\ q - Capacity < e
      BY <2>2, <1>0, <1>1, CapacityAssumption DEF Upcoming
    <3>2. Free(q) => Free(q)'
      BY <1>0, <1>1, Zenon DEF Free
    <3>3. BeingWritten(q - Capacity) => BeingWritten(q - Capacity)'
      BY <1>0, <1>1, <1>6, <1>7, Zenon DEF BeingWritten
    <3>4. q >= Capacity /\ Published(q - Capacity) => Published(q - Capacity)'
      <4>. SUFFICES ASSUME q >= Capacity, Published(q - Capacity)
                    PROVE  Published(q - Capacity)'
        BY Zenon
      <4>1. (q - Capacity) + 1 \in 1..e
        BY <3>1, <1>0, <1>1, CapacityAssumption
      <4>. QED
        BY <4>1, <1>0, <1>1, <1>4, <1>6, Zenon DEF Published, Holds
    <3>. QED
      BY <3>1, <3>2, <3>3, <3>4, Zenon DEF QueueInv, CellsInv
  <2>. QED
    BY <2>1, <2>2, <1>0, <1>1, CapacityAssumption
<1>10. ASSUME NEW u \in Threads PROVE PushInv(u)'
  <2>1. CASE u = t
    BY <2>1, <1>0, <1>1, <1>2, <1>3, <1>4, CapacityAssumption DEF PushInv, Writing, QueueInv, TypeOK
  <2>2. CASE u # t
    <3>1. PushInv(u) /\ pc'[u] = pc[u] /\ position[u] \in Nat
      BY <2>2, <1>0, <1>1, <1>6, Zenon DEF QueueInv, TypeOK
    <3>2. Writing(u) => position[u] + Capacity # e /\ position[u] + 1 \in 1..e
      BY <3>1, <1>0, <1>1, <1>2, CellFacts, CapacityAssumption DEF PushInv
    <3>3. Writing(u) => log'[position[u] + 1] = log[position[u] + 1]
      BY <3>2, <1>4, Zenon
    <3>4. Writing(u) => e + 1 <= position[u] + Capacity
      BY <3>1, <3>2, <1>0, <1>1, CapacityAssumption DEF PushInv
    <3>. QED
      BY <3>1, <3>2, <3>3, <3>4, <1>0, <1>1 DEF PushInv, Writing, Holds
  <2>. QED  BY <2>1, <2>2, Zenon
<1>11. ASSUME NEW u \in Threads PROVE PopInv(u)'
  <2>1. PopInv(u) /\ position[u] \in Nat /\ (pc'[u] = pc[u] \/ u = t)
    BY <1>0, <1>1, <1>6, Zenon DEF QueueInv, TypeOK
  <2>2. CASE u = t
    BY <2>2, <1>0, <1>1, Zenon DEF PopInv, Reading, QueueInv, TypeOK
  <2>3. CASE u # t
    <3>1. Reading(u) => position[u] + Capacity # e /\ position[u] + 1 \in 1..e
      BY <2>1, <1>0, <1>1, <1>2, CellFacts, CapacityAssumption DEF PopInv
    <3>2. Reading(u) => Expected(position[u] + 1, destination[u])' =
                        Expected(position[u] + 1, destination[u])
      BY <3>1, <1>0, <1>1, <1>4, Zenon DEF Expected
    <3>3. Reading(u) => e + 1 <= position[u] + Capacity
      BY <2>1, <3>1, <1>0, <1>1, CapacityAssumption DEF PopInv
    <3>. QED
      BY <2>1, <2>3, <3>2, <3>3, <1>0, <1>1, Zenon DEF PopInv, Reading
  <2>. QED  BY <2>2, <2>3, Zenon
<1>12. ClaimsInv'
  BY <1>0, <1>1, <1>6, <1>7, SMTT(20) DEF QueueInv, ClaimsInv, PushInv, TypeOK
<1>13. PoppedInv'
  <2>. SUFFICES ASSUME NEW r \in popped
                PROVE  /\ r.returned.sequence \in 1..dequeue_pos
                       /\ r.returned = Expected(r.returned.sequence, r.destination)'
                       /\ \A u \in Threads :
                              Reading(u) => position[u] + 1 # r.returned.sequence
    BY <1>0, <1>1, <1>6, Zenon DEF PoppedInv
  <2>1. r.returned.sequence \in 1..e
    BY <1>0, <1>1, SMTT(30) DEF QueueInv, PoppedInv
  <2>2. Expected(r.returned.sequence, r.destination)' = Expected(r.returned.sequence, r.destination)
    BY <2>1, <1>4, Zenon DEF Expected
  <2>. QED
    BY <2>2, Zenon DEF QueueInv, PoppedInv
<1>. QED
  BY <1>0, <1>1, <1>4, <1>5, <1>8, <1>9, <1>10, <1>11, <1>12, <1>13, Zenon DEF QueueInv

\* The copy of the payload into the claimed cell preserves the invariant: no
\* published message and no other producer's message is in that cell.
LEMMA PushAssignStep ==
    ASSUME QueueInv, NEW t \in Threads, PushAssign(t)
    PROVE  QueueInv'
<1>. USE DEF args
<1>0. PICK w \in Nat : w = position[t]
  BY Zenon DEF QueueInv, TypeOK
<1>1. /\ pc[t] = "push_assign" /\ pc' = [pc EXCEPT ![t] = "push_publish"]
      /\ position' = position /\ position \in [Threads -> Nat]
      /\ UNCHANGED <<enqueue_pos, dequeue_pos, sequence, payload, destination, result, log, popped>>
      /\ message' = [message EXCEPT ![CellOf(w)] =
                        Assign(message[CellOf(w)], payload[t], w + 1)]
      /\ message \in [Cells -> Message] /\ CellOf(w) \in Cells
  BY <1>0, CellFacts, SMTT(20) DEF QueueInv, TypeOK, PushAssign, Move
<1>2. /\ Writing(t) /\ sequence[CellOf(w)] = w /\ log[w + 1] = payload[t]
      /\ payload[t] \in Seq(Byte) /\ Fits(payload[t])
  BY <1>0, <1>1, PayloadsAssumption, Zenon DEF QueueInv, PushInv, Writing
<1>3. /\ Assign(message[CellOf(w)], payload[t], w + 1) \in Message
      /\ message'[CellOf(w)].sequence = w + 1
      /\ Contents(message'[CellOf(w)]) = log[w + 1]
  <2>1. message[CellOf(w)] \in Message /\ w + 1 \in Nat
    BY <1>1
  <2>2. message'[CellOf(w)] = Assign(message[CellOf(w)], payload[t], w + 1)
    BY <1>1, Zenon
  <2>. QED
    BY <1>2, <2>1, <2>2, AssignContents, SMTT(30)
<1>4. TypeOK'
  BY <1>1, <1>3, Zenon DEF QueueInv, TypeOK, Labels
<1>5. \A u \in Threads : /\ Writing(u)' <=> Writing(u)
                         /\ Reading(u)' <=> Reading(u)
                         /\ u # t => pc'[u] = pc[u]
  BY <1>1, Zenon DEF QueueInv, TypeOK, Writing, Reading
<1>6. ASSUME NEW q \in Nat, CellOf(q) # CellOf(w), Holds(q)
      PROVE  Holds(q)'
  BY <1>1, <1>6, CellFacts, Zenon DEF Holds
<1>7. CellsInv'
  <2>. SUFFICES ASSUME NEW q \in Upcoming
                PROVE  \/ Free(q)'
                       \/ q >= Capacity /\ BeingWritten(q - Capacity)'
                       \/ q >= Capacity /\ Published(q - Capacity)'
    BY <1>1, Zenon DEF CellsInv, Upcoming
  <2>1. Free(q) => Free(q)'
    BY <1>1, Zenon DEF Free
  <2>2. BeingWritten(q - Capacity) => BeingWritten(q - Capacity)'
    BY <1>1, <1>5, Zenon DEF BeingWritten
  <2>3. q >= Capacity /\ Published(q - Capacity) => Published(q - Capacity)'
    <3>. SUFFICES ASSUME q >= Capacity, Published(q - Capacity)
                  PROVE  Published(q - Capacity)'
      BY Zenon
    <3>1. PICK p \in Nat : p = q - Capacity
      BY CapacityAssumption DEF Upcoming, QueueInv, TypeOK
    <3>2. CellOf(p) # CellOf(w)
      <4>1. CellOf(p) # CellOf(p + 1)
        BY CellFacts, CapacityAssumption
      <4>2. sequence[CellOf(p)] = p + 1
        BY <3>1, Zenon DEF Published
      <4>. QED  BY <4>1, <4>2, <1>2, Zenon
    <3>3. Published(p)'
      BY <3>1, <3>2, <1>1, <1>5, <1>6, Zenon DEF Published
    <3>. QED  BY <3>1, <3>3, Zenon
  <2>. QED
    BY <2>1, <2>2, <2>3, Zenon DEF QueueInv, CellsInv
<1>8. ASSUME NEW u \in Threads PROVE PushInv(u)' /\ PopInv(u)'
  <2>1. PushInv(u) /\ PopInv(u) /\ position[u] \in Nat /\ CellOf(position[u]) \in Cells
    BY <1>1, CellFacts, Zenon DEF QueueInv
  <2>2. CASE u = t
    <3>1. PushInv(t)'
      BY <2>1, <2>2, <1>0, <1>1, <1>2, <1>3, Zenon DEF PushInv, Writing, Holds, QueueInv, TypeOK
    <3>2. PopInv(t)'
      BY <1>1, <1>5, Zenon DEF QueueInv, TypeOK, PopInv, Reading
    <3>. QED  BY <2>2, <3>1, <3>2, Zenon
  <2>3. CASE u # t
    <3>1. Owns(u) => CellOf(position[u]) # CellOf(w)
      BY <2>3, <1>0, <1>2, OwnershipIsExclusive, Zenon DEF ExclusiveOwnership, Owns
    <3>2. Owns(u) => message'[CellOf(position[u])] = message[CellOf(position[u])]
      BY <2>1, <3>1, <1>1, Zenon
    <3>3. /\ UNCHANGED <<enqueue_pos, dequeue_pos, sequence, position, payload, destination, result, log>>
          /\ sequence[CellOf(position[u])] \in Nat
      BY <2>1, <1>1, Zenon DEF QueueInv, TypeOK
    <3>. QED
      BY <2>1, <2>3, <3>2, <3>3, <1>5, Bystander
  <2>. QED  BY <2>2, <2>3, Zenon
<1>10. ClaimsInv'
  BY <1>1, <1>5, Zenon DEF QueueInv, ClaimsInv
<1>11. PoppedInv'
  BY <1>1, <1>5, ZenonT(30) DEF QueueInv, PoppedInv, Expected
<1>12. Len(log') = enqueue_pos' /\ WithinCapacity'
  BY <1>1, Zenon DEF QueueInv, WithinCapacity
<1>. QED
  BY <1>4, <1>7, <1>8, <1>10, <1>11, <1>12, Zenon DEF QueueInv

\* The release store of position + 1 preserves the invariant: the cell passes
\* from its producer to the consumer of the position.
LEMMA PushPublishStep ==
    ASSUME QueueInv, NEW t \in Threads, PushPublish(t)
    PROVE  QueueInv'
<1>0. PICK w \in Nat : w = position[t]
  BY Zenon DEF QueueInv, TypeOK
<1>1. /\ pc[t] = "push_publish" /\ pc' = [pc EXCEPT ![t] = "idle"]
      /\ position' = [position EXCEPT ![t] = 0] /\ position \in [Threads -> Nat]
      /\ payload' = [payload EXCEPT ![t] = NoPayload]
      /\ destination' = [destination EXCEPT ![t] = NoDestination]
      /\ result' = [result EXCEPT ![t] = NoResult]
      /\ UNCHANGED <<enqueue_pos, dequeue_pos, message, log, popped>>
      /\ sequence' = [sequence EXCEPT ![CellOf(w)] = w + 1]
      /\ sequence \in [Cells -> Nat] /\ CellOf(w) \in Cells
      /\ enqueue_pos \in Nat /\ dequeue_pos \in Nat
  BY <1>0, CellFacts, SMTT(20) DEF QueueInv, TypeOK, PushPublish, Return, Move
<1>2. /\ Writing(t) /\ sequence[CellOf(w)] = w /\ Holds(w)
      /\ dequeue_pos <= w /\ w < enqueue_pos /\ enqueue_pos <= w + Capacity
  BY <1>0, <1>1, Zenon DEF QueueInv, PushInv, Writing
<1>3. TypeOK'
  BY <1>1 DEF QueueInv, TypeOK, Labels
<1>4. \A u \in Threads : /\ u # t => (Writing(u)' <=> Writing(u)) /\ (Reading(u)' <=> Reading(u))
                         /\ u # t => pc'[u] = pc[u] /\ position'[u] = position[u]
                         /\ u # t => payload'[u] = payload[u] /\ destination'[u] = destination[u]
                         /\ u # t => result'[u] = result[u]
  BY <1>1, Zenon DEF QueueInv, TypeOK, Writing, Reading
<1>5. ~ Writing(t)' /\ ~ Reading(t)' /\ ~ Reading(t)
  BY <1>1, Zenon DEF QueueInv, TypeOK, Writing, Reading
<1>6. \A i \in Cells : sequence[i] <= sequence'[i] /\ (i # CellOf(w) => sequence'[i] = sequence[i])
  BY <1>1, <1>2
<1>7. CellsInv'
  <2>. SUFFICES ASSUME NEW q \in Upcoming
                PROVE  \/ Free(q)'
                       \/ q >= Capacity /\ BeingWritten(q - Capacity)'
                       \/ q >= Capacity /\ Published(q - Capacity)'
    BY <1>1, Zenon DEF CellsInv, Upcoming
  <2>0. q \in Nat /\ w + Capacity \in Upcoming /\ w + Capacity \in Nat
        /\ enqueue_pos <= q /\ q < enqueue_pos + Capacity
    BY <1>1, <1>2, CapacityAssumption DEF Upcoming
  <2>1. CASE q = w + Capacity
    <3>1. q - Capacity = w /\ q >= Capacity
      BY <2>1, CapacityAssumption
    <3>2. Published(w)'
      BY <1>1, <1>2, Zenon DEF Published, Holds
    <3>. QED  BY <3>1, <3>2, Zenon
  <2>2. CASE q # w + Capacity
    <3>1. CellOf(q) # CellOf(w) /\ CellOf(q) \in Cells
      <4>1. CellOf(q) # CellOf(w + Capacity)
        <5>1. CASE q < w + Capacity
          BY <2>0, <5>1, <1>1, <1>2, CellFacts, CapacityAssumption DEF Upcoming
        <5>2. CASE w + Capacity < q
          BY <2>0, <5>2, <1>1, <1>2, CellFacts, CapacityAssumption DEF Upcoming
        <5>. QED  BY <2>0, <2>2, <5>1, <5>2
      <4>. QED  BY <4>1, <2>0, CellFacts, Zenon
    <3>2. Free(q) => Free(q)'
      BY <3>1, <1>1, <1>6, Zenon DEF Free
    <3>. SUFFICES ASSUME q >= Capacity
                  PROVE  /\ BeingWritten(q - Capacity) => BeingWritten(q - Capacity)'
                         /\ Published(q - Capacity) => Published(q - Capacity)'
      BY <3>2, Zenon DEF QueueInv, CellsInv
    <3>3. PICK p \in Nat : p = q - Capacity /\ p # w
      BY <2>0, <2>2, CapacityAssumption
    <3>4. CellOf(p) = CellOf(q)
      <4>1. q = p + Capacity
        BY <3>3, <2>0, CapacityAssumption
      <4>. QED  BY <4>1, CellFacts, Zenon
    <3>5. BeingWritten(p) => BeingWritten(p)'
      BY <3>1, <3>3, <3>4, <1>0, <1>4, <1>6, Zenon DEF BeingWritten
    <3>6. Published(p) => Published(p)'
      BY <3>1, <3>3, <3>4, <1>1, <1>4, <1>5, <1>6, Zenon DEF Published, Holds
    <3>. QED  BY <3>3, <3>5, <3>6, Zenon
  <2>. QED  BY <2>1, <2>2, Zenon
<1>8. ASSUME NEW u \in Threads PROVE PushInv(u)' /\ PopInv(u)'
  <2>1. CASE u = t
    <3>1. PushInv(t)'
      BY <1>1, <1>5, Zenon DEF PushInv, QueueInv, TypeOK
    <3>2. PopInv(t)'
      BY <1>1, <1>5, Zenon DEF PopInv, QueueInv, TypeOK
    <3>. QED  BY <2>1, <3>1, <3>2, Zenon
  <2>2. CASE u # t
    <3>1. /\ CellOf(position[u]) \in Cells
          /\ sequence[CellOf(position[u])] \in Nat /\ sequence'[CellOf(position[u])] \in Nat
      BY <1>1, CellFacts, CapacityAssumption
    <3>2. Owns(u) => CellOf(position[u]) # CellOf(w)
      BY <2>2, <1>0, <1>2, OwnershipIsExclusive, Zenon DEF ExclusiveOwnership, Owns
    <3>3. /\ sequence[CellOf(position[u])] <= sequence'[CellOf(position[u])]
          /\ Owns(u) => sequence'[CellOf(position[u])] = sequence[CellOf(position[u])]
      BY <3>1, <3>2, <1>6, Zenon
    <3>4. UNCHANGED <<enqueue_pos, dequeue_pos, message, log>>
      BY <1>1, Zenon
    <3>. QED
      BY <2>2, <3>1, <3>3, <3>4, <1>4, Bystander, ZenonT(30)
  <2>. QED  BY <2>1, <2>2, Zenon
<1>10. ClaimsInv'
  BY <1>4, <1>5, SMTT(30) DEF QueueInv, ClaimsInv
<1>11. PoppedInv'
  BY <1>1, <1>4, <1>5, ZenonT(30) DEF QueueInv, PoppedInv, Expected
<1>12. Len(log') = enqueue_pos' /\ WithinCapacity'
  BY <1>1, Zenon DEF QueueInv, WithinCapacity
<1>. QED
  BY <1>3, <1>7, <1>8, <1>10, <1>11, <1>12, Zenon DEF QueueInv

-----------------------------------------------------------------------------
(* The steps of try_pop that change the queue.                             *)

\* The compare-exchange on dequeue_pos_ can only succeed on a position whose
\* message is published.
LEMMA PopClaimPublished ==
    ASSUME QueueInv, NEW t \in Threads, PopClaim(t)
    PROVE  /\ dequeue_pos < enqueue_pos
           /\ Published(dequeue_pos)
<1>1. /\ enqueue_pos \in Nat /\ dequeue_pos \in Nat
      /\ dequeue_pos <= enqueue_pos /\ enqueue_pos <= dequeue_pos + Capacity
      /\ sequence[CellOf(dequeue_pos)] >= dequeue_pos + 1
  BY Zenon DEF QueueInv, TypeOK, WithinCapacity, PopInv, PopClaim, Move
<1>2. ASSUME dequeue_pos = enqueue_pos PROVE FALSE
  <2>1. enqueue_pos \in Upcoming
    BY <1>1, CapacityAssumption DEF Upcoming
  <2>2. ASSUME enqueue_pos >= Capacity
        PROVE  /\ ~ BeingWritten(enqueue_pos - Capacity)
               /\ ~ Published(enqueue_pos - Capacity)
    <3>1. enqueue_pos - Capacity \in Nat /\ (enqueue_pos - Capacity) + Capacity = enqueue_pos
      BY <1>1, <2>2, CapacityAssumption
    <3>2. CellOf(enqueue_pos - Capacity) = CellOf(enqueue_pos)
      BY <3>1, CellFacts, Zenon
    <3>. QED
      BY <1>1, <1>2, <3>1, <3>2, CapacityAssumption DEF BeingWritten, Published
  <2>3. ~ Free(enqueue_pos)
    BY <1>1, <1>2 DEF Free
  <2>. QED
    BY <2>1, <2>2, <2>3, Zenon DEF QueueInv, CellsInv
<1>3. dequeue_pos < enqueue_pos
  BY <1>1, <1>2
<1>4. ~ Free(dequeue_pos + Capacity) /\ ~ BeingWritten(dequeue_pos)
  BY <1>1, CapacityAssumption DEF Free, BeingWritten
<1>. QED
  BY <1>1, <1>3, <1>4, Serving, Zenon

\* A claim for pop preserves the invariant.
LEMMA PopClaimStep ==
    ASSUME QueueInv, NEW t \in Threads, PopClaim(t)
    PROVE  QueueInv'
<1>. USE DEF args
<1>0. PICK d \in Nat : d = dequeue_pos
  BY Zenon DEF QueueInv, TypeOK
<1>1. /\ enqueue_pos \in Nat
      /\ position[t] = d /\ position' = position /\ position \in [Threads -> Nat]
      /\ dequeue_pos' = d + 1
      /\ pc[t] = "pop_cas" /\ pc' = [pc EXCEPT ![t] = "pop_copy"]
      /\ UNCHANGED <<enqueue_pos, sequence, message, payload, destination, result, log, popped>>
  BY <1>0, Zenon DEF QueueInv, TypeOK, PopClaim, Move
<1>2. d < enqueue_pos /\ enqueue_pos <= d + Capacity /\ sequence[CellOf(d)] = d + 1
  BY <1>0, PopClaimPublished, Zenon DEF Published, QueueInv, WithinCapacity
<1>3. TypeOK'
  BY <1>1 DEF QueueInv, TypeOK, Labels
<1>4. \A u \in Threads : /\ Writing(u)' <=> Writing(u)
                         /\ u # t => (Reading(u)' <=> Reading(u))
                         /\ u # t => pc'[u] = pc[u]
  BY <1>1, Zenon DEF QueueInv, TypeOK, Writing, Reading
<1>5. Reading(t)' /\ ~ Reading(t) /\ ~ Writing(t)
  BY <1>1, Zenon DEF QueueInv, TypeOK, Writing, Reading
<1>6. WithinCapacity' /\ Len(log') = enqueue_pos'
  BY <1>1, <1>2, CapacityAssumption DEF WithinCapacity, QueueInv
<1>7. CellsInv'
  <2>. SUFFICES ASSUME NEW q \in Upcoming
                PROVE  \/ Free(q)'
                       \/ q >= Capacity /\ BeingWritten(q - Capacity)'
                       \/ q >= Capacity /\ Published(q - Capacity)'
    BY <1>1, Zenon DEF CellsInv, Upcoming
  <2>0. q \in Nat
    BY <1>1, CapacityAssumption DEF Upcoming
  <2>1. Free(q) => Free(q)'
    BY <2>0, <1>0, <1>1, CapacityAssumption DEF Free
  <2>2. BeingWritten(q - Capacity) => BeingWritten(q - Capacity)'
    BY <1>1, <1>4, Zenon DEF BeingWritten
  <2>3. q >= Capacity /\ Published(q - Capacity) => Published(q - Capacity)'
    <3>. SUFFICES ASSUME q >= Capacity, Published(q - Capacity)
                  PROVE  Published(q - Capacity)'
      BY Zenon
    <3>1. PICK p \in Nat : p = q - Capacity
      BY <2>0, CapacityAssumption
    <3>2. CASE p = d
      BY <3>1, <3>2, <1>1, <1>5, Zenon DEF Published, Holds
    <3>3. CASE p # d
      BY <3>1, <3>3, <1>0, <1>1, <1>4, <1>5 DEF Published, Holds
    <3>. QED  BY <3>2, <3>3, Zenon
  <2>. QED
    BY <2>1, <2>2, <2>3, Zenon DEF QueueInv, CellsInv
<1>8. ASSUME NEW u \in Threads PROVE PushInv(u)'
  <2>1. PushInv(u) /\ position[u] \in Nat /\ CellOf(position[u]) = CellOf(position'[u])
    BY <1>1, Zenon DEF QueueInv
  <2>2. Writing(u) => d <= position[u] /\ sequence[CellOf(position[u])] = position[u]
    BY <2>1, <1>0, Zenon DEF PushInv
  <2>3. Writing(u) => d + 1 <= position[u]
    <3>1. d # d + 1
      OBVIOUS
    <3>2. Writing(u) => position[u] # d
      BY <2>2, <1>2, <3>1, Zenon
    <3>. QED  BY <2>1, <2>2, <3>2
  <2>. QED
    BY <2>1, <2>3, <1>1, <1>4, Zenon DEF PushInv, Holds, Writing, QueueInv, TypeOK
<1>9. ASSUME NEW u \in Threads PROVE PopInv(u)'
  <2>1. PopInv(u) /\ position[u] \in Nat
    BY <1>1, Zenon DEF QueueInv
  <2>2. CASE u = t
    BY <2>1, <2>2, <1>0, <1>1, <1>2 DEF PopInv, Reading, QueueInv, TypeOK
  <2>3. CASE u # t
    BY <2>1, <2>3, <1>0, <1>1, <1>4 DEF PopInv, Expected
  <2>. QED  BY <2>2, <2>3, Zenon
<1>10. ClaimsInv'
  <2>. SUFFICES ASSUME NEW u \in Threads, NEW v \in Threads, u # v,
                       \/ Writing(u)' /\ Writing(v)'
                       \/ Reading(u)' /\ Reading(v)'
                PROVE  position[u] # position[v]
    BY <1>1, Zenon DEF ClaimsInv
  <2>1. \A x \in Threads : x # t /\ Reading(x)' => position[x] < d
    BY <1>0, <1>4, Zenon DEF QueueInv, PopInv
  <2>. QED
    BY <2>1, <1>0, <1>1, <1>4, <1>5 DEF QueueInv, ClaimsInv
<1>11. PoppedInv'
  <2>. SUFFICES ASSUME NEW r \in popped
                PROVE  /\ r.returned.sequence \in 1..(d + 1)
                       /\ r.returned = Expected(r.returned.sequence, r.destination)
                       /\ \A u \in Threads :
                              Reading(u)' => position[u] + 1 # r.returned.sequence
    BY <1>1, ZenonT(30) DEF PoppedInv, Expected
  <2>1. /\ r.returned.sequence \in 1..d
        /\ r.returned = Expected(r.returned.sequence, r.destination)
        /\ \A u \in Threads : Reading(u) => position[u] + 1 # r.returned.sequence
    BY <1>0, Zenon DEF QueueInv, PoppedInv
  <2>. QED
    BY <2>1, <1>0, <1>1, <1>4
<1>. QED
  BY <1>3, <1>6, <1>7, <1>8, <1>9, <1>10, <1>11, Zenon DEF QueueInv

\* The copy out of the claimed cell returns the message that was pushed at
\* the claimed position.
LEMMA PopCopyStep ==
    ASSUME QueueInv, NEW t \in Threads, PopCopy(t)
    PROVE  QueueInv'
<1>. USE DEF args, shared
<1>0. PICK p \in Nat : p = position[t]
  BY Zenon DEF QueueInv, TypeOK
<1>1. /\ pc[t] = "pop_copy" /\ pc' = [pc EXCEPT ![t] = "pop_release"]
      /\ position' = position /\ position \in [Threads -> Nat]
      /\ UNCHANGED <<enqueue_pos, dequeue_pos, sequence, message, payload, destination, log,
                     popped>>
      /\ result' = [result EXCEPT ![t] = CopyTo(message[CellOf(p)], destination[t])]
      /\ message[CellOf(p)] \in Message /\ destination[t] \in Nat
      /\ enqueue_pos \in Nat /\ dequeue_pos \in Nat /\ dequeue_pos <= enqueue_pos
  <2>1. destination[t] \in Nat
    <3>1. pc[t] = "pop_copy"
      BY Zenon DEF PopCopy, Move
    <3>. QED
      BY <3>1, DestinationsAssumption, Zenon DEF QueueInv, PopInv
  <2>2. CellOf(p) \in Cells
    BY CellFacts, Zenon
  <2>. QED
    BY <1>0, <2>1, <2>2, Zenon DEF QueueInv, TypeOK, WithinCapacity, PopCopy, Move
<1>2. Reading(t) /\ p < dequeue_pos /\ enqueue_pos <= p + Capacity /\ sequence[CellOf(p)] = p + 1
  BY <1>0, <1>1, Zenon DEF QueueInv, PopInv, Reading
<1>3. Holds(p)
  <2>1. \/ Free(p + Capacity) \/ BeingWritten(p) \/ Published(p)
        /\ CellOf(p + Capacity) = CellOf(p)
    BY <1>1, <1>2, Serving
  <2>2. ~ Free(p + Capacity) /\ ~ BeingWritten(p)
    BY <1>2, CellFacts, CapacityAssumption DEF Free, BeingWritten
  <2>. QED  BY <2>1, <2>2, Zenon DEF Published
<1>4. CopyTo(message[CellOf(p)], destination[t]) = Expected(p + 1, destination[t])
  BY <1>1, <1>3, ContentsLength, Zenon DEF CopyTo, Expected, Holds
<1>5. CopyTo(message[CellOf(p)], destination[t]) \in Results
  BY <1>1, ContentsLength DEF CopyTo, Results, Message
<1>6. TypeOK'
  <2>1. result' \in [Threads -> Results \union {NoResult}]
    BY <1>1, <1>5, Zenon DEF QueueInv, TypeOK
  <2>2. pc' \in [Threads -> Labels]
    BY <1>1, Zenon DEF QueueInv, TypeOK, Labels
  <2>. QED
    BY <1>1, <2>1, <2>2, Zenon DEF QueueInv, TypeOK
<1>7. \A u \in Threads : /\ Writing(u)' <=> Writing(u)
                         /\ Reading(u)' <=> Reading(u)
                         /\ u # t => pc'[u] = pc[u] /\ result'[u] = result[u]
  BY <1>1, Zenon DEF QueueInv, TypeOK, Writing, Reading
<1>8. CellsInv'
  <2>. SUFFICES ASSUME NEW q \in Upcoming
                PROVE  \/ Free(q)'
                       \/ q >= Capacity /\ BeingWritten(q - Capacity)'
                       \/ q >= Capacity /\ Published(q - Capacity)'
    BY <1>1, Zenon DEF CellsInv, Upcoming
  <2>1. Free(q) => Free(q)'
    BY <1>1, Zenon DEF Free
  <2>2. BeingWritten(q - Capacity) => BeingWritten(q - Capacity)'
    BY <1>1, <1>7, Zenon DEF BeingWritten
  <2>3. Published(q - Capacity) => Published(q - Capacity)'
    BY <1>1, <1>7, Zenon DEF Published, Holds
  <2>. QED
    BY <2>1, <2>2, <2>3, Zenon DEF QueueInv, CellsInv
<1>9. ASSUME NEW u \in Threads PROVE PushInv(u)' /\ PopInv(u)'
  <2>1. PushInv(u) /\ PopInv(u) /\ CellOf(position[u]) \in Cells
    BY <1>1, CellFacts, Zenon DEF QueueInv
  <2>2. CASE u = t
    <3>1. PushInv(t)'
      BY <1>1, <1>7, Zenon DEF QueueInv, TypeOK, PushInv, Writing
    <3>2. result'[t] = Expected(p + 1, destination[t]) /\ pc'[t] = "pop_release"
      BY <1>1, <1>4, Zenon DEF QueueInv, TypeOK
    <3>3. Expected(p + 1, destination[t])' = Expected(p + 1, destination[t])
      BY <1>1, Zenon DEF Expected
    <3>4. PopInv(t)'
      BY <2>1, <2>2, <3>2, <3>3, <1>0, <1>1, <1>7, Zenon DEF PopInv, Reading
    <3>. QED  BY <2>2, <3>1, <3>4, Zenon
  <2>3. CASE u # t
    <3>1. /\ UNCHANGED <<enqueue_pos, dequeue_pos, sequence, message, position, payload, destination, log>>
          /\ sequence[CellOf(position[u])] \in Nat
      BY <2>1, <1>1, Zenon DEF QueueInv, TypeOK
    <3>2. /\ pc'[u] = pc[u] /\ result'[u] = result[u]
          /\ sequence'[CellOf(position[u])] = sequence[CellOf(position[u])]
      BY <2>3, <3>1, <1>7, Zenon
    <3>3. sequence[CellOf(position[u])] <= sequence'[CellOf(position[u])]
      BY <3>1, <3>2
    <3>. QED
      BY <2>1, <3>1, <3>2, <3>3, Bystander, ZenonT(30)
  <2>. QED  BY <2>2, <2>3, Zenon
<1>11. ClaimsInv'
  BY <1>1, <1>7, Zenon DEF QueueInv, ClaimsInv
<1>12. PoppedInv'
  BY <1>1, <1>7, ZenonT(30) DEF QueueInv, PoppedInv, Expected
<1>13. Len(log') = enqueue_pos' /\ WithinCapacity'
  BY <1>1, Zenon DEF QueueInv, WithinCapacity
<1>. QED
  BY <1>6, <1>8, <1>9, <1>11, <1>12, <1>13, Zenon DEF QueueInv

\* The release store of position + capacity preserves the invariant: the cell
\* is free for its next generation.
LEMMA PopReleaseStep ==
    ASSUME QueueInv, NEW t \in Threads, PopRelease(t)
    PROVE  QueueInv'
<1>0. PICK p \in Nat : p = position[t]
  BY Zenon DEF QueueInv, TypeOK
<1>1. /\ pc[t] = "pop_release" /\ pc' = [pc EXCEPT ![t] = "idle"]
      /\ position' = [position EXCEPT ![t] = 0] /\ position \in [Threads -> Nat]
      /\ payload' = [payload EXCEPT ![t] = NoPayload]
      /\ destination' = [destination EXCEPT ![t] = NoDestination]
      /\ result' = [result EXCEPT ![t] = NoResult]
      /\ UNCHANGED <<enqueue_pos, dequeue_pos, message, log>>
      /\ sequence' = [sequence EXCEPT ![CellOf(p)] = p + Capacity]
      /\ popped' = popped \union {[destination |-> destination[t], returned |-> result[t]]}
      /\ sequence \in [Cells -> Nat] /\ CellOf(p) \in Cells
      /\ enqueue_pos \in Nat /\ dequeue_pos \in Nat
  BY <1>0, CellFacts, Zenon DEF QueueInv, TypeOK, PopRelease, Return, Move
<1>2. /\ Reading(t) /\ sequence[CellOf(p)] = p + 1
      /\ p < dequeue_pos /\ dequeue_pos <= enqueue_pos /\ enqueue_pos <= p + Capacity
      /\ result[t] = Expected(p + 1, destination[t]) /\ destination[t] \in Destinations
  BY <1>0, <1>1, Zenon DEF QueueInv, WithinCapacity, PopInv, Reading
<1>3. result[t].sequence = p + 1 /\ result[t] \in Results
  <2>1. result[t].sequence = p + 1 /\ "sequence" \in DOMAIN result[t]
    BY <1>2, ExpectedSequence, Zenon
  <2>2. result[t] # NoResult
    BY <2>1 DEF NoResult
  <2>. QED
    BY <2>1, <2>2, Zenon DEF QueueInv, TypeOK
<1>4. TypeOK'
  <2>1. sequence' \in [Cells -> Nat]
    BY <1>1, CapacityAssumption
  <2>2. popped' \subseteq [destination : Destinations, returned : Results]
    BY <1>1, <1>2, <1>3 DEF QueueInv, TypeOK
  <2>. QED
    BY <1>1, <2>1, <2>2, Zenon DEF QueueInv, TypeOK, Labels
<1>5. \A u \in Threads : /\ u # t => (Writing(u)' <=> Writing(u)) /\ (Reading(u)' <=> Reading(u))
                         /\ u # t => pc'[u] = pc[u] /\ position'[u] = position[u]
                         /\ u # t => payload'[u] = payload[u] /\ destination'[u] = destination[u]
                         /\ u # t => result'[u] = result[u]
  BY <1>1, Zenon DEF QueueInv, TypeOK, Writing, Reading
<1>6. ~ Writing(t)' /\ ~ Reading(t)' /\ ~ Writing(t)
  BY <1>1, Zenon DEF QueueInv, TypeOK, Writing, Reading
<1>7. \A i \in Cells : sequence[i] <= sequence'[i] /\ (i # CellOf(p) => sequence'[i] = sequence[i])
  BY <1>1, <1>2, CapacityAssumption
<1>8. CellsInv'
  <2>. SUFFICES ASSUME NEW q \in Upcoming
                PROVE  \/ Free(q)'
                       \/ q >= Capacity /\ BeingWritten(q - Capacity)'
                       \/ q >= Capacity /\ Published(q - Capacity)'
    BY <1>1, Zenon DEF CellsInv, Upcoming
  <2>0. /\ q \in Nat /\ p + Capacity \in Upcoming /\ p + Capacity \in Nat
        /\ enqueue_pos <= q /\ q < enqueue_pos + Capacity /\ p < enqueue_pos
    BY <1>1, <1>2, CapacityAssumption DEF Upcoming
  <2>1. CASE q = p + Capacity
    <3>1. CellOf(q) = CellOf(p) /\ sequence'[CellOf(p)] = q
      BY <2>1, <1>1, CellFacts, Zenon
    <3>2. q < dequeue_pos + Capacity
      BY <2>1, <1>1, <1>2, CapacityAssumption
    <3>. QED  BY <3>1, <3>2, <1>1, Zenon DEF Free
  <2>2. CASE q # p + Capacity
    <3>1. CellOf(q) # CellOf(p) /\ CellOf(q) \in Cells
      <4>1. CellOf(q) # CellOf(p + Capacity)
        <5>1. CASE q < p + Capacity
          BY <2>0, <5>1, <1>1, <1>2, CellFacts, CapacityAssumption
        <5>2. CASE p + Capacity < q
          BY <2>0, <5>2, <1>1, <1>2, CellFacts, CapacityAssumption
        <5>. QED  BY <2>0, <2>2, <5>1, <5>2
      <4>. QED  BY <4>1, <2>0, CellFacts, Zenon
    <3>2. Free(q) => Free(q)'
      BY <3>1, <1>1, <1>7, Zenon DEF Free
    <3>. SUFFICES ASSUME q >= Capacity
                  PROVE  /\ BeingWritten(q - Capacity) => BeingWritten(q - Capacity)'
                         /\ Published(q - Capacity) => Published(q - Capacity)'
      BY <3>2, Zenon DEF QueueInv, CellsInv
    <3>3. PICK r \in Nat : r = q - Capacity /\ r # p
      BY <2>0, <2>2, CapacityAssumption
    <3>4. CellOf(r) = CellOf(q)
      <4>1. q = r + Capacity
        BY <3>3, <2>0, CapacityAssumption
      <4>. QED  BY <4>1, CellFacts, Zenon
    <3>5. BeingWritten(r) => BeingWritten(r)'
      BY <3>1, <3>3, <3>4, <1>5, <1>6, <1>7, Zenon DEF BeingWritten
    <3>6. Published(r) => Published(r)'
      BY <3>1, <3>3, <3>4, <1>0, <1>1, <1>5, <1>7, Zenon DEF Published, Holds
    <3>. QED  BY <3>3, <3>5, <3>6, Zenon
  <2>. QED  BY <2>1, <2>2, Zenon
<1>9. ASSUME NEW u \in Threads PROVE PushInv(u)' /\ PopInv(u)'
  <2>1. CASE u = t
    <3>1. PushInv(t)'
      BY <1>1, <1>6, Zenon DEF PushInv, QueueInv, TypeOK
    <3>2. PopInv(t)'
      BY <1>1, <1>6, Zenon DEF PopInv, QueueInv, TypeOK
    <3>. QED  BY <2>1, <3>1, <3>2, Zenon
  <2>2. CASE u # t
    <3>1. /\ CellOf(position[u]) \in Cells
          /\ sequence[CellOf(position[u])] \in Nat /\ sequence'[CellOf(position[u])] \in Nat
      BY <1>1, CellFacts, CapacityAssumption
    <3>2. Owns(u) => CellOf(position[u]) # CellOf(p)
      BY <2>2, <1>0, <1>2, OwnershipIsExclusive, Zenon DEF ExclusiveOwnership, Owns
    <3>3. /\ sequence[CellOf(position[u])] <= sequence'[CellOf(position[u])]
          /\ Owns(u) => sequence'[CellOf(position[u])] = sequence[CellOf(position[u])]
      BY <3>1, <3>2, <1>7, Zenon
    <3>4. UNCHANGED <<enqueue_pos, dequeue_pos, message, log>>
      BY <1>1, Zenon
    <3>. QED
      BY <2>2, <3>1, <3>3, <3>4, <1>5, Bystander, ZenonT(30)
  <2>. QED  BY <2>1, <2>2, Zenon
<1>11. ClaimsInv'
  BY <1>5, <1>6 DEF QueueInv, ClaimsInv
<1>12. PoppedInv'
  <2>. SUFFICES ASSUME NEW r \in popped'
                PROVE  /\ r.returned.sequence \in 1..dequeue_pos
                       /\ r.returned = Expected(r.returned.sequence, r.destination)
                       /\ \A u \in Threads :
                              u # t /\ Reading(u) => position[u] + 1 # r.returned.sequence
    BY <1>1, <1>5, <1>6, ZenonT(30) DEF PoppedInv, Expected
  <2>1. CASE r \in popped
    BY <2>1, Zenon DEF QueueInv, PoppedInv
  <2>2. CASE r = [destination |-> destination[t], returned |-> result[t]]
    <3>1. r.returned = result[t] /\ r.destination = destination[t]
      BY <2>2, Zenon
    <3>2. \A u \in Threads : u # t /\ Reading(u) => position[u] # p
      BY <1>0, <1>2, Zenon DEF QueueInv, ClaimsInv
    <3>. QED
      BY <3>1, <3>2, <1>1, <1>2, <1>3
  <2>. QED  BY <2>1, <2>2, <1>1, Zenon
<1>13. Len(log') = enqueue_pos' /\ WithinCapacity'
  BY <1>1, Zenon DEF QueueInv, WithinCapacity
<1>. QED
  BY <1>4, <1>8, <1>9, <1>11, <1>12, <1>13, Zenon DEF QueueInv

-----------------------------------------------------------------------------
(* The steps of try_push and try_pop up to their claim, and those of empty. *)

\* A load never returns more than the location holds.
LEMMA LoadBounds ==
    ASSUME QueueInv
    PROVE  /\ PositionLoads(enqueue_pos) \subseteq Nat
           /\ PositionLoads(dequeue_pos) \subseteq Nat
           /\ \A i \in Cells : \A s \in SequenceLoads(i) : s \in Nat /\ s <= sequence[i]
BY DEF QueueInv, TypeOK, PositionLoads, SequenceLoads, Held

\* try_push up to its claim.
LEMMA PushLocalSteps ==
    ASSUME QueueInv, NEW t \in Threads,
           \/ \E data \in Payloads : PushCall(t, data)
           \/ PushReady(t) \/ PushFull(t) \/ PushReload(t)
           \/ PushReposition(t) \/ PushCasFails(t)
    PROVE  QueueInv'
<1>. USE DEF shared, args
<1>1. /\ UNCHANGED <<shared, log, popped>>
      /\ \A u \in Threads \ {t} :
             /\ pc'[u] = pc[u] /\ position'[u] = position[u] /\ payload'[u] = payload[u]
             /\ destination'[u] = destination[u] /\ result'[u] = result[u]
  <2>1. CASE \E data \in Payloads : PushCall(t, data)
    BY <2>1, Zenon DEF QueueInv, TypeOK, PushCall, Move
  <2>2. CASE PushReady(t)
    BY <2>2, Zenon DEF QueueInv, TypeOK, PushReady, Move
  <2>3. CASE PushFull(t)
    BY <2>3, Zenon DEF QueueInv, TypeOK, PushFull, Move, Return
  <2>4. CASE PushReload(t)
    BY <2>4, Zenon DEF QueueInv, TypeOK, PushReload, Move
  <2>5. CASE PushReposition(t)
    BY <2>5, Zenon DEF QueueInv, TypeOK, PushReposition, Move
  <2>6. CASE PushCasFails(t)
    BY <2>6, Zenon DEF QueueInv, TypeOK, PushCasFails, Move
  <2>. QED  BY <2>1, <2>2, <2>3, <2>4, <2>5, <2>6, Zenon
<1>2. TypeOK'
  <2>1. pc' \in [Threads -> Labels]
    BY ZenonT(30) DEF QueueInv, TypeOK, Labels, PushCall, PushReady, PushFull, PushReload,
           PushReposition, PushCasFails, Move, Return
  <2>2. position' \in [Threads -> Nat]
    <3>1. CASE \E data \in Payloads : PushCall(t, data)
      BY LoadBounds, <3>1, Zenon DEF QueueInv, TypeOK, PushCall, Move
    <3>2. CASE PushReady(t)
      BY <3>2, Zenon DEF QueueInv, TypeOK, PushReady, Move
    <3>3. CASE PushFull(t)
      BY <3>3, Zenon DEF QueueInv, TypeOK, PushFull, Move, Return
    <3>4. CASE PushReload(t)
      BY <3>4, Zenon DEF QueueInv, TypeOK, PushReload, Move
    <3>5. CASE PushReposition(t)
      BY LoadBounds, <3>5, Zenon DEF QueueInv, TypeOK, PushReposition, Move
    <3>6. CASE PushCasFails(t)
      BY LoadBounds, <3>6, Zenon DEF QueueInv, TypeOK, PushCasFails, Move
    <3>. QED  BY <3>1, <3>2, <3>3, <3>4, <3>5, <3>6, Zenon
  <2>3. /\ payload' \in [Threads -> Payloads \union {NoPayload}]
        /\ destination' \in [Threads -> Destinations \union {NoDestination}]
        /\ result' \in [Threads -> Results \union {NoResult}]
    BY ZenonT(30) DEF QueueInv, TypeOK, PushCall, PushReady, PushFull, PushReload,
           PushReposition, PushCasFails, Return
  <2>. QED
    BY <1>1, <2>1, <2>2, <2>3, Zenon DEF QueueInv, TypeOK
<1>3. /\ pc[t] \in {"idle", "push_load", "push_reload", "push_cas"}
      /\ pc'[t] \in {"idle", "push_load", "push_reload", "push_cas"}
      /\ pc'[t] # "idle" => payload'[t] \in Payloads /\ Fits(payload'[t])
      /\ pc'[t] = "push_cas" => PushReady(t)
  <2>1. CASE \E data \in Payloads : PushCall(t, data)
    BY <2>1, Zenon DEF QueueInv, TypeOK, PushInv, PushCall, Move
  <2>2. CASE PushReady(t)
    BY <2>2, Zenon DEF QueueInv, TypeOK, PushInv, PushReady, Move
  <2>3. CASE PushFull(t)
    BY <2>3, Zenon DEF QueueInv, TypeOK, PushInv, PushFull, Move, Return
  <2>4. CASE PushReload(t)
    BY <2>4, Zenon DEF QueueInv, TypeOK, PushInv, PushReload, Move
  <2>5. CASE PushReposition(t)
    BY <2>5, Zenon DEF QueueInv, TypeOK, PushInv, PushReposition, Move
  <2>6. CASE PushCasFails(t)
    BY <2>6, Zenon DEF QueueInv, TypeOK, PushInv, PushCasFails, Move
  <2>. QED  BY <2>1, <2>2, <2>3, <2>4, <2>5, <2>6, Zenon
<1>4. pc'[t] = "push_cas" => position'[t] <= sequence'[CellOf(position'[t])]
  <2>. SUFFICES ASSUME pc'[t] = "push_cas" PROVE position'[t] <= sequence'[CellOf(position'[t])]
    BY Zenon
  <2>1. PushReady(t)
    BY <1>3, Zenon
  <2>2. position'[t] = position[t] /\ position[t] \in SequenceLoads(CellOf(position[t]))
    BY <2>1, Zenon DEF QueueInv, TypeOK, PushReady, Move
  <2>3. CellOf(position[t]) \in Cells
    BY CellFacts, Zenon DEF QueueInv, TypeOK
  <2>. QED
    BY <1>1, <2>2, <2>3, LoadBounds, Zenon
<1>5. PushInv(t)' /\ PopInv(t)' /\ ~ Owns(t) /\ ~ Owns(t)'
  BY <1>3, <1>4, Zenon DEF PushInv, PopInv, Owns, Writing, Reading
<1>. QED
  BY <1>1, <1>2, <1>5, LocalStep, Zenon

\* try_pop up to its claim, and empty.
LEMMA PopLocalSteps ==
    ASSUME QueueInv, NEW t \in Threads,
           \/ \E size \in Destinations : PopCall(t, size)
           \/ PopReady(t) \/ PopEmpty(t) \/ PopReload(t)
           \/ PopReposition(t) \/ PopCasFails(t) \/ Empty(t)
    PROVE  QueueInv'
<1>. USE DEF shared, args
<1>1. /\ UNCHANGED <<shared, log, popped>>
      /\ \A u \in Threads \ {t} :
             /\ pc'[u] = pc[u] /\ position'[u] = position[u] /\ payload'[u] = payload[u]
             /\ destination'[u] = destination[u] /\ result'[u] = result[u]
  <2>1. CASE \E size \in Destinations : PopCall(t, size)
    BY <2>1, Zenon DEF QueueInv, TypeOK, PopCall, Move
  <2>2. CASE PopReady(t)
    BY <2>2, Zenon DEF QueueInv, TypeOK, PopReady, Move
  <2>3. CASE PopEmpty(t)
    BY <2>3, Zenon DEF QueueInv, TypeOK, PopEmpty, Move, Return
  <2>4. CASE PopReload(t)
    BY <2>4, Zenon DEF QueueInv, TypeOK, PopReload, Move
  <2>5. CASE PopReposition(t)
    BY <2>5, Zenon DEF QueueInv, TypeOK, PopReposition, Move
  <2>6. CASE PopCasFails(t)
    BY <2>6, Zenon DEF QueueInv, TypeOK, PopCasFails, Move
  <2>7. CASE Empty(t)
    BY <2>7 DEF QueueInv, TypeOK, Empty, EmptyCall, EmptyTrue, EmptyFalse, Move, Return
  <2>. QED  BY <2>1, <2>2, <2>3, <2>4, <2>5, <2>6, <2>7, Zenon
<1>2. TypeOK'
  <2>1. pc' \in [Threads -> Labels]
    BY ZenonT(30) DEF QueueInv, TypeOK, Labels, PopCall, PopReady, PopEmpty, PopReload,
           PopReposition, PopCasFails, Empty, EmptyCall, EmptyTrue, EmptyFalse, Move, Return
  <2>2. position' \in [Threads -> Nat]
    <3>1. CASE \E size \in Destinations : PopCall(t, size)
      BY LoadBounds, <3>1 DEF QueueInv, TypeOK, PopCall, Move
    <3>2. CASE PopReady(t)
      BY <3>2, Zenon DEF QueueInv, TypeOK, PopReady, Move
    <3>3. CASE PopEmpty(t)
      BY <3>3, Zenon DEF QueueInv, TypeOK, PopEmpty, Move, Return
    <3>4. CASE PopReload(t)
      BY <3>4, Zenon DEF QueueInv, TypeOK, PopReload, Move
    <3>5. CASE PopReposition(t)
      BY LoadBounds, <3>5, Zenon DEF QueueInv, TypeOK, PopReposition, Move
    <3>6. CASE PopCasFails(t)
      BY LoadBounds, <3>6, Zenon DEF QueueInv, TypeOK, PopCasFails, Move
    <3>7. CASE Empty(t)
      <4>1. CASE EmptyCall(t)
        BY LoadBounds, <4>1, Zenon DEF QueueInv, TypeOK, EmptyCall, Move
      <4>2. CASE EmptyTrue(t)
        BY <4>2, Zenon DEF QueueInv, TypeOK, EmptyTrue, Move, Return
      <4>3. CASE EmptyFalse(t)
        BY <4>3, Zenon DEF QueueInv, TypeOK, EmptyFalse, Move, Return
      <4>. QED  BY <3>7, <4>1, <4>2, <4>3, Zenon DEF Empty
    <3>. QED  BY <3>1, <3>2, <3>3, <3>4, <3>5, <3>6, <3>7, Zenon
  <2>3. /\ payload' \in [Threads -> Payloads \union {NoPayload}]
        /\ destination' \in [Threads -> Destinations \union {NoDestination}]
        /\ result' \in [Threads -> Results \union {NoResult}]
    BY ZenonT(30) DEF QueueInv, TypeOK, PopCall, PopReady, PopEmpty, PopReload, PopReposition,
           PopCasFails, Empty, EmptyCall, EmptyTrue, EmptyFalse, Return
  <2>. QED
    BY <1>1, <2>1, <2>2, <2>3, Zenon DEF QueueInv, TypeOK
<1>3. /\ pc[t] \in {"idle", "pop_load", "pop_reload", "pop_cas", "empty_load"}
      /\ pc'[t] \in {"idle", "pop_load", "pop_reload", "pop_cas", "empty_load"}
      /\ pc'[t] \in {"pop_load", "pop_reload", "pop_cas"} => destination'[t] \in Destinations
      /\ pc'[t] = "pop_cas" => PopReady(t)
  <2>1. CASE \E size \in Destinations : PopCall(t, size)
    BY <2>1, Zenon DEF QueueInv, TypeOK, PopInv, PopCall, Move
  <2>2. CASE PopReady(t)
    BY <2>2, Zenon DEF QueueInv, TypeOK, PopInv, PopReady, Move
  <2>3. CASE PopEmpty(t)
    BY <2>3, Zenon DEF QueueInv, TypeOK, PopInv, PopEmpty, Move, Return
  <2>4. CASE PopReload(t)
    BY <2>4, Zenon DEF QueueInv, TypeOK, PopInv, PopReload, Move
  <2>5. CASE PopReposition(t)
    BY <2>5, Zenon DEF QueueInv, TypeOK, PopInv, PopReposition, Move
  <2>6. CASE PopCasFails(t)
    BY <2>6, Zenon DEF QueueInv, TypeOK, PopInv, PopCasFails, Move
  <2>7. CASE Empty(t)
    BY <2>7, Zenon DEF QueueInv, TypeOK, PopInv, Empty, EmptyCall, EmptyTrue, EmptyFalse, Move,
                Return
  <2>. QED  BY <2>1, <2>2, <2>3, <2>4, <2>5, <2>6, <2>7, Zenon
<1>4. pc'[t] = "pop_cas" => position'[t] + 1 <= sequence'[CellOf(position'[t])]
  <2>. SUFFICES ASSUME pc'[t] = "pop_cas"
                PROVE  position'[t] + 1 <= sequence'[CellOf(position'[t])]
    BY Zenon
  <2>1. PopReady(t)
    BY <1>3, Zenon
  <2>2. position'[t] = position[t] /\ position[t] + 1 \in SequenceLoads(CellOf(position[t]))
    BY <2>1, Zenon DEF QueueInv, TypeOK, PopReady, Move
  <2>3. CellOf(position[t]) \in Cells
    BY CellFacts, Zenon DEF QueueInv, TypeOK
  <2>. QED
    BY <1>1, <2>2, <2>3, LoadBounds, Zenon
<1>5. PushInv(t)' /\ PopInv(t)' /\ ~ Owns(t) /\ ~ Owns(t)'
  BY <1>3, <1>4, Zenon DEF PushInv, PopInv, Owns, Writing, Reading
<1>. QED
  BY <1>1, <1>2, <1>5, LocalStep, Zenon

-----------------------------------------------------------------------------
(* The theorems.                                                           *)

\* Every step of every thread preserves the invariant.
LEMMA NextInv == QueueInv /\ [Next]_vars => QueueInv'
<1>. SUFFICES ASSUME QueueInv, [Next]_vars PROVE QueueInv'
  BY Zenon
<1>1. CASE UNCHANGED vars
  <2>1. TypeOK'
    BY <1>1, Zenon DEF vars, QueueInv, TypeOK
  <2>2. Len(log') = enqueue_pos' /\ WithinCapacity'
    BY <1>1, Zenon DEF vars, QueueInv, WithinCapacity
  <2>3. CellsInv'
    <3>1. ASSUME NEW q
          PROVE  /\ Free(q) => Free(q)'
                 /\ BeingWritten(q) => BeingWritten(q)'
                 /\ Published(q) => Published(q)'
      <4>1. UNCHANGED <<sequence, message, dequeue_pos, log, pc, position>>
        BY <1>1, Zenon DEF vars, shared
      <4>2. Free(q) => Free(q)'
        BY <4>1, Zenon DEF Free
      <4>3. BeingWritten(q) => BeingWritten(q)'
        BY <4>1, Zenon DEF BeingWritten, Writing
      <4>4. Published(q) => Published(q)'
        BY <4>1, Zenon DEF Published, Holds, Reading
      <4>. QED  BY <4>2, <4>3, <4>4, Zenon
    <3>2. Upcoming' = Upcoming
      BY <1>1, Zenon DEF vars, Upcoming
    <3>. QED
      BY <3>1, <3>2, Zenon DEF QueueInv, CellsInv
  <2>4. ASSUME NEW t \in Threads PROVE PushInv(t)' /\ PopInv(t)'
    BY <1>1, Zenon DEF vars, QueueInv, PushInv, PopInv, Holds, Writing, Reading, Expected
  <2>5. ClaimsInv' /\ PoppedInv'
    BY <1>1, Zenon DEF vars, QueueInv, ClaimsInv, PoppedInv, Writing, Reading, Expected
  <2>. QED
    BY <2>1, <2>2, <2>3, <2>4, <2>5, Zenon DEF QueueInv
<1>2. CASE Next
  <2>. PICK t \in Threads : Push(t) \/ Pop(t) \/ Empty(t)
    BY <1>2, Zenon DEF Next
  <2>1. CASE \E data \in Payloads : PushTooLarge(t, data)
    BY <1>1, <2>1, Zenon DEF PushTooLarge
  <2>2. CASE PushClaim(t)
    BY <2>2, PushClaimStep, Zenon
  <2>3. CASE PushAssign(t)
    BY <2>3, PushAssignStep, Zenon
  <2>4. CASE PushPublish(t)
    BY <2>4, PushPublishStep, Zenon
  <2>5. CASE PopClaim(t)
    BY <2>5, PopClaimStep, Zenon
  <2>6. CASE PopCopy(t)
    BY <2>6, PopCopyStep, Zenon
  <2>7. CASE PopRelease(t)
    BY <2>7, PopReleaseStep, Zenon
  <2>. QED
    BY <2>1, <2>2, <2>3, <2>4, <2>5, <2>6, <2>7, PushLocalSteps, PopLocalSteps, Zenon DEF Push, Pop
<1>. QED  BY <1>1, <1>2, Zenon

\* A cell is released for a position one round ahead.
LEMMA RoundAhead ==
    ASSUME NEW p \in Nat
    PROVE  p + 1 \in Nat /\ p + Capacity \in Nat /\ p + Capacity > p + 1
BY CapacityAssumption

\* A cell's sequence changes in PushPublish and PopRelease alone, and grows.
LEMMA SequencesGrow ==
    ASSUME QueueInv, [Next]_vars, NEW i \in Cells
    PROVE  /\ sequence[i] \in Nat /\ sequence'[i] \in Nat
           /\ sequence'[i] = sequence[i] \/ sequence'[i] > sequence[i]
<1>1. sequence[i] \in Nat
  BY Zenon DEF QueueInv, TypeOK
<1>2. CASE sequence'[i] = sequence[i]
  BY <1>1, <1>2, Zenon
<1>3. CASE sequence'[i] # sequence[i]
  <2>1. PICK t \in Threads : PushPublish(t) \/ PopRelease(t)
    BY <1>3, ZenonT(30) DEF Next, Push, Pop, Empty, vars, shared, PushTooLarge, PushCall,
       PushReady, PushFull, PushReload, PushReposition, PushClaim, PushCasFails, PushAssign, PopCall, PopReady,
       PopEmpty, PopReload, PopReposition, PopClaim, PopCasFails, PopCopy, EmptyCall, EmptyTrue,
       EmptyFalse
  <2>2. position[t] \in Nat /\ CellOf(position[t]) \in Cells /\ sequence \in [Cells -> Nat]
    BY CellFacts, Zenon DEF QueueInv, TypeOK
  <2>3. CASE PushPublish(t)
    <3>1. sequence[CellOf(position[t])] = position[t]
      BY <2>3, Zenon DEF QueueInv, PushInv, Writing, PushPublish, Return, Move
    <3>. QED
      BY <2>2, <2>3, <3>1 DEF PushPublish
  <2>4. CASE PopRelease(t)
    <3>1. sequence[CellOf(position[t])] = position[t] + 1
      BY <2>4, Zenon DEF QueueInv, PopInv, Reading, PopRelease, Return, Move
    <3>2. sequence' = [sequence EXCEPT ![CellOf(position[t])] = position[t] + Capacity]
      BY <2>4, Zenon DEF PopRelease
    <3>3. PICK p \in Nat : p = position[t]
      BY <2>2, Zenon
    <3>4. i = CellOf(p) /\ sequence'[i] = p + Capacity /\ sequence[i] = p + 1
      BY <1>3, <2>2, <3>1, <3>2, <3>3, Zenon
    <3>. QED  BY <3>3, <3>4, RoundAhead, Zenon
  <2>. QED  BY <2>1, <2>3, <2>4, Zenon
<1>. QED  BY <1>2, <1>3, Zenon

\* QueueInv is an invariant of the queue.
THEOREM Invariance == Spec => []QueueInv
BY InitInv, NextInv, PTL DEF Spec

\* The variables keep their types; in particular no position and no cell
\* sequence becomes negative.
THEOREM TypeCorrect == Spec => []TypeOK
<1>1. QueueInv => TypeOK
  BY Zenon DEF QueueInv
<1>. QED  BY <1>1, Invariance, PTL

\* assign() and copy_to() never overlap on one cell: the payload bytes, which
\* are plain memory, are free of data races.
THEOREM NoDataRace == Spec => []ExclusiveOwnership
BY OwnershipIsExclusive, Invariance, PTL

\* dequeue_pos_ never passes enqueue_pos_ and never falls more than the
\* capacity behind it.
THEOREM Bounded == Spec => []WithinCapacity
<1>1. QueueInv => WithinCapacity
  BY Zenon DEF QueueInv
<1>. QED  BY <1>1, Invariance, PTL

LEMMA Retains == QueueInv => UnreadRetained
<1>. SUFFICES ASSUME QueueInv, NEW q \in dequeue_pos..(enqueue_pos - 1),
                     \A t \in Threads : Writing(t) => position[t] # q
              PROVE  sequence[CellOf(q)] = q + 1 /\ Holds(q)
  BY Zenon DEF UnreadRetained, Holds
<1>1. /\ q \in Nat /\ q < enqueue_pos /\ enqueue_pos <= q + Capacity /\ dequeue_pos <= q
      /\ dequeue_pos \in Nat
  BY CapacityAssumption DEF QueueInv, TypeOK, WithinCapacity
<1>2. Free(q + Capacity) \/ BeingWritten(q) \/ Published(q)
  BY <1>1, Serving, Zenon
<1>3. ~ Free(q + Capacity) /\ ~ BeingWritten(q)
  BY <1>1, CapacityAssumption DEF Free, BeingWritten
<1>. QED  BY <1>2, <1>3, Zenon DEF Published

\* An unread message stays in its cell as it was pushed.
THEOREM NothingOverwritten == Spec => []UnreadRetained
BY Retains, Invariance, PTL

\* Every pop returns what was pushed under the sequence it reports.
THEOREM PopsAreFaithful == Spec => []PopReturnsItsPush
<1>1. QueueInv => PopReturnsItsPush
  BY DEF QueueInv, TypeOK, WithinCapacity, PoppedInv, PopReturnsItsPush
<1>. QED  BY <1>1, Invariance, PTL

\* No push is returned by two pops.
THEOREM PopsAreUnique == Spec => []AtMostOnePop
<1>1. ASSUME QueueInv PROVE AtMostOnePop
  <2>1. ASSUME NEW t \in Threads, pc[t] = "pop_release"
        PROVE  Reading(t) /\ result[t].sequence = position[t] + 1 /\ position[t] \in Nat
    <3>1. Reading(t) /\ position[t] \in Nat
      BY <1>1, <2>1, Zenon DEF QueueInv, TypeOK, Reading
    <3>2. result[t] = Expected(position[t] + 1, destination[t])
      BY <1>1, <2>1, Zenon DEF QueueInv, PopInv
    <3>3. Expected(position[t] + 1, destination[t]).sequence = position[t] + 1
      BY Zenon DEF Expected
    <3>. QED  BY <3>1, <3>2, <3>3, Zenon
  <2>. QED
    BY <1>1, <2>1 DEF AtMostOnePop, QueueInv, PoppedInv, ClaimsInv
<1>. QED  BY <1>1, Invariance, PTL

\* The sequence of a cell only grows: no value is ever stored twice.
THEOREM NoGenerationReuse == Spec => GenerationsGrow
<1>1. QueueInv /\ [Next]_vars =>
          [\A i \in Cells : sequence'[i] # sequence[i] => sequence'[i] > sequence[i]]_sequence
  BY SequencesGrow, Zenon
<1>. QED
  BY <1>1, Invariance, PTL DEF Spec, GenerationsGrow

-----------------------------------------------------------------------------
(* What full and empty mean when loads return the newest value.            *)

\* Positions that were claimed leave their mark: the cell of a position
\* claimed for push has at least that sequence, the cell of one claimed for
\* pop a greater one; and nobody looks at a position beyond the counter.
PastInv ==
    /\ \A q \in 0..(enqueue_pos - 1) : sequence[CellOf(q)] >= q
    /\ \A q \in 0..(dequeue_pos - 1) : sequence[CellOf(q)] > q
    /\ \A t \in Threads :
           /\ pc[t] \in {"push_load", "push_reload", "push_cas"} => position[t] <= enqueue_pos
           /\ pc[t] \in {"pop_load", "pop_reload", "pop_cas", "empty_load"} =>
                  position[t] <= dequeue_pos

\* A position counter grows by one, and only by a successful claim.
LEMMA CountersGrow ==
    ASSUME QueueInv, [Next]_vars
    PROVE  /\ \/ enqueue_pos' = enqueue_pos
              \/ enqueue_pos' = enqueue_pos + 1 /\ \E t \in Threads : PushClaim(t)
           /\ \/ dequeue_pos' = dequeue_pos
              \/ dequeue_pos' = dequeue_pos + 1 /\ \E t \in Threads : PopClaim(t)
           /\ enqueue_pos \in Nat /\ dequeue_pos \in Nat
<1>1. enqueue_pos \in Nat /\ dequeue_pos \in Nat
  BY Zenon DEF QueueInv, TypeOK
<1>2. CASE UNCHANGED vars
  BY <1>1, <1>2, Zenon DEF vars
<1>3. ASSUME NEW t \in Threads, Push(t)
      PROVE  /\ dequeue_pos' = dequeue_pos
             /\ enqueue_pos' = enqueue_pos \/ (enqueue_pos' = enqueue_pos + 1 /\ PushClaim(t))
  BY <1>3, ZenonT(30) DEF Push, PushTooLarge, PushCall, PushReady, PushFull, PushReload,
     PushReposition, PushClaim, PushCasFails, PushAssign, PushPublish, vars, shared
<1>4. ASSUME NEW t \in Threads, Pop(t)
      PROVE  /\ enqueue_pos' = enqueue_pos
             /\ dequeue_pos' = dequeue_pos \/ (dequeue_pos' = dequeue_pos + 1 /\ PopClaim(t))
  BY <1>4, ZenonT(30) DEF Pop, PopCall, PopReady, PopEmpty, PopReload, PopReposition,
     PopClaim, PopCasFails, PopCopy, PopRelease, shared
<1>5. ASSUME NEW t \in Threads, Empty(t)
      PROVE  enqueue_pos' = enqueue_pos /\ dequeue_pos' = dequeue_pos
  BY <1>5, Zenon DEF Empty, EmptyCall, EmptyTrue, EmptyFalse, shared
<1>. QED
  BY <1>1, <1>2, <1>3, <1>4, <1>5, Zenon DEF Next

\* A thread's place in its call and its position change by its own steps only.
LEMMA OwnSteps ==
    ASSUME QueueInv, [Next]_vars, NEW t \in Threads
    PROVE  \/ pc'[t] = pc[t] /\ position'[t] = position[t]
           \/ Push(t) \/ Pop(t) \/ Empty(t)
<1>1. pc \in [Threads -> Labels] /\ position \in [Threads -> Nat]
  BY Zenon DEF QueueInv, TypeOK
<1>2. CASE UNCHANGED vars
  BY <1>2, Zenon DEF vars
<1>3. ASSUME NEW u \in Threads, u # t, Push(u)
      PROVE  pc'[t] = pc[t] /\ position'[t] = position[t]
  BY <1>1, <1>3, ZenonT(30) DEF Push, PushTooLarge, PushCall, PushReady, PushFull, PushReload,
     PushReposition, PushClaim, PushCasFails, PushAssign, PushPublish, Move, Return, vars
<1>4. ASSUME NEW u \in Threads, u # t, Pop(u)
      PROVE  pc'[t] = pc[t] /\ position'[t] = position[t]
  BY <1>1, <1>4, ZenonT(30) DEF Pop, PopCall, PopReady, PopEmpty, PopReload, PopReposition,
     PopClaim, PopCasFails, PopCopy, PopRelease, Move, Return
<1>5. ASSUME NEW u \in Threads, u # t, Empty(u)
      PROVE  pc'[t] = pc[t] /\ position'[t] = position[t]
  BY <1>1, <1>5, ZenonT(30) DEF Empty, EmptyCall, EmptyTrue, EmptyFalse, Move, Return
<1>. QED
  BY <1>2, <1>3, <1>4, <1>5, Zenon DEF Next

\* PastInv is preserved by every step.
LEMMA PastStep == QueueInv /\ PastInv /\ [Next]_vars => PastInv'
<1>. SUFFICES ASSUME QueueInv, PastInv, [Next]_vars PROVE PastInv'
  BY Zenon
<1>1. ASSUME NEW q \in 0..(enqueue_pos' - 1) PROVE sequence'[CellOf(q)] >= q
  <2>1. sequence[CellOf(q)] >= q /\ q \in Nat
    <3>1. CASE q < enqueue_pos
      BY <1>1, <3>1, CountersGrow DEF PastInv
    <3>2. CASE q = enqueue_pos /\ \E t \in Threads : PushClaim(t)
      BY <1>1, <3>2, PushClaimFree, CountersGrow DEF Free
    <3>. QED  BY <1>1, <3>1, <3>2, CountersGrow
  <2>2. CellOf(q) \in Cells
    BY <2>1, CellFacts, Zenon
  <2>. QED  BY <2>1, <2>2, SequencesGrow
<1>2. ASSUME NEW q \in 0..(dequeue_pos' - 1) PROVE sequence'[CellOf(q)] > q
  <2>1. sequence[CellOf(q)] > q /\ q \in Nat
    <3>1. CASE q < dequeue_pos
      BY <1>2, <3>1, CountersGrow DEF PastInv
    <3>2. CASE q = dequeue_pos /\ \E t \in Threads : PopClaim(t)
      BY <1>2, <3>2, PopClaimPublished, CountersGrow DEF Published
    <3>. QED  BY <1>2, <3>1, <3>2, CountersGrow
  <2>2. CellOf(q) \in Cells
    BY <2>1, CellFacts, Zenon
  <2>. QED  BY <2>1, <2>2, SequencesGrow
<1>3. \A k \in PositionLoads(enqueue_pos) : k <= enqueue_pos
  BY CountersGrow DEF PositionLoads
<1>4. \A k \in PositionLoads(dequeue_pos) : k <= dequeue_pos
  BY CountersGrow DEF PositionLoads
<1>5. position \in [Threads -> Nat] /\ pc \in [Threads -> Labels]
  BY Zenon DEF QueueInv, TypeOK
<1>6. ASSUME NEW t \in Threads,
             pc'[t] \in {"push_load", "push_reload", "push_cas"}
      PROVE  position'[t] <= enqueue_pos
  <2>1. CASE pc'[t] = pc[t] /\ position'[t] = position[t]
    BY <1>6, <2>1, Zenon DEF PastInv
  <2>2. CASE \/ \E data \in Payloads : PushCall(t, data)
             \/ PushReposition(t) \/ PushCasFails(t)
    BY <1>3, <1>5, <2>2, Zenon DEF PushCall, PushReposition, PushCasFails, Move
  <2>3. CASE PushReady(t) \/ PushReload(t)
    BY <1>5, <2>3, Zenon DEF PastInv, PushReady, PushReload, Move
  <2>4. CASE \E data \in Payloads : PushTooLarge(t, data)
    BY <2>1, <2>4, Zenon DEF PushTooLarge, vars
  <2>5. ~ PushFull(t) /\ ~ PushClaim(t) /\ ~ PushAssign(t) /\ ~ PushPublish(t)
    BY <1>5, <1>6, Zenon DEF PushFull, PushClaim, PushAssign, PushPublish, Move, Return
  <2>6. ~ Pop(t)
    BY <1>5, <1>6, ZenonT(30) DEF Pop, PopCall, PopReady, PopEmpty, PopReload, PopReposition,
       PopClaim, PopCasFails, PopCopy, PopRelease, Move, Return
  <2>7. ~ Empty(t)
    BY <1>5, <1>6, Zenon DEF Empty, EmptyCall, EmptyTrue, EmptyFalse, Move, Return
  <2>. QED
    BY <2>1, <2>2, <2>3, <2>4, <2>5, <2>6, <2>7, OwnSteps, Zenon DEF Push
<1>7. ASSUME NEW t \in Threads,
             pc'[t] \in {"pop_load", "pop_reload", "pop_cas", "empty_load"}
      PROVE  position'[t] <= dequeue_pos
  <2>1. CASE pc'[t] = pc[t] /\ position'[t] = position[t]
    BY <1>7, <2>1, Zenon DEF PastInv
  <2>2. CASE \/ \E size \in Destinations : PopCall(t, size)
             \/ PopReposition(t) \/ PopCasFails(t) \/ EmptyCall(t)
    BY <1>4, <1>5, <2>2, Zenon DEF PopCall, PopReposition, PopCasFails, EmptyCall, Move
  <2>3. CASE PopReady(t) \/ PopReload(t)
    BY <1>5, <2>3, Zenon DEF PastInv, PopReady, PopReload, Move
  <2>4. CASE \E data \in Payloads : PushTooLarge(t, data)
    BY <2>1, <2>4, Zenon DEF PushTooLarge, vars
  <2>5. Push(t) => \E data \in Payloads : PushTooLarge(t, data)
    BY <1>5, <1>7, ZenonT(30) DEF Push, PushCall, PushReady, PushFull, PushReload, PushReposition,
       PushClaim, PushCasFails, PushAssign, PushPublish, Move, Return
  <2>6. ~ PopEmpty(t) /\ ~ PopClaim(t) /\ ~ PopCopy(t) /\ ~ PopRelease(t)
    BY <1>5, <1>7, Zenon DEF PopEmpty, PopClaim, PopCopy, PopRelease, Move, Return
  <2>7. ~ EmptyTrue(t) /\ ~ EmptyFalse(t)
    BY <1>5, <1>7, Zenon DEF EmptyTrue, EmptyFalse, Return, Move
  <2>. QED
    BY <2>1, <2>2, <2>3, <2>4, <2>5, <2>6, <2>7, OwnSteps, Zenon DEF Pop, Empty
<1>8. \A t \in Threads : position'[t] \in Nat
  BY NextInv, Zenon DEF QueueInv, TypeOK
<1>9. ASSUME NEW t \in Threads,
             pc'[t] \in {"push_load", "push_reload", "push_cas"}
      PROVE  position'[t] <= enqueue_pos'
  BY <1>6, <1>8, <1>9, CountersGrow
<1>10. ASSUME NEW t \in Threads,
              pc'[t] \in {"pop_load", "pop_reload", "pop_cas", "empty_load"}
       PROVE  position'[t] <= dequeue_pos'
  BY <1>7, <1>8, <1>10, CountersGrow
<1>. QED
  BY <1>1, <1>2, <1>9, <1>10, Zenon DEF PastInv

\* PastInv is an invariant.
LEMMA PastInvariance == Spec => [](QueueInv /\ PastInv)
<1>1. Init => PastInv
  BY DEF Init, PastInv
<1>. QED
  BY <1>1, InitInv, NextInv, PastStep, PTL DEF Spec

\* empty is reported only when no message is unread or the next one is still
\* being written.
THEOREM HonestEmpty ==
    ASSUME ~ StaleReads
    PROVE  Spec => EmptyIsHonest
<1>1. ASSUME QueueInv, PastInv, NEW t \in Threads, PopEmpty(t) \/ EmptyTrue(t)
      PROVE  \/ enqueue_pos = dequeue_pos
             \/ \E u \in Threads : Writing(u) /\ position[u] = dequeue_pos
  <2>1. /\ dequeue_pos \in Nat /\ enqueue_pos \in Nat /\ position[t] \in Nat
        /\ dequeue_pos <= enqueue_pos /\ enqueue_pos <= dequeue_pos + Capacity
    BY <1>1, Zenon DEF QueueInv, TypeOK, WithinCapacity
  <2>2. sequence[CellOf(position[t])] < position[t] + 1 /\ position[t] <= dequeue_pos
    BY <1>1, Zenon DEF PopEmpty, EmptyTrue, Return, Move, SequenceLoads, PastInv
  <2>3. sequence[CellOf(position[t])] \in Nat
    BY <2>1, <1>1, CellFacts, Zenon DEF QueueInv, TypeOK
  <2>4. position[t] = dequeue_pos
    <3>. SUFFICES ASSUME position[t] < dequeue_pos PROVE FALSE
      BY <2>1, <2>2
    <3>1. position[t] \in 0..(dequeue_pos - 1)
      BY <2>1
    <3>2. sequence[CellOf(position[t])] > position[t]
      BY <1>1, <3>1, Zenon DEF PastInv
    <3>. QED  BY <2>1, <2>2, <2>3, <3>2
  <2>5. CASE dequeue_pos < enqueue_pos
    <3>1. Free(dequeue_pos + Capacity) \/ BeingWritten(dequeue_pos) \/ Published(dequeue_pos)
      BY <1>1, <2>1, <2>5, Serving, Zenon
    <3>2. ~ Free(dequeue_pos + Capacity) /\ ~ Published(dequeue_pos)
      BY <2>1, <2>2, <2>4, CapacityAssumption DEF Free, Published
    <3>. QED  BY <3>1, <3>2, Zenon DEF BeingWritten
  <2>. QED  BY <2>1, <2>5
<1>2. QueueInv /\ PastInv =>
          [\A t \in Threads :
              PopEmpty(t) \/ EmptyTrue(t) =>
                  \/ enqueue_pos = dequeue_pos
                  \/ \E u \in Threads : Writing(u) /\ position[u] = dequeue_pos]_vars
  BY <1>1, Zenon
<1>. QED
  BY <1>2, PastInvariance, PTL DEF EmptyIsHonest

\* full is reported only when Capacity messages are unread or the next cell is
\* still being read.
THEOREM HonestFull ==
    ASSUME ~ StaleReads
    PROVE  Spec => FullIsHonest
<1>1. ASSUME QueueInv, PastInv, NEW t \in Threads, PushFull(t)
      PROVE  \/ enqueue_pos = dequeue_pos + Capacity
             \/ \E u \in Threads : Reading(u) /\ position[u] = enqueue_pos - Capacity
  <2>1. /\ dequeue_pos \in Nat /\ enqueue_pos \in Nat /\ position[t] \in Nat
        /\ dequeue_pos <= enqueue_pos /\ enqueue_pos <= dequeue_pos + Capacity
    BY <1>1, Zenon DEF QueueInv, TypeOK, WithinCapacity
  <2>2. sequence[CellOf(position[t])] < position[t] /\ position[t] <= enqueue_pos
    BY <1>1, Zenon DEF PushFull, Return, Move, SequenceLoads, PastInv
  <2>3. sequence[CellOf(position[t])] \in Nat
    BY <2>1, <1>1, CellFacts, Zenon DEF QueueInv, TypeOK
  <2>4. position[t] = enqueue_pos
    <3>. SUFFICES ASSUME position[t] < enqueue_pos PROVE FALSE
      BY <2>1, <2>2
    <3>1. position[t] \in 0..(enqueue_pos - 1)
      BY <2>1
    <3>2. sequence[CellOf(position[t])] >= position[t]
      BY <1>1, <3>1, Zenon DEF PastInv
    <3>. QED  BY <2>1, <2>2, <2>3, <3>2
  <2>5. enqueue_pos \in Upcoming /\ ~ Free(enqueue_pos)
    BY <2>1, <2>2, <2>3, <2>4, CapacityAssumption DEF Upcoming, Free
  <2>6. CASE BeingWritten(enqueue_pos - Capacity)
    <3>1. PICK u \in Threads : Writing(u) /\ position[u] = enqueue_pos - Capacity
      BY <2>6, Zenon DEF BeingWritten
    <3>2. dequeue_pos <= position[u]
      BY <1>1, <3>1, Zenon DEF QueueInv, PushInv
    <3>. QED  BY <2>1, <3>1, <3>2, CapacityAssumption
  <2>7. CASE Published(enqueue_pos - Capacity)
    BY <2>1, <2>7, CapacityAssumption DEF Published
  <2>. QED
    BY <1>1, <2>5, <2>6, <2>7, Zenon DEF QueueInv, CellsInv
<1>2. QueueInv /\ PastInv =>
          [\A t \in Threads :
              PushFull(t) =>
                  \/ enqueue_pos = dequeue_pos + Capacity
                  \/ \E u \in Threads : Reading(u) /\ position[u] = enqueue_pos - Capacity]_vars
  BY <1>1, Zenon
<1>. QED
  BY <1>2, PastInvariance, PTL DEF FullIsHonest

-----------------------------------------------------------------------------
(* The ring implements ExclusiveQueue.  What the cells hold is, by the     *)
(* invariant, what the history says, so that the entries are determined by *)
(* the counters, the history and the threads that own a position.          *)

Entry(q, ready) == [item |-> log[q + 1], ready |-> ready, sequence |-> q + 1]

AsLogged ==
    /\ \A q \in dequeue_pos..(enqueue_pos - 1) : EntryAt(q) = Entry(q, ~ Unpublished(q))
    /\ \A t \in Threads : InHand[t] = IF Reading(t) THEN Entry(position[t], TRUE) ELSE << >>

LEMMA CellsAsLogged == QueueInv => AsLogged
<1>. SUFFICES ASSUME QueueInv PROVE AsLogged
  BY Zenon
<1>1. ASSUME NEW q \in dequeue_pos..(enqueue_pos - 1)
      PROVE  EntryAt(q) = Entry(q, ~ Unpublished(q))
  <2>1. ~ Unpublished(q) => Contents(message[CellOf(q)]) = log[q + 1]
    BY <1>1, Retains, Zenon DEF UnreadRetained, Unpublished
  <2>. QED  BY <2>1, Zenon DEF EntryAt, Entry
<1>2. ASSUME NEW t \in Threads, Reading(t)
      PROVE  Contents(message[CellOf(position[t])]) = log[position[t] + 1]
  <2>1. /\ position[t] \in Nat /\ dequeue_pos \in Nat /\ enqueue_pos \in Nat
        /\ position[t] < dequeue_pos /\ dequeue_pos <= enqueue_pos
        /\ enqueue_pos <= position[t] + Capacity
        /\ sequence[CellOf(position[t])] = position[t] + 1
    BY <1>2, Zenon DEF QueueInv, TypeOK, PopInv, WithinCapacity
  <2>2. position[t] < enqueue_pos
    BY <2>1
  <2>3. Free(position[t] + Capacity) \/ BeingWritten(position[t]) \/ Published(position[t])
    BY <2>1, <2>2, Serving, Zenon
  <2>4. CellOf(position[t] + Capacity) = CellOf(position[t])
    BY <2>1, CellFacts, Zenon
  <2>5. ~ Free(position[t] + Capacity) /\ ~ BeingWritten(position[t])
    BY <2>1, <2>4, CapacityAssumption DEF Free, BeingWritten
  <2>. QED  BY <2>3, <2>5, Zenon DEF Published, Holds
<1>3. ASSUME NEW t \in Threads
      PROVE  InHand[t] = IF Reading(t) THEN Entry(position[t], TRUE) ELSE << >>
  BY <1>2, Zenon DEF InHand, Entry
<1>. QED  BY <1>1, <1>3, Zenon DEF AsLogged

\* The entries are a sequence.
EntryType == [item : Payloads, ready : BOOLEAN, sequence : Nat]

EntriesType ==
    /\ Entries \in Seq(EntryType) /\ Len(Entries) = enqueue_pos - dequeue_pos
    /\ \A i \in 1..Len(Entries) : /\ dequeue_pos + i - 1 \in dequeue_pos..(enqueue_pos - 1)
                                  /\ Entries[i] = Entry(dequeue_pos + i - 1, ~ Unpublished(dequeue_pos + i - 1))

LEMMA EntriesAreASequence == QueueInv => EntriesType
<1>. SUFFICES ASSUME QueueInv PROVE EntriesType
  BY Zenon
<1>1. /\ dequeue_pos \in Nat /\ enqueue_pos \in Nat /\ dequeue_pos <= enqueue_pos
      /\ log \in Seq(Payloads) /\ Len(log) = enqueue_pos
  BY Zenon DEF QueueInv, TypeOK, WithinCapacity
<1>2. PICK n \in Nat : n = enqueue_pos - dequeue_pos
  BY <1>1
<1>3. ASSUME NEW i \in 1..n
      PROVE  /\ dequeue_pos + i - 1 \in dequeue_pos..(enqueue_pos - 1)
             /\ (dequeue_pos + i - 1) + 1 \in 1..Len(log) /\ dequeue_pos + i - 1 \in Nat
  BY <1>1, <1>2, <1>3
<1>4. ASSUME NEW i \in 1..n
      PROVE  /\ Entries[i] = Entry(dequeue_pos + i - 1, ~ Unpublished(dequeue_pos + i - 1))
             /\ Entries[i] \in EntryType
  <2>1. Entries[i] = EntryAt(dequeue_pos + i - 1)
    BY <1>2, <1>4, Zenon DEF Entries
  <2>2. Entries[i] = Entry(dequeue_pos + i - 1, ~ Unpublished(dequeue_pos + i - 1))
    BY <1>3, <2>1, CellsAsLogged, Zenon DEF AsLogged
  <2>3. log[(dequeue_pos + i - 1) + 1] \in Payloads /\ (dequeue_pos + i - 1) + 1 \in Nat
    BY <1>1, <1>3
  <2>4. ASSUME NEW x \in Payloads, NEW b \in BOOLEAN, NEW k \in Nat
        PROVE  [item |-> x, ready |-> b, sequence |-> k] \in EntryType
    BY Zenon DEF EntryType
  <2>5. (~ Unpublished(dequeue_pos + i - 1)) \in BOOLEAN
    BY Zenon DEF Unpublished
  <2>. QED  BY <2>2, <2>3, <2>4, <2>5, Zenon DEF Entry
<1>5. Entries \in [1..n -> EntryType]
  BY <1>2, <1>4, Zenon DEF Entries
<1>6. Entries \in Seq(EntryType) /\ DOMAIN Entries = 1..n
  BY <1>5, SeqDef, Zenon
<1>7. Len(Entries) = n
  BY <1>6
<1>. QED  BY <1>2, <1>3, <1>4, <1>6, <1>7, Zenon DEF EntriesType

LEMMA MappedNext ==
    QueueInv /\ [Next]_vars =>
        QueueInv' /\ AsLogged /\ AsLogged' /\ EntriesType /\ EntriesType'
<1>1. QueueInv => AsLogged /\ EntriesType
  BY CellsAsLogged, EntriesAreASequence, Zenon
<1>. QED  BY <1>1, CellsAsLogged, EntriesAreASequence, NextInv, PTL

\* A step that claims, publishes and releases nothing is not visible.
LEMMA SameEntries ==
    ASSUME EntriesType, EntriesType', UNCHANGED <<dequeue_pos, enqueue_pos, log>>,
           \A q : Unpublished(q)' <=> Unpublished(q)
    PROVE  Entries' = Entries
<1>1. /\ Entries \in Seq(EntryType) /\ Entries' \in Seq(EntryType) /\ Len(Entries') = Len(Entries)
  BY Zenon DEF EntriesType
<1>2. ASSUME NEW i \in 1..Len(Entries) PROVE Entries'[i] = Entries[i]
  BY <1>1, Zenon DEF EntriesType, Entry
<1>. QED  BY <1>1, <1>2, SeqEqual, Zenon

LEMMA SameInHand ==
    ASSUME QueueInv, AsLogged, AsLogged', \A s \in 1..enqueue_pos : log'[s] = log[s],
           NEW t \in Threads, Reading(t)' <=> Reading(t), Reading(t) => position'[t] = position[t]
    PROVE  InHand'[t] = InHand[t]
<1>1. CASE Reading(t)
  <2>1. position[t] + 1 \in 1..enqueue_pos
    BY <1>1 DEF QueueInv, TypeOK, PopInv, WithinCapacity
  <2>. QED  BY <1>1, <2>1, Zenon DEF AsLogged, Entry
<1>2. CASE ~ Reading(t)
  BY <1>2, Zenon DEF AsLogged
<1>. QED  BY <1>1, <1>2, Zenon

LEMMA InHandDomain == InHand = [t \in Threads |-> InHand[t]] /\ InHand' = [t \in Threads |-> InHand'[t]]
BY Zenon DEF InHand

\* The steps that are not visible: no counter moves, and every thread owns what it
\* owned.
Invisible ==
    /\ UNCHANGED <<dequeue_pos, enqueue_pos, log>>
    /\ \A u \in Threads : /\ Writing(u)' <=> Writing(u)
                          /\ Reading(u)' <=> Reading(u)
                          /\ Writing(u) \/ Reading(u) => position'[u] = position[u]

LEMMA InvisibleStutters ==
    ASSUME QueueInv, AsLogged, AsLogged', EntriesType, EntriesType', Invisible
    PROVE  UNCHANGED Exclusive!vars
<1>1. \A q : Unpublished(q)' <=> Unpublished(q)
  BY Zenon DEF Unpublished, Invisible
<1>2. Entries' = Entries
  BY <1>1, SameEntries, Zenon DEF Invisible
<1>3. \A t \in Threads : InHand'[t] = InHand[t]
  BY SameInHand, Zenon DEF Invisible
<1>4. InHand' = InHand
  BY <1>3, InHandDomain, Zenon
<1>. QED  BY <1>2, <1>4, Zenon DEF Invisible, Exclusive!vars

\* A thread that owns nothing before and after its step, or the same.
LEMMA MoveInvisible ==
    ASSUME QueueInv, NEW t \in Threads, NEW from, NEW to, NEW q, Move(t, from, to, q),
           UNCHANGED <<dequeue_pos, enqueue_pos, log>>,
           from \in {"push_assign", "push_publish"} <=> to \in {"push_assign", "push_publish"},
           from \in {"pop_copy", "pop_release"} <=> to \in {"pop_copy", "pop_release"},
           to \in {"push_publish", "pop_release"} => q = position[t],
           to \notin {"push_assign", "pop_copy"}
    PROVE  Invisible
<1>1. pc \in [Threads -> Labels] /\ position \in [Threads -> Nat] /\ pc[t] = from
  BY Zenon DEF QueueInv, TypeOK, Move
<1>2. pc'[t] = to /\ position'[t] = q
  BY <1>1, Zenon DEF Move
<1>3. ASSUME NEW u \in Threads, u # t PROVE pc'[u] = pc[u] /\ position'[u] = position[u]
  BY <1>1, <1>3, Zenon DEF Move
<1>4. ASSUME NEW u \in Threads
      PROVE  /\ Writing(u)' <=> Writing(u)
             /\ Reading(u)' <=> Reading(u)
             /\ Writing(u) \/ Reading(u) => position'[u] = position[u]
  <2>1. CASE u # t
    BY <1>3, <2>1, Zenon DEF Writing, Reading
  <2>2. CASE u = t
    BY <1>1, <1>2, <2>2, Zenon DEF Writing, Reading
  <2>. QED  BY <2>1, <2>2, Zenon
<1>. QED  BY <1>4, Zenon DEF Invisible

LEMMA QuietSteps ==
    ASSUME QueueInv, NEW t \in Threads, Push(t) \/ Pop(t) \/ Empty(t),
           ~ PushClaim(t), ~ PushPublish(t), ~ PopClaim(t), ~ PopRelease(t)
    PROVE  Invisible
<1>. USE DEF shared
<1>1. CASE \E data \in Payloads : PushTooLarge(t, data)
  BY <1>1, Zenon DEF PushTooLarge, vars, Invisible, Writing, Reading
<1>2. CASE (\E data \in Payloads : PushCall(t, data)) \/ (\E size \in Destinations : PopCall(t, size)) \/ EmptyCall(t)
  <2>1. /\ \E to \in {"push_load", "pop_load", "empty_load"} : \E q : Move(t, "idle", to, q)
        /\ UNCHANGED <<dequeue_pos, enqueue_pos, log>>
    BY <1>2, Zenon DEF PushCall, PopCall, EmptyCall
  <2>. QED  BY <2>1, MoveInvisible
<1>3. CASE PushReady(t) \/ PushReload(t) \/ PushReposition(t) \/ PushCasFails(t)
  <2>1. /\ \E from \in {"push_load", "push_reload", "push_cas"},
              to \in {"push_load", "push_reload", "push_cas"} : \E q : Move(t, from, to, q)
        /\ UNCHANGED <<dequeue_pos, enqueue_pos, log>>
    BY <1>3, Zenon DEF PushReady, PushReload, PushReposition, PushCasFails
  <2>. QED  BY <2>1, MoveInvisible
<1>4. CASE PopReady(t) \/ PopReload(t) \/ PopReposition(t) \/ PopCasFails(t)
  <2>1. /\ \E from \in {"pop_load", "pop_reload", "pop_cas"},
              to \in {"pop_load", "pop_reload", "pop_cas"} : \E q : Move(t, from, to, q)
        /\ UNCHANGED <<dequeue_pos, enqueue_pos, log>>
    BY <1>4, Zenon DEF PopReady, PopReload, PopReposition, PopCasFails
  <2>. QED  BY <2>1, MoveInvisible
<1>5. CASE PushFull(t) \/ PopEmpty(t) \/ EmptyTrue(t) \/ EmptyFalse(t)
  <2>1. /\ \E from \in {"push_load", "pop_load", "empty_load"} : Move(t, from, "idle", 0)
        /\ UNCHANGED <<dequeue_pos, enqueue_pos, log>>
    BY <1>5, Zenon DEF PushFull, PopEmpty, EmptyTrue, EmptyFalse, Return
  <2>. QED  BY <2>1, MoveInvisible
<1>6. CASE PushAssign(t) \/ PopCopy(t)
  <2>1. /\ \/ Move(t, "push_assign", "push_publish", position[t])
           \/ Move(t, "pop_copy", "pop_release", position[t])
        /\ UNCHANGED <<dequeue_pos, enqueue_pos, log>>
    BY <1>6, Zenon DEF PushAssign, PopCopy
  <2>. QED  BY <2>1, MoveInvisible
<1>. QED
  BY <1>1, <1>2, <1>3, <1>4, <1>5, <1>6, Zenon DEF Push, Pop, Empty

LEMMA EntryFields ==
    ASSUME NEW e, NEW q, NEW ready \in BOOLEAN, e = Entry(q, ready)
    PROVE  e.item = log[q + 1] /\ (e.ready <=> ready) /\ e.sequence = q + 1 /\ e # << >>
<1>1. PICK x, n : x = log[q + 1] /\ n = q + 1
  BY Zenon
<1>2. e = [item |-> x, ready |-> ready, sequence |-> n]
  BY <1>1, Zenon DEF Entry
<1>3. e.item = x /\ (e.ready <=> ready) /\ e.sequence = n
  BY <1>2
<1>4. e # << >>
  BY <1>2
<1>. QED  BY <1>1, <1>3, <1>4, Zenon

LEMMA EntryTyped ==
    ASSUME NEW x \in Payloads, NEW ready \in BOOLEAN, NEW n \in Nat
    PROVE  [item |-> x, ready |-> ready, sequence |-> n] \in EntryType
BY DEF EntryType

LEMMA MadeReady ==
    ASSUME NEW e \in EntryType
    PROVE  [e EXCEPT !.ready = TRUE] = [item |-> e.item, ready |-> TRUE, sequence |-> e.sequence]
<1>1. PICK r : r = [e EXCEPT !.ready = TRUE]
  BY Zenon
<1>2. r \in EntryType /\ r.item = e.item /\ r.ready = TRUE /\ r.sequence = e.sequence
  BY <1>1, Zenon DEF EntryType
<1>. QED  BY <1>1, <1>2, Zenon DEF EntryType

LEMMA EntryNow ==
    ASSUME EntriesType, NEW i \in 1..Len(Entries), NEW q, q = dequeue_pos + i - 1
    PROVE  /\ q \in dequeue_pos..(enqueue_pos - 1)
           /\ Unpublished(q) => Entries[i] = Entry(q, FALSE)
           /\ ~ Unpublished(q) => Entries[i] = Entry(q, TRUE)
<1>1. q \in dequeue_pos..(enqueue_pos - 1) /\ Entries[i] = Entry(q, ~ Unpublished(q))
  BY Zenon DEF EntriesType
<1>. QED  BY <1>1, Zenon DEF Entry

LEMMA EntryNext ==
    ASSUME EntriesType', NEW i \in 1..Len(Entries'), NEW q, q = dequeue_pos' + i - 1
    PROVE  /\ q \in dequeue_pos'..(enqueue_pos' - 1)
           /\ Unpublished(q)' => Entries'[i] = [item |-> log'[q + 1], ready |-> FALSE, sequence |-> q + 1]
           /\ ~ Unpublished(q)' => Entries'[i] = [item |-> log'[q + 1], ready |-> TRUE, sequence |-> q + 1]
<1>1. /\ q \in dequeue_pos'..(enqueue_pos' - 1)
      /\ Entries'[i] = [item |-> log'[q + 1], ready |-> ~ Unpublished(q)', sequence |-> q + 1]
  BY Zenon DEF EntriesType, Entry
<1>. QED  BY <1>1, Zenon

\* A push claims a position: an entry that is not ready is added at the end.
LEMMA ClaimMaps ==
    ASSUME QueueInv, AsLogged, AsLogged', EntriesType, EntriesType', NEW t \in Threads, PushClaim(t)
    PROVE  Exclusive!Claim
<1>1. /\ enqueue_pos \in Nat /\ dequeue_pos \in Nat /\ dequeue_pos <= enqueue_pos
      /\ pc \in [Threads -> Labels]
      /\ position \in [Threads -> Nat] /\ enqueue_pos = position[t] /\ payload[t] \in Payloads
      /\ pc[t] = "push_cas" /\ position' = position /\ pc' = [pc EXCEPT ![t] = "push_assign"]
      /\ enqueue_pos' = enqueue_pos + 1 /\ log' = Append(log, payload[t]) /\ UNCHANGED dequeue_pos
  BY DEF QueueInv, TypeOK, WithinCapacity, PushInv, PushClaim, Move
<1>a. /\ enqueue_pos \in Nat /\ dequeue_pos \in Nat /\ dequeue_pos <= enqueue_pos
      /\ enqueue_pos' = enqueue_pos + 1 /\ dequeue_pos' = dequeue_pos
  BY <1>1, Zenon
<1>2. /\ Len(log') = enqueue_pos + 1 /\ \A k \in 1..enqueue_pos : log'[k] = log[k]
      /\ log'[enqueue_pos + 1] = payload[t]
  BY <1>1, LogGrows, Zenon
<1>3. /\ \A u \in Threads : Reading(u)' <=> Reading(u)
      /\ \A u \in Threads : Writing(u)' <=> (Writing(u) \/ u = t)
  BY <1>1 DEF Reading, Writing
<1>4. \A q : Unpublished(q)' <=> (Unpublished(q) \/ q = enqueue_pos)
  BY <1>1, <1>3, Zenon DEF Unpublished
<1>5. enqueue_pos < dequeue_pos + Capacity
  BY PushClaimFree, Zenon DEF Free
<1>6. /\ Len(Entries) < Capacity /\ Len(Entries) \in Nat /\ Len(Entries) = enqueue_pos - dequeue_pos
      /\ Len(Entries') = Len(Entries) + 1
      /\ Entries \in Seq(EntryType) /\ Entries' \in Seq(EntryType)
  <2>1. /\ Len(Entries) = enqueue_pos - dequeue_pos /\ Len(Entries') = enqueue_pos' - dequeue_pos'
        /\ Entries \in Seq(EntryType) /\ Entries' \in Seq(EntryType)
    BY Zenon DEF EntriesType
  <2>. QED  BY <1>a, <1>5, <2>1, CapacityAssumption
<1>7. PICK e : e = [item |-> payload[t], ready |-> FALSE, sequence |-> enqueue_pos + 1]
  BY Zenon
<1>8. e \in EntryType
  BY <1>1, <1>7 DEF EntryType
<1>9. /\ Append(Entries, e) \in Seq(EntryType) /\ Len(Append(Entries, e)) = Len(Entries')
      /\ \A i \in 1..Len(Entries) : Append(Entries, e)[i] = Entries[i]
      /\ Append(Entries, e)[Len(Entries')] = e
  <2>1. /\ Append(Entries, e) \in Seq(EntryType) /\ Len(Append(Entries, e)) = Len(Entries) + 1
        /\ \A i \in 1..Len(Entries) : Append(Entries, e)[i] = Entries[i]
        /\ Append(Entries, e)[Len(Entries) + 1] = e
    BY <1>6, <1>8, AppendProperties
  <2>. QED  BY <1>6, <2>1, Zenon
<1>10. ASSUME NEW i \in 1..Len(Entries') PROVE Entries'[i] = Append(Entries, e)[i]
  <2>1. PICK q \in Nat : q = dequeue_pos + i - 1
    BY <1>1, <1>6, <1>10
  <2>2. CASE i = Len(Entries')
    <3>1. q = enqueue_pos
      BY <1>a, <1>6, <2>1, <2>2
    <3>2. Entries'[i] = [item |-> log'[q + 1], ready |-> FALSE, sequence |-> q + 1]
      BY <1>1, <1>4, <1>10, <2>1, <3>1, EntryNext, Zenon
    <3>. QED  BY <1>2, <1>7, <1>9, <2>2, <3>1, <3>2, Zenon
  <2>3. CASE i # Len(Entries')
    <3>1. i \in 1..Len(Entries) /\ q # enqueue_pos /\ q + 1 \in 1..enqueue_pos
      BY <1>a, <1>6, <1>10, <2>1, <2>3
    <3>2. Unpublished(q)' <=> Unpublished(q)
      BY <1>4, <3>1, Zenon
    <3>3. /\ Unpublished(q) => Entries[i] = Entry(q, FALSE)
          /\ ~ Unpublished(q) => Entries[i] = Entry(q, TRUE)
      BY <2>1, <3>1, EntryNow, Zenon
    <3>4. /\ Unpublished(q)' => Entries'[i] = [item |-> log'[q + 1], ready |-> FALSE, sequence |-> q + 1]
          /\ ~ Unpublished(q)' => Entries'[i] = [item |-> log'[q + 1], ready |-> TRUE, sequence |-> q + 1]
      BY <1>1, <1>10, <2>1, EntryNext, Zenon
    <3>5. log'[q + 1] = log[q + 1]
      BY <1>2, <3>1, Zenon
    <3>6. Entries'[i] = Entries[i]
      BY <3>2, <3>3, <3>4, <3>5, Zenon DEF Entry
    <3>. QED  BY <1>9, <3>1, <3>6, Zenon
  <2>. QED  BY <2>2, <2>3, Zenon
<1>11. Entries' = Append(Entries, e)
  BY <1>6, <1>9, <1>10, SeqEqual, Zenon
<1>12. \A u \in Threads : InHand'[u] = InHand[u]
  BY <1>1, <1>2, <1>3, SameInHand, Zenon
<1>13. InHand' = InHand
  BY <1>12, InHandDomain, Zenon
<1>. QED  BY <1>1, <1>6, <1>7, <1>11, <1>13, Zenon DEF Exclusive!Claim

\* A push stores the sequence of its cell: its entry becomes ready.
LEMMA PublishMaps ==
    ASSUME QueueInv, AsLogged, AsLogged', EntriesType, EntriesType', NEW t \in Threads, PushPublish(t)
    PROVE  Exclusive!Publish
<1>1. /\ enqueue_pos \in Nat /\ dequeue_pos \in Nat /\ pc \in [Threads -> Labels]
      /\ position \in [Threads -> Nat] /\ pc[t] = "push_publish" /\ Writing(t)
      /\ pc' = [pc EXCEPT ![t] = "idle"] /\ position' = [position EXCEPT ![t] = 0]
      /\ UNCHANGED <<enqueue_pos, dequeue_pos, log>>
      /\ dequeue_pos <= position[t] /\ position[t] < enqueue_pos
  BY DEF QueueInv, TypeOK, PushInv, PushPublish, Return, Move, Writing
<1>2. /\ \A u \in Threads : Reading(u)' <=> Reading(u)
      /\ \A u \in Threads : Writing(u)' <=> (Writing(u) /\ u # t)
      /\ \A u \in Threads : u # t => position'[u] = position[u]
  BY <1>1 DEF Reading, Writing
<1>3. \A u \in Threads : Writing(u) /\ u # t => position[u] # position[t]
  BY <1>1, Zenon DEF QueueInv, ClaimsInv
<1>4. \A q : Unpublished(q)' <=> (Unpublished(q) /\ q # position[t])
  BY <1>1, <1>2, <1>3, Zenon DEF Unpublished
<1>5. Unpublished(position[t])
  BY <1>1, Zenon DEF Unpublished
<1>6. /\ Len(Entries) = enqueue_pos - dequeue_pos /\ Len(Entries') = Len(Entries)
      /\ Len(Entries) \in Nat
      /\ Entries \in Seq(EntryType) /\ Entries' \in Seq(EntryType)
  BY <1>1 DEF EntriesType
<1>7. PICK k \in 1..Len(Entries) : position[t] = dequeue_pos + k - 1
  <2>1. (position[t] - dequeue_pos) + 1 \in 1..Len(Entries)
    BY <1>1, <1>6
  <2>2. position[t] = dequeue_pos + ((position[t] - dequeue_pos) + 1) - 1
    BY <1>1
  <2>. QED  BY <2>1, <2>2, Zenon
<1>8. Entries[k] = Entry(position[t], FALSE)
  BY <1>5, <1>7, EntryNow, Zenon
<1>9. PICK e : e = Entry(position[t], TRUE)
  BY Zenon
<1>10. [Entries EXCEPT ![k].ready = TRUE] = [Entries EXCEPT ![k] = e] /\ ~ Entries[k].ready
  <2>1. Entries[k] \in EntryType
    BY <1>6, <1>7
  <2>2. /\ ~ Entries[k].ready
        /\ Entries[k].item = log[position[t] + 1] /\ Entries[k].sequence = position[t] + 1
    BY <1>8, EntryFields, Zenon
  <2>3. [Entries[k] EXCEPT !.ready = TRUE] = e
    BY <1>9, <2>1, <2>2, MadeReady, Zenon DEF Entry
  <2>. QED  BY <2>2, <2>3, Zenon
<1>11. e \in EntryType
  <2>1. Entries[k] \in EntryType
    BY <1>6, <1>7
  <2>2. Entries[k].item \in Payloads /\ Entries[k].sequence \in Nat
    BY <2>1, Zenon DEF EntryType
  <2>3. Entries[k].item = log[position[t] + 1] /\ Entries[k].sequence = position[t] + 1
    BY <1>8, EntryFields, Zenon
  <2>. QED  BY <1>9, <2>2, <2>3, EntryTyped, Zenon DEF Entry
<1>12. /\ [Entries EXCEPT ![k] = e] \in Seq(EntryType) /\ Len([Entries EXCEPT ![k] = e]) = Len(Entries')
       /\ \A i \in 1..Len(Entries) : [Entries EXCEPT ![k] = e][i] = IF i = k THEN e ELSE Entries[i]
  <2>1. /\ [Entries EXCEPT ![k] = e] \in Seq(EntryType) /\ Len([Entries EXCEPT ![k] = e]) = Len(Entries)
        /\ \A i \in 1..Len(Entries) : [Entries EXCEPT ![k] = e][i] = IF i = k THEN e ELSE Entries[i]
    BY <1>6, <1>7, <1>11, ExceptSeq
  <2>. QED  BY <1>6, <2>1, Zenon
<1>13. ASSUME NEW i \in 1..Len(Entries') PROVE Entries'[i] = [Entries EXCEPT ![k] = e][i]
  <2>1. PICK q \in Nat : q = dequeue_pos + i - 1
    BY <1>1, <1>6, <1>13
  <2>2. /\ Unpublished(q)' => Entries'[i] = [item |-> log[q + 1], ready |-> FALSE, sequence |-> q + 1]
        /\ ~ Unpublished(q)' => Entries'[i] = [item |-> log[q + 1], ready |-> TRUE, sequence |-> q + 1]
    BY <1>1, <1>13, <2>1, EntryNext, Zenon
  <2>3. CASE i = k
    BY <1>4, <1>6, <1>7, <1>9, <1>12, <2>1, <2>2, <2>3, Zenon DEF Entry
  <2>4. CASE i # k
    <3>1. q # position[t]
      BY <1>1, <1>6, <1>7, <1>13, <2>1, <2>4
    <3>2. /\ Unpublished(q) => Entries[i] = Entry(q, FALSE)
          /\ ~ Unpublished(q) => Entries[i] = Entry(q, TRUE)
      BY <1>6, <1>13, <2>1, EntryNow, Zenon
    <3>3. Entries'[i] = Entries[i]
      BY <1>4, <2>2, <3>1, <3>2, Zenon DEF Entry
    <3>. QED  BY <1>6, <1>12, <1>13, <2>4, <3>3, Zenon
  <2>. QED  BY <2>3, <2>4, Zenon
<1>14. Entries' = [Entries EXCEPT ![k] = e]
  BY <1>6, <1>12, <1>13, SeqEqual, Zenon
<1>15. \A u \in Threads : InHand'[u] = InHand[u]
  <2>1. ~ Reading(t)
    BY <1>1 DEF Reading
  <2>. QED  BY <1>1, <1>2, <2>1, SameInHand, Zenon
<1>16. InHand' = InHand
  BY <1>15, InHandDomain, Zenon
<1>17. k \in DOMAIN Entries
  BY <1>6, <1>7
<1>. QED  BY <1>1, <1>10, <1>14, <1>16, <1>17, Zenon DEF Exclusive!Publish

\* A pop claims the oldest position, whose entry is ready, and owns the cell.
LEMMA TakeMaps ==
    ASSUME QueueInv, AsLogged, AsLogged', EntriesType, EntriesType', NEW t \in Threads, PopClaim(t)
    PROVE  Exclusive!Take(t)
<1>1. /\ pc \in [Threads -> Labels] /\ position \in [Threads -> Nat] /\ dequeue_pos = position[t]
      /\ pc[t] = "pop_cas" /\ position' = position /\ pc' = [pc EXCEPT ![t] = "pop_copy"]
      /\ UNCHANGED <<enqueue_pos, log>>
  BY DEF QueueInv, TypeOK, PopClaim, Move
<1>a. /\ enqueue_pos \in Nat /\ dequeue_pos \in Nat /\ dequeue_pos < enqueue_pos
      /\ enqueue_pos' = enqueue_pos /\ dequeue_pos' = dequeue_pos + 1
  BY PopClaimPublished, Zenon DEF QueueInv, TypeOK, PopClaim
<1>2. /\ \A u \in Threads : Writing(u)' <=> Writing(u)
      /\ \A u \in Threads \ {t} : Reading(u)' <=> Reading(u)
      /\ Reading(t)' /\ ~ Reading(t)
  BY <1>1 DEF Reading, Writing
<1>3. \A q : Unpublished(q)' <=> Unpublished(q)
  BY <1>1, <1>2, Zenon DEF Unpublished
<1>4. ~ Unpublished(dequeue_pos)
  <2>1. ASSUME NEW u \in Threads, Writing(u), position[u] = dequeue_pos PROVE FALSE
    <3>1. sequence[CellOf(dequeue_pos)] = dequeue_pos
      BY <2>1, Zenon DEF QueueInv, PushInv
    <3>2. sequence[CellOf(dequeue_pos)] = dequeue_pos + 1
      BY PopClaimPublished, Zenon DEF Published
    <3>. QED  BY <1>a, <3>1, <3>2
  <2>. QED  BY <2>1, Zenon DEF Unpublished
<1>5. /\ Len(Entries) = enqueue_pos - dequeue_pos /\ Len(Entries') = Len(Entries) - 1
      /\ Len(Entries) \in Nat /\ 1 \in 1..Len(Entries)
      /\ Entries \in Seq(EntryType) /\ Entries' \in Seq(EntryType)
  <2>1. /\ Len(Entries) = enqueue_pos - dequeue_pos /\ Len(Entries') = enqueue_pos' - dequeue_pos'
        /\ Entries \in Seq(EntryType) /\ Entries' \in Seq(EntryType)
    BY Zenon DEF EntriesType
  <2>. QED  BY <1>a, <2>1
<1>6. Entries # << >>
  BY <1>5
<1>7. Head(Entries) = Entries[1]
  BY <1>5, <1>6
<1>8. /\ Tail(Entries) \in Seq(EntryType) /\ Len(Tail(Entries)) = Len(Entries')
      /\ \A i \in 1..Len(Entries') : Tail(Entries)[i] = Entries[i + 1]
  <2>1. /\ Tail(Entries) \in Seq(EntryType) /\ Len(Tail(Entries)) = Len(Entries) - 1
        /\ \A i \in 1..Len(Tail(Entries)) : Tail(Entries)[i] = Entries[i + 1]
    BY <1>5, <1>6, HeadTailProperties
  <2>. QED  BY <1>5, <2>1, Zenon
<1>9. ASSUME NEW i \in 1..Len(Entries') PROVE Entries'[i] = Tail(Entries)[i]
  <2>1. PICK q \in Nat : q = dequeue_pos + i
    BY <1>a, <1>5, <1>9
  <2>2. /\ q = dequeue_pos' + i - 1 /\ i + 1 \in 1..Len(Entries) /\ q = dequeue_pos + (i + 1) - 1
    BY <1>a, <1>5, <1>9, <2>1
  <2>3. /\ Unpublished(q)' => Entries'[i] = [item |-> log[q + 1], ready |-> FALSE, sequence |-> q + 1]
        /\ ~ Unpublished(q)' => Entries'[i] = [item |-> log[q + 1], ready |-> TRUE, sequence |-> q + 1]
    BY <1>1, <1>9, <2>2, EntryNext, Zenon
  <2>4. /\ Unpublished(q) => Entries[i + 1] = Entry(q, FALSE)
        /\ ~ Unpublished(q) => Entries[i + 1] = Entry(q, TRUE)
    BY <2>2, EntryNow, Zenon
  <2>. QED  BY <1>3, <1>8, <1>9, <2>3, <2>4, Zenon DEF Entry
<1>10. Entries' = Tail(Entries)
  BY <1>5, <1>8, <1>9, SeqEqual, Zenon
<1>11. Entries[1] = Entry(dequeue_pos, TRUE)
  <2>1. dequeue_pos = dequeue_pos + 1 - 1
    BY <1>a
  <2>. QED  BY <1>4, <1>5, <2>1, EntryNow, Zenon
<1>12. Entries[1].ready
  BY <1>11, EntryFields, Zenon
<1>13. InHand[t] = << >> /\ InHand'[t] = Entries[1]
  BY <1>1, <1>2, <1>11, Zenon DEF AsLogged, Entry
<1>14. \A u \in Threads \ {t} : InHand'[u] = InHand[u]
  BY <1>1, <1>2, SameInHand, Zenon
<1>15. InHand' = [InHand EXCEPT ![t] = Entries[1]]
  BY <1>13, <1>14, InHandDomain, Zenon
<1>. QED  BY <1>a, <1>6, <1>7, <1>10, <1>12, <1>13, <1>15, Zenon DEF Exclusive!Take, Exclusive!Nothing

\* A pop stores the sequence of its cell for the next generation.
LEMMA ReleaseMaps ==
    ASSUME QueueInv, AsLogged, AsLogged', EntriesType, EntriesType', NEW t \in Threads, PopRelease(t)
    PROVE  Exclusive!Release(t)
<1>1. /\ pc \in [Threads -> Labels] /\ position \in [Threads -> Nat] /\ pc[t] = "pop_release"
      /\ pc' = [pc EXCEPT ![t] = "idle"] /\ position' = [position EXCEPT ![t] = 0]
      /\ UNCHANGED <<enqueue_pos, dequeue_pos, log>>
  BY DEF QueueInv, TypeOK, PopRelease, Return, Move
<1>2. /\ \A u \in Threads : Writing(u)' <=> Writing(u)
      /\ \A u \in Threads \ {t} : (Reading(u)' <=> Reading(u)) /\ position'[u] = position[u]
      /\ ~ Reading(t)' /\ Reading(t) /\ ~ Writing(t)
  BY <1>1 DEF Reading, Writing
<1>3. \A q : Unpublished(q)' <=> Unpublished(q)
  BY <1>1, <1>2, Zenon DEF Unpublished
<1>4. Entries' = Entries
  BY <1>1, <1>3, SameEntries, Zenon
<1>5. InHand'[t] = << >> /\ InHand[t] = Entry(position[t], TRUE)
  BY <1>2, Zenon DEF AsLogged
<1>6. InHand[t] # << >>
  BY <1>5, EntryFields, Zenon
<1>7. \A u \in Threads \ {t} : InHand'[u] = InHand[u]
  BY <1>1, <1>2, SameInHand, Zenon
<1>8. InHand' = [InHand EXCEPT ![t] = << >>]
  BY <1>5, <1>7, InHandDomain, Zenon
<1>. QED  BY <1>1, <1>4, <1>6, <1>8, Zenon DEF Exclusive!Release, Exclusive!Nothing

LEMMA InitMaps == Init => Exclusive!Init
<1>. SUFFICES ASSUME Init PROVE Exclusive!Init
  BY Zenon
<1>1. enqueue_pos = 0 /\ dequeue_pos = 0 /\ \A t \in Threads : ~ Reading(t)
  BY DEF Init, Reading
<1>2. Entries = << >>
  <2>1. 1..(enqueue_pos - dequeue_pos) = {}
    BY <1>1
  <2>. QED  BY <2>1 DEF Entries
<1>3. InHand = [t \in Threads |-> << >>]
  BY <1>1, Zenon DEF InHand
<1>. QED  BY <1>1, <1>2, <1>3, Zenon DEF Exclusive!Init, Exclusive!Nothing

LEMMA NextMaps == QueueInv /\ [Next]_vars => [Exclusive!Next]_(Exclusive!vars)
<1>. SUFFICES ASSUME QueueInv, [Next]_vars PROVE [Exclusive!Next]_(Exclusive!vars)
  BY Zenon
<1>1. AsLogged /\ AsLogged' /\ EntriesType /\ EntriesType'
  BY MappedNext, Zenon
<1>2. CASE UNCHANGED vars
  <2>1. Invisible
    BY <1>2, Zenon DEF vars, Invisible, Writing, Reading
  <2>. QED  BY <1>1, <2>1, InvisibleStutters, Zenon
<1>3. ASSUME NEW t \in Threads, Push(t) \/ Pop(t) \/ Empty(t)
      PROVE  [Exclusive!Next]_(Exclusive!vars)
  <2>1. CASE PushClaim(t)
    BY <1>1, <2>1, ClaimMaps, Zenon DEF Exclusive!Next
  <2>2. CASE PushPublish(t)
    BY <1>1, <2>2, PublishMaps, Zenon DEF Exclusive!Next
  <2>3. CASE PopClaim(t)
    BY <1>1, <2>3, TakeMaps, Zenon DEF Exclusive!Next
  <2>4. CASE PopRelease(t)
    BY <1>1, <2>4, ReleaseMaps, Zenon DEF Exclusive!Next
  <2>5. CASE ~ (PushClaim(t) \/ PushPublish(t) \/ PopClaim(t) \/ PopRelease(t))
    BY <1>1, <1>3, <2>5, QuietSteps, InvisibleStutters, Zenon
  <2>. QED  BY <2>1, <2>2, <2>3, <2>4, <2>5, Zenon
<1>. QED  BY <1>2, <1>3, Zenon DEF Next

\* To its callers the ring is the queue of ExclusiveQueue, for every set of threads
\* and with loads that may return old values: items are taken in the order in which
\* their pushes won the compare-exchange, each once, none before its push has
\* stored the cell's sequence, and never more than the capacity are queued.
THEOREM RingIsExclusiveQueue == Spec => ImplementsExclusiveQueue
BY InitMaps, NextMaps, Invariance, PTL DEF Spec, ImplementsExclusiveQueue, Exclusive!Spec

=============================================================================
