------------------------- MODULE VersionedSPMCQueue -------------------------
(***************************************************************************)
(* The multicast queue with one seqlock per cell                           *)
(* (include/orbitqueue/versioned_spmc_queue.h).                            *)
(*                                                                         *)
(* Memory.  Only the producer stores, so the shared memory is the sequence *)
(* of its stores in program order.  A load returns the value of some store *)
(* to its location: not necessarily the newest, but none that is older     *)
(* than one the loading thread is known to be ordered after.  How far that *)
(* order reaches is one number per consumer, floor: the stores up to it    *)
(* happen before the consumer's next load.  Every store carries in rel how *)
(* far an acquire through it raises the floor: a release store covers      *)
(* everything up to itself, a relaxed store what preceded the producer's   *)
(* last release fence.  A relaxed load remembers rel in pending, and the   *)
(* consumer's acquire fence raises the floor to it.  (Coherence of         *)
(* successive relaxed loads is not assumed: this allows more than C++.)    *)
(* Without StaleReads every load returns the newest store.                 *)
(***************************************************************************)
EXTENDS Integers, Sequences

CONSTANTS
    Byte, ZeroByte,
    MaxPayloadSize,
    Capacity,
    ReadAttempts,        \* read_attempts, 64 in the code
    Handles,             \* the Consumer objects of the program
    Payloads,
    Destinations,
    StaleReads,
    MaxPublications,     \* bound on accepted publications
    MaxRegistrations     \* bound on calls of make_consumer

ASSUME VersionedAssumption ==
    /\ ZeroByte \in Byte
    /\ MaxPayloadSize \in Nat
    /\ Capacity \in Nat \ {0}
    /\ ReadAttempts \in Nat \ {0}
    /\ Payloads \subseteq Seq(Byte)
    /\ Destinations \subseteq Nat
    /\ StaleReads \in BOOLEAN
    /\ MaxPublications \in Nat
    /\ MaxRegistrations \in Nat

VARIABLES
    stores,         \* what the producer has stored: [loc, val, rel, by] in order
    fence,          \* how many stores preceded its last release fence
    publishing,     \* where it is in try_publish
    version,        \* the version it found in the cell
    index,          \* how many bytes of the payload it has stored
    produced,       \* produced_
    log,            \* history: payloads in the order of publication
    attached,       \* queue_ != nullptr, for each Consumer
    next_sequence,  \* next_sequence_
    pc,             \* where each consumer is in read()
    frame,          \* the locals of read()
    floor,          \* see above
    pending,        \* see above
    registration,   \* history: which make_consumer call a handle stems from
    start,          \* history: the first sequence of each registration
    received        \* history: what each registration was given, in order

producer == <<stores, fence, publishing, version, index, produced, log>>
consumer == <<attached, next_sequence, pc, frame, floor, pending>>
history == <<registration, start, received>>
vars == <<stores, fence, publishing, version, index, produced, log, attached,
          next_sequence, pc, frame, floor, pending, registration, start, received>>

-----------------------------------------------------------------------------
(* Locations, and the loads of a consumer.                                 *)

Published == <<"published">>
Version(i) == <<"version", i>>
SequenceOf(i) == <<"sequence", i>>
SizeOf(i) == <<"size", i>>
StorageOf(i, b) == <<"storage", i, b>>

CellOf(s) == (s - 1) % Capacity

\* The stores to a location; 0 stands for its initialisation.
StoresTo(loc) == {0} \union {k \in 1..Len(stores) : stores[k].loc = loc}

\* Those that are not older than any store to the location among the first n.
NotOlder(loc, n) ==
    {k \in StoresTo(loc) : \A j \in StoresTo(loc) : j <= n => j <= k}

\* The stores a load of loc by consumer h may read from.
Loads(h, loc) == NotOlder(loc, IF StaleReads THEN floor[h] ELSE Len(stores))

Initial(loc) == IF loc[1] = "storage" THEN ZeroByte ELSE 0
ValueAt(k, loc) == IF k = 0 THEN Initial(loc) ELSE stores[k].val
RelAt(k) == IF k = 0 THEN 0 ELSE stores[k].rel

\* What an acquire load, and a relaxed load, of store k do to the consumer.
Larger(m, n) == IF m > n THEN m ELSE n

Acquire(h, k) ==
    /\ floor' = [floor EXCEPT ![h] = Larger(@, RelAt(k))]
    /\ UNCHANGED pending

Relaxed(h, k) ==
    /\ pending' = [pending EXCEPT ![h] = Larger(@, RelAt(k))]
    /\ UNCHANGED floor

-----------------------------------------------------------------------------
(* try_publish.  The publication it is in is the last of log.              *)

Sequence == Len(log)
Payload == log[Sequence]
Cell == CellOf(Sequence)

Store(loc, val, order) ==
    stores' = Append(stores,
        [loc |-> loc, val |-> val, by |-> Sequence,
         rel |-> IF order = "release" THEN Len(stores) + 1 ELSE fence])

\* A payload that is too large is refused before anything is stored.
PublishTooLarge(payload) ==
    /\ publishing = "idle"
    /\ Len(payload) > MaxPayloadSize
    /\ UNCHANGED vars

\* The producer loads the version it stored last.
PublishCall(payload) ==
    /\ publishing = "idle"
    /\ produced < MaxPublications
    /\ Len(payload) <= MaxPayloadSize
    /\ LET loc == Version(CellOf(produced + 1)) IN
       \E k \in NotOlder(loc, Len(stores)) : version' = ValueAt(k, loc)
    /\ log' = Append(log, payload)
    /\ publishing' = "odd"
    /\ UNCHANGED <<stores, fence, index, produced, consumer, history>>

StoreOdd ==
    /\ publishing = "odd"
    /\ Store(Version(Cell), version + 1, "relaxed")
    /\ publishing' = "fence"
    /\ UNCHANGED <<fence, version, index, produced, log, consumer, history>>

\* Mutant: there is no fence between the odd version and the fields.
NoFenceAfterOdd ==
    /\ publishing = "fence"
    /\ publishing' = "sequence"
    /\ UNCHANGED <<stores, fence, version, index, produced, log, consumer, history>>

FenceAfterOdd ==
    /\ publishing = "fence"
    /\ fence' = Len(stores)
    /\ publishing' = "sequence"
    /\ UNCHANGED <<stores, version, index, produced, log, consumer, history>>

StoreSequence ==
    /\ publishing = "sequence"
    /\ Store(SequenceOf(Cell), Sequence, "relaxed")
    /\ publishing' = "size"
    /\ UNCHANGED <<fence, version, index, produced, log, consumer, history>>

StoreSize ==
    /\ publishing = "size"
    /\ Store(SizeOf(Cell), Len(Payload), "relaxed")
    /\ publishing' = "storage"
    /\ index' = 0
    /\ UNCHANGED <<fence, version, produced, log, consumer, history>>

StoreByte ==
    /\ publishing = "storage"
    /\ index < Len(Payload)
    /\ Store(StorageOf(Cell, index + 1), Payload[index + 1], "relaxed")
    /\ index' = index + 1
    /\ UNCHANGED <<fence, publishing, version, produced, log, consumer, history>>

FenceBeforeEven ==
    /\ publishing = "storage"
    /\ index = Len(Payload)
    /\ fence' = Len(stores)
    /\ publishing' = "even"
    /\ UNCHANGED <<stores, version, index, produced, log, consumer, history>>

\* Mutant: the version is left odd.
StoreEvenOdd ==
    /\ publishing = "even"
    /\ Store(Version(Cell), version + 1, "release")
    /\ publishing' = "publish"
    /\ UNCHANGED <<fence, version, index, produced, log, consumer, history>>

StoreEven ==
    /\ publishing = "even"
    /\ Store(Version(Cell), version + 2, "release")
    /\ publishing' = "publish"
    /\ UNCHANGED <<fence, version, index, produced, log, consumer, history>>

StorePublished ==
    /\ publishing = "publish"
    /\ produced' = Sequence
    /\ Store(Published, Sequence, "release")
    /\ publishing' = "idle"
    /\ UNCHANGED <<fence, version, index, log, consumer, history>>

PublishStep ==
    \/ StoreOdd \/ FenceAfterOdd
    \/ StoreSequence \/ StoreSize \/ StoreByte
    \/ FenceBeforeEven \/ StoreEven \/ StorePublished

-----------------------------------------------------------------------------
(* Registration, and moves of Consumer objects.                            *)

NoFrame == [destination |-> 0, attempt |-> 0, before |-> 0, sequence |-> 0,
            size |-> 0, scratch |-> << >>]

\* h = make_consumer(): the registering thread reads published_.
Register(h) ==
    /\ pc[h] = "idle"
    /\ Len(start) < MaxRegistrations
    /\ \E k \in Loads(h, Published) :
           /\ Acquire(h, k)
           /\ next_sequence' = [next_sequence EXCEPT ![h] = ValueAt(k, Published) + 1]
           /\ start' = Append(start, ValueAt(k, Published) + 1)
    /\ attached' = [attached EXCEPT ![h] = TRUE]
    /\ registration' = [registration EXCEPT ![h] = Len(start) + 1]
    /\ received' = Append(received, << >>)
    /\ UNCHANGED <<producer, pc, frame>>

\* Mutant: other.queue_ is copied, not exchanged for nullptr.
CopyConsumer(h, g) ==
    /\ g # h
    /\ registration[h] # 0
    /\ pc[h] = "idle" /\ pc[g] = "idle"
    /\ attached' = [attached EXCEPT ![g] = attached[h]]
    /\ next_sequence' = [next_sequence EXCEPT ![g] = next_sequence[h]]
    /\ floor' = [floor EXCEPT ![g] = Larger(@, floor[h])]
    /\ pending' = [pending EXCEPT ![g] = Larger(@, pending[h])]
    /\ registration' = [registration EXCEPT ![g] = registration[h]]
    /\ UNCHANGED <<producer, pc, frame, start, received>>

\* g = std::move(h): h is left without a queue, its cursor is copied.  The
\* thread that uses g from now on is ordered after the one that used h.
MoveConsumer(h, g) ==
    /\ g # h
    /\ registration[h] # 0
    /\ pc[h] = "idle" /\ pc[g] = "idle"
    /\ attached' = [attached EXCEPT ![g] = attached[h], ![h] = FALSE]
    /\ next_sequence' = [next_sequence EXCEPT ![g] = next_sequence[h]]
    /\ floor' = [floor EXCEPT ![g] = Larger(@, floor[h])]
    /\ pending' = [pending EXCEPT ![g] = Larger(@, pending[h])]
    /\ registration' = [registration EXCEPT ![g] = registration[h]]
    /\ UNCHANGED <<producer, pc, frame, start, received>>

-----------------------------------------------------------------------------
(* try_read                                                                *)

\* Mutant: one sequence too many is given up.
OldestRetainedOffByOne(published) ==
    IF published >= Capacity THEN published - Capacity + 2 ELSE 1

OldestRetained(published) == IF published >= Capacity THEN published - Capacity + 1 ELSE 1

ResumeAfterOverwrite(published, want) == Larger(OldestRetained(published), want)

Goto(h, label) == pc' = [pc EXCEPT ![h] = label]

Return(h) ==
    /\ Goto(h, "idle")
    /\ frame' = [frame EXCEPT ![h] = NoFrame]

Keep == <<producer, attached, registration, start>>

\* A Consumer that was moved from.
ReadInvalid(h) ==
    /\ pc[h] = "idle"
    /\ registration[h] # 0
    /\ ~ attached[h]
    /\ UNCHANGED vars

ReadEmpty(h) ==
    /\ pc[h] = "idle" /\ attached[h]
    /\ \E k \in Loads(h, Published) :
           /\ Acquire(h, k)
           /\ next_sequence[h] > ValueAt(k, Published)
    /\ UNCHANGED <<Keep, next_sequence, pc, frame, received>>

\* Mutant: the lag is reported and the cursor left behind.
ReadLaggedCursorKept(h) ==
    /\ pc[h] = "idle" /\ attached[h]
    /\ \E k \in Loads(h, Published) :
           /\ Acquire(h, k)
           /\ next_sequence[h] < OldestRetained(ValueAt(k, Published))
    /\ UNCHANGED <<Keep, next_sequence, pc, frame, received>>

ReadLagged(h) ==
    /\ pc[h] = "idle" /\ attached[h]
    /\ \E k \in Loads(h, Published) :
           LET published == ValueAt(k, Published) IN
           /\ Acquire(h, k)
           /\ next_sequence[h] <= published
           /\ next_sequence[h] < OldestRetained(published)
           /\ next_sequence' = [next_sequence EXCEPT ![h] = OldestRetained(published)]
    /\ UNCHANGED <<Keep, pc, frame, received>>

ReadBegin(h, destination) ==
    /\ pc[h] = "idle" /\ attached[h]
    /\ \E k \in Loads(h, Published) :
           LET published == ValueAt(k, Published) IN
           /\ Acquire(h, k)
           /\ OldestRetained(published) <= next_sequence[h]
           /\ next_sequence[h] <= published
    /\ frame' = [frame EXCEPT ![h] = [NoFrame EXCEPT !.destination = destination]]
    /\ Goto(h, "before")
    /\ UNCHANGED <<Keep, next_sequence, received>>

WantedCell(h) == CellOf(next_sequence[h])

\* Mutants: the attempts are not bounded; a failed attempt is not counted.
RetryUnbounded(h) ==
    /\ frame' = [frame EXCEPT ![h].attempt = @ + 1]
    /\ Goto(h, "before")

RetryUncounted(h) == Goto(h, "before") /\ UNCHANGED frame

\* The attempt failed: the next one, if there is one left.
Retry(h) ==
    /\ frame' = [frame EXCEPT ![h].attempt = @ + 1]
    /\ Goto(h, IF frame[h].attempt + 1 < ReadAttempts THEN "before" ELSE "unstable")

LoadBefore(h) ==
    /\ pc[h] = "before"
    /\ \E k \in Loads(h, Version(WantedCell(h))) :
           LET before == ValueAt(k, Version(WantedCell(h))) IN
           /\ Acquire(h, k)
           /\ IF before % 2 # 0
              THEN Retry(h)
              ELSE /\ frame' = [frame EXCEPT ![h] = [@ EXCEPT !.before = before,
                                                              !.scratch = << >>]]
                   /\ Goto(h, "sequence")
    /\ UNCHANGED <<Keep, next_sequence, received>>

LoadSequence(h) ==
    /\ pc[h] = "sequence"
    /\ \E k \in Loads(h, SequenceOf(WantedCell(h))) :
           /\ Relaxed(h, k)
           /\ frame' = [frame EXCEPT ![h].sequence = ValueAt(k, SequenceOf(WantedCell(h)))]
    /\ Goto(h, "size")
    /\ UNCHANGED <<Keep, next_sequence, received>>

LoadSize(h) ==
    /\ pc[h] = "size"
    /\ \E k \in Loads(h, SizeOf(WantedCell(h))) :
           /\ Relaxed(h, k)
           /\ frame' = [frame EXCEPT ![h].size = ValueAt(k, SizeOf(WantedCell(h)))]
    /\ Goto(h, "storage")
    /\ UNCHANGED <<Keep, next_sequence, received>>

\* The whole buffer is copied, byte after byte.
LoadByte(h) ==
    LET b == Len(frame[h].scratch) + 1
        loc == StorageOf(WantedCell(h), b)
    IN /\ pc[h] = "storage"
       /\ b <= MaxPayloadSize
       /\ \E k \in Loads(h, loc) :
              /\ Relaxed(h, k)
              /\ frame' = [frame EXCEPT ![h].scratch = Append(@, ValueAt(k, loc))]
       /\ UNCHANGED <<Keep, next_sequence, pc, received>>

AcquireFence(h) ==
    /\ pc[h] = "storage"
    /\ Len(frame[h].scratch) = MaxPayloadSize
    /\ floor' = [floor EXCEPT ![h] = Larger(@, pending[h])]
    /\ Goto(h, "after")
    /\ UNCHANGED <<Keep, next_sequence, frame, pending, received>>

LoadAfter(h) ==
    /\ pc[h] = "after"
    /\ \E k \in Loads(h, Version(WantedCell(h))) :
           /\ Relaxed(h, k)
           /\ IF ValueAt(k, Version(WantedCell(h))) = frame[h].before
              THEN Goto(h, "stable") /\ UNCHANGED frame
              ELSE Retry(h)
    /\ UNCHANGED <<Keep, next_sequence, received>>

\* No stable snapshot, or one of a newer generation.
ReadOverwritten(h) ==
    /\ \/ pc[h] = "unstable"
       \/ pc[h] = "stable" /\ frame[h].sequence # next_sequence[h]
    /\ \E k \in Loads(h, Published) :
           /\ Acquire(h, k)
           /\ next_sequence' = [next_sequence EXCEPT ![h] =
                                   ResumeAfterOverwrite(ValueAt(k, Published), @)]
    /\ Return(h)
    /\ UNCHANGED <<Keep, received>>

\* The destination is too small: the cursor stays.
ReadTooLarge(h) ==
    /\ pc[h] = "stable"
    /\ frame[h].sequence = next_sequence[h]
    /\ frame[h].destination < frame[h].size
    /\ Return(h)
    /\ UNCHANGED <<Keep, next_sequence, floor, pending, received>>

ReadSuccess(h) ==
    /\ pc[h] = "stable"
    /\ frame[h].sequence = next_sequence[h]
    /\ frame[h].destination >= frame[h].size
    /\ received' = [received EXCEPT ![registration[h]] =
                       Append(@, [sequence |-> next_sequence[h],
                                  payload |-> SubSeq(frame[h].scratch, 1, frame[h].size)])]
    /\ next_sequence' = [next_sequence EXCEPT ![h] = @ + 1]
    /\ Return(h)
    /\ UNCHANGED <<Keep, floor, pending>>

-----------------------------------------------------------------------------
Init ==
    /\ stores = << >>
    /\ fence = 0
    /\ publishing = "idle"
    /\ version = 0
    /\ index = 0
    /\ produced = 0
    /\ log = << >>
    /\ attached = [h \in Handles |-> FALSE]
    /\ next_sequence = [h \in Handles |-> 0]
    /\ pc = [h \in Handles |-> "idle"]
    /\ frame = [h \in Handles |-> NoFrame]
    /\ floor = [h \in Handles |-> 0]
    /\ pending = [h \in Handles |-> 0]
    /\ registration = [h \in Handles |-> 0]
    /\ start = << >>
    /\ received = << >>

Publish ==
    \/ \E payload \in Payloads : PublishTooLarge(payload) \/ PublishCall(payload)
    \/ PublishStep

\* The steps with which a consumer gets on with the read() it is in.
ReadStep(h) ==
    \/ LoadBefore(h) \/ LoadSequence(h) \/ LoadSize(h) \/ LoadByte(h) \/ AcquireFence(h)
    \/ LoadAfter(h) \/ ReadOverwritten(h) \/ ReadTooLarge(h) \/ ReadSuccess(h)

ReadCall(h) ==
    \/ ReadInvalid(h) \/ ReadEmpty(h) \/ ReadLagged(h)
    \/ \E destination \in Destinations : ReadBegin(h, destination)

Next ==
    \/ Publish
    \/ \E h \in Handles :
           Register(h) \/ (\E g \in Handles : MoveConsumer(h, g)) \/ ReadCall(h) \/ ReadStep(h)

Spec == Init /\ [][Next]_vars

-----------------------------------------------------------------------------
(* Properties                                                              *)

Labels == {"idle", "before", "sequence", "size", "storage", "after", "stable", "unstable"}

Cells == 0..(Capacity - 1)

Fields(i) == {SequenceOf(i), SizeOf(i)} \union {StorageOf(i, b) : b \in 1..MaxPayloadSize}

\* What a load of a location can return.
Values(loc) ==
    CASE loc[1] = "storage" -> Byte
      [] loc[1] = "size" -> 0..MaxPayloadSize
      [] OTHER -> Nat

Locations == {Published} \union UNION {{Version(i)} \union Fields(i) : i \in Cells}

StoreRecord == [loc : Locations, val : Byte \union Nat, by : Nat, rel : Nat]

ProducerTypes ==
    /\ stores \in Seq(StoreRecord)
    /\ \A k \in 1..Len(stores) :
          /\ stores[k].val \in Values(stores[k].loc)
          /\ stores[k].by \in 1..Len(log)
          /\ stores[k].rel \in 0..k
    /\ fence \in 0..Len(stores)
    /\ publishing \in {"idle", "odd", "fence", "sequence", "size", "storage", "even", "publish"}
    /\ version \in Nat /\ index \in Nat /\ produced \in Nat
    /\ log \in Seq({payload \in Payloads : Len(payload) <= MaxPayloadSize})

Frames == [destination : Destinations \union {0}, attempt : 0..ReadAttempts, before : Nat,
           sequence : Nat, size : 0..MaxPayloadSize, scratch : Seq(Byte)]

Deliveries == Seq([sequence : Nat, payload : Seq(Byte)])

ConsumerTypes ==
    /\ attached \in [Handles -> BOOLEAN]
    /\ next_sequence \in [Handles -> Nat]
    /\ pc \in [Handles -> Labels]
    /\ frame \in [Handles -> Frames]
    /\ floor \in [Handles -> 0..Len(stores)]
    /\ pending \in [Handles -> 0..Len(stores)]
    /\ registration \in [Handles -> 0..Len(start)]
    /\ start \in Seq(Nat)
    /\ received \in Seq(Deliveries)
    /\ Len(received) = Len(start)

\* Type invariant.
TypeOK == ProducerTypes /\ ConsumerTypes

-----------------------------------------------------------------------------
(* The inductive invariant.                                                *)

\* The stores that leave cell i stable, its initialisation included.
EvenStores(i) ==
    {k \in StoresTo(Version(i)) : ValueAt(k, Version(i)) % 2 = 0}

\* The newest of the first n stores to a location.
Newest(loc, n) == {k \in NotOlder(loc, n) : k <= n}

\* After the first n stores a location has the value val.
Holds(loc, n, val) == \A k \in Newest(loc, n) : ValueAt(k, loc) = val

\* Versions grow.  A store to a field after the cell was stable carries a fence
\* that follows the odd version in between.  When the cell is stable its fields
\* are those of one publication, and later ones are a whole lap ahead.
CellInv(i) ==
    /\ \A j, k \in StoresTo(Version(i)) :
          j < k => ValueAt(j, Version(i)) < ValueAt(k, Version(i))
    /\ \A j \in EvenStores(i) : \A loc \in Fields(i) : \A k \in StoresTo(loc) :
          j < k => \E o \in StoresTo(Version(i)) : j < o /\ o <= stores[k].rel
    /\ \A j \in EvenStores(i) \ {0} :
          LET s == stores[j].by IN
          /\ stores[j].rel = j
          /\ Holds(SequenceOf(i), j, s)
          /\ Holds(SizeOf(i), j, Len(log[s]))
          /\ \A b \in 1..Len(log[s]) : Holds(StorageOf(i, b), j, log[s][b])
          /\ \A k \in StoresTo(Version(i)) : j < k => s + Capacity <= stores[k].by

\* Publication s has made its cell stable within the first n stores.
Completed(s, n) ==
    \E k \in EvenStores(CellOf(s)) : 0 < k /\ k <= n /\ stores[k].by = s

PublishedInv ==
    \A k \in StoresTo(Published) \ {0} :
        /\ stores[k].rel = k
        /\ stores[k].val <= Len(log)
        /\ \A s \in 1..stores[k].val : Completed(s, k)

\* The producer is between the two stores to the version of the cell.
Writing == {"fence", "sequence", "size", "storage", "even"}

\* What it has stored to the fields of cell i of publication s, of a payload.
WrittenInv(i, s, payload) ==
    LET end == Len(stores) IN
    /\ publishing \in {"size", "storage", "even"} => Holds(SequenceOf(i), end, s)
    /\ publishing \in {"storage", "even"} =>
          /\ index <= Len(payload)
          /\ Holds(SizeOf(i), end, Len(payload))
          /\ \A b \in 1..index : Holds(StorageOf(i, b), end, payload[b])
    /\ publishing = "even" => index = Len(payload)

\* The version is the one it found, then the odd one that precedes the fence.
PublicationInv(i, s, payload) ==
    /\ publishing \in {"odd"} \union Writing =>
          /\ version % 2 = 0
          /\ \A j \in EvenStores(i) \ {0} : stores[j].by < s
          /\ \E k \in Newest(Version(i), Len(stores)) :
                /\ ValueAt(k, Version(i)) = version + (IF publishing = "odd" THEN 0 ELSE 1)
                /\ publishing \in Writing \ {"fence"} => k <= fence
    /\ WrittenInv(i, s, payload)
    /\ publishing = "publish" => Completed(s, Len(stores))

\* All publications but the one the producer is in are complete, and all cells
\* but the one it writes to are stable.
ProducerInv ==
    /\ Len(log) = IF publishing = "idle" THEN produced ELSE produced + 1
    /\ \A s \in 1..produced : Completed(s, Len(stores))
    /\ \A i \in Cells : \A k \in StoresTo(Version(i)) \ {0} : CellOf(stores[k].by) = i
    /\ \A i \in Cells :
          \/ publishing \in Writing /\ i = Cell
          \/ Newest(Version(i), Len(stores)) \subseteq EvenStores(i)
    /\ publishing # "idle" => PublicationInv(Cell, Sequence, Payload)

\* What a consumer has read into its frame is what store j left stable.
Snapshot(label, f, j) ==
    LET s == stores[j].by IN
    /\ label # "sequence" => f.sequence = s
    /\ label \notin {"sequence", "size"} => f.size = Len(log[s])
    /\ \A b \in 1..Len(f.scratch) : b <= Len(log[s]) => f.scratch[b] = log[s][b]

\* It has read from a later publication, and the check of the version will tell:
\* a version newer than j is among the first n stores.
Torn(i, j, n) == \E k \in StoresTo(Version(i)) : j < k /\ k <= n

\* A consumer that wants publication want and is at label with frame f is ordered
\* after the first low stores, and will be after the acquire fence after the first
\* high stores.
FrameInv(want, label, f, low, high) ==
    LET i == CellOf(want)
        gone == want + Capacity <= Len(log)
    IN
    /\ label = "idle" => f = NoFrame
    /\ label # "idle" => Completed(want, low)
    /\ label # "unstable" => f.attempt < ReadAttempts
    /\ label = "unstable" \/ f.attempt > 0 => gone
    /\ Len(f.scratch) <= MaxPayloadSize
    /\ label \in {"sequence", "size"} => f.scratch = << >>
    /\ label \in {"after", "stable"} => Len(f.scratch) = MaxPayloadSize
    /\ label \in {"sequence", "size", "storage", "after", "stable"} =>
          \E j \in EvenStores(i) \ {0} :
              /\ j <= low
              /\ f.before = ValueAt(j, Version(i))
              /\ stores[j].by = want \/ gone
              /\ \/ Snapshot(label, f, j)
                 \/ label # "stable" /\ Torn(i, j, IF label = "after" THEN low ELSE high)

ConsumerInv(h) ==
    /\ attached[h] => registration[h] # 0 /\ next_sequence[h] # 0
    /\ pc[h] # "idle" => attached[h]
    /\ FrameInv(next_sequence[h], pc[h], frame[h], floor[h], pending[h])

\* What the producer's fences and stores guarantee about every cell, and what a
\* consumer in the middle of read() can rely on.
VersionedInv ==
    /\ TypeOK
    /\ \A i \in Cells : CellInv(i)
    /\ PublishedInv
    /\ ProducerInv
    /\ \A h \in Handles : ConsumerInv(h)

=============================================================================
