# Line64 / orbitqueue: models, checks and proofs

TLA+ models of the queues in `src/include/orbitqueue/` and of the protocols the
stress test and the benchmark run on top of them, checked with TLC on small
instances. The safety properties of all five queues, and those of the stress tests
and benchmark trials that use them, are also proved with TLAPS for every capacity,
every set of threads or handles and every payload.

## The system

Line64 is a header-only C++20 library of five bounded queues of byte messages,
with a stress test and a benchmark.

| part | source | what it promises |
| --- | --- | --- |
| `MPMCQueue` | `mpmc_queue.h` | many producers, many consumers, every message to exactly one consumer, no mutex; one sequence number per cell |
| `VersionedSPMCQueue` | `versioned_spmc_queue.h` | one producer, every registered consumer sees every publication it keeps up with; one seqlock per cell, no mutex |
| `SPMCMulticastQueue` | `spmc_multicast_queue.h` | the same promise under one mutex |
| `SPSCQueue` | `spsc_queue.h` | one producer, one consumer, two indices, wait-free |
| `BlockingQueue` | `blocking_queue.h` | mutex and two condition variables, can be closed |
| `FixedMessage`, statuses | `fixed_message.h`, `result.h` | a message of bounded size in a slot; what operations return |
| stress test | `stress/queue_stress.cpp` | drives each queue and compares what came out with what went in |
| benchmark | `benchmarks/` | measures the queues and external ones, and validates each trial |
| layout, version, build | `detail/cache_layout.h`, `version.h`, CMake | no state |

The queues share only `FixedMessage` and the status type. They interact with the
harnesses, which decide when a queue is drained from its status and from
counters and flags of their own.

## The modules

| module | models | state and actions |
| --- | --- | --- |
| `FixedMessage` | `FixedMessage` | `EmptyMessage`, `Assign`, `CopyTo` as operators on a record of sequence, size and bytes; an `Assign` leaves the bytes beyond the new size as they were, as the code does |
| `MPMCQueue` | `MPMCQueue` | `enqueue_pos`, `dequeue_pos`, `sequence` and `message` per cell; every load, compare-exchange, message access and release store of `try_push`, `try_pop` and `empty` is a step of a thread |
| `VersionedSPMCQueue` | `VersionedSPMCQueue` | the producer's stores in program order with what a release makes visible; each store and fence of `try_publish` is a step; each load of `read()` is a step that may return an older store unless the order forbids it; `make_consumer` and moves of `Consumer` |
| `VersionedContract` | what `VersionedSPMCQueue` promises | the refinement mapping to `MulticastContract`, and the properties stated with it |
| `SPMCMulticastQueue` | `SPMCMulticastQueue` | one step per call, since each holds `mutex_` throughout |
| `SPSCQueue` | `SPSCQueue` | `head`, `tail`, `slots`, and for each side the newest value of the other's index it has seen; a load returns any value from that one on |
| `BlockingQueue` | `BlockingQueue` | one step per critical section; waiting threads are those at `push_wait` and `pop_wait`; a notification made after the unlock is a step of its own; waits may end spuriously |
| `MulticastContract` | what both multicast queues promise | publish, register, move a registration, deliver, skip what is gone |
| `ExclusiveQueue` | what `MPMCQueue` promises | claim a place in the order, publish, take the oldest item, let it go |
| `BoundedFifo` | what `SPSCQueue` and `BlockingQueue` promise | push, pop, close |
| `StressSPSC` | `run_spsc` | extends `SPSCQueue`: its threads take the queue's own steps between their tests of deadline, `producer_done` and `empty()`; `client` says whether that, the check of an undersized read before it or any pair of threads uses the queue |
| `StressBlocking` | `run_blocking_close_smoke` | extends `BlockingQueue`: the main thread fills, launches a call that waits, closes, looks at what the call returned and drains; or any threads use the queue |
| `WorkSharing` | what the programs with several producers and consumers have in common | the threads, where each is in its loop, the counter of producers that have not ended, the join |
| `StressWorkSharing` | `run_mpmc`, `run_blocking` | the queue as its callers see it, the counters, the drain test of the consumers or `close()` by the last producer, the final comparison |
| `SequenceTracker` | `SequenceTracker` | `record` as operators on a sequence of ranges, in the width of the sequence type; `Covered` is the set the ranges stand for |
| `MulticastHarnesses` | `run_spmc_multicast` of the stress test and of the benchmark | extends `MulticastContract` and `SequenceTracker`: a publication enters the ring and is counted in two steps, consumers lag, test their flag and their cursor, and check or record what they read |
| `MergedTrackers` | `count_unique_sequences` | extends `MulticastHarnesses` by one call, made on the trackers that a trial leaves when its threads have been joined: one step for the sort, whose order among equal ranges is left open, and one for each turn of the loop. The benchmark itself never makes this call (its unit test does) |
| `BenchmarkWorkSharing` | `run_work_sharing`, `run_exclusive_pop_adapter`, `run_spsc_adapter`, the check in `make_result` | a FIFO with or without `close()`, ids, the lists compared at the end |
| `MPMCQueueProofs`, `SPSCProofs`, `MulticastContractProofs`, `MutexQueueProofs`, `VersionedPublishProofs`, `VersionedSPMCProofs`, `WorkSharingProofs`, `MulticastHarnessProofs` | | lemmas and proofs |
| `MC...` | | instances for TLC |

Payloads are short sequences of model values, so that sizes, truncation and
mixed bytes are real; sequences and positions are natural numbers (the header of
`MPMCQueue` puts counter exhaustion outside the supported lifetime, and 64 bits
are not exhausted in the others either). Definitions whose comment begins with
`Mutant:` are deliberately wrong variants of the definition that follows; they
are used by nothing else and serve to show that the properties can fail.

A module that models several programs of one shape has a variable (`test`,
`client`, `scenario`) that `Init` chooses and no step changes.

### Memory orders

`MPMCQueue` takes the most generous view: with `StaleReads` a load of a counter
or of a cell's sequence may return any value its location has held so far, even
one older than the thread has already seen; only a compare-exchange that
succeeds acts on the newest. This allows more than C++ does, and the proofs hold
for it. `EmptyIsHonest` and `FullIsHonest` are about
the newest value and are stated for `StaleReads = FALSE` only.

`VersionedSPMCQueue` has one writer, so memory is the list of its stores. Each
consumer has a `floor`, the number of stores that happen before its next load; a
load may return any store to its location that is not older than the newest one
below the floor. Each store says in `rel` how far an acquire through it reaches: a
release store covers all stores up to itself, a relaxed one those before the
producer's last release fence. An acquire load raises the floor to the `rel` of the
store it reads from; a relaxed load collects it in `pending`, and the acquire fence
raises the floor to that. This is what makes the fences of `try_publish` and
`read()` matter in the model. Coherence between relaxed loads of one thread is
not assumed, which again allows more than C++ does.

`SPSCQueue` keeps per side the last index value seen: loads are coherent but may
be old. The mutexes of the other two queues order everything.

## What the runs check

| run | instance | what it shows |
| --- | --- | --- |
| `mpmc_stale` | 2 threads, 2 cells, 3 positions, payloads of 1, 2 and (too large) 3 bytes, old loads | claims exclude each other, positions stay within the capacity, nothing unread is overwritten, each pop returns its push, generations only grow, the queue of exclusive claims is implemented; the invariant of the proof is an invariant |
| `mpmc_threads` | 3 threads, 2 cells, 3 positions, newest loads | nothing is popped twice, full and empty are honest; a thread's call returns when only that thread is scheduled |
| `versioned_weak` | 1 cell, 3 publications, 2 attempts, old loads | no torn or mixed snapshot is delivered, `overwritten` is honest, the multicast contract is implemented; the invariant of the proof is an invariant |
| `versioned_handles` | 2 cells, 3 publications, 2 handles, 2 registrations, moves | in order, no silent loss; `try_read` returns with the producer stopped anywhere; a reader catches up |
| `versioned_resume` | 1 cell, 3 publications | violation: see Findings |
| `spmc_multicast` | 2 slots, 4 publications, 2 handles, 2 registrations | the contract is implemented; slots hold what is retained; a reader catches up |
| `spsc` | 3 slots, 6 pushes, old loads; used by `run_spsc` with 6 iterations, by its check of an undersized read or by any pair of threads | no data race on a slot, a bounded FIFO is implemented; the invariant of the proof; the stress test terminates, has drained the queue and records no failure |
| `blocking` | 3 threads, 1 or 2 places, 4 pushes, 2 items; or `run_blocking_close_smoke` with 1 place | no lost wake-up, a bounded FIFO that can be closed; items reach consumers and `close()` releases everybody; the test of `close()` passes |
| `stress_work_sharing` | 2 producers, 2 consumers, 2 iterations each, `run_mpmc` and `run_blocking` | the stress tests record no failure against a correct queue, leave nothing behind and terminate |
| `multicast_harnesses` | 1 slot, 3 publications, 2 consumers, the largest sequence is 3 | the multicast stress test passes and its consumers leave no retained message unseen; trackers are exact however consumers lag, and so is the count of what all of them have recorded, up to the largest sequence; both programs end |
| `benchmark` | 2 producers, 2 consumers, 4 ids, both kinds of adapter; one of each for `run_spsc_adapter` | with `close()` a trial validates; nothing is read twice or invented; trials end |
| `benchmark_drain` | the same | violation: see Findings |

**Bounds.** Every ring is gone round at least once: with two cells the third
position is the first reuse, and a cell of the versioned queue is rewritten twice
with one cell. Two threads are enough for each pair of racing accesses, a third
makes a claim go stale behind two others. Three threads on a blocking queue of
two places reach two sleepers on one condition variable with a third thread that
notifies. `MaxPositions`, `MaxPublications`, `MaxRegistrations`, `MaxPushes`,
`MaxAccepted`, `Iterations` and `MaxIds` bound counters that the code leaves open;
`ReadAttempts` is 64 in the code. With one slot and three publications a multicast
consumer can miss none, the first, the second or both, so a tracker has gaps
of every kind; `MaxSequence` is the last of them, so that ranges end at the largest
value of the type, where adding one wraps to zero.

**Fairness.** Safety properties need none. `CallsOfOneThreadReturn`, `ReadsReturn`
and the catch-up properties schedule one thread and leave all others free to stop
for good, which is what "non-blocking" in the headers says. In the MPMC queue
strong fairness on the thread's own claim stands for `compare_exchange_weak`
not failing spuriously for ever. The blocking queue schedules threads that are
not waiting, and never relies on spurious wake-ups. The harnesses schedule all
threads, let the deadline pass, and let a stored flag be seen in the end (strong
fairness on the load that sees it), which C++ asks of implementations. In
`MulticastHarnesses` a consumer that goes on reading is also given a message in
the end (strong fairness on the read), which is `ConsumerCatchesUp` of the two
queues.

## Findings

* **A work-sharing trial of a correct queue can fail validation**
  (`benchmark_drain`). With an adapter that has no `close()`, `pop` in
  `run_exclusive_pop_adapter` (`benchmarks/queue_benchmark.cpp:791-793`) calls `try_pop`, gets
  `empty`, and then loads `producers_done`. If the last producer pushes and
  finishes in between, the consumer leaves without asking the queue again; when
  all consumers do, the message is never read. The consumer of `run_spsc_adapter`
  (line 599) has the same gap, and TLC's shortest trace is of that scenario. `docs/benchmarking.md:130` requires "exactly
  one validated read for every successful publication after drain". Asking the
  queue once more after `producers_done` was seen would close the gap. The stress
  tests do not have it: they test the flag first and the queue afterwards
  (`run_spsc`), compare counts (`run_mpmc`) or close the queue (`run_blocking`).
* **`overwritten` may leave the cursor where it was** (`versioned_resume`). When
  the producer is in the middle of writing over the wanted cell, `published_` has
  not moved yet, so `resume_after_overwrite` returns the wanted sequence again
  (`versioned_spmc_queue.h:233`). `README.md:386` says "the cursor resumed at the oldest
  retained sequence". Nothing is lost by it: the next call reports a loss again
  or resumes further on, and `ConsumerCatchesUp` holds.

## What is proved

TLAPS proves the following for every capacity, any set of threads or handles, all
payloads and all destinations. The assumptions are those in the modules: the
capacity is positive (greater than one for `MPMCQueue`; that it is a power of two
is not needed once `position & mask_` is read as a remainder), payloads are byte
sequences, destination sizes are natural numbers, and the threads of
`BlockingQueue` and of the work-sharing programs are finitely many. The programs
that share out work have at least one producer and one consumer. The multicast
programs have finitely many handles and publish no more messages than the sequence
type has values. The stress test of `SPSCQueue` pushes at least one message, every
one of them fits, the first is not empty, and its destinations are those the code
passes.

`MPMCQueueProofs`

* `Invariance`: `Spec => []QueueInv`. What the code promises is not inductive,
  because a thread inside an operation acts on values it loaded earlier.
  `QueueInv` adds, for each cell, which position its sequence says it serves
  (free for position *q*, being written, published, being read), and for each thread
  what is still true of its old values: a claim attempt can succeed only if the
  cell still has the sequence the thread saw, and a thread that has claimed a
  position is the only one for it. Arithmetic on cells comes first (`Division`,
  `DistinctCells`): positions less than the capacity apart have different cells, and positions the
  capacity apart the same one.
* `TypeCorrect`, `NoDataRace` (`ExclusiveOwnership`), `Bounded` (`WithinCapacity`),
  `NothingOverwritten` (`UnreadRetained`), `PopsAreFaithful`
  (`PopReturnsItsPush`), `PopsAreUnique` (`AtMostOnePop`) and `NoGenerationReuse`
  (`GenerationsGrow`) follow from it.
* `RingIsExclusiveQueue`: `Spec => ImplementsExclusiveQueue`. The refinement mapping
  takes the positions from `dequeue_pos_` to `enqueue_pos_` for the entries. The item
  of an entry is read from its cell, and so is the item a consumer has claimed until it
  releases the cell; only while the producer is still writing is it what was passed
  to `try_push`. A won compare-exchange is the claim of a push or the taking of a pop, a
  release store is the publication or the release. All other steps cannot be seen
  (`QuietSteps`). What is hard is that a step on one cell leaves the entries in all
  others as they are, and that a consumer that wins its compare-exchange finds the
  entry published although it looked at the cell's sequence long before; both come
  from `QueueInv` and `Retains`, the step form of `UnreadRetained`.
* `HonestEmpty` and `HonestFull` need the newest values and assume `~ StaleReads`; a
  second invariant, `PastInv`, says that a thread's position is never beyond the
  counter and that cells of past positions carry later sequences.

`SPSCProofs`, the queue of one producer and one consumer and its stress test

* `Invariance`: `Spec => []SPSCInv`, for `SPSCQueue`. The equality test for full
  works although the tail loaded is old, because `head <= seen_tail + Capacity` is
  kept; the slot of every queued message holds it, because the producer writes only
  where the tail it has seen leaves room.
* `TypeCorrect`, `SlotsRaceFree` (`NoDataRace`), and `RingIsFifo`: `Spec =>
  ImplementsFifo`. The refinement mapping reads the queued messages off the log
  between the two indices; the store of `head_` is the enqueue and the store of
  `tail_` the dequeue.
* `StressUsesQueue`: `StressSpec => Spec`. The test takes only steps of the queue, so the
  theorems above hold of it.
* `StressNeverFails`: `StressSpec => []NeverFails`, the safety part of `StressPasses`: no
  check of `run_spsc` fails, and when both threads are done everything published was
  consumed. The consumer leaves on `producer_done` and an empty queue. That this is
  sound is not inductive by itself: the invariant `StressInv` relates what each side has
  counted to the indices and the log, and says that a consumer that has seen the flag
  can no longer load an old `head_`.

`MulticastContractProofs`

* `ContractHolds`: the contract implies `DeliveredAsPublished`, `DeliveredInOrder`
  and `NoSilentLoss`. The invariant `ContractInv` adds that no two attached handles
  share a registration, that the last sequence delivered to a registration is
  before the cursor, and that what the cursor has passed was delivered or is
  gone. Its lemmas are used by both queues.

`MutexQueueProofs`, the two queues that work under a mutex, and the test of `close()`

* `Invariance`: `Spec => []SPMCInv`, for `SPMCMulticastQueue`. The slot of every
  retained sequence holds that publication, so `overwritten` is never returned by this queue.
* `MutexQueueKeepsContract` (`ImplementsContract`) and `NothingLostSilently`
  (`NoSilentLoss`).
* `BlockingTypes` (`BlockingTypeOK`) and `BlockingInvariance`: `BlockingSpec =>
  []BlockingInv`, which is `BlockingTypeOK`, `ConsumersAreWoken` and
  `ProducersAreWoken` together. While a consumer waits, there are at least as many
  consumers about to test the queue and notifications still to be made as there are
  items; the proof counts the threads at each label, and says for each kind of step
  what moving one thread, one more that is notified, or a whole wait set does to
  the counts.
* `NoConsumerForgotten` (`ConsumersAreWoken`) and `NoProducerForgotten`
  (`ProducersAreWoken`) follow from it; `QueueImplementsFifo`: `BlockingSpec =>
  ImplementsClosableFifo`.
* `CloseTestUsesQueue`: `StressSpec => BlockingSpec`, and `CloseTestNeverFails`:
  `StressSpec => []NeverFails`, the safety part of `CloseSmokePasses`. In `StressInv` the
  place of the main thread says what the queue holds and whether it is closed, and
  with that what the waiting call may still return. The call may wait, be woken for
  no reason, or reach the queue only after `close()`.

`VersionedPublishProofs` (what the producer's steps keep) and `VersionedSPMCProofs`
(the consumers' steps and the results)

* `Invariance`: `Spec => []VersionedInv`, the seqlock argument under the memory
  model above. `CellInv` is about the stores to one cell: versions grow; when the
  version is even the fields are those of one publication; and a store to a field
  after that carries a fence that covers the odd version stored before it.
  `ProducerInv` follows the publication that is being made. `FrameInv` says what a
  consumer in the middle of `read()` relies on: what it has copied belongs to
  the publication whose even version it read first, or else a newer version is
  among the stores it will be ordered after by its acquire fence, so that the second
  load of the version cannot return the first value. It also says why giving up
  is honest: an attempt fails only if the cell has been written to again.
* `HonestOverwritten` (`OverwrittenIsHonest`), `SeqlockKeepsContract`
  (`ImplementsContract`).
* `ContractKept`: the invariant of the contract holds of the queue, because the
  queue implements the contract. From it `PayloadsAreThosePublished`
  (`DeliveredAsPublished`), `DeliveriesAreInOrder` (`DeliveredInOrder`) and
  `LossesAreReported` (`NoSilentLoss`).

`WorkSharingProofs`, the stress tests and benchmark trials that share out work

* `StressInvariant`: `Spec => []StressInv`, for `run_mpmc` and `run_blocking` at once.
  That a consumer has drained the queue when it leaves is not inductive: it leaves
  because `popped >= pushed`, and both counters lag behind the queue. `CountInv`
  says by how much: by the producers between a push and its count, and the
  consumers between a pop and its count. `EndInv` says that `remaining` is the number
  of producers in their loop, so a consumer that found it 0 compares counters to
  which no push will be added, and that only the last producer closes the queue.
  `PlaceInv` gives every message put into the queue exactly one place: waiting, in a
  consumer's hands, or consumed. `PublishedInv` and `OrderInv` are what the tests
  inside the loops need: the id popped is marked once, and queue sequences grow for
  each consumer of `run_mpmc`.
* `ConsumersDrain` (`DrainedAtExit`) and `StressNeverFails` (`StressPasses`).
* `TrialInvariant`: `TrialSpec => []TrialInv`, for all three scenarios of
  `BenchmarkWorkSharing`. `IdInv`: ids are used once, and what has been read or is
  queued is what has been recorded or is about to be (a message can be read before
  its producer has recorded it). `TrialEndInv`: with `close()`, a consumer leaves only
  when all producers have ended and the queue is empty.
* `TrialsAreSound` (`TrialIsSound`). That every trial validates, `TrialValidates`, is
  false (see Findings); the theorem says for which adapters it is true and what is
  true of the others.

`MulticastHarnessProofs`, the multicast stress test and benchmark

* `HarnessInvariant`: `HarnessSpec => []HarnessInv`. `ProducerInv` follows the
  publication in progress, `LoadInv` says that a consumer that has seen
  `producer_done` has loaded the final `published_`, and `SeenInv` that what its cursor
  has passed was seen or is gone. Lemma `RecordAdds` is about
  `SequenceTracker::record`: a sequence beyond all ranges is added to the set they
  cover, and they stay in order and apart.
* `MulticastStressPasses` (`StressPasses`), and `TrackersLoseNothing`
  (`EachTrackerIsExact`, the part of `TrackersAreExact` about one tracker).
* `CountInvariant`: `CountSpec => [](HarnessInv /\ CountInv)`, for
  `count_unique_sequences`. In its loop (`LoopInv`) all that has been merged is the current
  range and, below it, as many sequences as have been counted; the order of the sort
  is what keeps a later range from reaching below the current one. From it
  `UniqueCountIsExact` (`TrackersAreExact`): the result is the number of sequences that
  anybody has read, and no sum wraps.

The invariants of the programs were model-checked on the instances of
the runs before they were proved (`StressInv` with the ids bounded, which TLC has to
enumerate); the runs themselves check the properties that
follow from them.

Only model-checked are the liveness properties, since fairness is outside the
prover's reach: `CallsOfOneThreadReturn`, `ReadsReturn`, `ConsumerCatchesUp`,
`ItemsReachConsumers`, `CloseReleasesAll`, `StressTerminates`, `HarnessEnds`, `TrialEnds`,
and of `CloseSmokePasses` and the `StressPasses` of `StressSPSC` the half that says that
the test ends. Every safety property of a passing run is a theorem.

The provers cannot do an induction over data. Where the code has a loop over data
(`record`, `count_unique_sequences`), each turn is a step or an operator without recursion, so
that the induction is over steps.

No module declares a `RECURSIVE` operator.

## What is not modelled

* Alignment and padding (`detail/cache_layout.h`), version constants, build files.
* Exhaustion of 64-bit counters of the queues.
* The time limits of `run_blocking_close_smoke`: that a call returns within a second
  is left to fairness.
* That `position & mask_` is a remainder, and the constructors' checks of their
  argument: the capacity is a constant and the checks are assumptions about it.
* In the benchmark's work-sharing scenarios, the comparison of queue sequences (a
  message is its id there), retry counters and rates.
* Text: `to_string`, JSON output, command lines, the table of scenarios.
* The byte layout of stress and benchmark payloads and their checksum; the models
  compare payloads as values.
* Queues that are not part of the repository. In `BenchmarkWorkSharing` they are
  the FIFO without `close()`.
* `src/verification/`: models of the same queues, not code that runs.
