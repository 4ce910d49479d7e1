-------------------------- MODULE MutexQueueProofs --------------------------
(***************************************************************************)
(* Proofs about the two queues that work under a mutex.                    *)
(*                                                                         *)
(* BlockingQueue and the test of close(), for any number of threads and    *)
(* any capacity: the queue is never overfull, no wakeup is lost, what      *)
(* callers see is a FIFO that can be closed, and the test does not fail.   *)
(* The argument about wakeups counts the threads at each label.  A step    *)
(* moves one thread from one label to another, a notification moves one    *)
(* more out of a wait set, and close() empties a wait set; the lemmas say  *)
(* what that does to the counts.                                           *)
(*                                                                         *)
(* SPMCMulticastQueue, for every capacity, any number of Consumer objects  *)
(* and all payloads: SPMCInv is inductive, and every operation is a step   *)
(* of the multicast contract or leaves what its callers see unchanged.     *)
(***************************************************************************)
EXTENDS StressBlocking, SPMCMulticastQueue, TLAPS

-----------------------------------------------------------------------------
(* Types, and the bound of the queue.                                      *)

LEMMA CapacityType == BlockingTypeOK => capacity \in Nat \ {0} /\ Len(queue) \in Nat
BY BlockingAssumption DEF BlockingTypeOK

\* What the operations do to the queue.
LEMMA EnqueueType ==
    ASSUME BlockingTypeOK, NEW x \in Items, Enqueue(x), Len(queue) < capacity
    PROVE  /\ queue' \in Seq(Items) /\ Len(queue') = Len(queue) + 1 /\ Len(queue') <= capacity'
           /\ accepted' \in Nat
           /\ UNCHANGED <<capacity, closed, taken>>
<1>1. capacity \in Nat /\ queue \in Seq(Items) /\ accepted \in Nat
  BY CapacityType, Zenon DEF BlockingTypeOK
<1>2. queue' = Append(queue, x) /\ accepted' = accepted + 1 /\ capacity' = capacity
  BY Zenon DEF Enqueue
<1>. QED  BY <1>1, <1>2, SMT DEF Enqueue

LEMMA DequeueType ==
    ASSUME BlockingTypeOK, Dequeue, queue # << >>
    PROVE  /\ queue' \in Seq(Items) /\ Len(queue') = Len(queue) - 1 /\ Len(queue') <= capacity'
           /\ Len(queue) > 0
           /\ taken' \in Seq(Items)
           /\ UNCHANGED <<capacity, closed, accepted>>
<1>1. /\ capacity \in Nat /\ queue \in Seq(Items) /\ Len(queue) <= capacity
      /\ taken \in Seq(Items)
  BY CapacityType, Zenon DEF BlockingTypeOK
<1>2. queue' = Tail(queue) /\ taken' = Append(taken, Head(queue)) /\ capacity' = capacity
  BY Zenon DEF Dequeue
<1>. QED  BY <1>1, <1>2, SMT DEF Dequeue

\* Where the threads are after a step, and that a thread that pushes has an item.
Placed(p, held) ==
    /\ p \in [Threads -> Labels]
    /\ held \in [Threads -> Items \union {NoItem}]
    /\ \A t \in Threads : p[t] \in {"push", "push_wait"} => held[t] \in Items

LEMMA GotoPlaced ==
    ASSUME Placed(pc, item), NEW t \in Threads, NEW to \in Labels, Goto(t, to),
           to \in {"push", "push_wait"} => pc[t] \in {"push", "push_wait"},
           UNCHANGED item
    PROVE  Placed(pc', item')
<1>1. pc' \in [Threads -> Labels] /\ pc'[t] = to /\ \A u \in Threads \ {t} : pc'[u] = pc[u]
  BY Zenon DEF Placed, Goto
<1>. QED  BY <1>1, Zenon DEF Placed

LEMMA NotifyOnePlaced ==
    ASSUME Placed(pc, item), NEW t \in Threads, NEW waits, NEW resume \in Labels,
           NotifyOne(t, "idle", At(waits), resume), UNCHANGED item,
           resume \in {"push", "push_wait"} => waits = "push_wait"
    PROVE  Placed(pc', item')
<1>0. "idle" \in Labels /\ "idle" \notin {"push", "push_wait"}
  BY Zenon DEF Labels
<1>1. CASE At(waits) = {}
  <2>1. Goto(t, "idle")
    BY <1>1, Zenon DEF NotifyOne
  <2>. QED  BY <1>0, <2>1, GotoPlaced, Zenon
<1>2. CASE At(waits) # {}
  <2>1. PICK w \in At(waits) : pc' = [pc EXCEPT ![t] = "idle", ![w] = resume]
    BY <1>2, Zenon DEF NotifyOne
  <2>2. w \in Threads /\ pc[w] = waits
    BY <2>1, Zenon DEF At
  <2>3. /\ pc' \in [Threads -> Labels] /\ pc'[w] = resume
        /\ \A u \in Threads \ {w} : pc'[u] = pc[u] \/ pc'[u] = "idle"
    BY <1>0, <2>1, <2>2, SMT DEF Placed
  <2>4. ASSUME NEW u \in Threads, pc'[u] \in {"push", "push_wait"}
        PROVE  item'[u] \in Items
    <3>1. CASE u = w
      BY <2>2, <2>3, <2>4, <3>1, Zenon DEF Placed
    <3>2. CASE u # w
      BY <1>0, <2>3, <2>4, <3>2, Zenon DEF Placed
    <3>. QED  BY <3>1, <3>2, Zenon
  <2>. QED  BY <2>3, <2>4, Zenon DEF Placed
<1>. QED  BY <1>1, <1>2, Zenon

LEMMA NotifyAllPlaced ==
    ASSUME Placed(pc, item), NEW t \in Threads, NEW to \in Labels, NEW waits,
           NEW resume \in Labels, NotifyAll(t, to, At(waits), resume), UNCHANGED item,
           to \notin {"push", "push_wait"},
           resume \in {"push", "push_wait"} => waits = "push_wait"
    PROVE  Placed(pc', item')
<1>1. pc' \in [Threads -> Labels]
  BY Zenon DEF Placed, NotifyAll
<1>2. ASSUME NEW u \in Threads, pc'[u] \in {"push", "push_wait"}
      PROVE  item'[u] \in Items
  <2>1. u # t /\ pc'[u] = IF u \in At(waits) THEN resume ELSE pc[u]
    BY <1>2, Zenon DEF NotifyAll
  <2>. QED  BY <1>2, <2>1, Zenon DEF Placed, At
<1>. QED  BY <1>1, <1>2, Zenon DEF Placed

LEMMA TypeSplit ==
    /\ BlockingTypeOK <=> /\ capacity \in Capacities /\ queue \in Seq(Items) /\ Len(queue) <= capacity
                  /\ closed \in BOOLEAN /\ accepted \in Nat /\ taken \in Seq(Items)
                  /\ Placed(pc, item)
    /\ BlockingTypeOK' <=> /\ capacity' \in Capacities /\ queue' \in Seq(Items)
                   /\ Len(queue') <= capacity' /\ closed' \in BOOLEAN
                   /\ accepted' \in Nat /\ taken' \in Seq(Items)
                   /\ Placed(pc', item')
BY Zenon DEF BlockingTypeOK, Placed

LEMMA InitType == BlockingInit => BlockingTypeOK
<1>. SUFFICES ASSUME BlockingInit PROVE BlockingTypeOK
  OBVIOUS
<1>1. Placed(pc, item)
  BY Zenon DEF BlockingInit, Placed, Labels
<1>2. queue \in Seq(Items) /\ Len(queue) = 0 /\ taken \in Seq(Items) /\ accepted \in Nat
  BY DEF BlockingInit
<1>3. capacity \in Capacities /\ capacity \in Nat /\ closed \in BOOLEAN
  BY BlockingAssumption, Zenon DEF BlockingInit
<1>4. Len(queue) <= capacity
  BY <1>2, <1>3
<1>. QED  BY <1>1, <1>2, <1>3, <1>4, TypeSplit, Zenon

LEMMA TypeStep == BlockingTypeOK /\ [BlockingNext]_blocking => BlockingTypeOK'
<1>. SUFFICES ASSUME BlockingTypeOK, [BlockingNext]_blocking PROVE BlockingTypeOK'
  OBVIOUS
<1>0. /\ Placed(pc, item) /\ capacity \in Capacities /\ queue \in Seq(Items)
      /\ Len(queue) <= capacity /\ closed \in BOOLEAN
      /\ accepted \in Nat /\ taken \in Seq(Items)
  BY TypeSplit, Zenon
<1>l. /\ {"idle", "push", "push_wait", "push_notify", "pop", "pop_wait", "pop_notify",
           "close_empty", "close_full"} \subseteq Labels
      /\ {"idle", "push_notify", "pop", "pop_wait", "pop_notify", "close_empty", "close_full"}
             \intersect {"push", "push_wait"} = {}
  BY Zenon DEF Labels
<1>q. UNCHANGED <<capacity, queue, closed, accepted, taken>> /\ Placed(pc', item') => BlockingTypeOK'
  BY <1>0, TypeSplit, Zenon
<1>g. ASSUME NEW t \in Threads, NEW to \in Labels, Goto(t, to), UNCHANGED item,
             to \in {"push", "push_wait"} => pc[t] \in {"push", "push_wait"}
      PROVE  Placed(pc', item')
  BY <1>0, <1>g, GotoPlaced, Zenon
<1>e. ASSUME NEW x \in Items, Enqueue(x), Len(queue) < capacity, Placed(pc', item')
      PROVE  BlockingTypeOK'
  BY <1>0, <1>e, EnqueueType, TypeSplit, Zenon
<1>d. ASSUME Dequeue, queue # << >>, Placed(pc', item')
      PROVE  BlockingTypeOK'
  BY <1>0, <1>d, DequeueType, TypeSplit, Zenon
<1>n. ASSUME NEW t \in Threads, NEW waits, NEW resume \in Labels,
             NotifyOne(t, "idle", At(waits), resume), UNCHANGED item,
             resume \in {"push", "push_wait"} => waits = "push_wait"
      PROVE  Placed(pc', item')
  BY <1>0, <1>n, NotifyOnePlaced, Zenon
<1>p. ASSUME NEW t \in Threads, NEW to \in Labels \ {"push", "push_wait"}, Goto(t, to),
             item' = [item EXCEPT ![t] = NoItem]
      PROVE  Placed(pc', item')
  <2>1. pc' \in [Threads -> Labels] /\ pc'[t] = to /\ \A u \in Threads \ {t} : pc'[u] = pc[u]
    BY <1>0, <1>p, Zenon DEF Placed, Goto
  <2>2. /\ item' \in [Threads -> Items \union {NoItem}]
        /\ \A u \in Threads \ {t} : item'[u] = item[u]
    BY <1>0, <1>p, Zenon DEF Placed
  <2>. QED  BY <1>0, <1>p, <2>1, <2>2, Zenon DEF Placed
<1>1. CASE UNCHANGED blocking
  BY <1>0, <1>1, <1>q, Zenon DEF blocking
<1>2. ASSUME NEW t \in Threads, Call(t)
      PROVE  BlockingTypeOK'
  <2>1. ASSUME NEW x \in Items, PushBegins(t, x)
        PROVE  BlockingTypeOK'
    <3>1. pc' \in [Threads -> Labels] /\ \A u \in Threads \ {t} : pc'[u] = pc[u]
      BY <1>0, <1>l, <2>1, Zenon DEF Placed, PushBegins, Goto
    <3>2. /\ item' \in [Threads -> Items \union {NoItem}] /\ item'[t] = x
          /\ \A u \in Threads \ {t} : item'[u] = item[u]
      BY <1>0, <2>1, Zenon DEF Placed, PushBegins
    <3>3. Placed(pc', item')
      BY <1>0, <3>1, <3>2, Zenon DEF Placed
    <3>. QED  BY <2>1, <3>3, <1>q, Zenon DEF PushBegins
  <2>2. ASSUME NEW x \in Items, TryPush(t, x)
        PROVE  BlockingTypeOK'
    <3>1. Len(queue) < capacity
      BY <1>0, <2>2, CapacityType DEF TryPush
    <3>2. Placed(pc', item')
      BY <1>l, <1>n, <2>2, Zenon DEF TryPush, not_empty
    <3>. QED  BY <1>e, <2>2, <3>1, <3>2, Zenon DEF TryPush
  <2>3. CASE PopBegins(t)
    BY <1>l, <1>g, <1>q, <2>3, Zenon DEF PopBegins
  <2>4. CASE TryPop(t)
    <3>1. Placed(pc', item')
      BY <1>l, <1>n, <2>4, Zenon DEF TryPop, not_full
    <3>. QED  BY <1>d, <2>4, <3>1, Zenon DEF TryPop
  <2>5. CASE TryPushRefused(t) \/ TryPopRefused(t)
    BY <1>1, <2>5, Zenon DEF TryPushRefused, TryPopRefused
  <2>6. CASE Close(t)
    <3>1. Placed(pc', item')
      BY <1>l, <1>g, <2>6, Zenon DEF Close
    <3>. QED  BY <1>0, <2>6, <3>1, TypeSplit, Zenon DEF Close
  <2>. QED  BY <1>2, <2>1, <2>2, <2>3, <2>4, <2>5, <2>6, Zenon DEF Call
<1>3. ASSUME NEW t \in Threads, Step(t)
      PROVE  BlockingTypeOK'
  <2>1. CASE PushWait(t)
    BY <1>l, <1>g, <1>q, <2>1, Zenon DEF PushWait
  <2>2. CASE PushClosed(t)
    BY <1>l, <1>p, <1>q, <2>2, Zenon DEF PushClosed
  <2>3. CASE PushItem(t)
    <3>1. item[t] \in Items
      BY <1>0, <2>3, Zenon DEF PushItem, Placed
    <3>2. Placed(pc', item')
      BY <1>l, <1>p, <2>3, Zenon DEF PushItem
    <3>. QED  BY <1>e, <2>3, <3>1, <3>2, Zenon DEF PushItem
  <2>4. CASE PushNotify(t)
    BY <1>l, <1>n, <1>q, <2>4, Zenon DEF PushNotify, not_empty
  <2>5. CASE PopWait(t) \/ PopClosed(t)
    BY <1>l, <1>g, <1>q, <2>5, Zenon DEF PopWait, PopClosed
  <2>6. CASE PopItem(t)
    <3>1. Placed(pc', item')
      BY <1>l, <1>g, <2>6, Zenon DEF PopItem
    <3>. QED  BY <1>d, <2>6, <3>1, Zenon DEF PopItem
  <2>7. CASE PopNotify(t)
    BY <1>l, <1>n, <1>q, <2>7, Zenon DEF PopNotify, not_full
  <2>8. CASE CloseNotEmpty(t)
    BY <1>0, <1>l, <1>q, <2>8, NotifyAllPlaced, Zenon DEF CloseNotEmpty, not_empty
  <2>9. CASE CloseNotFull(t)
    BY <1>0, <1>l, <1>q, <2>9, NotifyAllPlaced, Zenon DEF CloseNotFull, not_full
  <2>. QED
    BY <1>3, <2>1, <2>2, <2>3, <2>4, <2>5, <2>6, <2>7, <2>8, <2>9, Zenon DEF Step
<1>4. ASSUME NEW t \in Threads, SpuriousWakeup(t)
      PROVE  BlockingTypeOK'
  BY <1>l, <1>g, <1>q, <1>4, Zenon DEF SpuriousWakeup
<1>. QED  BY <1>1, <1>2, <1>3, <1>4, Zenon DEF BlockingNext

\* Whatever push, pop, try_push, try_pop and close of any number of threads do, the
\* queue never holds more than capacity_ items.
THEOREM BlockingTypes == BlockingSpec => []BlockingTypeOK
<1>. QED  BY InitType, TypeStep, PTL DEF BlockingSpec

-----------------------------------------------------------------------------
(* The queue implements the bounded FIFO that can be closed.               *)

LEMMA BlockingInitFifo == BlockingInit => ClosableFifo!Init
BY BlockingAssumption, Zenon DEF BlockingInit, ClosableFifo!Init

LEMMA FifoStep == BlockingTypeOK /\ [BlockingNext]_blocking => [ClosableFifo!Next]_(ClosableFifo!vars)
<1>. SUFFICES ASSUME BlockingTypeOK, [BlockingNext]_blocking PROVE [ClosableFifo!Next]_(ClosableFifo!vars)
  OBVIOUS
<1>u. UNCHANGED <<capacity, queue, closed, taken>> => [ClosableFifo!Next]_(ClosableFifo!vars)
  BY Zenon DEF ClosableFifo!vars
<1>e. ASSUME NEW x \in Items, Enqueue(x), ~ closed, Len(queue) < capacity
      PROVE  ClosableFifo!Enqueue
  BY <1>e, Zenon DEF ClosableFifo!Enqueue, Enqueue
<1>d. ASSUME Dequeue, queue # << >>
      PROVE  ClosableFifo!Dequeue
  BY <1>d, Zenon DEF ClosableFifo!Dequeue, Dequeue
<1>1. CASE UNCHANGED blocking
  BY <1>1, <1>u, Zenon DEF blocking
<1>2. ASSUME NEW t \in Threads, Call(t)
      PROVE  [ClosableFifo!Next]_(ClosableFifo!vars)
  <2>1. CASE (\E x \in Items : PushBegins(t, x)) \/ PopBegins(t)
    BY <1>u, <2>1, Zenon DEF PushBegins, PopBegins
  <2>2. ASSUME NEW x \in Items, TryPush(t, x)
        PROVE  ClosableFifo!Enqueue
    <3>1. Len(queue) < capacity
      BY <2>2, CapacityType DEF TryPush, BlockingTypeOK
    <3>. QED  BY <1>e, <2>2, <3>1, Zenon DEF TryPush
  <2>3. CASE TryPop(t)
    BY <1>d, <2>3, Zenon DEF TryPop, ClosableFifo!Next
  <2>4. CASE TryPushRefused(t) \/ TryPopRefused(t)
    BY <1>1, <2>4, Zenon DEF TryPushRefused, TryPopRefused
  <2>5. CASE Close(t)
    BY <2>5, Zenon DEF Close, ClosableFifo!Close, ClosableFifo!Next
  <2>. QED  BY <1>2, <2>1, <2>2, <2>3, <2>4, <2>5, Zenon DEF Call, ClosableFifo!Next
<1>3. ASSUME NEW t \in Threads, Step(t)
      PROVE  [ClosableFifo!Next]_(ClosableFifo!vars)
  <2>1. CASE PushItem(t)
    <3>1. item[t] \in Items
      BY <2>1, Zenon DEF PushItem, BlockingTypeOK
    <3>. QED  BY <1>e, <2>1, <3>1, Zenon DEF PushItem, ClosableFifo!Next
  <2>2. CASE PopItem(t)
    BY <1>d, <2>2, Zenon DEF PopItem, ClosableFifo!Next
  <2>3. CASE ~ (PushItem(t) \/ PopItem(t))
    <3>1. UNCHANGED <<capacity, queue, closed, taken>>
      BY <1>3, <2>3, Zenon DEF Step, PushWait, PushClosed, PushNotify, PopWait, PopClosed,
                               PopNotify, CloseNotEmpty, CloseNotFull
    <3>. QED  BY <1>u, <3>1, Zenon
  <2>. QED  BY <2>1, <2>2, <2>3, Zenon
<1>4. ASSUME NEW t \in Threads, SpuriousWakeup(t)
      PROVE  [ClosableFifo!Next]_(ClosableFifo!vars)
  BY <1>4, <1>u, Zenon DEF SpuriousWakeup
<1>. QED  BY <1>1, <1>2, <1>3, <1>4, Zenon DEF BlockingNext

\* To its callers the queue is a bounded FIFO: nothing is accepted after close() or
\* beyond the capacity, and items are handed out in the order they were accepted.
THEOREM QueueImplementsFifo == BlockingSpec => ImplementsClosableFifo
<1>1. BlockingSpec => []BlockingTypeOK
  BY BlockingTypes
<1>. QED  BY <1>1, BlockingInitFifo, FifoStep, PTL DEF BlockingSpec, ImplementsClosableFifo, ClosableFifo!Spec

-----------------------------------------------------------------------------
(* The test of close().                                                    *)

\* A thread goes to a place, or gets a result, and the others stay as they are.
Goes(t, to) == pc'[t] = to /\ \A u \in Threads \ {t} : pc'[u] = pc[u]
Gets(t, x) ==
    /\ returned' \in [Threads -> Results]
    /\ returned'[t] = x /\ \A u \in Threads \ {t} : returned'[u] = returned[u]

LEMMA GotoMoves ==
    ASSUME NEW t \in Threads, NEW to, pc \in [Threads -> Labels], Goto(t, to)
    PROVE  Goes(t, to)
BY Zenon DEF Goto, Goes

LEMMA ExceptGets ==
    ASSUME NEW t \in Threads, NEW x \in Results, returned \in [Threads -> Results],
           returned' = [returned EXCEPT ![t] = x]
    PROVE  Gets(t, x)
BY Zenon DEF Gets

\* A notification that nobody waits for.
LEMMA NobodyNotified ==
    ASSUME NEW t \in Threads, NEW to, NEW waits, NEW resume, pc \in [Threads -> Labels],
           NotifyOne(t, to, At(waits), resume), \A u \in Threads : pc[u] # waits
    PROVE  Goes(t, to)
<1>1. At(waits) = {}
  BY Zenon DEF At
<1>2. Goto(t, to)
  BY <1>1, Zenon DEF NotifyOne
<1>. QED  BY <1>2, GotoMoves, Zenon

\* close() wakes all threads that wait.
LEMMA AllNotified ==
    ASSUME NEW t \in Threads,
           \/ NotifyAll(t, "close_full", not_empty, "pop")
           \/ NotifyAll(t, "idle", not_full, "push")
    PROVE  \/ /\ pc'[t] = "close_full"
              /\ \A u \in Threads \ {t} : pc'[u] = IF pc[u] = "pop_wait" THEN "pop" ELSE pc[u]
           \/ /\ pc'[t] = "idle"
              /\ \A u \in Threads \ {t} : pc'[u] = IF pc[u] = "push_wait" THEN "push" ELSE pc[u]
<1>1. CASE NotifyAll(t, "close_full", not_empty, "pop")
  <2>1. pc'[t] = "close_full"
    BY <1>1, Zenon DEF NotifyAll
  <2>2. ASSUME NEW u \in Threads \ {t} PROVE pc'[u] = IF pc[u] = "pop_wait" THEN "pop" ELSE pc[u]
    BY <1>1, Zenon DEF NotifyAll, not_empty, At
  <2>. QED  BY <2>1, <2>2, Zenon
<1>2. CASE NotifyAll(t, "idle", not_full, "push")
  <2>1. pc'[t] = "idle"
    BY <1>2, Zenon DEF NotifyAll
  <2>2. ASSUME NEW u \in Threads \ {t} PROVE pc'[u] = IF pc[u] = "push_wait" THEN "push" ELSE pc[u]
    BY <1>2, Zenon DEF NotifyAll, not_full, At
  <2>. QED  BY <2>1, <2>2, Zenon
<1>. QED  BY <1>1, <1>2, Zenon

\* What the next step of a call does, by the place the call has reached.
LEMMA CallSteps ==
    ASSUME pc \in [Threads -> Labels], returned \in [Threads -> Results],
           NEW t \in Threads, CallStep(t)
    PROVE  /\ UNCHANGED <<main, failed, capacity, closed>>
           /\ \/ /\ pc[t] = "push" /\ UNCHANGED <<queue, taken>>
                 /\ \/ ~ closed /\ Len(queue) >= capacity /\ Goes(t, "push_wait") /\ Gets(t, returned[t])
                    \/ closed /\ Goes(t, "idle") /\ Gets(t, "closed")
              \/ /\ pc[t] = "push" /\ ~ closed /\ Len(queue) < capacity
                 /\ queue' = Append(queue, item[t]) /\ UNCHANGED taken
                 /\ Goes(t, "push_notify") /\ Gets(t, "success")
              \/ /\ pc[t] = "pop" /\ queue = << >> /\ UNCHANGED <<queue, taken>>
                 /\ \/ ~ closed /\ Goes(t, "pop_wait") /\ Gets(t, returned[t])
                    \/ closed /\ Goes(t, "idle") /\ Gets(t, "nullopt")
              \/ /\ pc[t] = "pop" /\ queue # << >>
                 /\ queue' = Tail(queue) /\ taken' = Append(taken, Head(queue))
                 /\ Goes(t, "pop_notify") /\ Gets(t, "item")
              \/ /\ UNCHANGED <<queue, taken>> /\ Gets(t, returned[t])
                 /\ \/ pc[t] = "push_notify" /\ NotifyOne(t, "idle", not_empty, "pop")
                    \/ pc[t] = "pop_notify" /\ NotifyOne(t, "idle", not_full, "push")
                    \/ pc[t] = "close_empty" /\ NotifyAll(t, "close_full", not_empty, "pop")
                    \/ pc[t] = "close_full" /\ NotifyAll(t, "idle", not_full, "push")
<1>1. /\ Step(t) /\ UNCHANGED <<main, failed>>
      /\ returned' = [returned EXCEPT ![t] = Outcome(t, pc[t], pc'[t])]
  BY Zenon DEF CallStep
<1>2. returned[t] \in Results /\ {"success", "closed", "item", "nullopt"} \subseteq Results
  BY Zenon DEF Results
<1>3. /\ \A to : Outcome(t, "push_notify", to) = returned[t] /\ Outcome(t, "pop_notify", to) = returned[t]
      /\ \A to : Outcome(t, "close_empty", to) = returned[t] /\ Outcome(t, "close_full", to) = returned[t]
      /\ Outcome(t, "push", "push_wait") = returned[t] /\ Outcome(t, "pop", "pop_wait") = returned[t]
      /\ Outcome(t, "push", "push_notify") = "success" /\ Outcome(t, "push", "idle") = "closed"
      /\ Outcome(t, "pop", "pop_notify") = "item" /\ Outcome(t, "pop", "idle") = "nullopt"
  BY Zenon DEF Outcome
<1>4. ASSUME NEW x \in Results, Outcome(t, pc[t], pc'[t]) = x
      PROVE  Gets(t, x)
  BY <1>1, <1>4, ExceptGets, Zenon
<1>5. ASSUME NEW to, Goto(t, to) PROVE Goes(t, to) /\ pc'[t] = to
  BY <1>5, GotoMoves, Zenon DEF Goes
<1>6. CASE PushWait(t)
  BY <1>1, <1>2, <1>3, <1>4, <1>5, <1>6, Zenon DEF PushWait
<1>7. CASE PushClosed(t)
  BY <1>1, <1>2, <1>3, <1>4, <1>5, <1>7, Zenon DEF PushClosed
<1>8. CASE PushItem(t)
  BY <1>1, <1>2, <1>3, <1>4, <1>5, <1>8, Zenon DEF PushItem, Enqueue
<1>9. CASE PopWait(t)
  BY <1>1, <1>2, <1>3, <1>4, <1>5, <1>9, Zenon DEF PopWait
<1>10. CASE PopClosed(t)
  BY <1>1, <1>2, <1>3, <1>4, <1>5, <1>10, Zenon DEF PopClosed
<1>11. CASE PopItem(t)
  BY <1>1, <1>2, <1>3, <1>4, <1>5, <1>11, Zenon DEF PopItem, Dequeue
<1>12. CASE PushNotify(t) \/ PopNotify(t)
  BY <1>1, <1>2, <1>3, <1>4, <1>12, Zenon DEF PushNotify, PopNotify
<1>13. CASE CloseNotEmpty(t) \/ CloseNotFull(t)
  BY <1>1, <1>2, <1>3, <1>4, <1>13, Zenon DEF CloseNotEmpty, CloseNotFull
<1>. QED
  BY <1>1, <1>6, <1>7, <1>8, <1>9, <1>10, <1>11, <1>12, <1>13, Zenon DEF Step

LEMMA TestThreads == Main \in Threads /\ Async \in Threads /\ Main # Async
BY StressAssumption, Zenon

\* The other threads take no part.
OthersIdle == \A t \in Threads \ {Main, Async} : pc[t] = "idle"

\* A call goes on while the other thread waits in pop.
LEMMA WaitingPopCall ==
    ASSUME BlockingTypeOK, returned \in [Threads -> Results], OthersIdle, WaitingPopInv,
           NEW t \in {Main, Async}, CallStep(t)
    PROVE  returned' \in [Threads -> Results] /\ OthersIdle' /\ WaitingPopInv' /\ UNCHANGED failed
<1>1. pc \in [Threads -> Labels]
  BY Zenon DEF BlockingTypeOK
<1>2. /\ UNCHANGED <<main, failed, capacity, closed>> /\ t \in Threads
  BY <1>1, CallSteps, TestThreads, Zenon
<1>3. queue = << >> /\ pc[Main] \in Closing /\ (pc[Main] # "idle" => main = "closing")
  BY Zenon DEF WaitingPopInv
<1>4. pc[Async] \in {"pop", "pop_wait", "idle"} /\ (pc[Async] = "pop" => main # "launch" /\ returned[Async] = "nothing")
  BY Zenon DEF WaitingPopInv, AsyncIn, AsyncOut
<1>5. CASE t = Async
  <2>1. /\ pc[t] = "pop" /\ UNCHANGED <<queue, taken>>
        /\ \/ ~ closed /\ Goes(t, "pop_wait") /\ Gets(t, returned[t])
           \/ closed /\ Goes(t, "idle") /\ Gets(t, "nullopt")
    BY <1>1, <1>2, <1>3, <1>4, <1>5, CallSteps, SMT
  <2>2. /\ returned' \in [Threads -> Results] /\ pc'[Main] = pc[Main]
        /\ \A u \in Threads \ {Main, Async} : pc'[u] = pc[u]
        /\ \/ ~ closed /\ pc'[Async] = "pop_wait" /\ returned'[Async] = returned[Async]
           \/ closed /\ pc'[Async] = "idle" /\ returned'[Async] = "nullopt"
    BY <1>5, <2>1, TestThreads, Zenon DEF Goes, Gets
  <2>3. OthersIdle'
    BY <2>2, Zenon DEF OthersIdle
  <2>4. AsyncIn("pop", "pop_wait", "nullopt")'
    BY <1>2, <1>4, <1>5, <2>1, <2>2, Zenon DEF AsyncIn
  <2>5. WaitingPopInv'
    BY <1>2, <1>4, <1>5, <2>1, <2>2, <2>4, Zenon DEF WaitingPopInv
  <2>. QED  BY <1>2, <2>2, <2>3, <2>5, Zenon
<1>6. CASE t = Main
  <2>1. /\ UNCHANGED <<queue, taken>> /\ Gets(t, returned[t])
        /\ \/ pc[t] = "close_empty" /\ NotifyAll(t, "close_full", not_empty, "pop")
           \/ pc[t] = "close_full" /\ NotifyAll(t, "idle", not_full, "push")
    BY <1>1, <1>2, <1>3, <1>6, CallSteps, SMT DEF Closing
  <2>2. main = "closing"
    BY <1>3, <1>6, <2>1
  <2>3. \/ /\ pc'[Main] = "close_full"
           /\ \A u \in Threads \ {Main} : pc'[u] = IF pc[u] = "pop_wait" THEN "pop" ELSE pc[u]
        \/ /\ pc'[Main] = "idle"
           /\ \A u \in Threads \ {Main} : pc'[u] = IF pc[u] = "push_wait" THEN "push" ELSE pc[u]
    <3>1. \/ NotifyAll(Main, "close_full", not_empty, "pop")
          \/ NotifyAll(Main, "idle", not_full, "push")
      BY <1>6, <2>1, Zenon
    <3>. QED  BY <3>1, AllNotified, TestThreads, Zenon
  <2>4. /\ returned' \in [Threads -> Results] /\ returned'[Async] = returned[Async]
    BY <1>6, <2>1, TestThreads, Zenon DEF Gets
  <2>5. OthersIdle'
    BY <2>3, Zenon DEF OthersIdle
  <2>6. /\ pc'[Main] \in Closing
        /\ pc'[Async] = pc[Async] \/ (pc[Async] = "pop_wait" /\ pc'[Async] = "pop")
    BY <1>4, <2>3, TestThreads, Zenon DEF Closing
  <2>7. AsyncIn("pop", "pop_wait", "nullopt")
    BY <2>2, Zenon DEF WaitingPopInv
  <2>8. AsyncIn("pop", "pop_wait", "nullopt")'
    BY <1>2, <2>4, <2>6, <2>7, Zenon DEF AsyncIn
  <2>9. WaitingPopInv'
    BY <1>2, <1>3, <2>1, <2>2, <2>6, <2>8, Zenon DEF WaitingPopInv
  <2>. QED  BY <1>2, <2>4, <2>5, <2>9, Zenon
<1>. QED  BY <1>5, <1>6, Zenon

\* The steps of the main thread between its calls, and what may happen to a
\* waiting thread.
LEMMA WaitingPopTest ==
    ASSUME BlockingTypeOK, returned \in [Threads -> Results], OthersIdle, WaitingPopInv, ~ failed,
           client = "waiting_pop",
           \/ Fill \/ Filled \/ Launch \/ Observe \/ CloseQueue \/ Await \/ Drain \/ Drained
           \/ SpuriousWakeup(Async) /\ UNCHANGED test
    PROVE  returned' \in [Threads -> Results] /\ OthersIdle' /\ WaitingPopInv' /\ ~ failed'
<1>1. pc \in [Threads -> Labels] /\ queue = << >> /\ main \in {"launch", "observe", "close", "closing", "done"}
  BY Zenon DEF BlockingTypeOK, WaitingPopInv
<1>2. ~ (Fill \/ Filled \/ Drain \/ Drained)
  BY <1>1, Zenon DEF Fill, Filled, Drain, Drained, MainCalls, Expect
<1>3. ASSUME NEW t \in {Main, Async}, NEW to, Goes(t, to)
      PROVE  OthersIdle'
  BY <1>3, TestThreads, Zenon DEF OthersIdle, Goes
<1>4. CASE Launch
  <2>1. main = "launch" /\ main' = "observe" /\ PopBegins(Async) /\ UNCHANGED <<returned, failed>>
    BY <1>4, Zenon DEF Launch
  <2>2. Goes(Async, "pop") /\ UNCHANGED <<queue, closed>>
    BY <1>1, <2>1, GotoMoves, TestThreads, Zenon DEF PopBegins
  <2>3. pc'[Async] = "pop" /\ pc'[Main] = pc[Main]
    BY <2>2, TestThreads, Zenon DEF Goes
  <2>4. WaitingPopInv'
    BY <1>1, <2>1, <2>2, <2>3, Zenon DEF WaitingPopInv, AsyncIn, AsyncOut
  <2>. QED  BY <1>3, <2>1, <2>2, <2>4, Zenon
<1>5. CASE Observe
  <2>1. main = "observe" /\ UNCHANGED <<blocking, returned>> /\ main' = (IF ~ Ready THEN "close" ELSE "done") /\ failed' = ~ ~ Ready
    BY <1>5, Zenon DEF Observe, Expect
  <2>2. pc[Async] \in {"pop", "pop_wait"}
    BY <2>1, Zenon DEF WaitingPopInv, AsyncIn
  <2>3. ~ Ready
    BY <2>2, Zenon DEF Ready
  <2>4. main' = "close" /\ ~ failed' /\ UNCHANGED <<queue, closed, pc, returned>>
    BY <2>1, <2>3, Zenon DEF blocking
  <2>5. WaitingPopInv'
    BY <2>1, <2>4, Zenon DEF WaitingPopInv, AsyncIn
  <2>. QED  BY <2>4, <2>5, Zenon DEF OthersIdle
<1>6. CASE CloseQueue
  <2>1. /\ main = "close" /\ main' = "closing" /\ UNCHANGED failed /\ closed' /\ UNCHANGED queue
        /\ Goto(Main, "close_empty") /\ returned' = [returned EXCEPT ![Main] = "nothing"]
    BY <1>6, Zenon DEF CloseQueue, MainCalls, Close
  <2>2. Goes(Main, "close_empty")
    BY <1>1, <2>1, GotoMoves, TestThreads, Zenon
  <2>3. "nothing" \in Results
    BY Zenon DEF Results
  <2>4. Gets(Main, "nothing")
    BY <2>1, <2>3, ExceptGets, TestThreads, Zenon
  <2>5. /\ pc'[Main] = "close_empty" /\ pc'[Async] = pc[Async] /\ returned'[Async] = returned[Async]
        /\ returned' \in [Threads -> Results]
    BY <2>2, <2>4, TestThreads, Zenon DEF Goes, Gets
  <2>6. WaitingPopInv'
    BY <1>1, <2>1, <2>5, Zenon DEF WaitingPopInv, AsyncIn, Closing
  <2>. QED  BY <1>3, <2>1, <2>2, <2>5, <2>6, Zenon
<1>7. CASE Await
  <2>1. /\ Ready /\ main = "closing" /\ pc[Main] = "idle" /\ UNCHANGED <<blocking, returned>>
        /\ main' = "done" /\ failed' = ~ (returned[Async] = "nullopt")
    BY <1>7, Zenon DEF Await, Expect
  <2>2. pc[Async] = "idle" /\ returned[Async] # "nothing"
    BY <2>1, Zenon DEF Ready
  <2>3. returned[Async] = "nullopt"
    BY <2>1, <2>2, Zenon DEF WaitingPopInv, AsyncIn
  <2>4. ~ failed' /\ UNCHANGED <<queue, closed, pc, returned>>
    BY <2>1, <2>3, Zenon DEF blocking
  <2>5. WaitingPopInv'
    BY <2>1, <2>4, Zenon DEF WaitingPopInv, AsyncIn
  <2>. QED  BY <2>4, <2>5, Zenon DEF OthersIdle
<1>8. CASE SpuriousWakeup(Async) /\ UNCHANGED test
  <2>1. /\ pc[Async] \in {"push_wait", "pop_wait"} /\ UNCHANGED <<queue, closed>>
        /\ Goto(Async, IF pc[Async] = "push_wait" THEN "push" ELSE "pop")
        /\ UNCHANGED <<main, returned, failed>>
    BY <1>8, Zenon DEF SpuriousWakeup, test
  <2>2. pc[Async] = "pop_wait"
    BY <2>1, Zenon DEF WaitingPopInv, AsyncIn, AsyncOut
  <2>3. Goes(Async, "pop")
    <3>1. Goto(Async, "pop")
      BY <2>1, <2>2
    <3>. QED  BY <1>1, <3>1, GotoMoves, TestThreads, Zenon
  <2>4. pc'[Async] = "pop" /\ pc'[Main] = pc[Main]
    BY <2>3, TestThreads, Zenon DEF Goes
  <2>5. WaitingPopInv'
    BY <2>1, <2>2, <2>4, Zenon DEF WaitingPopInv, AsyncIn, AsyncOut
  <2>. QED  BY <1>3, <2>1, <2>3, <2>5, Zenon
<1>. QED  BY <1>2, <1>4, <1>5, <1>6, <1>7, <1>8, Zenon

\* A call goes on in the part with a full queue: the main thread's own pushes and
\* pops find the queue as the place it has reached says, and the other thread's
\* push finds it full until it is closed.
LEMMA WaitingPushCall ==
    ASSUME BlockingTypeOK, returned \in [Threads -> Results], OthersIdle, WaitingPushInv,
           NEW t \in {Main, Async}, CallStep(t)
    PROVE  returned' \in [Threads -> Results] /\ OthersIdle' /\ WaitingPushInv' /\ UNCHANGED failed
<1>1. pc \in [Threads -> Labels]
  BY Zenon DEF BlockingTypeOK
<1>2. UNCHANGED <<main, failed, capacity, closed>> /\ t \in Threads
  BY <1>1, CallSteps, TestThreads, Zenon
<1>3. CASE t = Async
  <2>1. pc[Async] \in {"push", "push_wait", "idle"}
    BY Zenon DEF WaitingPushInv, AsyncIn, AsyncOut
  <2>2. pc[Async] = "push"
    BY <1>1, <1>2, <1>3, <2>1, CallSteps, SMT
  <2>3. /\ main \notin BeforeLaunch /\ main \notin Draining /\ returned[Async] = "nothing"
        /\ main \in {"launch", "observe", "close", "closing", "drain"} /\ capacity = 1
    BY <2>2, Zenon DEF WaitingPushInv, AsyncIn, AsyncOut, BeforeClose, BeforeLaunch, Draining
  <2>4. queue = <<Seven>>
    BY <2>3, Zenon DEF WaitingPushInv
  <2>5. ~ (Len(queue) < capacity)
    BY <2>3, <2>4
  <2>6. /\ UNCHANGED <<queue, taken>>
        /\ \/ ~ closed /\ Goes(t, "push_wait") /\ Gets(t, returned[t])
           \/ closed /\ Goes(t, "idle") /\ Gets(t, "closed")
    BY <1>1, <1>2, <1>3, <2>2, <2>5, CallSteps, SMT
  <2>7. /\ returned' \in [Threads -> Results] /\ pc'[Main] = pc[Main] /\ returned'[Main] = returned[Main]
        /\ \A u \in Threads \ {Main, Async} : pc'[u] = pc[u]
        /\ \/ ~ closed /\ pc'[Async] = "push_wait" /\ returned'[Async] = returned[Async]
           \/ closed /\ pc'[Async] = "idle" /\ returned'[Async] = "closed"
    BY <1>3, <2>6, TestThreads, Zenon DEF Goes, Gets
  <2>8. OthersIdle'
    BY <2>7, Zenon DEF OthersIdle
  <2>9. AsyncIn("push", "push_wait", "closed")'
    BY <1>2, <2>3, <2>7, Zenon DEF AsyncIn
  <2>10. main # "filling"
    BY <2>3
  <2>11. WaitingPushInv'
    BY <1>2, <2>3, <2>6, <2>7, <2>9, <2>10, Zenon DEF WaitingPushInv
  <2>. QED  BY <1>2, <2>7, <2>8, <2>11, Zenon
<1>4. CASE t = Main
  <2>1. pc[Main] # "idle"
    BY <1>1, <1>2, <1>4, CallSteps, SMT
  <2>2. main \in {"filling", "closing", "draining", "draining_again"}
    BY <2>1, Zenon DEF WaitingPushInv
  <2>3. ASSUME NEW to, NEW x, Goes(t, to), Gets(t, x)
        PROVE  /\ pc'[Main] = to /\ returned'[Main] = x /\ returned' \in [Threads -> Results] /\ OthersIdle'
               /\ pc'[Async] = pc[Async] /\ returned'[Async] = returned[Async]
               /\ AsyncOut => AsyncOut'
               /\ AsyncIn("push", "push_wait", "closed") => AsyncIn("push", "push_wait", "closed")'
    <3>1. /\ pc'[Main] = to /\ returned'[Main] = x /\ returned' \in [Threads -> Results]
          /\ pc'[Async] = pc[Async] /\ returned'[Async] = returned[Async]
      BY <1>4, <2>3, TestThreads, Zenon DEF Goes, Gets
    <3>2. OthersIdle'
      BY <1>4, <2>3, Zenon DEF Goes, OthersIdle
    <3>. QED  BY <1>2, <3>1, <3>2, Zenon DEF AsyncOut, AsyncIn
  <2>4. CASE main = "filling"
    <3>1. /\ main \in BeforeLaunch /\ main \in BeforeClose /\ main \notin Draining /\ AsyncOut
          /\ ~ closed /\ capacity = 1 /\ taken = << >>
      BY <2>4, Zenon DEF WaitingPushInv, BeforeClose, BeforeLaunch, Draining
    <3>2. \/ pc[Main] = "push" /\ item[Main] = Seven /\ queue = << >>
          \/ pc[Main] = "push_notify" /\ returned[Main] = "success" /\ queue = <<Seven>>
      BY <2>1, <2>4, Zenon DEF WaitingPushInv
    <3>3. CASE pc[Main] = "push"
      <4>1. Len(queue) < capacity /\ item[Main] = Seven /\ queue = << >>
        BY <3>1, <3>2, <3>3
      <4>2. /\ queue' = Append(queue, item[t]) /\ UNCHANGED taken
            /\ Goes(t, "push_notify") /\ Gets(t, "success")
        BY <1>1, <1>2, <1>4, <3>1, <3>3, <4>1, CallSteps, SMT
      <4>3. queue' = <<Seven>>
        BY <1>4, <4>1, <4>2
      <4>4. /\ pc'[Main] = "push_notify" /\ returned'[Main] = "success" /\ AsyncOut'
            /\ returned' \in [Threads -> Results] /\ OthersIdle'
        BY <2>3, <3>1, <4>2, Zenon
      <4>5. WaitingPushInv'
        BY <1>2, <2>4, <3>1, <4>2, <4>3, <4>4, Zenon DEF WaitingPushInv, BeforeClose, BeforeLaunch, Draining
      <4>. QED  BY <1>2, <4>4, <4>5, Zenon
    <3>4. CASE pc[Main] = "push_notify"
      <4>1. /\ UNCHANGED <<queue, taken>> /\ Gets(t, returned[t]) /\ NotifyOne(t, "idle", not_empty, "pop")
        BY <1>1, <1>2, <1>4, <3>4, CallSteps, SMT
      <4>2. returned[Main] = "success" /\ queue = <<Seven>>
        BY <3>2, <3>4
      <4>3. ASSUME NEW u \in Threads PROVE pc[u] # "pop_wait"
        BY <3>1, <3>4, TestThreads, Zenon DEF OthersIdle, AsyncOut
      <4>4. Goes(t, "idle")
        BY <1>1, <1>2, <4>1, <4>3, NobodyNotified, Zenon DEF not_empty
      <4>5. /\ pc'[Main] = "idle" /\ returned'[Main] = "success" /\ AsyncOut'
            /\ returned' \in [Threads -> Results] /\ OthersIdle'
        BY <1>4, <2>3, <3>1, <4>1, <4>2, <4>4, Zenon
      <4>6. WaitingPushInv'
        BY <1>2, <2>4, <3>1, <4>1, <4>2, <4>5, Zenon DEF WaitingPushInv, BeforeClose, BeforeLaunch, Draining
      <4>. QED  BY <1>2, <4>5, <4>6, Zenon
    <3>. QED  BY <3>2, <3>3, <3>4, Zenon
  <2>5. CASE main = "closing"
    <3>1. /\ main \notin BeforeLaunch /\ main \notin BeforeClose /\ main \notin Draining
          /\ AsyncIn("push", "push_wait", "closed") /\ closed /\ capacity = 1
          /\ queue = <<Seven>> /\ taken = << >> /\ pc[Main] \in {"close_empty", "close_full"}
      BY <2>1, <2>5, Zenon DEF WaitingPushInv, BeforeClose, BeforeLaunch, Draining, Closing
    <3>2. /\ UNCHANGED <<queue, taken>> /\ Gets(t, returned[t])
          /\ \/ pc[t] = "close_empty" /\ NotifyAll(t, "close_full", not_empty, "pop")
             \/ pc[t] = "close_full" /\ NotifyAll(t, "idle", not_full, "push")
      BY <1>1, <1>2, <1>4, <3>1, CallSteps, SMT
    <3>3. \/ /\ pc'[Main] = "close_full"
             /\ \A u \in Threads \ {Main} : pc'[u] = IF pc[u] = "pop_wait" THEN "pop" ELSE pc[u]
          \/ /\ pc'[Main] = "idle"
             /\ \A u \in Threads \ {Main} : pc'[u] = IF pc[u] = "push_wait" THEN "push" ELSE pc[u]
      <4>1. \/ NotifyAll(Main, "close_full", not_empty, "pop")
            \/ NotifyAll(Main, "idle", not_full, "push")
        BY <1>4, <3>2, Zenon
      <4>. QED  BY <4>1, AllNotified, TestThreads, Zenon
    <3>4. returned' \in [Threads -> Results] /\ returned'[Async] = returned[Async]
      BY <1>4, <3>2, TestThreads, Zenon DEF Gets
    <3>5. OthersIdle'
      BY <3>3, Zenon DEF OthersIdle
    <3>6. pc'[Main] \in Closing /\ (pc'[Async] = pc[Async] \/ (pc[Async] = "push_wait" /\ pc'[Async] = "push"))
      BY <3>1, <3>3, TestThreads, Zenon DEF Closing, AsyncIn
    <3>7. AsyncIn("push", "push_wait", "closed")'
      BY <1>2, <3>1, <3>4, <3>6, Zenon DEF AsyncIn
    <3>8. WaitingPushInv'
      BY <1>2, <2>5, <3>1, <3>2, <3>6, <3>7, Zenon DEF WaitingPushInv
    <3>. QED  BY <1>2, <3>4, <3>5, <3>8, Zenon
  <2>6. CASE main \in {"draining", "draining_again"}
    <3>1. /\ main \notin BeforeLaunch /\ main \notin BeforeClose /\ main \in Draining /\ pc[Async] = "idle"
          /\ AsyncIn("push", "push_wait", "closed") /\ closed /\ capacity = 1
      BY <2>6, Zenon DEF WaitingPushInv, BeforeClose, BeforeLaunch, Draining
    <3>2. \/ main = "draining" /\ pc[Main] = "pop" /\ queue = <<Seven>> /\ taken = << >>
          \/ /\ main = "draining" /\ pc[Main] = "pop_notify" /\ returned[Main] = "item"
             /\ queue = << >> /\ taken = <<Seven>>
          \/ main = "draining_again" /\ pc[Main] = "pop" /\ queue = << >>
      BY <2>1, <2>6, Zenon DEF WaitingPushInv
    <3>3. CASE main = "draining" /\ pc[Main] = "pop" /\ queue = <<Seven>> /\ taken = << >>
      <4>1. queue # << >>
        BY <3>3
      <4>2. /\ queue' = Tail(queue) /\ taken' = Append(taken, Head(queue))
            /\ Goes(t, "pop_notify") /\ Gets(t, "item")
        BY <1>1, <1>2, <1>4, <3>3, <4>1, CallSteps, SMT
      <4>3. queue' = << >> /\ taken' = <<Seven>>
        BY <3>3, <4>2
      <4>4. /\ pc'[Main] = "pop_notify" /\ returned'[Main] = "item" /\ pc'[Async] = pc[Async]
            /\ AsyncIn("push", "push_wait", "closed")'
            /\ returned' \in [Threads -> Results] /\ OthersIdle'
        BY <2>3, <3>1, <4>2, Zenon
      <4>5. WaitingPushInv'
        BY <1>2, <3>1, <3>3, <4>3, <4>4, Zenon DEF WaitingPushInv
      <4>. QED  BY <1>2, <4>4, <4>5, Zenon
    <3>4. CASE /\ main = "draining" /\ pc[Main] = "pop_notify" /\ returned[Main] = "item"
               /\ queue = << >> /\ taken = <<Seven>>
      <4>1. /\ UNCHANGED <<queue, taken>> /\ Gets(t, returned[t]) /\ NotifyOne(t, "idle", not_full, "push")
        BY <1>1, <1>2, <1>4, <3>4, CallSteps, SMT
      <4>2. ASSUME NEW u \in Threads PROVE pc[u] # "push_wait"
        BY <3>1, <3>4, TestThreads, Zenon DEF OthersIdle
      <4>3. Goes(t, "idle")
        BY <1>1, <1>2, <4>1, <4>2, NobodyNotified, Zenon DEF not_full
      <4>4. /\ pc'[Main] = "idle" /\ returned'[Main] = "item" /\ pc'[Async] = pc[Async]
            /\ AsyncIn("push", "push_wait", "closed")'
            /\ returned' \in [Threads -> Results] /\ OthersIdle'
        BY <1>4, <2>3, <3>1, <3>4, <4>1, <4>3, Zenon
      <4>5. WaitingPushInv'
        BY <1>2, <3>1, <3>4, <4>1, <4>4, Zenon DEF WaitingPushInv
      <4>. QED  BY <1>2, <4>4, <4>5, Zenon
    <3>5. CASE main = "draining_again" /\ pc[Main] = "pop" /\ queue = << >>
      <4>1. UNCHANGED <<queue, taken>> /\ Goes(t, "idle") /\ Gets(t, "nullopt")
        BY <1>1, <1>2, <1>4, <3>1, <3>5, CallSteps, SMT
      <4>2. /\ pc'[Main] = "idle" /\ returned'[Main] = "nullopt" /\ pc'[Async] = pc[Async]
            /\ AsyncIn("push", "push_wait", "closed")'
            /\ returned' \in [Threads -> Results] /\ OthersIdle'
        BY <2>3, <3>1, <4>1, Zenon
      <4>3. WaitingPushInv'
        BY <1>2, <3>1, <3>5, <4>1, <4>2, Zenon DEF WaitingPushInv
      <4>. QED  BY <1>2, <4>2, <4>3, Zenon
    <3>. QED  BY <3>2, <3>3, <3>4, <3>5, Zenon
  <2>. QED  BY <2>2, <2>4, <2>5, <2>6, Zenon
<1>. QED  BY <1>3, <1>4, Zenon

LEMMA WaitingPushTest ==
    ASSUME BlockingTypeOK, returned \in [Threads -> Results], OthersIdle, WaitingPushInv, ~ failed,
           client = "waiting_push",
           \/ Fill \/ Filled \/ Launch \/ Observe \/ CloseQueue \/ Await \/ Drain \/ Drained
           \/ SpuriousWakeup(Async) /\ UNCHANGED test
    PROVE  returned' \in [Threads -> Results] /\ OthersIdle' /\ WaitingPushInv' /\ ~ failed'
<1>1. pc \in [Threads -> Labels] /\ capacity = 1
  BY Zenon DEF BlockingTypeOK, WaitingPushInv
<1>2. ASSUME NEW t \in {Main, Async}, NEW to, Goto(t, to)
      PROVE  /\ OthersIdle' /\ pc'[t] = to
             /\ t = Main => pc'[Async] = pc[Async]
             /\ t = Async => pc'[Main] = pc[Main]
  <2>1. Goes(t, to)
    BY <1>1, <1>2, GotoMoves, TestThreads, Zenon
  <2>2. OthersIdle'
    BY <1>2, <2>1, Zenon DEF OthersIdle, Goes
  <2>3. pc'[t] = to /\ \A u \in Threads : u # t => pc'[u] = pc[u]
    BY <2>1, Zenon DEF Goes
  <2>4. (t = Main => pc'[Async] = pc[Async]) /\ (t = Async => pc'[Main] = pc[Main])
    BY <2>3, TestThreads, SMT
  <2>. QED  BY <2>2, <2>3, <2>4, Zenon
<1>3. ASSUME returned' = [returned EXCEPT ![Main] = "nothing"]
      PROVE  returned' \in [Threads -> Results] /\ returned'[Async] = returned[Async]
  <2>1. "nothing" \in Results
    BY Zenon DEF Results
  <2>2. Gets(Main, "nothing")
    BY <1>3, <2>1, ExceptGets, TestThreads, Zenon
  <2>. QED  BY <2>2, TestThreads, Zenon DEF Gets
<1>4. ASSUME NEW from, NEW holds, NEW to, Expect(from, holds, to), holds
      PROVE  /\ main = from /\ pc[Main] = "idle" /\ main' = to /\ ~ failed'
             /\ UNCHANGED <<capacity, queue, closed, taken, pc, item, returned>>
             /\ returned' \in [Threads -> Results] /\ OthersIdle'
  BY <1>4, Zenon DEF Expect, blocking, OthersIdle
<1>5. CASE Fill
  <2>1. /\ main = "fill" /\ main' = "filling" /\ UNCHANGED <<failed, capacity, queue, closed, taken>>
        /\ Goto(Main, "push") /\ item' = [item EXCEPT ![Main] = Seven]
        /\ returned' = [returned EXCEPT ![Main] = "nothing"]
    BY <1>5, Zenon DEF Fill, MainCalls, PushBegins
  <2>2. item'[Main] = Seven
    BY <2>1, TestThreads, Zenon DEF BlockingTypeOK
  <2>3. OthersIdle' /\ pc'[Main] = "push" /\ pc'[Async] = pc[Async]
    BY <1>2, <2>1, Zenon
  <2>4. returned' \in [Threads -> Results] /\ returned'[Async] = returned[Async]
    BY <1>3, <2>1, Zenon
  <2>5. WaitingPushInv'
    BY <2>1, <2>2, <2>3, <2>4, Zenon DEF WaitingPushInv, AsyncOut, BeforeClose, BeforeLaunch, Draining
  <2>. QED  BY <2>1, <2>3, <2>4, <2>5, Zenon
<1>6. CASE Filled
  <2>1. Expect("filling", returned[Main] = "success", "launch")
    BY <1>6, Zenon DEF Filled
  <2>2. main = "filling" /\ pc[Main] = "idle"
    BY <2>1, Zenon DEF Expect
  <2>3. returned[Main] = "success" /\ queue = <<Seven>> /\ taken = << >>
    BY <2>2, Zenon DEF WaitingPushInv
  <2>4. /\ main' = "launch" /\ ~ failed' /\ returned' \in [Threads -> Results] /\ OthersIdle'
        /\ UNCHANGED <<capacity, queue, closed, taken, pc, item, returned>>
    BY <1>4, <2>1, <2>3, Zenon
  <2>5. WaitingPushInv'
    BY <2>2, <2>3, <2>4, Zenon DEF WaitingPushInv, AsyncOut, BeforeClose, BeforeLaunch, Draining
  <2>. QED  BY <2>4, <2>5, Zenon
<1>7. CASE Launch
  <2>1. client # "waiting_pop"
    OBVIOUS
  <2>2. main = "launch" /\ main' = "observe" /\ PushBegins(Async, Eight) /\ UNCHANGED <<returned, failed>>
    BY <1>7, <2>1, Zenon DEF Launch
  <2>3. UNCHANGED <<capacity, queue, closed, taken>> /\ Goto(Async, "push")
    BY <2>2, Zenon DEF PushBegins
  <2>4. OthersIdle' /\ pc'[Async] = "push" /\ pc'[Main] = pc[Main]
    BY <1>2, <2>3, Zenon
  <2>5. WaitingPushInv'
    BY <2>2, <2>3, <2>4, Zenon DEF WaitingPushInv, AsyncIn, AsyncOut, BeforeClose, BeforeLaunch, Draining
  <2>. QED  BY <2>2, <2>4, <2>5, Zenon
<1>8. CASE Observe
  <2>1. Expect("observe", ~ Ready, "close")
    BY <1>8, Zenon DEF Observe
  <2>2. main = "observe"
    BY <2>1, Zenon DEF Expect
  <2>3. pc[Async] # "idle"
    BY <2>2, Zenon DEF WaitingPushInv, AsyncIn, BeforeClose, BeforeLaunch
  <2>4. ~ Ready
    BY <2>3, Zenon DEF Ready
  <2>5. /\ main' = "close" /\ ~ failed' /\ returned' \in [Threads -> Results] /\ OthersIdle'
        /\ UNCHANGED <<capacity, queue, closed, taken, pc, item, returned>>
    BY <1>4, <2>1, <2>4, Zenon
  <2>6. WaitingPushInv'
    BY <2>2, <2>5, Zenon DEF WaitingPushInv, AsyncIn, BeforeClose, BeforeLaunch, Draining
  <2>. QED  BY <2>5, <2>6, Zenon
<1>9. CASE CloseQueue
  <2>1. /\ main = "close" /\ main' = "closing" /\ UNCHANGED <<failed, capacity, queue, taken>> /\ closed'
        /\ Goto(Main, "close_empty") /\ returned' = [returned EXCEPT ![Main] = "nothing"]
    BY <1>9, Zenon DEF CloseQueue, MainCalls, Close
  <2>2. OthersIdle' /\ pc'[Main] = "close_empty" /\ pc'[Async] = pc[Async]
    BY <1>2, <2>1, Zenon
  <2>3. returned' \in [Threads -> Results] /\ returned'[Async] = returned[Async]
    BY <1>3, <2>1, Zenon
  <2>4. WaitingPushInv'
    BY <2>1, <2>2, <2>3, Zenon DEF WaitingPushInv, AsyncIn, BeforeClose, BeforeLaunch, Draining, Closing
  <2>. QED  BY <2>1, <2>2, <2>3, <2>4, Zenon
<1>10. CASE Await
  <2>1. client # "waiting_pop"
    OBVIOUS
  <2>2. Ready /\ Expect("closing", returned[Async] = "closed", "drain")
    BY <1>10, <2>1, Zenon DEF Await
  <2>3. main = "closing" /\ pc[Async] = "idle" /\ returned[Async] # "nothing"
    BY <2>2, Zenon DEF Expect, Ready
  <2>4. returned[Async] = "closed"
    BY <2>3, Zenon DEF WaitingPushInv, AsyncIn, BeforeLaunch
  <2>5. /\ main' = "drain" /\ ~ failed' /\ returned' \in [Threads -> Results] /\ OthersIdle'
        /\ pc[Main] = "idle" /\ UNCHANGED <<capacity, queue, closed, taken, pc, item, returned>>
    BY <1>4, <2>2, <2>4, Zenon
  <2>6. WaitingPushInv'
    BY <2>3, <2>5, Zenon DEF WaitingPushInv, AsyncIn, BeforeClose, BeforeLaunch, Draining
  <2>. QED  BY <2>5, <2>6, Zenon
<1>11. CASE Drain
  <2>1. /\ \/ main = "drain" /\ main' = "draining"
           \/ main = "drain_again" /\ main' = "draining_again"
        /\ UNCHANGED <<failed, capacity, queue, closed, taken>>
        /\ Goto(Main, "pop") /\ returned' = [returned EXCEPT ![Main] = "nothing"]
    BY <1>11, Zenon DEF Drain, MainCalls, PopBegins
  <2>2. OthersIdle' /\ pc'[Main] = "pop" /\ pc'[Async] = pc[Async]
    BY <1>2, <2>1, Zenon
  <2>3. returned' \in [Threads -> Results] /\ returned'[Async] = returned[Async]
    BY <1>3, <2>1, Zenon
  <2>4. WaitingPushInv'
    BY <2>1, <2>2, <2>3, Zenon DEF WaitingPushInv, AsyncIn, BeforeClose, BeforeLaunch, Draining
  <2>. QED  BY <2>1, <2>2, <2>3, <2>4, Zenon
<1>12. CASE Drained
  <2>1. CASE Expect("draining", returned[Main] = "item" /\ taken = <<Seven>>, "drain_again")
    <3>1. main = "draining" /\ pc[Main] = "idle"
      BY <2>1, Zenon DEF Expect
    <3>2. returned[Main] = "item" /\ taken = <<Seven>> /\ queue = << >>
      BY <3>1, Zenon DEF WaitingPushInv
    <3>3. /\ main' = "drain_again" /\ ~ failed' /\ returned' \in [Threads -> Results] /\ OthersIdle'
          /\ UNCHANGED <<capacity, queue, closed, taken, pc, item, returned>>
      BY <1>4, <2>1, <3>2, Zenon
    <3>4. WaitingPushInv'
      BY <3>1, <3>2, <3>3, Zenon DEF WaitingPushInv, AsyncIn, BeforeClose, BeforeLaunch, Draining
    <3>. QED  BY <3>3, <3>4, Zenon
  <2>2. CASE Expect("draining_again", returned[Main] = "nullopt", "done")
    <3>1. main = "draining_again" /\ pc[Main] = "idle"
      BY <2>2, Zenon DEF Expect
    <3>2. returned[Main] = "nullopt"
      BY <3>1, Zenon DEF WaitingPushInv
    <3>3. /\ main' = "done" /\ ~ failed' /\ returned' \in [Threads -> Results] /\ OthersIdle'
          /\ UNCHANGED <<capacity, queue, closed, taken, pc, item, returned>>
      BY <1>4, <2>2, <3>2, Zenon
    <3>4. WaitingPushInv'
      BY <3>1, <3>3, Zenon DEF WaitingPushInv, AsyncIn, BeforeClose, BeforeLaunch, Draining
    <3>. QED  BY <3>3, <3>4, Zenon
  <2>. QED  BY <1>12, <2>1, <2>2, Zenon DEF Drained
<1>13. CASE SpuriousWakeup(Async) /\ UNCHANGED test
  <2>1. /\ pc[Async] \in {"push_wait", "pop_wait"} /\ UNCHANGED <<capacity, queue, closed, taken, item>>
        /\ Goto(Async, IF pc[Async] = "push_wait" THEN "push" ELSE "pop")
        /\ UNCHANGED <<main, returned, failed>>
    BY <1>13, Zenon DEF SpuriousWakeup, test
  <2>2. /\ pc[Async] = "push_wait" /\ returned[Async] = "nothing"
        /\ main \notin BeforeLaunch /\ main \notin Draining
    BY <2>1, Zenon DEF WaitingPushInv, AsyncIn, AsyncOut
  <2>3. Goto(Async, "push")
    BY <2>1, <2>2
  <2>4. OthersIdle' /\ pc'[Async] = "push" /\ pc'[Main] = pc[Main]
    BY <1>2, <2>3, Zenon
  <2>5. WaitingPushInv'
    BY <2>1, <2>2, <2>4, Zenon DEF WaitingPushInv, AsyncIn
  <2>. QED  BY <2>1, <2>4, <2>5, Zenon
<1>. QED  BY <1>5, <1>6, <1>7, <1>8, <1>9, <1>10, <1>11, <1>12, <1>13, Zenon

\* Every step of the test is one that the queue allows its threads.
LEMMA TestSteps == [StressNext]_allvars => [BlockingNext]_blocking
<1>. SUFFICES ASSUME StressNext \/ UNCHANGED allvars PROVE [BlockingNext]_blocking
  BY Zenon
<1>1. Main \in Threads /\ Async \in Threads /\ Seven \in Items /\ Eight \in Items
  BY StressAssumption, Zenon
<1>2. CASE Finished \/ UNCHANGED allvars
  BY <1>2, Zenon DEF Finished, allvars
<1>3. ASSUME NEW t \in Threads, Call(t) \/ Step(t) \/ SpuriousWakeup(t)
      PROVE  [BlockingNext]_blocking
  BY <1>3, Zenon DEF BlockingNext
<1>4. CASE CallStep(Main) \/ CallStep(Async)
  BY <1>1, <1>3, <1>4, Zenon DEF CallStep
<1>5. CASE Fill \/ Launch \/ CloseQueue \/ Drain
  <2>1. Call(Main) \/ Call(Async)
    BY <1>1, <1>5, Zenon DEF Fill, Launch, CloseQueue, Drain, Call
  <2>. QED  BY <1>1, <1>3, <2>1, Zenon
<1>6. CASE Filled \/ Observe \/ Await \/ Drained
  BY <1>6, Zenon DEF Filled, Observe, Await, Drained, Expect
<1>7. CASE AsyncWakes
  BY <1>1, <1>3, <1>7, Zenon DEF AsyncWakes
<1>8. CASE Any /\ BlockingNext
  BY <1>8, Zenon
<1>. QED
  BY <1>2, <1>4, <1>5, <1>6, <1>7, <1>8, Zenon DEF StressNext, MainStep, AsyncStep

\* The test of close() uses the queue as its users may: whatever holds of the
\* queue for any threads and any calls holds in the test.
THEOREM CloseTestUsesQueue == StressSpec => BlockingSpec
<1>1. StressInit => BlockingInit
  BY Zenon DEF StressInit
<1>. QED  BY <1>1, TestSteps, PTL DEF StressSpec, BlockingSpec

LEMMA StressInitInv == StressInit => StressInv
<1>. SUFFICES ASSUME StressInit PROVE StressInv
  BY Zenon
<1>1. /\ client \in {"waiting_pop", "waiting_push", "any"} /\ (client # "any" => capacity = 1)
      /\ main = (IF client = "waiting_push" THEN "fill" ELSE "launch") /\ failed = FALSE
      /\ returned = [t \in Threads |-> "nothing"] /\ pc = [t \in Threads |-> "idle"]
      /\ queue = << >> /\ closed = FALSE /\ taken = << >>
  BY Zenon DEF StressInit, BlockingInit
<1>2. returned \in [Threads -> Results] /\ returned[Async] = "nothing"
  BY <1>1, TestThreads, Zenon DEF Results
<1>3. pc[Main] = "idle" /\ pc[Async] = "idle" /\ \A t \in Threads \ {Main, Async} : pc[t] = "idle"
  BY <1>1, TestThreads, Zenon
<1>4. client = "waiting_pop" => WaitingPopInv
  BY <1>1, <1>2, <1>3, Zenon DEF WaitingPopInv, AsyncOut, Closing
<1>5. client = "waiting_push" => WaitingPushInv
  BY <1>1, <1>2, <1>3, Zenon DEF WaitingPushInv, AsyncOut, BeforeClose, BeforeLaunch, Draining
<1>. QED  BY <1>1, <1>2, <1>3, <1>4, <1>5, Zenon DEF StressInv

LEMMA StressStepInv == BlockingTypeOK /\ StressInv /\ [StressNext]_allvars => StressInv'
<1>. SUFFICES ASSUME BlockingTypeOK, StressInv, StressNext \/ UNCHANGED allvars PROVE StressInv'
  BY Zenon
<1>1. CASE UNCHANGED allvars
  <2>1. UNCHANGED <<client, main, returned, failed, capacity, queue, closed, pc, item, taken>>
    BY <1>1, Zenon DEF allvars, test, blocking
  <2>2. (WaitingPopInv => WaitingPopInv') /\ (WaitingPushInv => WaitingPushInv')
    BY <2>1, Zenon DEF WaitingPopInv, WaitingPushInv, AsyncIn, AsyncOut
  <2>. QED  BY <2>1, <2>2, Zenon DEF StressInv
<1>2. CASE client = "any" /\ StressNext /\ ~ UNCHANGED allvars
  <2>1. UNCHANGED <<client, main, returned, failed>>
    BY <1>2, Zenon DEF StressNext, MainStep, AsyncStep, AsyncWakes, Tests, Finished, Any, test
  <2>. QED  BY <1>2, <2>1, Zenon DEF StressInv
<1>3. CASE client # "any" /\ StressNext /\ ~ UNCHANGED allvars
  <2>1. /\ UNCHANGED client
        /\ \/ CallStep(Main) \/ CallStep(Async)
           \/ Fill \/ Filled \/ Launch \/ Observe \/ CloseQueue \/ Await \/ Drain \/ Drained
           \/ SpuriousWakeup(Async) /\ UNCHANGED test
    BY <1>3, Zenon DEF StressNext, MainStep, AsyncStep, AsyncWakes, Tests, Finished, Any
  <2>2. /\ returned \in [Threads -> Results] /\ OthersIdle /\ ~ failed
        /\ client \in {"waiting_pop", "waiting_push"}
    BY <1>3, Zenon DEF StressInv, OthersIdle
  <2>3. CASE client = "waiting_pop"
    <3>1. WaitingPopInv
      BY <2>3, Zenon DEF StressInv
    <3>2. returned' \in [Threads -> Results] /\ OthersIdle' /\ WaitingPopInv' /\ ~ failed'
      BY <2>1, <2>2, <2>3, <3>1, WaitingPopCall, WaitingPopTest, Zenon
    <3>. QED  BY <2>1, <2>3, <3>2, Zenon DEF StressInv, OthersIdle
  <2>4. CASE client = "waiting_push"
    <3>1. WaitingPushInv
      BY <2>4, Zenon DEF StressInv
    <3>2. returned' \in [Threads -> Results] /\ OthersIdle' /\ WaitingPushInv' /\ ~ failed'
      BY <2>1, <2>2, <2>4, <3>1, WaitingPushCall, WaitingPushTest, Zenon
    <3>. QED  BY <2>1, <2>4, <3>2, Zenon DEF StressInv, OthersIdle
  <2>. QED  BY <2>2, <2>3, <2>4, Zenon
<1>. QED  BY <1>1, <1>2, <1>3, Zenon

\* No check of the test of close() ever fails: the waiting pop or push does not
\* return before close(), then returns std::nullopt or closed, and the item that
\* was queued before is handed out once.  This is the safety part of
\* CloseSmokePasses, for any number of threads and items.
THEOREM CloseTestNeverFails == StressSpec => []NeverFails
<1>1. StressInv => NeverFails
  BY Zenon DEF StressInv, NeverFails
<1>2. StressSpec => []BlockingTypeOK
  BY CloseTestUsesQueue, BlockingTypes, PTL
<1>. QED  BY <1>1, <1>2, StressInitInv, StressStepInv, PTL DEF StressSpec

-----------------------------------------------------------------------------
(* Wakeups.  The proofs count threads, with the theorems about finite     *)
(* sets; nothing before needs them.                                        *)

INSTANCE FiniteSetTheorems

-----------------------------------------------------------------------------
(* Threads and their places.                                               *)

\* The threads at a label, and their number, in terms of a value of pc.
Where(p, label) == {t \in Threads : p[t] = label}
Count(p, label) == Cardinality(Where(p, label))

LEMMA Counts ==
    ASSUME NEW p, NEW label
    PROVE  /\ IsFiniteSet(Where(p, label)) /\ Count(p, label) \in Nat
           /\ Count(p, label) = 0 <=> Where(p, label) = {}
<1>1. Where(p, label) \in SUBSET Threads
  BY Zenon DEF Where
<1>2. IsFiniteSet(Where(p, label))
  BY <1>1, BlockingAssumption, FS_Subset, Zenon
<1>. QED  BY <1>2, FS_CardinalityType, FS_EmptySet, Zenon DEF Count

\* One thread leaves a label for another.
Moves(p, q, from, to) ==
    /\ Count(q, from) = Count(p, from) - 1
    /\ Count(q, to) = Count(p, to) + 1
    /\ \A label \in Labels \ {from, to} : Count(q, label) = Count(p, label)

LEMMA OneMoves ==
    ASSUME NEW p \in [Threads -> Labels], NEW t \in Threads, NEW from, NEW to \in Labels,
           p[t] = from, from # to, NEW q, q = [p EXCEPT ![t] = to]
    PROVE  q \in [Threads -> Labels] /\ Moves(p, q, from, to)
<1>1. q \in [Threads -> Labels] /\ q[t] = to /\ \A u \in Threads \ {t} : q[u] = p[u]
  BY Zenon
<1>2. /\ Where(q, from) = Where(p, from) \ {t} /\ t \in Where(p, from)
      /\ Where(q, to) = Where(p, to) \union {t} /\ t \notin Where(p, to)
  BY <1>1, Zenon DEF Where
<1>3. \A label \in Labels \ {from, to} : Where(q, label) = Where(p, label)
  BY <1>1, Zenon DEF Where
<1>4. Count(q, from) = Count(p, from) - 1
  <2>1. IsFiniteSet(Where(p, from))
    BY Counts, Zenon
  <2>2. Cardinality(Where(p, from) \ {t}) = Cardinality(Where(p, from)) - 1
    BY <1>2, <2>1, FS_RemoveElement, Zenon
  <2>. QED  BY <1>2, <2>2, Zenon DEF Count
<1>5. Count(q, to) = Count(p, to) + 1
  <2>1. IsFiniteSet(Where(p, to))
    BY Counts, Zenon
  <2>2. Cardinality(Where(p, to) \union {t}) = Cardinality(Where(p, to)) + 1
    BY <1>2, <2>1, FS_AddElement, Zenon
  <2>. QED  BY <1>2, <2>2, Zenon DEF Count
<1>. QED  BY <1>1, <1>3, <1>4, <1>5, Zenon DEF Moves, Count

\* A wait set is emptied; who waited tests its predicate again.
AllLeave(p, t, to, waits, resume) ==
    [u \in Threads |-> IF u = t THEN to
                       ELSE IF u \in Where(p, waits) THEN resume ELSE p[u]]

LEMMA AllMove ==
    ASSUME NEW p \in [Threads -> Labels], NEW t \in Threads, NEW to \in Labels,
           NEW waits, NEW resume \in Labels, waits # resume, to # waits,
           NEW q, q = AllLeave(p, t, to, waits, resume)
    PROVE  /\ q \in [Threads -> Labels]
           /\ Count(q, waits) = 0
           /\ \A label \in Labels \ {p[t]} : label # waits => Count(p, label) <= Count(q, label)
           /\ \A label \in Labels \ {p[t], to, waits, resume} : Count(q, label) = Count(p, label)
           /\ Count(q, to) # 0
<1>1. q \in [Threads -> Labels] /\ q[t] = to
  BY Zenon DEF AllLeave
<1>2. Where(q, waits) = {} /\ t \in Where(q, to)
  BY <1>1, Zenon DEF Where, AllLeave
<1>3. ASSUME NEW label \in Labels \ {p[t]}, label # waits
      PROVE  Count(p, label) <= Count(q, label)
  <2>1. Where(p, label) \in SUBSET Where(q, label)
    BY <1>1, <1>3, Zenon DEF Where, AllLeave
  <2>. QED  BY <2>1, Counts, FS_Subset, Zenon DEF Count
<1>4. ASSUME NEW label \in Labels \ {p[t], to, waits, resume}
      PROVE  Count(q, label) = Count(p, label)
  <2>1. Where(p, label) = Where(q, label)
    BY <1>1, <1>4, Zenon DEF Where, AllLeave
  <2>. QED  BY <2>1, Zenon DEF Count
<1>. QED  BY <1>1, <1>2, <1>3, <1>4, Counts, Zenon

-----------------------------------------------------------------------------
(* The wakeups, in terms of the counts, for a pc, a length of the queue, a *)
(* value of closed_ and a capacity.                                        *)

ConsumersWoken(p, n, c) ==
    Count(p, "pop_wait") # 0 =>
        /\ n <= Count(p, "pop") + Count(p, "push_notify")
        /\ c => Count(p, "close_empty") # 0

ProducersWoken(p, n, c, k) ==
    Count(p, "push_wait") # 0 =>
        /\ c \/ k <= n + Count(p, "push") + Count(p, "pop_notify")
        /\ c => Count(p, "close_empty") # 0 \/ Count(p, "close_full") # 0

Woken(p, n, c, k) == ConsumersWoken(p, n, c) /\ ProducersWoken(p, n, c, k)

AllCounts(p) == \A label \in Labels : Count(p, label) \in Nat

LEMMA InCounts ==
    /\ (ConsumersAreWoken /\ ProducersAreWoken) <=> Woken(pc, Len(queue), closed, capacity)
    /\ (ConsumersAreWoken /\ ProducersAreWoken)'
          <=> Woken(pc', Len(queue'), closed', capacity')
<1>1. \A label : Cardinality(At(label)) = Count(pc, label)
  BY Zenon DEF At, Count, Where
<1>2. \A label : Cardinality(At(label)') = Count(pc', label)
  BY Zenon DEF At, Count, Where
<1>3. \A label : At(label) # {} <=> Count(pc, label) # 0
  BY Counts, Zenon DEF At, Where
<1>4. \A label : At(label)' # {} <=> Count(pc', label) # 0
  BY Counts, Zenon DEF At, Where
<1>5. ConsumersAreWoken <=> ConsumersWoken(pc, Len(queue), closed)
  BY <1>1, <1>3, Zenon DEF ConsumersAreWoken, ConsumersWoken, not_empty
<1>6. ProducersAreWoken <=> ProducersWoken(pc, Len(queue), closed, capacity)
  <2>1. At("close_empty") \union At("close_full") # {}
           <=> Count(pc, "close_empty") # 0 \/ Count(pc, "close_full") # 0
    BY <1>3, Zenon
  <2>. QED  BY <1>1, <1>3, <2>1, SMT DEF ProducersAreWoken, ProducersWoken, not_full
<1>7. ConsumersAreWoken' <=> ConsumersWoken(pc', Len(queue'), closed')
  BY <1>2, <1>4, Zenon DEF ConsumersAreWoken, ConsumersWoken, not_empty
<1>8. ProducersAreWoken' <=> ProducersWoken(pc', Len(queue'), closed', capacity')
  <2>1. (At("close_empty") \union At("close_full"))' # {}
           <=> Count(pc', "close_empty") # 0 \/ Count(pc', "close_full") # 0
    BY <1>4, Zenon
  <2>. QED  BY <1>2, <1>4, <2>1, SMT DEF ProducersAreWoken, ProducersWoken, not_full
<1>. QED  BY <1>5, <1>6, <1>7, <1>8, Zenon DEF Woken

-----------------------------------------------------------------------------
(* No wakeup is lost.                                                      *)

LEMMA InitWoken == BlockingInit => Woken(pc, Len(queue), closed, capacity)
<1>. SUFFICES ASSUME BlockingInit PROVE Woken(pc, Len(queue), closed, capacity)
  OBVIOUS
<1>1. Where(pc, "pop_wait") = {} /\ Where(pc, "push_wait") = {}
  BY Zenon DEF BlockingInit, Where
<1>2. Count(pc, "pop_wait") = 0 /\ Count(pc, "push_wait") = 0
  BY <1>1, Counts, Zenon
<1>. QED  BY <1>2, Zenon DEF Woken, ConsumersWoken, ProducersWoken

\* notify_one() by a thread that comes from another label, and by one that is
\* still idle: a thread in the wait set, if there is one, moves out of it.
LEMMA NotifyOneMoves ==
    ASSUME pc \in [Threads -> Labels], NEW t \in Threads,
           NEW waits \in {"pop_wait", "push_wait"}, NEW resume \in {"pop", "push"},
           pc[t] \in {"idle", "push_notify", "pop_notify"},
           NotifyOne(t, "idle", At(waits), resume)
    PROVE  \E r \in [Threads -> Labels] :
               /\ IF pc[t] = "idle" THEN r = pc ELSE Moves(pc, r, pc[t], "idle")
               /\ \/ Count(r, waits) = 0 /\ pc' = r
                  \/ Moves(r, pc', waits, resume)
<1>. DEFINE r == [pc EXCEPT ![t] = "idle"]
<1>1. "idle" \in Labels /\ resume \in Labels /\ waits # resume /\ pc[t] # waits
      /\ "idle" # waits
  BY Zenon DEF Labels
<1>2. r \in [Threads -> Labels]
  BY <1>1, Zenon
<1>3. IF pc[t] = "idle" THEN r = pc ELSE Moves(pc, r, pc[t], "idle")
  <2>1. CASE pc[t] = "idle"
    <3>1. r = pc
      BY <2>1, Zenon
    <3>. QED  BY <2>1, <3>1, Zenon
  <2>2. CASE pc[t] # "idle"
    BY <1>1, <2>2, OneMoves, Zenon
  <2>. QED  BY <2>1, <2>2, Zenon
<1>4. Where(r, waits) = At(waits)
  BY <1>1, SMT DEF Where, At
<1>5. CASE At(waits) = {}
  <2>1. pc' = r
    BY <1>5, Zenon DEF NotifyOne, Goto
  <2>2. Count(r, waits) = 0
    BY <1>4, <1>5, Counts, Zenon
  <2>. QED  BY <1>2, <1>3, <2>1, <2>2, Zenon
<1>6. CASE At(waits) # {}
  <2>1. PICK w \in At(waits) : pc' = [pc EXCEPT ![t] = "idle", ![w] = resume]
    BY <1>6, Zenon DEF NotifyOne
  <2>2. w \in Threads /\ pc[w] = waits /\ r[w] = waits
    BY <1>4, <2>1, Zenon DEF At, Where
  <2>3. pc' = [r EXCEPT ![w] = resume]
    BY <2>1, Zenon
  <2>. HIDE DEF r
  <2>4. Moves(r, pc', waits, resume)
    BY <1>1, <1>2, <2>2, <2>3, OneMoves, Zenon
  <2>. QED  BY <1>2, <1>3, <2>4, Zenon
<1>. QED  BY <1>5, <1>6, Zenon

LEMMA CountTypes == \A p : AllCounts(p)
BY Counts, Zenon DEF AllCounts

\* A call begins, or a thread that waits wakes up by itself.
LEMMA BeginsCall ==
    ASSUME NEW p, NEW q, NEW n \in Nat, NEW c \in BOOLEAN, NEW k \in Nat,
           AllCounts(p), AllCounts(q), Woken(p, n, c, k), 
           \/ Moves(p, q, "idle", "push") \/ Moves(p, q, "idle", "pop")
           \/ Moves(p, q, "push_wait", "push") \/ Moves(p, q, "pop_wait", "pop")
    PROVE  Woken(q, n, c, k)
BY SMT DEF Woken, ConsumersWoken, ProducersWoken, Moves, AllCounts, Labels

\* A call finds its predicate false and waits.
LEMMA Waits ==
    ASSUME NEW p, NEW q, NEW n \in Nat, NEW c \in BOOLEAN, NEW k \in Nat,
           AllCounts(p), AllCounts(q), Woken(p, n, c, k), 
           ~ c,
           \/ n >= k /\ Moves(p, q, "push", "push_wait")
           \/ n = 0 /\ Moves(p, q, "pop", "pop_wait")
    PROVE  Woken(q, n, c, k)
BY SMT DEF Woken, ConsumersWoken, ProducersWoken, Moves, AllCounts, Labels

\* A call ends because the queue is closed.
LEMMA EndsClosed ==
    ASSUME NEW p, NEW q, NEW n \in Nat, NEW c \in BOOLEAN, NEW k \in Nat,
           AllCounts(p), AllCounts(q), Woken(p, n, c, k), 
           c, Moves(p, q, "push", "idle") \/ (n = 0 /\ Moves(p, q, "pop", "idle"))
    PROVE  Woken(q, n, c, k)
BY SMT DEF Woken, ConsumersWoken, ProducersWoken, Moves, AllCounts, Labels

\* An item is added, and a notification is to come.
LEMMA Adds ==
    ASSUME NEW p, NEW q, NEW n \in Nat, NEW c \in BOOLEAN, NEW k \in Nat,
           AllCounts(p), AllCounts(q), Woken(p, n, c, k), Moves(p, q, "push", "push_notify")
    PROVE  Woken(q, n + 1, c, k)
BY SMT DEF Woken, ConsumersWoken, ProducersWoken, Moves, AllCounts, Labels

\* An item is removed, and a notification is to come.
LEMMA Removes ==
    ASSUME NEW p, NEW q, NEW n \in Nat, NEW c \in BOOLEAN, NEW k \in Nat,
           AllCounts(p), AllCounts(q), Woken(p, n, c, k), n > 0, Moves(p, q, "pop", "pop_notify")
    PROVE  Woken(q, n - 1, c, k)
BY SMT DEF Woken, ConsumersWoken, ProducersWoken, Moves, AllCounts, Labels

\* A notification is made after the lock was given up ...
LEMMA NotifiesLater ==
    ASSUME NEW p, NEW r, NEW q, NEW n \in Nat, NEW c \in BOOLEAN, NEW k \in Nat,
           AllCounts(p), AllCounts(r), AllCounts(q), Woken(p, n, c, k),
           \/ /\ Moves(p, r, "push_notify", "idle")
              /\ (Count(r, "pop_wait") = 0 /\ q = r) \/ Moves(r, q, "pop_wait", "pop")
           \/ /\ Moves(p, r, "pop_notify", "idle")
              /\ (Count(r, "push_wait") = 0 /\ q = r) \/ Moves(r, q, "push_wait", "push")
    PROVE  Woken(q, n, c, k)
BY SMT DEF Woken, ConsumersWoken, ProducersWoken, Moves, AllCounts, Labels

\* ... or with the change of the queue it is about.
LEMMA NotifiesAtOnce ==
    ASSUME NEW p, NEW q, NEW n \in Nat, NEW c \in BOOLEAN, NEW k \in Nat, NEW m \in Nat,
           AllCounts(p), AllCounts(q), Woken(p, n, c, k),
           \/ /\ m = n + 1
              /\ (Count(p, "pop_wait") = 0 /\ q = p) \/ Moves(p, q, "pop_wait", "pop")
           \/ /\ m = n - 1
              /\ (Count(p, "push_wait") = 0 /\ q = p) \/ Moves(p, q, "push_wait", "push")
    PROVE  Woken(q, m, c, k)
BY SMT DEF Woken, ConsumersWoken, ProducersWoken, Moves, AllCounts, Labels

\* close() sets closed_ and has its notifications to make.
LEMMA Closes ==
    ASSUME NEW p, NEW q, NEW n \in Nat, NEW c \in BOOLEAN, NEW k \in Nat,
           AllCounts(p), AllCounts(q), Woken(p, n, c, k), Moves(p, q, "idle", "close_empty")
    PROVE  Woken(q, n, TRUE, k)
BY SMT DEF Woken, ConsumersWoken, ProducersWoken, Moves, AllCounts, Labels

\* Each notify_all() of close() empties a wait set.
LEMMA NotifiesAll ==
    ASSUME pc \in [Threads -> Labels], NEW t \in Threads,
           NEW n \in Nat, NEW c \in BOOLEAN, NEW k \in Nat, Woken(pc, n, c, k),
           CloseNotEmpty(t) \/ CloseNotFull(t)
    PROVE  Woken(pc', n, c, k)
<1>0. AllCounts(pc) /\ AllCounts(pc') /\ "idle" \in Labels
      /\ "close_full" \in Labels /\ "pop" \in Labels /\ "push" \in Labels
  BY CountTypes, Zenon DEF Labels
<1>1. CASE CloseNotEmpty(t)
  <2>1. pc' = AllLeave(pc, t, "close_full", "pop_wait", "pop")
    BY <1>1, Zenon DEF CloseNotEmpty, NotifyAll, not_empty, At, Where, AllLeave
  <2>2. /\ Count(pc', "pop_wait") = 0 /\ Count(pc', "close_full") # 0
        /\ \A label \in Labels \ {pc[t], "close_full", "pop_wait", "pop"} :
               Count(pc', label) = Count(pc, label)
    BY <1>0, <2>1, AllMove
  <2>3. pc[t] = "close_empty"
    BY <1>1, Zenon DEF CloseNotEmpty
  <2>. QED  BY <1>0, <2>2, <2>3, SMT DEF Woken, ConsumersWoken, ProducersWoken, AllCounts, Labels
<1>2. CASE CloseNotFull(t)
  <2>1. pc' = AllLeave(pc, t, "idle", "push_wait", "push")
    BY <1>2, Zenon DEF CloseNotFull, NotifyAll, not_full, At, Where, AllLeave
  <2>2. /\ Count(pc', "push_wait") = 0
        /\ \A label \in Labels \ {pc[t], "idle", "push_wait", "push"} :
               Count(pc', label) = Count(pc, label)
    BY <1>0, <2>1, AllMove
  <2>3. pc[t] = "close_full"
    BY <1>2, Zenon DEF CloseNotFull
  <2>. QED  BY <1>0, <2>2, <2>3, SMT DEF Woken, ConsumersWoken, ProducersWoken, AllCounts, Labels
<1>. QED  BY <1>1, <1>2, Zenon

LEMMA WokenStep ==
    ASSUME BlockingTypeOK, Woken(pc, Len(queue), closed, capacity), [BlockingNext]_blocking
    PROVE  Woken(pc', Len(queue'), closed', capacity')
<1>0. /\ pc \in [Threads -> Labels] /\ Len(queue) \in Nat /\ closed \in BOOLEAN
      /\ capacity \in Nat /\ AllCounts(pc) /\ AllCounts(pc')
  BY CapacityType, CountTypes, Zenon DEF BlockingTypeOK
<1>l. {"idle", "push", "push_wait", "push_notify", "pop", "pop_wait", "pop_notify",
       "close_empty", "close_full"} = Labels
  BY Zenon DEF Labels
<1>m. ASSUME NEW t \in Threads, NEW to \in Labels, Goto(t, to), pc[t] # to
      PROVE  Moves(pc, pc', pc[t], to)
  BY <1>0, <1>m, OneMoves, Zenon DEF Goto
<1>1. CASE UNCHANGED blocking
  BY <1>1, Zenon DEF blocking
<1>2. ASSUME NEW t \in Threads, Call(t)
      PROVE  Woken(pc', Len(queue'), closed', capacity')
  <2>1. CASE (\E x \in Items : PushBegins(t, x)) \/ PopBegins(t)
    <3>1. Moves(pc, pc', "idle", "push") \/ Moves(pc, pc', "idle", "pop")
      BY <1>l, <1>m, <2>1, Zenon DEF PushBegins, PopBegins
    <3>2. UNCHANGED <<capacity, queue, closed>>
      BY <2>1, Zenon DEF PushBegins, PopBegins
    <3>. QED  BY <1>0, <3>1, <3>2, BeginsCall, Zenon
  <2>2. ASSUME NEW x \in Items, TryPush(t, x)
        PROVE  Woken(pc', Len(queue'), closed', capacity')
    <3>1. (Count(pc, "pop_wait") = 0 /\ pc' = pc) \/ Moves(pc, pc', "pop_wait", "pop")
      BY <1>0, <2>2, NotifyOneMoves, Zenon DEF TryPush, not_empty
    <3>2. Len(queue) < capacity
      BY <1>0, <2>2, SMT DEF TryPush, BlockingTypeOK
    <3>3. Len(queue') = Len(queue) + 1 /\ UNCHANGED <<capacity, closed>>
      BY <2>2, <3>2, EnqueueType, Zenon DEF TryPush
    <3>4. Len(queue') \in Nat
      BY <1>0, <3>3, SMT
    <3>. QED  BY <1>0, <3>1, <3>3, <3>4, NotifiesAtOnce, Zenon
  <2>3. CASE TryPop(t)
    <3>1. (Count(pc, "push_wait") = 0 /\ pc' = pc) \/ Moves(pc, pc', "push_wait", "push")
      BY <1>0, <2>3, NotifyOneMoves, Zenon DEF TryPop, not_full
    <3>2. Len(queue') = Len(queue) - 1 /\ Len(queue) > 0 /\ UNCHANGED <<capacity, closed>>
      BY <2>3, DequeueType, Zenon DEF TryPop
    <3>3. Len(queue') \in Nat
      BY <1>0, <3>2, SMT
    <3>. QED  BY <1>0, <3>1, <3>2, <3>3, NotifiesAtOnce, Zenon
  <2>4. CASE TryPushRefused(t) \/ TryPopRefused(t)
    BY <1>1, <2>4, Zenon DEF TryPushRefused, TryPopRefused
  <2>5. CASE Close(t)
    <3>1. Moves(pc, pc', "idle", "close_empty")
      BY <1>l, <1>m, <2>5, Zenon DEF Close
    <3>. QED  BY <1>0, <2>5, <3>1, Closes, Zenon DEF Close
  <2>. QED  BY <1>2, <2>1, <2>2, <2>3, <2>4, <2>5, Zenon DEF Call
<1>3. ASSUME NEW t \in Threads, Step(t)
      PROVE  Woken(pc', Len(queue'), closed', capacity')
  <2>1. CASE PushWait(t) \/ PopWait(t)
    <3>1. \/ Len(queue) >= capacity /\ Moves(pc, pc', "push", "push_wait")
          \/ queue = << >> /\ Moves(pc, pc', "pop", "pop_wait")
      BY <1>l, <1>m, <2>1, Zenon DEF PushWait, PopWait
    <3>2. queue = << >> => Len(queue) = 0
      OBVIOUS
    <3>3. ~ closed /\ UNCHANGED <<capacity, queue, closed>>
      BY <2>1, Zenon DEF PushWait, PopWait
    <3>. QED  BY <1>0, <3>1, <3>2, <3>3, Waits, Zenon
  <2>2. CASE PushClosed(t) \/ PopClosed(t)
    <3>1. Moves(pc, pc', "push", "idle") \/ (queue = << >> /\ Moves(pc, pc', "pop", "idle"))
      BY <1>l, <1>m, <2>2, Zenon DEF PushClosed, PopClosed
    <3>2. queue = << >> => Len(queue) = 0
      OBVIOUS
    <3>3. closed /\ UNCHANGED <<capacity, queue, closed>>
      BY <2>2, Zenon DEF PushClosed, PopClosed
    <3>. QED  BY <1>0, <3>1, <3>2, <3>3, EndsClosed, Zenon
  <2>3. CASE PushItem(t)
    <3>1. Moves(pc, pc', "push", "push_notify")
      BY <1>l, <1>m, <2>3, Zenon DEF PushItem
    <3>2. item[t] \in Items
      BY <2>3, Zenon DEF PushItem, BlockingTypeOK
    <3>3. Len(queue') = Len(queue) + 1 /\ UNCHANGED <<capacity, closed>>
      BY <2>3, <3>2, EnqueueType, Zenon DEF PushItem
    <3>. QED  BY <1>0, <3>1, <3>3, Adds, Zenon
  <2>4. CASE PopItem(t)
    <3>1. Moves(pc, pc', "pop", "pop_notify")
      BY <1>l, <1>m, <2>4, Zenon DEF PopItem
    <3>2. Len(queue') = Len(queue) - 1 /\ Len(queue) > 0 /\ UNCHANGED <<capacity, closed>>
      BY <2>4, DequeueType, Zenon DEF PopItem
    <3>. QED  BY <1>0, <3>1, <3>2, Removes, Zenon
  <2>5. CASE PushNotify(t)
    <3>1. PICK r : /\ Moves(pc, r, "push_notify", "idle")
                   /\ (Count(r, "pop_wait") = 0 /\ pc' = r) \/ Moves(r, pc', "pop_wait", "pop")
      BY <1>0, <2>5, NotifyOneMoves, Zenon DEF PushNotify, not_empty
    <3>2. UNCHANGED <<capacity, queue, closed>>
      BY <2>5, Zenon DEF PushNotify
    <3>3. AllCounts(r)
      BY CountTypes, Zenon
    <3>. QED  BY <1>0, <3>1, <3>2, <3>3, NotifiesLater, Zenon
  <2>6. CASE PopNotify(t)
    <3>1. PICK r : /\ Moves(pc, r, "pop_notify", "idle")
                   /\ (Count(r, "push_wait") = 0 /\ pc' = r) \/ Moves(r, pc', "push_wait", "push")
      BY <1>0, <2>6, NotifyOneMoves, Zenon DEF PopNotify, not_full
    <3>2. UNCHANGED <<capacity, queue, closed>>
      BY <2>6, Zenon DEF PopNotify
    <3>3. AllCounts(r)
      BY CountTypes, Zenon
    <3>. QED  BY <1>0, <3>1, <3>2, <3>3, NotifiesLater, Zenon
  <2>7. CASE CloseNotEmpty(t) \/ CloseNotFull(t)
    <3>1. UNCHANGED <<capacity, queue, closed>>
      BY <2>7, Zenon DEF CloseNotEmpty, CloseNotFull
    <3>. QED  BY <1>0, <2>7, <3>1, NotifiesAll, Zenon
  <2>. QED  BY <1>3, <2>1, <2>2, <2>3, <2>4, <2>5, <2>6, <2>7, Zenon DEF Step
<1>4. ASSUME NEW t \in Threads, SpuriousWakeup(t)
      PROVE  Woken(pc', Len(queue'), closed', capacity')
  <2>1. Moves(pc, pc', "push_wait", "push") \/ Moves(pc, pc', "pop_wait", "pop")
    BY <1>l, <1>m, <1>4, Zenon DEF SpuriousWakeup
  <2>2. UNCHANGED <<capacity, queue, closed>>
    BY <1>4, Zenon DEF SpuriousWakeup
  <2>. QED  BY <1>0, <2>1, <2>2, BeginsCall, Zenon
<1>. QED  BY <1>1, <1>2, <1>3, <1>4, Zenon DEF BlockingNext

\* The inductive invariant: the two statements about wakeups, with the types and
\* the bound of the queue, are inductive together.
BlockingInv == BlockingTypeOK /\ ConsumersAreWoken /\ ProducersAreWoken

\* BlockingInv, the types and the two promises about wakeups together, is an
\* invariant of the steps of any number of threads.
THEOREM BlockingInvariance == BlockingSpec => []BlockingInv
<1>1. BlockingInit => BlockingInv
  BY InitType, InitWoken, InCounts, Zenon DEF BlockingInv
<1>2. BlockingInv /\ [BlockingNext]_blocking => BlockingInv'
  <2>. SUFFICES ASSUME BlockingInv, [BlockingNext]_blocking PROVE BlockingInv'
    OBVIOUS
  <2>1. BlockingTypeOK'
    BY TypeStep, Zenon DEF BlockingInv
  <2>2. Woken(pc', Len(queue'), closed', capacity')
    BY WokenStep, InCounts, Zenon DEF BlockingInv
  <2>3. ConsumersAreWoken' /\ ProducersAreWoken'
    BY <2>2, InCounts, Zenon
  <2>. QED  BY <2>1, <2>3, Zenon DEF BlockingInv
<1>. QED  BY <1>1, <1>2, PTL DEF BlockingSpec

\* No wakeup of a waiting pop is lost, although push and close notify after they
\* have unlocked, for any number of threads.
THEOREM NoConsumerForgotten == BlockingSpec => []ConsumersAreWoken
<1>1. BlockingInv => ConsumersAreWoken
  BY Zenon DEF BlockingInv
<1>. QED  BY <1>1, BlockingInvariance, PTL

\* No wakeup of a waiting push is lost, although pop and close notify after they
\* have unlocked, for any number of threads.
THEOREM NoProducerForgotten == BlockingSpec => []ProducersAreWoken
<1>1. BlockingInv => ProducersAreWoken
  BY Zenon DEF BlockingInv
<1>. QED  BY <1>1, BlockingInvariance, PTL

-----------------------------------------------------------------------------
(* The slots of a ring of any capacity C, and what a FixedMessage returns. *)

\* A position is its cell plus a multiple of the capacity.
LEMMA Division ==
    ASSUME NEW C \in Nat \ {0}, NEW n \in Nat
    PROVE  n \div C \in Int /\ n % C \in 0..(C - 1) /\ n = C * (n \div C) + (n % C)
OBVIOUS

\* Positions less than the capacity apart are served by different cells.
LEMMA DistinctCells ==
    ASSUME NEW C \in Nat \ {0}, NEW q \in Nat, NEW r \in Nat, q < r, r < q + C
    PROVE  q % C # r % C
<1>1. PICK j \in Int, c \in 0..(C - 1) : q = C * j + c /\ c = q % C
  BY Division, Zenon
<1>2. PICK k \in Int, e \in 0..(C - 1) : r = C * k + e /\ e = r % C
  BY Division, Zenon
<1>3. PICK d \in Int : d = k - j /\ C * d = C * k - C * j
  OBVIOUS
<1>4. (d <= 0 => C * d <= 0) /\ (d > 0 => C * d >= C) /\ C * j \in Int /\ C * k \in Int
  OBVIOUS
<1>5. c = e => C * d = r - q
  BY <1>1, <1>2, <1>3, <1>4
<1>. QED  BY <1>1, <1>2, <1>4, <1>5

\* copy_to returns exactly the bytes assign was given, whatever an earlier
\* and longer message left in the buffer.
LEMMA AssignContents ==
    ASSUME NEW m \in Message, NEW p \in Seq(Byte), Fits(p), NEW s \in Nat
    PROVE  /\ Assign(m, p, s) \in Message
           /\ Assign(m, p, s).sequence = s
           /\ Contents(Assign(m, p, s)) = p
BY MaxPayloadSizeAssumption DEF Assign, Contents, Fits, Message, Storage

Accepted == {payload \in Payloads : Fits(payload)}

Deliveries == Seq([sequence : Nat, payload : Seq(Byte)])

-----------------------------------------------------------------------------
(* SPMCInv is inductive.                                                   *)

LEMMA OldestFacts ==
    ASSUME TypeOK
    PROVE  /\ Oldest \in Nat \ {0}
           /\ Oldest <= published_sequence + 1
           /\ published_sequence < Oldest + Capacity
           /\ Oldest > 1 => Oldest - 1 + Capacity <= published_sequence
BY MulticastAssumption DEF TypeOK, Oldest

LEMMA SlotIndex ==
    ASSUME NEW s \in Nat \ {0}
    PROVE  SlotOf(s) \in Slots
<1>1. s - 1 \in Nat
  OBVIOUS
<1>. QED  BY <1>1, Division, MulticastAssumption, Zenon DEF SlotOf, Slots

\* Publications less than the capacity apart have slots of their own.
LEMMA SlotsDiffer ==
    ASSUME NEW s \in Nat \ {0}, NEW t \in Nat \ {0}, s < t, t < s + Capacity
    PROVE  SlotOf(s) # SlotOf(t)
<1>1. /\ s - 1 \in Nat /\ t - 1 \in Nat /\ s - 1 < t - 1 /\ t - 1 < s - 1 + Capacity
      /\ Capacity \in Nat \ {0}
  BY MulticastAssumption
<1>2. PICK q \in Nat, r \in Nat : q = s - 1 /\ r = t - 1
  BY <1>1, Zenon
<1>. QED  BY <1>1, <1>2, DistinctCells, Zenon DEF SlotOf

LEMMA InitInv == Init => SPMCInv
<1>. SUFFICES ASSUME Init PROVE SPMCInv
  BY Zenon
<1>1. EmptyMessage \in Message
  BY ByteAssumption, MaxPayloadSizeAssumption DEF EmptyMessage, Message, Storage
<1>2. /\ log = << >> /\ start = << >> /\ received = << >> /\ published_sequence = 0
      /\ Len(log) = 0 /\ Len(start) = 0 /\ Len(received) = 0
  BY Zenon DEF Init
<1>3. TypeOK
  BY <1>1, <1>2 DEF Init, TypeOK
<1>4. Oldest = 1 /\ Oldest..published_sequence = {}
  BY <1>2, MulticastAssumption DEF Oldest
<1>5. CursorsStarted
  BY Zenon DEF Init, CursorsStarted
<1>. QED  BY <1>3, <1>4, <1>5, Zenon DEF SPMCInv, RetainedInSlots

\* The slot that is written to belonged to the sequence that is no longer retained.
LEMMA PublishKeeps ==
    ASSUME SPMCInv, NEW payload \in Payloads, Publish(payload)
    PROVE  SPMCInv'
<1>1. TypeOK /\ RetainedInSlots
  BY Zenon DEF SPMCInv
<1>2. PICK s \in Nat \ {0}, i \in Slots, m \in Message :
          /\ s = published_sequence + 1 /\ i = SlotOf(s) /\ m = slots[i]
  BY <1>1, SlotIndex DEF TypeOK
<1>3. /\ slots' = [slots EXCEPT ![i] = Assign(m, payload, s)] /\ published_sequence' = s
      /\ log' = Append(log, payload) /\ Fits(payload)
      /\ UNCHANGED <<attached, next_sequence, registration, start, received>>
  BY <1>2, Zenon DEF Publish
<1>4. payload \in Seq(Byte) /\ payload \in Accepted
  BY <1>3, MulticastAssumption, Zenon DEF Accepted
<1>5. PICK new \in Message :
          /\ new = Assign(m, payload, s) /\ new.sequence = s /\ Contents(new) = payload
  BY <1>3, <1>4, AssignContents
<1>6. /\ slots' \in [Slots -> Message] /\ slots'[i] = new
      /\ \A j \in Slots \ {i} : slots'[j] = slots[j]
  BY <1>1, <1>3, <1>5, Zenon DEF TypeOK
<1>7. /\ log' \in Seq(Accepted) /\ Len(log') = s /\ log'[s] = payload
      /\ \A q \in 1..published_sequence : log'[q] = log[q]
  <2>1. log \in Seq(Accepted) /\ Len(log) = published_sequence
    BY <1>1, Zenon DEF TypeOK, Accepted
  <2>. QED  BY <1>2, <1>3, <1>4, <2>1
<1>8. TypeOK'
  BY <1>1, <1>3, <1>6, <1>7, Zenon DEF TypeOK, Accepted, Fits, Slots, Message, Storage
<1>9. ASSUME NEW q \in Oldest'..published_sequence'
      PROVE  slots'[SlotOf(q)].sequence = q /\ Contents(slots'[SlotOf(q)]) = log'[q]
  <2>1. /\ Oldest \in Nat \ {0} /\ Oldest' \in Nat \ {0} /\ s < Oldest' + Capacity
        /\ Oldest <= Oldest' /\ q \in Nat \ {0} /\ q <= s /\ Oldest' <= q
    <3>1. /\ Oldest' \in Nat \ {0} /\ published_sequence' < Oldest' + Capacity
      BY <1>2, <1>3, MulticastAssumption DEF Oldest
    <3>2. Oldest \in Nat \ {0} /\ Oldest <= Oldest'
      BY <1>1, <1>2, <1>3, MulticastAssumption DEF TypeOK, Oldest
    <3>. QED  BY <1>3, <1>9, <3>1, <3>2
  <2>2. CASE q = s
    BY <1>2, <1>5, <1>6, <1>7, <2>2, Zenon
  <2>3. CASE q # s
    <3>1. q \in Oldest..published_sequence /\ q < s /\ s < q + Capacity /\ q \in 1..published_sequence
      <4>1. PICK low \in Nat \ {0}, higher \in Nat \ {0} :
                /\ low = Oldest /\ low <= higher /\ higher <= q /\ s < higher + Capacity
        BY <2>1, Zenon
      <4>2. PICK high \in Nat : high = published_sequence /\ s = high + 1 /\ Capacity \in Nat
        BY <1>1, <1>2, MulticastAssumption, Zenon DEF TypeOK
      <4>3. q \in low..high /\ q < s /\ s < q + Capacity /\ q \in 1..high
        BY <2>1, <2>3, <4>1, <4>2
      <4>. QED  BY <4>1, <4>2, <4>3, Zenon
    <3>2. SlotOf(q) \in Slots /\ SlotOf(q) # i
      BY <1>2, <2>1, <3>1, SlotsDiffer, SlotIndex, Zenon
    <3>3. slots'[SlotOf(q)] = slots[SlotOf(q)] /\ log'[q] = log[q]
      BY <1>6, <1>7, <3>1, <3>2, Zenon
    <3>. QED  BY <1>1, <3>1, <3>3, Zenon DEF RetainedInSlots
  <2>. QED  BY <2>2, <2>3, Zenon
<1>10. RetainedInSlots'
  BY <1>9, Zenon DEF RetainedInSlots, SlotOf, Contents
<1>11. CursorsStarted'
  BY <1>3, Zenon DEF SPMCInv, CursorsStarted
<1>. QED  BY <1>8, <1>10, <1>11, Zenon DEF SPMCInv

\* The slots are only written to by a publication.
LEMMA ConsumersKeepSlots ==
    ASSUME SPMCInv, UNCHANGED ring
    PROVE  RetainedInSlots'
<1>1. Oldest' = Oldest
  BY Zenon DEF ring, Oldest
<1>. QED  BY <1>1 DEF SPMCInv, RetainedInSlots, ring, SlotOf, Contents

LEMMA RegisterKeeps ==
    ASSUME SPMCInv, NEW h \in Handles, Register(h)
    PROVE  SPMCInv'
<1>1. TypeOK /\ UNCHANGED <<slots, published_sequence, log>> /\ UNCHANGED ring
  BY Zenon DEF SPMCInv, Register, ring
<1>2. PICK n \in Nat, s \in Nat : n = Len(start) /\ s = published_sequence + 1
  BY <1>1 DEF TypeOK
<1>3. /\ next_sequence' = [next_sequence EXCEPT ![h] = s]
      /\ registration' = [registration EXCEPT ![h] = n + 1]
      /\ start' = Append(start, s) /\ received' = Append(received, << >>)
  BY <1>2, Zenon DEF Register
<1>4. /\ start' \in Seq(Nat) /\ Len(start') = n + 1
      /\ next_sequence' \in [Handles -> Nat] /\ registration' \in [Handles -> 0..(n + 1)]
  BY <1>1, <1>2, <1>3 DEF TypeOK
<1>5. received' \in Seq(Deliveries) /\ Len(received') = n + 1
  <2>1. received \in Seq(Deliveries) /\ Len(received) = n
    BY <1>1, <1>2, Zenon DEF TypeOK, Deliveries
  <2>2. << >> \in Deliveries
    BY DEF Deliveries
  <2>. QED  BY <1>3, <2>1, <2>2
<1>6. attached' \in [Handles -> BOOLEAN]
  BY <1>1, Zenon DEF TypeOK, Register
<1>7. TypeOK'
  BY <1>1, <1>4, <1>5, <1>6, Zenon DEF TypeOK, Deliveries, Fits, Slots, Message, Storage
<1>8. CursorsStarted'
  <2>1. s # 0 /\ next_sequence \in [Handles -> Nat]
    BY <1>1, <1>2 DEF TypeOK
  <2>2. \A g \in Handles \ {h} : attached'[g] = attached[g]
    BY <1>1, Zenon DEF TypeOK, Register
  <2>. QED  BY <1>3, <2>1, <2>2, Zenon DEF SPMCInv, CursorsStarted
<1>. QED  BY <1>1, <1>7, <1>8, ConsumersKeepSlots, Zenon DEF SPMCInv

LEMMA MoveKeeps ==
    ASSUME SPMCInv, NEW h \in Handles, NEW g \in Handles, MoveConsumer(h, g)
    PROVE  SPMCInv'
<1>1. /\ TypeOK /\ UNCHANGED <<slots, published_sequence, log, start, received>> /\ UNCHANGED ring
  BY Zenon DEF SPMCInv, MoveConsumer, ring
<1>2. attached' \in [Handles -> BOOLEAN]
  <2>1. attached \in [Handles -> BOOLEAN] /\ attached[h] \in BOOLEAN
    BY <1>1, Zenon DEF TypeOK
  <2>2. PICK between \in [Handles -> BOOLEAN] : between = [attached EXCEPT ![g] = attached[h]]
    BY <2>1, Zenon
  <2>3. attached' = [between EXCEPT ![h] = FALSE]
    BY <2>2, Zenon DEF MoveConsumer
  <2>. QED  BY <2>3, Zenon
<1>3. next_sequence' \in [Handles -> Nat] /\ registration' \in [Handles -> 0..Len(start)]
  BY <1>1, Zenon DEF TypeOK, MoveConsumer
<1>4. TypeOK'
  BY <1>1, <1>2, <1>3, Zenon DEF TypeOK, Fits, Slots, Message, Storage
<1>5. CursorsStarted'
  <2>1. \A e \in Handles : e # g => (attached'[e] => attached[e])
    BY <1>1, Zenon DEF TypeOK, MoveConsumer
  <2>2. attached'[g] => attached[h]
    BY <1>1, Zenon DEF TypeOK, MoveConsumer
  <2>3. /\ next_sequence'[g] = next_sequence[h]
        /\ \A e \in Handles : e # g => next_sequence'[e] = next_sequence[e]
    BY <1>1, Zenon DEF TypeOK, MoveConsumer
  <2>. QED  BY <2>1, <2>2, <2>3, Zenon DEF SPMCInv, CursorsStarted
<1>. QED  BY <1>1, <1>4, <1>5, ConsumersKeepSlots, Zenon DEF SPMCInv

-----------------------------------------------------------------------------
(* try_read                                                                *)

\* The slot of the wanted sequence holds it: overwritten is never reported, and
\* what is delivered is what was published.
LEMMA ReadSlotFacts ==
    ASSUME SPMCInv, NEW h \in Handles, NEW destination, ReadSlot(h, destination)
    PROVE  /\ UNCHANGED <<ring, attached, registration, start>>
           /\ attached[h] /\ next_sequence[h] \in 1..published_sequence
           /\ \/ UNCHANGED <<next_sequence, received>>
              \/ /\ next_sequence' = [next_sequence EXCEPT ![h] = next_sequence[h] + 1]
                 /\ received' = [received EXCEPT ![registration[h]] =
                                    Append(@, [sequence |-> next_sequence[h],
                                               payload |-> log[next_sequence[h]]])]
<1>1. TypeOK /\ RetainedInSlots
  BY Zenon DEF SPMCInv
<1>2. PICK s, m : s = next_sequence[h] /\ m = slots[SlotOf(s)]
  BY Zenon
<1>3. /\ attached[h] /\ Oldest <= s /\ s <= published_sequence
      /\ UNCHANGED <<ring, attached, registration, start>>
  BY <1>2, Zenon DEF ReadSlot
<1>4. s \in Oldest..published_sequence /\ s \in 1..published_sequence
  BY <1>1, <1>2, <1>3, OldestFacts DEF TypeOK
<1>5. m.sequence = s /\ Contents(m) = log[s]
  BY <1>1, <1>2, <1>4, Zenon DEF RetainedInSlots
<1>6. IF CopyTo(m, destination).status = "success"
      THEN /\ next_sequence' = [next_sequence EXCEPT ![h] = @ + 1]
           /\ received' = [received EXCEPT ![registration[h]] =
                              Append(@, [sequence |-> CopyTo(m, destination).sequence,
                                         payload |-> CopyTo(m, destination).payload])]
      ELSE UNCHANGED <<next_sequence, received>>
  BY <1>2, <1>5, Zenon DEF ReadSlot
<1>7. CopyTo(m, destination).status = "success" =>
          CopyTo(m, destination).sequence = s /\ CopyTo(m, destination).payload = log[s]
  BY <1>5, Zenon DEF CopyTo
<1>. QED  BY <1>2, <1>3, <1>4, <1>6, <1>7, Zenon

LEMMA NoSuchElement ==
    ASSUME NEW T, NEW f \in Seq(T), NEW r, r \notin 1..Len(f), NEW x
    PROVE  [f EXCEPT ![r] = x] = f
OBVIOUS

LEMMA ReadSlotKeeps ==
    ASSUME SPMCInv, NEW h \in Handles, NEW destination, ReadSlot(h, destination)
    PROVE  SPMCInv'
<1>1. /\ TypeOK /\ UNCHANGED <<slots, published_sequence, log, attached, registration, start>>
      /\ UNCHANGED ring
  BY ReadSlotFacts, Zenon DEF SPMCInv, ring
<1>2. PICK s \in Nat : s = next_sequence[h] /\ s \in 1..published_sequence
  BY <1>1, ReadSlotFacts, Zenon DEF TypeOK
<1>3. next_sequence' \in [Handles -> Nat]
  <2>1. next_sequence \in [Handles -> Nat]
    BY <1>1, Zenon DEF TypeOK
  <2>2. \/ next_sequence' = next_sequence
        \/ next_sequence' = [next_sequence EXCEPT ![h] = s + 1]
    BY <1>2, ReadSlotFacts, Zenon
  <2>. QED  BY <2>1, <2>2
<1>4. received \in Seq(Deliveries) /\ Len(received) = Len(start)
  BY <1>1, Zenon DEF TypeOK, Deliveries
<1>5. received' \in Seq(Deliveries) /\ Len(received') = Len(received)
  <2>1. CASE UNCHANGED received
    BY <1>4, <2>1, Zenon
  <2>2. CASE received' = [received EXCEPT ![registration[h]] =
                             Append(@, [sequence |-> next_sequence[h],
                                        payload |-> log[next_sequence[h]]])]
    <3>1. log[s] \in Seq(Byte)
      <4>1. log \in Seq(Accepted) /\ Len(log) = published_sequence
        BY <1>1, Zenon DEF TypeOK, Accepted
      <4>. QED  BY <1>2, <4>1, MulticastAssumption DEF Accepted
    <3>2. PICK delivery, r :
              /\ delivery \in [sequence : Nat, payload : Seq(Byte)]
              /\ delivery = [sequence |-> s, payload |-> log[s]] /\ r = registration[h]
      <4>1. [sequence |-> s, payload |-> log[s]] \in [sequence : Nat, payload : Seq(Byte)]
        BY <3>1, Zenon
      <4>. QED  BY <4>1, Zenon
    <3>3. received' = [received EXCEPT ![r] = Append(received[r], delivery)]
      BY <1>2, <2>2, <3>2, Zenon
    <3>4. CASE r \in 1..Len(received)
      <4>1. Append(received[r], delivery) \in Deliveries
        <5>1. received[r] \in Deliveries
          BY <1>4, <3>4
        <5>. QED  BY <3>2, <5>1 DEF Deliveries
      <4>. QED  BY <1>4, <3>3, <3>4, <4>1
    <3>5. CASE r \notin 1..Len(received)
      BY <1>4, <3>3, <3>5, NoSuchElement, Zenon
    <3>. QED  BY <3>4, <3>5, Zenon
  <2>. QED  BY <2>1, <2>2, ReadSlotFacts, Zenon
<1>6. TypeOK'
  BY <1>1, <1>3, <1>4, <1>5, Zenon DEF TypeOK, Deliveries, Fits, Slots, Message, Storage
<1>7. CursorsStarted'
  <2>1. next_sequence \in [Handles -> Nat] /\ s + 1 # 0
    BY <1>1 DEF TypeOK
  <2>2. \/ next_sequence' = next_sequence
        \/ next_sequence' = [next_sequence EXCEPT ![h] = s + 1]
    BY <1>2, ReadSlotFacts, Zenon
  <2>. QED  BY <1>1, <2>1, <2>2, Zenon DEF SPMCInv, CursorsStarted
<1>. QED  BY <1>1, <1>6, <1>7, ConsumersKeepSlots, Zenon DEF SPMCInv

LEMMA ReadLaggedKeeps ==
    ASSUME SPMCInv, NEW h \in Handles, ReadLagged(h)
    PROVE  SPMCInv'
<1>1. /\ TypeOK /\ UNCHANGED <<slots, published_sequence, log, attached, registration, start, received>>
      /\ UNCHANGED ring
  BY Zenon DEF SPMCInv, ReadLagged, ring
<1>2. next_sequence' \in [Handles -> Nat]
  <2>1. next_sequence \in [Handles -> Nat] /\ Oldest \in Nat
    BY <1>1, OldestFacts, Zenon DEF TypeOK
  <2>. QED  BY <2>1, Zenon DEF ReadLagged
<1>3. TypeOK'
  BY <1>1, <1>2, Zenon DEF TypeOK, Fits, Slots, Message, Storage
<1>4. CursorsStarted'
  <2>1. next_sequence \in [Handles -> Nat] /\ Oldest # 0
    BY <1>1, OldestFacts, Zenon DEF TypeOK
  <2>. QED  BY <1>1, <2>1, Zenon DEF SPMCInv, CursorsStarted, ReadLagged
<1>. QED  BY <1>1, <1>3, <1>4, ConsumersKeepSlots, Zenon DEF SPMCInv

LEMMA StutterKeeps ==
    ASSUME SPMCInv, UNCHANGED vars
    PROVE  SPMCInv'
<1>1. UNCHANGED ring /\ TypeOK
  BY Zenon DEF SPMCInv, vars, ring
<1>2. TypeOK'
  BY <1>1, Zenon DEF vars, TypeOK, Fits, Slots, Message, Storage
<1>3. CursorsStarted'
  BY Zenon DEF SPMCInv, vars, CursorsStarted
<1>. QED  BY <1>1, <1>2, <1>3, ConsumersKeepSlots, Zenon DEF SPMCInv

LEMMA NextInv == SPMCInv /\ [Next]_vars => SPMCInv'
<1>. SUFFICES ASSUME SPMCInv, [Next]_vars PROVE SPMCInv'
  BY Zenon
<1>1. ASSUME NEW payload \in Payloads, PublishTooLarge(payload) \/ Publish(payload)
      PROVE  SPMCInv'
  BY <1>1, PublishKeeps, StutterKeeps, Zenon DEF PublishTooLarge
<1>2. ASSUME NEW h \in Handles, Read(h)
      PROVE  SPMCInv'
  BY <1>2, ReadSlotKeeps, ReadLaggedKeeps, StutterKeeps, Zenon DEF Read, ReadInvalid, ReadEmpty
<1>. QED  BY <1>1, <1>2, RegisterKeeps, MoveKeeps, StutterKeeps, Zenon DEF Next

\* Every retained publication is in its slot, for every capacity: the branch of
\* try_read that reports overwritten is never taken.
THEOREM Invariance == Spec => []SPMCInv
BY InitInv, NextInv, PTL DEF Spec

-----------------------------------------------------------------------------
(* The queue implements the multicast contract.                            *)

Promises == INSTANCE MulticastContractProofs WITH
                Payloads <- {payload \in Payloads : Fits(payload)}

LEMMA InitContract == Init => Contract!Init
BY Zenon DEF Init, Contract!Init

LEMMA PublishContract ==
    ASSUME SPMCInv, NEW payload \in Payloads, Publish(payload)
    PROVE  Contract!Publish
<1>1. /\ payload \in Accepted /\ log' = Append(log, payload)
      /\ UNCHANGED <<attached, next_sequence, registration, start, received>>
  BY Zenon DEF Publish, Accepted
<1>. QED  BY <1>1, Zenon DEF Contract!Publish, Accepted

LEMMA RegisterContract ==
    ASSUME SPMCInv, NEW h \in Handles, Register(h)
    PROVE  Contract!Register(h)
<1>1. PICK s : s = published_sequence + 1
  BY Zenon
<1>2. s \in 1..(Len(log) + 1)
  BY <1>1 DEF SPMCInv, TypeOK
<1>3. /\ next_sequence' = [next_sequence EXCEPT ![h] = s] /\ start' = Append(start, s)
      /\ attached' = [attached EXCEPT ![h] = TRUE]
      /\ registration' = [registration EXCEPT ![h] = Len(start) + 1]
      /\ received' = Append(received, << >>) /\ UNCHANGED log
  BY <1>1, Zenon DEF Register, ring
<1>. QED  BY <1>2, <1>3, Zenon DEF Contract!Register

LEMMA MoveContract ==
    ASSUME NEW h \in Handles, NEW g \in Handles, MoveConsumer(h, g)
    PROVE  Contract!Move(h, g)
BY Zenon DEF MoveConsumer, Contract!Move, ring

LEMMA LaggedContract ==
    ASSUME SPMCInv, NEW h \in Handles, ReadLagged(h)
    PROVE  Contract!Skip(h)
<1>1. PICK s : s = Oldest
  BY Zenon
<1>2. /\ attached[h] /\ next_sequence[h] < s
      /\ next_sequence' = [next_sequence EXCEPT ![h] = s]
      /\ UNCHANGED <<log, attached, registration, start, received>>
  BY <1>1, Zenon DEF ReadLagged, ring
<1>3. /\ TypeOK /\ next_sequence[h] \in Nat \ {0} /\ Len(log) = published_sequence
      /\ published_sequence \in Nat /\ Capacity \in Nat \ {0}
  BY <1>2, MulticastAssumption, Zenon DEF SPMCInv, TypeOK, CursorsStarted
<1>4. s \in next_sequence[h]..Len(log) /\ s - 1 + Capacity <= Len(log)
  BY <1>1, <1>2, <1>3, OldestFacts
<1>. QED  BY <1>2, <1>4, Zenon DEF Contract!Skip

LEMMA ReadSlotContract ==
    ASSUME SPMCInv, NEW h \in Handles, NEW destination, ReadSlot(h, destination)
    PROVE  Contract!Deliver(h) \/ UNCHANGED Contract!vars
<1>1. /\ attached[h] /\ UNCHANGED <<log, attached, registration, start>>
      /\ next_sequence[h] <= Len(log)
  <2>1. published_sequence \in Nat /\ Len(log) = published_sequence
    BY Zenon DEF SPMCInv, TypeOK
  <2>2. /\ attached[h] /\ UNCHANGED <<ring, attached, registration, start>>
        /\ next_sequence[h] \in 1..published_sequence
    BY ReadSlotFacts, Zenon
  <2>3. UNCHANGED <<log, attached, registration, start>>
    BY <2>2, Zenon DEF ring
  <2>4. next_sequence[h] <= Len(log)
    BY <2>1, <2>2
  <2>. QED  BY <2>2, <2>3, <2>4, Zenon
<1>2. CASE UNCHANGED <<next_sequence, received>>
  BY <1>1, <1>2, Zenon DEF Contract!vars
<1>3. CASE /\ next_sequence' = [next_sequence EXCEPT ![h] = next_sequence[h] + 1]
           /\ received' = [received EXCEPT ![registration[h]] =
                              Append(@, [sequence |-> next_sequence[h],
                                         payload |-> log[next_sequence[h]]])]
  <2>1. next_sequence' = [next_sequence EXCEPT ![h] = @ + 1]
    BY <1>3, Zenon
  <2>2. Contract!Deliver(h)
    BY <1>1, <1>3, <2>1, Zenon DEF Contract!Deliver
  <2>. QED  BY <2>2, Zenon
<1>. QED  BY <1>2, <1>3, ReadSlotFacts, Zenon

LEMMA NextContract == SPMCInv /\ [Next]_vars => [Contract!Next]_(Contract!vars)
<1>. SUFFICES ASSUME SPMCInv, [Next]_vars PROVE [Contract!Next]_(Contract!vars)
  BY Zenon
<1>1. ASSUME UNCHANGED vars PROVE UNCHANGED Contract!vars
  BY <1>1, Zenon DEF vars, Contract!vars
<1>2. ASSUME NEW payload \in Payloads, PublishTooLarge(payload) \/ Publish(payload)
      PROVE  Contract!Next \/ UNCHANGED Contract!vars
  BY <1>1, <1>2, PublishContract, Zenon DEF PublishTooLarge, Contract!Next
<1>3. ASSUME NEW h \in Handles, Register(h)
      PROVE  Contract!Next
  BY <1>3, RegisterContract, Zenon DEF Contract!Next
<1>4. ASSUME NEW h \in Handles, NEW g \in Handles, MoveConsumer(h, g)
      PROVE  Contract!Next
  BY <1>4, MoveContract, Zenon DEF Contract!Next
<1>5. ASSUME NEW h \in Handles, Read(h)
      PROVE  Contract!Next \/ UNCHANGED Contract!vars
  BY <1>1, <1>5, LaggedContract, ReadSlotContract, Zenon DEF Read, ReadInvalid, ReadEmpty,
     Contract!Next
<1>. QED  BY <1>1, <1>2, <1>3, <1>4, <1>5, Zenon DEF Next

\* Every operation under the mutex is a step of the multicast contract or changes
\* nothing that its callers see.
THEOREM MutexQueueKeepsContract == Spec => ImplementsContract
BY InitContract, NextContract, Invariance, PTL DEF Spec, ImplementsContract, Contract!Spec

LEMMA SameContract ==
    /\ Contract!Init => Promises!Init
    /\ [Contract!Next]_(Contract!vars) => [Promises!Next]_(Promises!vars)
<1>1. Contract!Publish => Promises!Publish
  BY Zenon DEF Promises!Publish, Contract!Publish
<1>2. ASSUME NEW h \in Handles
      PROVE  /\ Contract!Register(h) => Promises!Register(h)
             /\ \A g \in Handles : Contract!Move(h, g) => Promises!Move(h, g)
             /\ Contract!Deliver(h) => Promises!Deliver(h)
             /\ Contract!Skip(h) => Promises!Skip(h)
  BY Zenon DEF Promises!Register, Contract!Register, Promises!Move, Contract!Move,
               Promises!Deliver, Contract!Deliver, Promises!Skip, Contract!Skip
<1>3. Contract!Next => Promises!Next
  BY <1>1, <1>2, Zenon DEF Promises!Next, Contract!Next
<1>. QED  BY <1>3, Zenon DEF Promises!Init, Contract!Init, Promises!vars, Contract!vars

\* A registration misses nothing silently, for every capacity and across all moves
\* of its Consumer object: what its cursor has passed was delivered or replaced.
THEOREM NothingLostSilently == Spec => []NoSilentLoss
<1>1. Capacity \in Nat
  BY MulticastAssumption, Zenon
<1>2. Init => Promises!ContractInv
  BY InitContract, SameContract, Promises!InitInv, Zenon
<1>3. SPMCInv /\ Promises!ContractInv /\ [Next]_vars => Promises!ContractInv'
  BY <1>1, NextContract, SameContract, Promises!NextInv, Zenon
<1>4. Promises!ContractInv => NoSilentLoss
  <2>1. Promises!NoSilentLoss => NoSilentLoss
    BY Zenon DEF Promises!NoSilentLoss, NoSilentLoss, Contract!NoSilentLoss
  <2>. QED  BY <2>1, Zenon DEF Promises!ContractInv
<1>. QED  BY <1>2, <1>3, <1>4, Invariance, PTL DEF Spec

=============================================================================
