--------------------------- MODULE BlockingQueue ----------------------------
(***************************************************************************)
(* The closable bounded queue with a mutex and two condition variables     *)
(* (include/orbitqueue/blocking_queue.h).                                  *)
(*                                                                         *)
(* A critical section is one step, because every access of queue_ and      *)
(* closed_ is made under mutex_.  wait() gives up the mutex and joins the  *)
(* wait set in one step; a thread that is woken takes the mutex again and  *)
(* repeats the test of its predicate.  push, pop and close notify after    *)
(* they have unlocked, in a later step, so that other threads get in       *)
(* between; try_push and try_pop notify under the lock.  A waiting thread  *)
(* may also wake up by itself.                                             *)
(***************************************************************************)
EXTENDS Naturals, Sequences, FiniteSets

CONSTANTS
    Threads,
    Capacities,     \* the arguments of the constructor
    Items,
    MaxAccepted     \* bound on accepted items

ASSUME BlockingAssumption ==
    /\ IsFiniteSet(Threads)
    /\ Capacities \subseteq Nat \ {0}
    /\ MaxAccepted \in Nat

VARIABLES
    capacity,       \* capacity_
    queue,          \* queue_
    closed,         \* closed_
    pc,             \* where each thread is
    item,           \* the argument of each thread's push
    accepted,       \* history: how many items were accepted
    taken           \* history: the items handed out, in order

blocking == <<capacity, queue, closed, pc, item, accepted, taken>>

At(label) == {t \in Threads : pc[t] = label}

\* The wait sets of the two condition variables.
not_empty == At("pop_wait")
not_full == At("push_wait")

NoItem == << >>

BlockingInit ==
    /\ capacity \in Capacities
    /\ queue = << >>
    /\ closed = FALSE
    /\ pc = [t \in Threads |-> "idle"]
    /\ item = [t \in Threads |-> NoItem]
    /\ accepted = 0
    /\ taken = << >>

-----------------------------------------------------------------------------
Goto(t, label) == pc' = [pc EXCEPT ![t] = label]

\* Thread t goes on at "label" having called notify_one() on a condition
\* variable whose waiters, once woken, resume at "resume".
NotifyOne(t, label, waiting, resume) ==
    IF waiting = {}
    THEN Goto(t, label)
    ELSE \E w \in waiting : pc' = [pc EXCEPT ![t] = label, ![w] = resume]

NotifyAll(t, label, waiting, resume) ==
    pc' = [u \in Threads |->
              IF u = t THEN label ELSE IF u \in waiting THEN resume ELSE pc[u]]

Enqueue(x) ==
    /\ queue' = Append(queue, x)
    /\ accepted' = accepted + 1
    /\ UNCHANGED <<capacity, closed, taken>>

Dequeue ==
    /\ queue' = Tail(queue)
    /\ taken' = Append(taken, Head(queue))
    /\ UNCHANGED <<capacity, closed, accepted>>

-----------------------------------------------------------------------------
(* push                                                                    *)

\* The bound: pushes that could exceed MaxAccepted are not begun.
MayPush == accepted + Cardinality(At("push") \union not_full) < MaxAccepted

PushBegins(t, x) ==
    /\ pc[t] = "idle"
    /\ MayPush
    /\ Goto(t, "push")
    /\ item' = [item EXCEPT ![t] = x]
    /\ UNCHANGED <<capacity, queue, closed, accepted, taken>>

PushWait(t) ==
    /\ pc[t] = "push"
    /\ ~ closed /\ Len(queue) >= capacity
    /\ Goto(t, "push_wait")
    /\ UNCHANGED <<capacity, queue, closed, item, accepted, taken>>

PushClosed(t) ==
    /\ pc[t] = "push"
    /\ closed
    /\ Goto(t, "idle")
    /\ item' = [item EXCEPT ![t] = NoItem]
    /\ UNCHANGED <<capacity, queue, closed, accepted, taken>>

\* Mutant: the predicate lets one item too many in.
PushItemOverfull(t) ==
    /\ pc[t] = "push"
    /\ ~ closed /\ Len(queue) <= capacity
    /\ Enqueue(item[t])
    /\ Goto(t, "push_notify")
    /\ item' = [item EXCEPT ![t] = NoItem]

\* Mutant: only a push to an empty queue notifies.
PushItemNotifiesIfEmpty(t) ==
    /\ pc[t] = "push"
    /\ ~ closed /\ Len(queue) < capacity
    /\ Enqueue(item[t])
    /\ Goto(t, IF queue = << >> THEN "push_notify" ELSE "idle")
    /\ item' = [item EXCEPT ![t] = NoItem]

PushItem(t) ==
    /\ pc[t] = "push"
    /\ ~ closed /\ Len(queue) < capacity
    /\ Enqueue(item[t])
    /\ Goto(t, "push_notify")
    /\ item' = [item EXCEPT ![t] = NoItem]

\* Mutant: the other condition variable is notified.
PushNotifyWrongCondition(t) ==
    /\ pc[t] = "push_notify"
    /\ NotifyOne(t, "idle", not_full, "push")
    /\ UNCHANGED <<capacity, queue, closed, item, accepted, taken>>

PushNotify(t) ==
    /\ pc[t] = "push_notify"
    /\ NotifyOne(t, "idle", not_empty, "pop")
    /\ UNCHANGED <<capacity, queue, closed, item, accepted, taken>>

-----------------------------------------------------------------------------
(* try_push: what it refuses changes nothing.                              *)

TryPushRefused(t) ==
    /\ pc[t] = "idle"
    /\ closed \/ Len(queue) = capacity
    /\ UNCHANGED blocking

\* Mutant: closed_ is not tested.
TryPushAfterClose(t, x) ==
    /\ pc[t] = "idle"
    /\ MayPush
    /\ Len(queue) # capacity
    /\ Enqueue(x)
    /\ NotifyOne(t, "idle", not_empty, "pop")
    /\ UNCHANGED item

TryPush(t, x) ==
    /\ pc[t] = "idle"
    /\ MayPush
    /\ ~ closed /\ Len(queue) # capacity
    /\ Enqueue(x)
    /\ NotifyOne(t, "idle", not_empty, "pop")
    /\ UNCHANGED item

-----------------------------------------------------------------------------
(* pop                                                                     *)

PopBegins(t) ==
    /\ pc[t] = "idle"
    /\ Goto(t, "pop")
    /\ UNCHANGED <<capacity, queue, closed, item, accepted, taken>>

PopWait(t) ==
    /\ pc[t] = "pop"
    /\ ~ closed /\ queue = << >>
    /\ Goto(t, "pop_wait")
    /\ UNCHANGED <<capacity, queue, closed, item, accepted, taken>>

\* std::nullopt
PopClosed(t) ==
    /\ pc[t] = "pop"
    /\ closed /\ queue = << >>
    /\ Goto(t, "idle")
    /\ UNCHANGED <<capacity, queue, closed, item, accepted, taken>>

\* Mutant: nobody is told that there is room again.
PopItemSilent(t) ==
    /\ pc[t] = "pop"
    /\ queue # << >>
    /\ Dequeue
    /\ Goto(t, "idle")
    /\ UNCHANGED item

PopItem(t) ==
    /\ pc[t] = "pop"
    /\ queue # << >>
    /\ Dequeue
    /\ Goto(t, "pop_notify")
    /\ UNCHANGED item

PopNotify(t) ==
    /\ pc[t] = "pop_notify"
    /\ NotifyOne(t, "idle", not_full, "push")
    /\ UNCHANGED <<capacity, queue, closed, item, accepted, taken>>

\* try_pop
TryPopRefused(t) ==
    /\ pc[t] = "idle"
    /\ queue = << >>
    /\ UNCHANGED blocking

TryPop(t) ==
    /\ pc[t] = "idle"
    /\ queue # << >>
    /\ Dequeue
    /\ NotifyOne(t, "idle", not_full, "push")
    /\ UNCHANGED item

-----------------------------------------------------------------------------
(* close                                                                   *)

Close(t) ==
    /\ pc[t] = "idle"
    /\ closed' = TRUE
    /\ Goto(t, "close_empty")
    /\ UNCHANGED <<capacity, queue, item, accepted, taken>>

\* Mutant: waiting consumers are not woken.
CloseNotEmptySilent(t) ==
    /\ pc[t] = "close_empty"
    /\ Goto(t, "close_full")
    /\ UNCHANGED <<capacity, queue, closed, item, accepted, taken>>

CloseNotEmpty(t) ==
    /\ pc[t] = "close_empty"
    /\ NotifyAll(t, "close_full", not_empty, "pop")
    /\ UNCHANGED <<capacity, queue, closed, item, accepted, taken>>

\* Mutant: one waiting producer is woken, not all.
CloseNotFullOne(t) ==
    /\ pc[t] = "close_full"
    /\ NotifyOne(t, "idle", not_full, "push")
    /\ UNCHANGED <<capacity, queue, closed, item, accepted, taken>>

CloseNotFull(t) ==
    /\ pc[t] = "close_full"
    /\ NotifyAll(t, "idle", not_full, "push")
    /\ UNCHANGED <<capacity, queue, closed, item, accepted, taken>>

\* A wait() that returns without a notification.
SpuriousWakeup(t) ==
    /\ pc[t] \in {"push_wait", "pop_wait"}
    /\ Goto(t, IF pc[t] = "push_wait" THEN "push" ELSE "pop")
    /\ UNCHANGED <<capacity, queue, closed, item, accepted, taken>>

-----------------------------------------------------------------------------
\* A call begins; what try_push, try_pop and close do first is part of it.
Call(t) ==
    \/ \E x \in Items : PushBegins(t, x) \/ TryPush(t, x)
    \/ PopBegins(t) \/ TryPop(t) \/ TryPushRefused(t) \/ TryPopRefused(t) \/ Close(t)

\* A call goes on.
Step(t) ==
    \/ PushWait(t) \/ PushClosed(t) \/ PushItem(t) \/ PushNotify(t)
    \/ PopWait(t) \/ PopClosed(t) \/ PopItem(t) \/ PopNotify(t)
    \/ CloseNotEmpty(t) \/ CloseNotFull(t)

BlockingNext == \E t \in Threads : Call(t) \/ Step(t) \/ SpuriousWakeup(t)

BlockingSpec == BlockingInit /\ [][BlockingNext]_blocking

-----------------------------------------------------------------------------
(* Properties                                                              *)

Labels == {"idle", "push", "push_wait", "push_notify", "pop", "pop_wait",
           "pop_notify", "close_empty", "close_full"}

\* Type invariant, with the bound on the queue.
BlockingTypeOK ==
    /\ capacity \in Capacities
    /\ queue \in Seq(Items) /\ Len(queue) <= capacity
    /\ closed \in BOOLEAN
    /\ pc \in [Threads -> Labels]
    /\ item \in [Threads -> Items \union {NoItem}]
    /\ \A t \in Threads : pc[t] \in {"push", "push_wait"} => item[t] \in Items
    /\ accepted \in Nat
    /\ taken \in Seq(Items)

\* No wakeup of a consumer is lost: while consumers wait, every queued item is
\* spoken for by a consumer about to test the queue or by a notification that
\* a push still has to make; once the queue is closed one of the notifications
\* of close() is still to come.
ConsumersAreWoken ==
    not_empty # {} =>
        /\ Len(queue) <= Cardinality(At("pop")) + Cardinality(At("push_notify"))
        /\ closed => At("close_empty") # {}

\* The same for waiting producers and the free places of the queue, which are
\* of no interest to them any more once it is closed.
ProducersAreWoken ==
    not_full # {} =>
        /\ \/ closed
           \/ capacity <= Len(queue) + Cardinality(At("push")) + Cardinality(At("pop_notify"))
        /\ closed => At("close_empty") \union At("close_full") # {}

ClosableFifo == INSTANCE BoundedFifo WITH items <- queue

\* The queue implements a bounded FIFO that can be closed: nothing is accepted
\* after close(), what was queued before is still handed out in order.
ImplementsClosableFifo == ClosableFifo!Spec

\* A blocked consumer is served or the item goes to another: an item does not
\* lie in the queue while a consumer sleeps on.
ItemsReachConsumers ==
    \A t \in Threads :
        (pc[t] = "pop_wait" /\ queue # << >>) ~> (pc[t] # "pop_wait" \/ queue = << >>)

\* close() ends every blocking call, those that begin to wait around it too.
CloseReleasesAll ==
    \A t \in Threads : (closed /\ pc[t] # "idle") ~> pc[t] = "idle"

=============================================================================
