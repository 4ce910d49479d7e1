--------------------------- MODULE StressBlocking ---------------------------
(***************************************************************************)
(* The test of close() in stress/queue_stress.cpp                          *)
(* (run_blocking_close_smoke), put together from the steps of the queue.   *)
(*                                                                         *)
(* It has two parts, each with a queue of capacity one.  In the first      *)
(* another thread, started with std::async, waits in pop; in the second    *)
(* the queue is filled and the other thread waits in push.  The main       *)
(* thread makes sure that the call does not return, closes the queue,      *)
(* waits for the call and looks at what it returned, and at the end drains *)
(* the queue.  That the call has returned within the second the test gives *)
(* it is left to fairness: here the main thread waits as long as it takes. *)
(*                                                                         *)
(* The third client is any set of threads that make any calls              *)
(* (BlockingNext of BlockingQueue).                                        *)
(***************************************************************************)
EXTENDS BlockingQueue

CONSTANTS
    Main, Async,        \* the threads of the test
    Seven, Eight        \* the items it pushes

ASSUME StressAssumption ==
    /\ Main \in Threads /\ Async \in Threads /\ Main # Async
    /\ {Seven, Eight} \subseteq Items
    /\ 1 \in Capacities
    /\ MaxAccepted >= 2

VARIABLES
    client,             \* "waiting_pop", "waiting_push" or "any"
    main,               \* where the main thread is in the test
    returned,           \* what the last call of each thread returned
    failed              \* has a failure been recorded?

test == <<main, returned, failed>>
allvars == <<blocking, client, test>>

StressInit ==
    /\ BlockingInit
    /\ client \in {"waiting_pop", "waiting_push", "any"}
    /\ client # "any" => capacity = 1
    /\ main = IF client = "waiting_push" THEN "fill" ELSE "launch"
    /\ returned = [t \in Threads |-> "nothing"]
    /\ failed = FALSE

-----------------------------------------------------------------------------
\* What a call is known to return once it has gone from one place to another.
Outcome(t, from, to) ==
    CASE from = "push" /\ to = "push_notify" -> "success"
      [] from = "push" /\ to = "idle"        -> "closed"
      [] from = "pop"  /\ to = "pop_notify"  -> "item"
      [] from = "pop"  /\ to = "idle"        -> "nullopt"
      [] OTHER                               -> returned[t]

\* Thread t is inside one of its calls and goes on.
CallStep(t) ==
    /\ Step(t)
    /\ returned' = [returned EXCEPT ![t] = Outcome(t, pc[t], pc'[t])]
    /\ UNCHANGED <<main, failed>>

MainCalls(from, to) ==
    /\ main = from /\ main' = to
    /\ returned' = [returned EXCEPT ![Main] = "nothing"]
    /\ UNCHANGED failed

\* The main thread goes on if what it has found is what it expects.
Expect(from, holds, to) ==
    /\ main = from /\ pc[Main] = "idle"
    /\ main' = IF holds THEN to ELSE "done"
    /\ failed' = ~ holds
    /\ UNCHANGED <<blocking, returned>>

\* blocked_consumer or blocked_producer is ready.
Ready == pc[Async] = "idle" /\ returned[Async] # "nothing"

-----------------------------------------------------------------------------
(* The test, from the top.                                                 *)

Fill == MainCalls("fill", "filling") /\ PushBegins(Main, Seven)

Filled == Expect("filling", returned[Main] = "success", "launch")

\* std::async; the thread is about to lock the mutex.
Launch ==
    /\ main = "launch" /\ main' = "observe"
    /\ IF client = "waiting_pop" THEN PopBegins(Async) ELSE PushBegins(Async, Eight)
    /\ UNCHANGED <<returned, failed>>

\* wait_for(10ms)
Observe == Expect("observe", ~ Ready, "close")

CloseQueue == MainCalls("close", "closing") /\ Close(Main)

\* wait_for(1s) and get()
Await ==
    /\ Ready
    /\ IF client = "waiting_pop"
       THEN Expect("closing", returned[Async] = "nullopt", "done")
       ELSE Expect("closing", returned[Async] = "closed", "drain")

Drain ==
    /\ MainCalls("drain", "draining") \/ MainCalls("drain_again", "draining_again")
    /\ PopBegins(Main)

Drained ==
    \/ Expect("draining", returned[Main] = "item" /\ taken = <<Seven>>, "drain_again")
    \/ Expect("draining_again", returned[Main] = "nullopt", "done")

-----------------------------------------------------------------------------
Tests == client # "any" /\ UNCHANGED client

MainStep ==
    /\ Tests
    /\ \/ CallStep(Main)
       \/ Fill \/ Filled \/ Launch \/ Observe \/ CloseQueue \/ Await \/ Drain \/ Drained

AsyncStep == Tests /\ CallStep(Async)

AsyncWakes == Tests /\ SpuriousWakeup(Async) /\ UNCHANGED test

Finished == client # "any" /\ main = "done" /\ UNCHANGED allvars

Any == client = "any" /\ UNCHANGED <<client, test>>

StressNext == MainStep \/ AsyncStep \/ AsyncWakes \/ Finished \/ (Any /\ BlockingNext)

StressSpec == StressInit /\ [][StressNext]_allvars

\* Threads inside a call are scheduled and get the mutex, and the main thread of
\* the test goes on.  No wait() has to return without a notification, and nobody
\* has to call anything.
StressFairness ==
    /\ \A t \in Threads : WF_allvars(Any /\ Step(t))
    /\ WF_allvars(MainStep) /\ WF_allvars(AsyncStep)

StressFairSpec == StressSpec /\ StressFairness

-----------------------------------------------------------------------------
\* The test of close() ends and has recorded no failure: the waiting call does not
\* return before close(), is woken by it and returns what it should, and the item
\* queued before is handed out once.
CloseSmokePasses == client # "any" ~> (main = "done" /\ ~ failed)

-----------------------------------------------------------------------------
\* The part of it that is about safety: at no time has a failure been recorded.
NeverFails == client # "any" => ~ failed

(* What makes it inductive: where the main thread is says what the queue   *)
(* holds, and with it what the other thread's call may do.                 *)

\* The other thread is in its call, or the queue is closed and it has returned.
AsyncIn(call, wait, result) ==
    \/ pc[Async] \in {call, wait} /\ returned[Async] = "nothing"
    \/ closed /\ pc[Async] = "idle" /\ returned[Async] = result

AsyncOut == pc[Async] = "idle" /\ returned[Async] = "nothing"

Closing == {"idle", "close_empty", "close_full"}

WaitingPopInv ==
    /\ main \in {"launch", "observe", "close", "closing", "done"}
    /\ queue = << >>
    /\ closed <=> main \in {"closing", "done"}
    /\ pc[Main] \in Closing /\ (main # "closing" => pc[Main] = "idle")
    /\ IF main = "launch" THEN AsyncOut ELSE AsyncIn("pop", "pop_wait", "nullopt")

BeforeLaunch == {"fill", "filling", "launch"}
BeforeClose == BeforeLaunch \union {"observe", "close"}
Draining == {"drain", "draining", "drain_again", "draining_again", "done"}

WaitingPushInv ==
    /\ main \in BeforeClose \union {"closing"} \union Draining
    /\ capacity = 1
    /\ closed <=> main \notin BeforeClose
    /\ IF main \in BeforeLaunch THEN AsyncOut ELSE AsyncIn("push", "push_wait", "closed")
    /\ main \in Draining => pc[Async] = "idle"
    /\ main \notin {"filling", "closing", "draining", "draining_again"} => pc[Main] = "idle"
    /\ main \in {"fill", "filling"} => taken = << >>
    /\ main = "fill" => queue = << >>
    /\ main = "filling" =>
           \/ pc[Main] = "push" /\ item[Main] = Seven /\ queue = << >>
           \/ pc[Main] \in {"push_notify", "idle"} /\ returned[Main] = "success" /\ queue = <<Seven>>
    /\ main \in {"launch", "observe", "close", "closing", "drain"} =>
           queue = <<Seven>> /\ taken = << >>
    /\ main = "closing" => pc[Main] \in Closing
    /\ main = "draining" =>
           \/ pc[Main] = "pop" /\ queue = <<Seven>> /\ taken = << >>
           \/ /\ pc[Main] \in {"pop_notify", "idle"} /\ returned[Main] = "item"
              /\ queue = << >> /\ taken = <<Seven>>
    /\ main \in {"drain_again", "draining_again", "done"} => queue = << >>
    /\ main = "draining_again" => pc[Main] = "pop" \/ (pc[Main] = "idle" /\ returned[Main] = "nullopt")

Results == {"nothing", "success", "closed", "item", "nullopt"}

StressInv ==
    /\ client \in {"waiting_pop", "waiting_push", "any"}
    /\ returned \in [Threads -> Results]
    /\ client # "any" =>
           /\ ~ failed
           /\ \A t \in Threads \ {Main, Async} : pc[t] = "idle"
    /\ client = "waiting_pop" => WaitingPopInv
    /\ client = "waiting_push" => WaitingPushInv

=============================================================================
