-------------------------------- MODULE Promise --------------------------------
(***************************************************************************)
(* Promises and futures of the standard library (PnyPromise, PnyFuture in  *)
(* stdlib.c).  Only the middle of pny_promise_fulfill and the whole of     *)
(* pny_future_wait hold the mutex.  The tests of done before it, the       *)
(* callback that fulfill runs after it, and all of pny_promise_then are    *)
(* plain accesses: each is a step.  A future is a pointer to its promise,  *)
(* and its operations are the promise's.                                   *)
(***************************************************************************)
EXTENDS Naturals, FiniteSets

CONSTANTS
    PromiseThreads,
    PromiseOps      \* bound on the operations that are started

(* A thread's own number serves as the value it fulfills with, and as the  *)
(* callback and the context it registers; 0 is NULL.                       *)
ASSUME PromiseAssumption == PromiseThreads \subseteq Nat \ {0} /\ PromiseOps \in Nat

VARIABLES
    prDone, prValue,        \* done, value
    prCallback, prCtx,      \* callback, cb_ctx
    prPc,                   \* where each thread is
    prOps,                  \* operations started
    prFulfilling,           \* history: threads that called fulfill
    prThen,                 \* history: threads that called then, each at most once
    prEarly,                \* history: those whose then returned before any fulfill
    prRan                   \* history: calls of callbacks, <<callback, value, ctx>>, counted

promiseVars == <<prDone, prValue, prCallback, prCtx, prPc, prOps, prFulfilling, prThen, prEarly, prRan>>

PromiseInit ==
    /\ prDone = FALSE /\ prValue = 0
    /\ prCallback = 0 /\ prCtx = 0
    /\ prPc = [t \in PromiseThreads |-> "idle"]
    /\ prOps = 0
    /\ prFulfilling = {} /\ prThen = {} /\ prEarly = {}
    /\ prRan = {}

Goto(t, l) == prPc' = [prPc EXCEPT ![t] = l]
Begin(t, l) == prPc[t] = "idle" /\ prOps < PromiseOps /\ prOps' = prOps + 1 /\ Goto(t, l)

(* prRan is a set of <<thread that ran it, number of that run, callback,   *)
(* value, context>>: two runs are never the same element.                  *)
Ran(t, cb, v, ctx) == prRan' = prRan \cup {<<Cardinality(prRan), t, cb, v, ctx>>}

-----------------------------------------------------------------------------
(* pny_promise_fulfill: a test of done without the mutex.                  *)
FulfillTest(t) ==
    /\ t \notin prFulfilling
    /\ Begin(t, IF prDone THEN "idle" ELSE "fulfill")
    /\ prFulfilling' = prFulfilling \cup {t}
    /\ UNCHANGED <<prDone, prValue, prCallback, prCtx, prThen, prEarly, prRan>>

Woken(pcs) == [t \in PromiseThreads |-> IF pcs[t] = "waiting" THEN "woken" ELSE pcs[t]]

(* The critical section; it does not test done again.                      *)
FulfillStore(t) ==
    /\ prPc[t] = "fulfill"
    /\ prValue' = t /\ prDone' = TRUE
    /\ prPc' = Woken([prPc EXCEPT ![t] = "callback"])
    /\ UNCHANGED <<prCallback, prCtx, prOps, prFulfilling, prThen, prEarly, prRan>>

FulfillCallback(t) ==
    /\ prPc[t] = "callback"
    /\ IF prCallback = 0 THEN UNCHANGED prRan ELSE Ran(t, prCallback, prValue, prCtx)
    /\ Goto(t, "idle")
    /\ UNCHANGED <<prDone, prValue, prCallback, prCtx, prOps, prFulfilling, prThen, prEarly>>

(* pny_promise_then: runs the callback at once, or stores it.              *)
ThenTest(t) ==
    /\ t \notin prThen
    /\ Begin(t, IF prDone THEN "then_now" ELSE "then_callback")
    /\ prThen' = prThen \cup {t}
    /\ UNCHANGED <<prDone, prValue, prCallback, prCtx, prFulfilling, prEarly, prRan>>

ThenNow(t) ==
    /\ prPc[t] = "then_now"
    /\ Ran(t, t, prValue, t)
    /\ Goto(t, "idle")
    /\ UNCHANGED <<prDone, prValue, prCallback, prCtx, prOps, prFulfilling, prThen, prEarly>>

(* The compiler may store callback and cb_ctx in either order.             *)
ThenStore(t) ==
    /\ prPc[t] \in {"then_callback", "then_ctx_left", "then_callback_left"}
    /\ \/ /\ prPc[t] \in {"then_callback", "then_callback_left"}
          /\ prCallback' = t /\ UNCHANGED prCtx
          /\ Goto(t, IF prPc[t] = "then_callback" THEN "then_ctx_left" ELSE "idle")
       \/ /\ prPc[t] \in {"then_callback", "then_ctx_left"}
          /\ prCtx' = t /\ UNCHANGED prCallback
          /\ Goto(t, IF prPc[t] = "then_callback" THEN "then_callback_left" ELSE "idle")
    /\ prEarly' = IF prPc[t] # "then_callback" /\ prFulfilling = {} THEN prEarly \cup {t} ELSE prEarly
    /\ UNCHANGED <<prDone, prValue, prOps, prFulfilling, prThen, prRan>>

(* pny_future_wait: one wait, not a loop.                                  *)
WaitBegin(t) ==
    /\ Begin(t, IF prDone THEN "idle" ELSE "waiting")
    /\ UNCHANGED <<prDone, prValue, prCallback, prCtx, prFulfilling, prThen, prEarly, prRan>>

(* Woken, or timed out, or woken for no reason: done decides the result.   *)
WaitEnd(t) ==
    /\ prPc[t] \in {"waiting", "woken"}
    /\ Goto(t, "idle")
    /\ UNCHANGED <<prDone, prValue, prCallback, prCtx, prOps, prFulfilling, prThen, prEarly, prRan>>

PromiseNext ==
    \E t \in PromiseThreads :
        \/ FulfillTest(t) \/ FulfillStore(t) \/ FulfillCallback(t)
        \/ ThenTest(t) \/ ThenNow(t) \/ ThenStore(t)
        \/ WaitBegin(t) \/ WaitEnd(t)

PromiseSpec == PromiseInit /\ [][PromiseNext]_promiseVars
-----------------------------------------------------------------------------
PromiseTypeOK ==
    /\ prDone \in BOOLEAN /\ prValue \in PromiseThreads \cup {0}
    /\ prCallback \in PromiseThreads \cup {0} /\ prCtx \in PromiseThreads \cup {0}
    /\ prFulfilling \subseteq PromiseThreads /\ prEarly \subseteq prThen
    /\ prOps \in 0 .. PromiseOps

RunsOf(cb) == {r \in prRan : r[3] = cb}

(* With one thread that fulfills, a callback runs at most once, with the   *)
(* value of the promise and never as a call through NULL                   *)
(* (pny_promise_fulfill, pny_promise_then).                                *)
CallbackAtMostOnce ==
    Cardinality(prFulfilling) = 1 =>
        /\ RunsOf(0) = {}
        /\ \A r \in prRan : r[4] \in prFulfilling
        /\ \A cb \in PromiseThreads : Cardinality(RunsOf(cb)) <= 1

(* Nobody waits for a promise that is done: the store and the wake up are  *)
(* one critical section (pny_promise_fulfill, pny_future_wait).            *)
NobodyWaitsForDone == \A t \in PromiseThreads : prPc[t] = "waiting" => ~prDone

(* A callback that was registered before the value came, and that no other *)
(* registration replaced, has run with its own context once fulfill has    *)
(* returned; one registered meanwhile may be lost.                         *)
EarlyCallbackRuns ==
    \A t \in prEarly :
        prThen = {t} /\ prDone /\ (\A u \in PromiseThreads : prPc[u] \notin {"fulfill", "callback"})
            => \E r \in RunsOf(t) : r[5] = t

PromiseKept == CallbackAtMostOnce /\ EarlyCallbackRuns /\ NobodyWaitsForDone
=============================================================================
