------------------------------ MODULE WorkStealing ------------------------------
(***************************************************************************)
(* The M:N scheduler of src/src/ponypp/runtime.c: worker threads, each     *)
(* with a deque it pops at one end and others steal from at the other, and *)
(* a global deque for what does not fit.  The deques are used under their  *)
(* mutexes: a locked operation is one step, and the unlocked look at a     *)
(* count before it is part of that step (finding a deque empty a moment    *)
(* earlier is finding it empty then).  The actors are shared without any   *)
(* lock: each access is a step.                                            *)
(*                                                                         *)
(* A message is its identity: pny_mn_enqueue neither numbers a message     *)
(* (msg_id stays 0 and the duplicate filter idle) nor keeps the actor it   *)
(* is for.  The list of actors and their states do not change while the    *)
(* scheduler is used; the steal and delivery statistics are left out.      *)
(***************************************************************************)
EXTENDS Integers, Sequences, FiniteSets

CONSTANTS
    Counts,      \* values of worker_count
    DequeSize,   \* 64 in the code
    Messages, Behaviors, Null,
    Upgrades,    \* what the host passes to pny_hot_upgrade; Null cancels
    Listed,      \* the RUNNING actors, in the order of the scheduler's list
    MaxStarts    \* bound: calls of pny_mn_start

ASSUME StealingAssumption ==
    /\ Counts \subseteq 1 .. 16 /\ Counts # {}
    /\ DequeSize \in Nat \ {0}
    /\ Null \notin Messages \cup Behaviors
    /\ Upgrades \subseteq Behaviors \cup {Null}
    /\ Listed \in Seq(Nat) /\ MaxStarts \in Nat

VARIABLES
    worker_count,
    deque,          \* the workers' deques and the global one
    mn_running,     \* MNWorker.running
    running,        \* WorkerThread.running
    behavior, new_behavior,   \* of the listed actors
    pc,             \* where each thread is, the host program's included
    hand,           \* the message a thread has taken
    next,           \* a loop index: the victim to try, the actor to look at
    round,          \* the host's: the worker to start, to join or to tick for
    target, cached, \* the actor chosen for hand, and its new_behavior as tested
    spilling,       \* a message refused by a local deque, on its way to the global
    fresh,          \* messages not yet handed to pny_mn_enqueue, or refused by it
    freed,          \* messages that were freed
    starts, crashed

vars == <<worker_count, deque, mn_running, running, behavior, new_behavior, pc, hand,
          next, round, target, cached, spilling, fresh, freed, starts, crashed>>
dequeVars == <<deque, fresh, freed, hand>>
actorVars == <<behavior, new_behavior, target, cached>>
controlVars == <<worker_count, mn_running, running, round, starts, crashed>>

MaxWorkers == CHOOSE n \in Counts : \A k \in Counts : k <= n
Workers == 0 .. worker_count - 1
Host == MaxWorkers     \* the host program's thread
Global == MaxWorkers   \* the global deque
Threads == 0 .. MaxWorkers
Slots == 0 .. DequeSize - 1

Empty == [items |-> [i \in Slots |-> Null], head |-> 0, tail |-> 0, count |-> 0]
(* Variant with a bug: one message too many is let in.                     *)
FullLate(d) == d.count > DequeSize
Full(d) == d.count >= DequeSize
Push(d, m) ==
    [d EXCEPT !.items[d.tail] = m, !.tail = (@ + 1) % DequeSize, !.count = @ + 1]

(* Variant with a bug: the tail is left where it was.                      *)
PopTopKeepsTail(d) ==
    [d EXCEPT !.items[(d.tail - 1 + DequeSize) % DequeSize] = Null, !.count = @ - 1]

(* pop_local takes the newest message, steal_from the oldest.              *)
Top(d) == d.items[(d.tail - 1 + DequeSize) % DequeSize]
PopTop(d) ==
    LET i == (d.tail - 1 + DequeSize) % DequeSize
    IN  [d EXCEPT !.items[i] = Null, !.tail = i, !.count = @ - 1]

(* Variant with a bug: a theft moves the tail as well.                     *)
PopBottomMovesTail(d) ==
    [d EXCEPT !.items[d.head] = Null, !.tail = (@ + 1) % DequeSize, !.count = @ - 1]

Bottom(d) == d.items[d.head]
PopBottom(d) ==
    [d EXCEPT !.items[d.head] = Null, !.head = (@ + 1) % DequeSize, !.count = @ - 1]

Held(d) == {d.items[i] : i \in Slots} \ {Null}
Queued == UNION {Held(deque[q]) : q \in Workers \cup {Global}}

(* pny_mn_init, which clamps the number of workers.                        *)
Init ==
    /\ worker_count \in Counts
    /\ deque = [q \in Threads |-> Empty]
    /\ mn_running = TRUE
    /\ running = [w \in Threads |-> TRUE]
    /\ behavior \in [1 .. Len(Listed) -> Behaviors]
    /\ new_behavior = [a \in 1 .. Len(Listed) |-> Null]
    /\ pc = [t \in Threads |-> IF t = Host THEN "host" ELSE "none"]
    /\ hand = [t \in Threads |-> Null]
    /\ next = [t \in Threads |-> 0] /\ round = 0
    /\ target = [t \in Threads |-> 0]
    /\ cached = [t \in Threads |-> Null]
    /\ spilling = [t \in Threads |-> Null]
    /\ fresh = Messages /\ freed = {}
    /\ starts = 0 /\ crashed = FALSE

Goto(t, where) == pc' = [pc EXCEPT ![t] = where]
At(t, where) == ~crashed /\ pc[t] = where

(* pny_mn_enqueue, called by the host or by a behavior: first the deque of *)
(* the preferred worker, if there is one and it has room, then the global. *)
InControl(t) == At(t, "handling") \/ At(t, "host")

EnqueueLocal(t, m, w) ==
    /\ InControl(t) /\ m \in fresh
    /\ w \in Workers /\ ~Full(deque[w])
    /\ deque' = [deque EXCEPT ![w] = Push(@, m)]
    /\ fresh' = fresh \ {m}
    /\ UNCHANGED <<freed, hand, actorVars, controlVars, pc, next, spilling>>

EnqueueOverflow(t, m) ==
    /\ InControl(t) /\ m \in fresh
    /\ spilling' = [spilling EXCEPT ![t] = m]
    /\ fresh' = fresh \ {m}
    /\ Goto(t, "spill")
    /\ UNCHANGED <<deque, freed, hand, actorVars, controlVars, next>>

(* A message the global deque refuses stays the caller's.                  *)
EnqueueGlobal(t) ==
    /\ At(t, "spill")
    /\ IF Full(deque[Global])
       THEN fresh' = fresh \cup {spilling[t]} /\ UNCHANGED deque
       ELSE deque' = [deque EXCEPT ![Global] = Push(@, spilling[t])] /\ UNCHANGED fresh
    /\ spilling' = [spilling EXCEPT ![t] = Null]
    /\ Goto(t, IF hand[t] # Null THEN "handling" ELSE "host")
    /\ UNCHANGED <<freed, hand, actorVars, controlVars, next>>

(* A message is in the hands of thread t, and the queues are q.            *)
Took(t, m, q) ==
    /\ deque' = q
    /\ hand' = [hand EXCEPT ![t] = m]
    /\ next' = [next EXCEPT ![t] = 1]
    /\ Goto(t, "find")
    /\ UNCHANGED <<fresh, freed, actorVars, controlVars, spilling>>

(* A step of thread t that only moves it on, and sets its loop index.      *)
Move(t, where, i) ==
    /\ Goto(t, where)
    /\ next' = [next EXCEPT ![t] = i]
    /\ UNCHANGED <<dequeVars, actorVars, controlVars, spilling>>

(* mn_worker_fn.                                                           *)
Loop(w) ==
    /\ At(w, "loop")
    /\ Move(w, IF running[w] /\ mn_running THEN "local" ELSE "exited", 0)

TakeTop(t, q) == deque[q].count > 0 /\ Took(t, Top(deque[q]), [deque EXCEPT ![q] = PopTop(@)])

PopLocal(w) ==
    /\ At(w, "local")
    /\ \/ TakeTop(w, w)
       \/ deque[w].count = 0 /\ Move(w, IF worker_count > 1 THEN "steal" ELSE "global", 0)

(* The walk over the victims visits w itself last, and skips it.           *)
Victim(w, i) == (w + 1 + i) % worker_count

(* Variant with a bug: the walk ends one victim early.                     *)
StealOneShort(w) ==
    /\ At(w, "steal")
    /\ LET v == Victim(w, next[w]) IN
       \/ /\ deque[v].count > 0 /\ next[w] < worker_count - 2
          /\ Took(w, Bottom(deque[v]), [deque EXCEPT ![v] = PopBottom(@)])
       \/ deque[v].count = 0 /\ next[w] < worker_count - 2 /\ Move(w, "steal", next[w] + 1)
       \/ next[w] >= worker_count - 2 /\ Move(w, "global", 0)

Steal(w) ==
    /\ At(w, "steal")
    /\ LET v == Victim(w, next[w]) IN
       \/ /\ deque[v].count > 0
          /\ Took(w, Bottom(deque[v]), [deque EXCEPT ![v] = PopBottom(@)])
       \/ /\ deque[v].count = 0
          /\ IF next[w] < worker_count - 2 THEN Move(w, "steal", next[w] + 1)
             ELSE Move(w, "global", 0)

(* The global deque, under both its locks; then a nap.                     *)
PopGlobal(w) ==
    /\ At(w, "global")
    /\ TakeTop(w, Global) \/ (deque[Global].count = 0 /\ Move(w, "loop", 0))

(* The message is freed, handled or not.                                   *)
Free(t) ==
    /\ freed' = freed \cup {hand[t]}
    /\ hand' = [hand EXCEPT ![t] = Null]
    /\ next' = [next EXCEPT ![t] = 0]
    /\ IF t = Host THEN Goto(t, "ticking") /\ round' = round + 1
       ELSE Goto(t, "loop") /\ UNCHANGED round
    /\ UNCHANGED <<deque, fresh, actorVars, worker_count, mn_running, running, starts,
                   crashed, spilling>>

(* Delivery, to the first RUNNING actor of the list that has a behavior.   *)
(* The host's pny_mn_run_tick looks for no upgrade.                        *)
FindActor(t) ==
    /\ At(t, "find")
    /\ IF next[t] > Len(Listed) THEN Free(t)
       ELSE IF behavior[next[t]] = Null THEN Move(t, "find", next[t] + 1)
       ELSE /\ target' = [target EXCEPT ![t] = next[t]]
            /\ Goto(t, IF t = Host THEN "call" ELSE "test")
            /\ UNCHANGED <<dequeVars, behavior, new_behavior, cached, controlVars, next,
                           spilling>>

TestUpgrade(w) ==
    /\ At(w, "test")
    /\ cached' = [cached EXCEPT ![w] = new_behavior[target[w]]]
    /\ Goto(w, IF new_behavior[target[w]] = Null THEN "call" ELSE "assign")
    /\ UNCHANGED <<dequeVars, behavior, new_behavior, target, controlVars, next, spilling>>

(* The compiler may use the value that was tested, or read it again.       *)
AssignBehavior(w) ==
    /\ At(w, "assign")
    /\ \E b \in {cached[w], new_behavior[target[w]]} :
           behavior' = [behavior EXCEPT ![target[w]] = b]
    /\ Goto(w, "clear")
    /\ UNCHANGED <<dequeVars, new_behavior, target, cached, controlVars, next, spilling>>

ClearUpgrade(w) ==
    /\ At(w, "clear")
    /\ new_behavior' = [new_behavior EXCEPT ![target[w]] = Null]
    /\ cached' = [cached EXCEPT ![w] = Null]
    /\ Goto(w, "call")
    /\ UNCHANGED <<dequeVars, behavior, target, controlVars, next, spilling>>

(* The behavior is called; a NULL pointer ends the process.                *)
CallBehavior(t) ==
    /\ At(t, "call")
    /\ IF behavior[target[t]] = Null
       THEN crashed' = TRUE /\ UNCHANGED <<pc, target>>
       ELSE /\ Goto(t, "handling") /\ target' = [target EXCEPT ![t] = 0]
            /\ UNCHANGED crashed
    /\ UNCHANGED <<dequeVars, behavior, new_behavior, cached, worker_count, mn_running,
                   running, round, starts, next, spilling>>

BehaviorReturn(t) == At(t, "handling") /\ Free(t)

(* The host program.  It ticks by itself only while there are no worker    *)
(* threads, starts them once they are stopped, stops what it started.      *)
NoThreads == \A w \in Threads \ {Host} : pc[w] \in {"none", "exited"}
Started == starts > 0 /\ mn_running

HotUpgrade(a, b) ==
    /\ At(Host, "host") /\ new_behavior[a] # b
    /\ new_behavior' = [new_behavior EXCEPT ![a] = b]
    /\ UNCHANGED <<dequeVars, behavior, target, cached, controlVars, pc, next, spilling>>

(* A loop of the host over the workers: at worker `round'.                 *)
Begin(where) == Goto(Host, where) /\ round' = 0
Advance(where) == Goto(Host, where) /\ round' = round + 1
AtWorker(where) == At(Host, where) /\ round \in Workers
Done(where) == At(Host, where) /\ round = worker_count

(* pny_mn_run_tick: one message for each worker, from its deque, the other *)
(* workers' or the global one (which is not looked at for one worker).     *)
TickStart ==
    /\ At(Host, "host") /\ NoThreads /\ ~Started
    /\ Begin("ticking")
    /\ UNCHANGED <<dequeVars, actorVars, worker_count, mn_running, running, starts,
                   crashed, next, spilling>>

Robbed == {i \in 0 .. worker_count - 2 : deque[Victim(round, i)].count > 0}
TickLocal == AtWorker("ticking") /\ TakeTop(Host, round)
TickSteal ==
    /\ AtWorker("ticking") /\ deque[round].count = 0 /\ Robbed # {}
    /\ LET v == Victim(round, CHOOSE i \in Robbed : \A j \in Robbed : i <= j)
       IN  Took(Host, Bottom(deque[v]), [deque EXCEPT ![v] = PopBottom(@)])
TickOther ==
    /\ AtWorker("ticking") /\ deque[round].count = 0 /\ Robbed = {}
    /\ \/ worker_count > 1 /\ TakeTop(Host, Global)
       \/ /\ worker_count = 1 \/ deque[Global].count = 0
          /\ Advance("ticking")
          /\ UNCHANGED <<dequeVars, actorVars, worker_count, mn_running, running, starts,
                         crashed, next, spilling>>

(* pny_mn_start: a thread that cannot be created leaves its worker out.    *)
StartCall ==
    /\ At(Host, "host") /\ NoThreads /\ ~Started /\ starts < MaxStarts
    /\ mn_running' = TRUE /\ starts' = starts + 1
    /\ Begin("starting")
    /\ UNCHANGED <<dequeVars, actorVars, worker_count, running, crashed, next, spilling>>

StartWorker ==
    /\ AtWorker("starting")
    /\ \E created \in BOOLEAN :
           /\ running' = [running EXCEPT ![round] = created]
           /\ pc' = [pc EXCEPT ![round] = IF created THEN "loop" ELSE "none"]
    /\ round' = round + 1
    /\ UNCHANGED <<dequeVars, actorVars, worker_count, mn_running, starts, crashed, next,
                   spilling>>

(* pny_mn_stop: the flags go down, and every thread is waited for.         *)
StopCall ==
    /\ At(Host, "host") /\ Started
    /\ mn_running' = FALSE
    /\ Begin("stopping")
    /\ UNCHANGED <<dequeVars, actorVars, worker_count, running, starts, crashed, next,
                   spilling>>

StopWorker ==
    /\ AtWorker("stopping")
    /\ running' = [running EXCEPT ![round] = FALSE]
    /\ IF running[round] THEN Goto(Host, "joining") /\ UNCHANGED round
       ELSE Advance("stopping")
    /\ UNCHANGED <<dequeVars, actorVars, worker_count, mn_running, starts, crashed, next,
                   spilling>>

(* Variant with a bug: the thread is not waited for.                       *)
JoinDetached ==
    /\ AtWorker("joining")
    /\ Advance("stopping")
    /\ UNCHANGED <<dequeVars, actorVars, worker_count, mn_running, running, starts,
                   crashed, next, spilling>>

Join ==
    /\ AtWorker("joining") /\ pc[round] = "exited"
    /\ Advance("stopping")
    /\ UNCHANGED <<dequeVars, actorVars, worker_count, mn_running, running, starts,
                   crashed, next, spilling>>

HostReturn ==
    /\ Done("ticking") \/ Done("starting") \/ Done("stopping")
    /\ Begin("host")
    /\ UNCHANGED <<dequeVars, actorVars, worker_count, mn_running, running, starts,
                   crashed, next, spilling>>

(* pny_mn_destroy, after the last stop: what is queued is freed.           *)
Destroy ==
    /\ At(Host, "host") /\ ~Started
    /\ freed' = freed \cup Queued
    /\ deque' = [q \in Threads |-> Empty]
    /\ mn_running' = FALSE
    /\ Goto(Host, "destroyed")
    /\ UNCHANGED <<fresh, hand, actorVars, worker_count, running, round, starts, crashed,
                   next, spilling>>

Worker(w) ==
    \/ Loop(w) \/ PopLocal(w) \/ Steal(w) \/ PopGlobal(w)
    \/ TestUpgrade(w) \/ AssignBehavior(w) \/ ClearUpgrade(w)
Deliver(t) == FindActor(t) \/ CallBehavior(t) \/ BehaviorReturn(t) \/ EnqueueGlobal(t)
HostLoop ==
    \/ TickLocal \/ TickSteal \/ TickOther \/ StartWorker \/ StopWorker \/ Join
    \/ HostReturn \/ Deliver(Host)
Request ==
    \/ \E t \in Threads, m \in Messages :
           EnqueueOverflow(t, m) \/ \E w \in Workers : EnqueueLocal(t, m, w)
    \/ \E a \in DOMAIN Listed, b \in Upgrades : HotUpgrade(a, b)
    \/ TickStart \/ StartCall \/ StopCall \/ Destroy

Next == Request \/ HostLoop \/ \E w \in Workers : Worker(w) \/ Deliver(w)

Spec == Init /\ [][Next]_vars

(* Threads run, behaviors and the host's calls return.                     *)
Fairness ==
    /\ WF_vars(HostLoop)
    /\ \A w \in Threads \ {Host} : WF_vars(w \in Workers /\ (Worker(w) \/ Deliver(w)))
FairSpec == Spec /\ Fairness

-----------------------------------------------------------------------------
(* Type invariant.                                                         *)
TypeOK ==
    /\ worker_count \in Counts
    /\ deque \in [Threads -> [items : [Slots -> Messages \cup {Null}], head : Slots,
                              tail : Slots, count : 0 .. DequeSize]]
    /\ mn_running \in BOOLEAN /\ running \in [Threads -> BOOLEAN]
    /\ behavior \in [DOMAIN Listed -> Behaviors \cup {Null}]
    /\ new_behavior \in [DOMAIN Listed -> Behaviors \cup {Null}]
    /\ pc \in [Threads -> {"none", "loop", "local", "steal", "global", "find", "test",
                           "assign", "clear", "call", "handling", "spill", "exited",
                           "host", "ticking", "starting", "stopping", "joining",
                           "destroyed"}]
    /\ hand \in [Threads -> Messages \cup {Null}]
    /\ next \in [Threads -> Nat] /\ round \in 0 .. MaxWorkers
    /\ target \in [Threads -> {0} \cup DOMAIN Listed]
    /\ cached \in [Threads -> Behaviors \cup {Null}]
    /\ spilling \in [Threads -> Messages \cup {Null}]
    /\ fresh \subseteq Messages /\ freed \subseteq Messages
    /\ starts \in Nat /\ crashed \in BOOLEAN

(* Through every mixture of pushes, pops at one end and thefts at the      *)
(* other, a deque's messages lie in the `count' slots from head, which     *)
(* wrap around, and end before tail.                                       *)
DequesAreWindows ==
    \A q \in Threads : LET d == deque[q] IN
        /\ d.tail = (d.head + d.count) % DequeSize
        /\ \A i \in Slots :
               (d.items[i] # Null) <=> (i - d.head) % DequeSize < d.count

(* Each accepted message waits in one deque, is then in the hands of one   *)
(* thread and is freed once: none is lost, run twice or stolen twice.      *)
Pool == INSTANCE TaskPool WITH
    Tasks <- Messages, Nobody <- Null, Capacity <- (MaxWorkers + 1) * DequeSize,
    waiting <- Queued, held <- hand, finished <- freed
ImplementsPool == Pool!Spec

(* Once pny_mn_stop has returned no thread runs, and so none is left       *)
(* reading the deques that pny_mn_destroy frees.                           *)
StoppedMeansStopped ==
    At(Host, "destroyed") \/ (At(Host, "host") /\ ~Started)
        => \A w \in Workers : pc[w] \in {"none", "exited"} /\ hand[w] = Null

(* While a worker thread runs, every message accepted is taken and freed   *)
(* in the end, whichever deque it waits in, that of a worker whose thread  *)
(* could not be created included.                                          *)
Serving ==
    /\ Started /\ ~crashed
    /\ \E w \in Workers : pc[w] \notin {"none", "exited"}
AcceptedIsHandled ==
    \A m \in Messages : (m \in Queued /\ Serving) ~> (m \in freed \/ ~Serving)

(* Hot upgrades lose no message (doc/02-refactored-design.md:54): a        *)
(* message a worker has taken is never handed to a NULL behavior.          *)
UpgradeLosesNoMessage ==
    \A t \in Threads : pc[t] = "call" => behavior[target[t]] # Null
=============================================================================
