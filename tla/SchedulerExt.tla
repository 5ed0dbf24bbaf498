------------------------------ MODULE SchedulerExt ------------------------------
(***************************************************************************)
(* The scheduler extensions of scheduler_ext.c: the pool of I/O threads    *)
(* with its mutex and condition variable, the queue of messages by         *)
(* priority, the list of references between actors, and the degradation    *)
(* mode.  Every critical section is one step; the end of a shutdown, which *)
(* takes no lock, is three.                                                *)
(***************************************************************************)
EXTENDS Naturals, Sequences, FiniteSets, SequencesExt

CONSTANTS
    IoWorkers,      \* the most threads pny_io_pool_init is asked for: 1..n
    IoTasks,        \* bound: tasks handed to the pool
    NoTask,
    PrioLevels,     \* priorities given to pny_prio_enqueue
    PrioMax,        \* bound: messages enqueued by priority
    RefActors,      \* actors between which references are recorded
    RefMax,         \* bound: references held at once
    Cpus            \* what sysconf may report

ASSUME SchedulerExtAssumption ==
    /\ NoTask \notin IoTasks
    /\ IsFiniteSet(IoWorkers) /\ IoWorkers = 1..Cardinality(IoWorkers)
    /\ IsFiniteSet(IoTasks)
    /\ PrioLevels \subseteq 0..255
    /\ RefMax \in Nat /\ PrioMax \in Nat /\ Cpus \subseteq Nat

VARIABLES
    ioQueue,        \* the linked list of tasks
    ioShutdown,
    ioThreads,      \* 0, or the threads created; ioUp says threads is allocated
    ioUp,
    ioWorker,       \* where each worker is: none, test, sleep, run, exit
    ioTask,         \* the task each worker has in hand
    ioHost,         \* idle, or where pny_io_pool_shutdown is: join, clean, clear
    ioDone,         \* history: tasks run or dropped
    ioLate,         \* history: tasks accepted after the last shutdown began
    prioQueue,      \* records of priority and arrival number
    prioSeen,       \* messages enqueued so far
    refs,           \* the list of references, newest first
    refBag,         \* history: how many of each are recorded
    mode            \* g_degrade_mode

ioVars == <<ioQueue, ioShutdown, ioThreads, ioUp, ioWorker, ioTask, ioHost, ioDone, ioLate>>
listVars == <<prioQueue, prioSeen, refs, refBag, mode>>
schedulerExtVars == <<ioVars, listVars>>

RefPairs == RefActors \X RefActors

SchedulerExtInit ==
    /\ ioQueue = <<>> /\ ioShutdown = FALSE /\ ioThreads = 0 /\ ioUp = FALSE
    /\ ioWorker = [w \in IoWorkers |-> "none"]
    /\ ioTask = [w \in IoWorkers |-> NoTask]
    /\ ioHost = "idle" /\ ioDone = {} /\ ioLate = {}
    /\ prioQueue = <<>> /\ prioSeen = 0
    /\ refs = <<>> /\ refBag = [p \in RefPairs |-> 0]
    /\ mode = "server"

-----------------------------------------------------------------------------
(* The pool of I/O threads.                                                *)

Known == Range(ioQueue) \cup ioDone \cup Range(ioTask)

(* pny_io_pool_init: the creation of threads may stop at any of them, and  *)
(* the pool then stays marked as initialised.                              *)
IoInit ==
    /\ ioHost = "idle" /\ ~ioUp
    /\ \E n \in 0..Cardinality(IoWorkers) :
        /\ ioThreads' = n
        /\ ioWorker' = [w \in IoWorkers |-> IF w <= n THEN "test" ELSE "none"]
    /\ ioUp' = TRUE
    /\ ioShutdown' = FALSE
    /\ UNCHANGED <<ioQueue, ioTask, ioHost, ioDone, ioLate, listVars>>

(* pthread_cond_signal wakes one sleeper, if there is one.                 *)
OneWoken ==
    LET asleep == {w \in IoWorkers : ioWorker[w] = "sleep"}
    IN IF asleep = {} THEN {ioWorker}
       ELSE {[ioWorker EXCEPT ![w] = "test"] : w \in asleep}

IoSubmit(k) ==
    /\ k \notin Known
    /\ ioQueue' = Append(ioQueue, k)
    /\ ioWorker' \in OneWoken
    /\ ioLate' = IF ioShutdown THEN ioLate \cup {k} ELSE ioLate
    /\ UNCHANGED <<ioShutdown, ioThreads, ioUp, ioTask, ioHost, ioDone, listVars>>

(* Variant with a bug: a worker leaves as soon as it sees the flag.        *)
IoTestHasty(w) ==
    /\ ioWorker[w] = "test"
    /\ IF ioQueue # <<>> /\ ~ioShutdown
       THEN /\ ioTask' = [ioTask EXCEPT ![w] = Head(ioQueue)]
            /\ ioQueue' = Tail(ioQueue)
            /\ ioWorker' = [ioWorker EXCEPT ![w] = "run"]
       ELSE /\ ioWorker' = [ioWorker EXCEPT ![w] = IF ioShutdown THEN "exit" ELSE "sleep"]
            /\ UNCHANGED <<ioTask, ioQueue>>
    /\ UNCHANGED <<ioShutdown, ioThreads, ioUp, ioHost, ioDone, ioLate, listVars>>

(* Variant with a bug: the head is read under the lock, unlinked later.    *)
IoTestPeek(w) ==
    /\ ioWorker[w] = "test"
    /\ ioQueue # <<>>
    /\ ioTask' = [ioTask EXCEPT ![w] = Head(ioQueue)]
    /\ ioWorker' = [ioWorker EXCEPT ![w] = "run"]
    /\ UNCHANGED <<ioQueue, ioShutdown, ioThreads, ioUp, ioHost, ioDone, ioLate, listVars>>

(* io_worker up to the unlock: wait, leave, or take the first task.        *)
IoTest(w) ==
    /\ ioWorker[w] = "test"
    /\ IF ioQueue # <<>>
       THEN /\ ioTask' = [ioTask EXCEPT ![w] = Head(ioQueue)]
            /\ ioQueue' = Tail(ioQueue)
            /\ ioWorker' = [ioWorker EXCEPT ![w] = "run"]
       ELSE /\ ioWorker' = [ioWorker EXCEPT ![w] = IF ioShutdown THEN "exit" ELSE "sleep"]
            /\ UNCHANGED <<ioTask, ioQueue>>
    /\ UNCHANGED <<ioShutdown, ioThreads, ioUp, ioHost, ioDone, ioLate, listVars>>

IoSpurious(w) ==
    /\ ioWorker[w] = "sleep"
    /\ ioWorker' = [ioWorker EXCEPT ![w] = "test"]
    /\ UNCHANGED <<ioQueue, ioShutdown, ioThreads, ioUp, ioTask, ioHost, ioDone, ioLate, listVars>>

IoRun(w) ==
    /\ ioWorker[w] = "run"
    /\ ioDone' = ioDone \cup {ioTask[w]}
    /\ ioTask' = [ioTask EXCEPT ![w] = NoTask]
    /\ ioWorker' = [ioWorker EXCEPT ![w] = "test"]
    /\ UNCHANGED <<ioQueue, ioShutdown, ioThreads, ioUp, ioHost, ioLate, listVars>>

(* pny_io_pool_shutdown up to the joins.                                   *)
IoShutdownBegin ==
    /\ ioHost = "idle"
    /\ ioShutdown' = TRUE
    /\ ioLate' = {}
    /\ ioWorker' = [w \in IoWorkers |-> IF ioWorker[w] = "sleep" THEN "test" ELSE ioWorker[w]]
    /\ ioHost' = "join"
    /\ UNCHANGED <<ioQueue, ioThreads, ioUp, ioTask, ioDone, listVars>>

Joined == \A w \in IoWorkers : ioWorker[w] \in {"none", "exit"}

(* The joins have returned.                                                *)
IoShutdownJoined ==
    /\ ioHost = "join" /\ Joined
    /\ ioThreads' = 0 /\ ioUp' = FALSE
    /\ ioWorker' = [w \in IoWorkers |-> "none"]
    /\ ioHost' = "clean"
    /\ UNCHANGED <<ioQueue, ioShutdown, ioTask, ioDone, ioLate, listVars>>

(* Without the mutex, what is in the list is freed, unrun ...              *)
IoShutdownClean ==
    /\ ioHost = "clean" /\ ioHost' = "clear"
    /\ ioDone' = ioDone \cup Range(ioQueue)
    /\ ioQueue' = <<>>
    /\ UNCHANGED <<ioShutdown, ioThreads, ioUp, ioWorker, ioTask, ioLate, listVars>>

(* ... and then the list is emptied: a task submitted in between, behind a *)
(* tail that may have been freed, is neither run nor freed.                *)
IoShutdownClear ==
    /\ ioHost = "clear" /\ ioHost' = "idle"
    /\ ioDone' = ioDone \cup Range(ioQueue)
    /\ ioQueue' = <<>>
    /\ UNCHANGED <<ioShutdown, ioThreads, ioUp, ioWorker, ioTask, ioLate, listVars>>

-----------------------------------------------------------------------------
(* The queue by priority, and the list of references.                      *)

(* Where a node goes: before the first with a greater priority.            *)
PrioPlace(p) ==
    LET later == {i \in 1..Len(prioQueue) : prioQueue[i].priority > p}
    IN IF later = {} THEN Len(prioQueue) + 1 ELSE CHOOSE i \in later : \A j \in later : i <= j

PrioEnqueue(p) ==
    /\ prioSeen < PrioMax
    /\ prioQueue' = InsertAt(prioQueue, PrioPlace(p), [priority |-> p, arrival |-> prioSeen])
    /\ prioSeen' = prioSeen + 1
    /\ UNCHANGED <<ioVars, refs, refBag, mode>>

PrioDequeue ==
    /\ prioQueue # <<>>
    /\ prioQueue' = Tail(prioQueue)
    /\ UNCHANGED <<ioVars, prioSeen, refs, refBag, mode>>

CrossRefAdd(p) ==
    /\ Len(refs) < RefMax
    /\ refs' = <<p>> \o refs
    /\ refBag' = [refBag EXCEPT ![p] = @ + 1]
    /\ UNCHANGED <<ioVars, prioQueue, prioSeen, mode>>

(* The first that matches is unlinked, and no other.                       *)
FirstRemoved(p) ==
    IF p \in Range(refs) THEN RemoveFirst(refs, p) ELSE refs

CrossRefRemove(p) ==
    /\ refs' = FirstRemoved(p)
    /\ refBag' = [refBag EXCEPT ![p] = IF @ = 0 THEN 0 ELSE @ - 1]
    /\ UNCHANGED <<ioVars, prioQueue, prioSeen, mode>>

CrossRefClear ==
    /\ refs' = <<>>
    /\ refBag' = [p \in RefPairs |-> 0]
    /\ UNCHANGED <<ioVars, prioQueue, prioSeen, mode>>

(* pny_cross_ref_mark_reachable: the targets handed to the marking.        *)
MarkedReachable == {r[2] : r \in Range(refs)}

-----------------------------------------------------------------------------
(* The mode, and how many workers it means on a machine.                   *)

DetectedMode(ncpu) == IF ncpu <= 1 THEN "embedded" ELSE "server"

WorkerCount(m, ncpu) ==
    CASE m = "server" -> (IF ncpu > 0 THEN ncpu ELSE 4)
      [] m = "browser" -> 2
      [] OTHER -> 1

SetMode(m) ==
    /\ mode' = m
    /\ UNCHANGED <<ioVars, prioQueue, prioSeen, refs, refBag>>

-----------------------------------------------------------------------------
IoNext ==
    \/ IoInit \/ IoShutdownBegin \/ IoShutdownJoined \/ IoShutdownClean \/ IoShutdownClear
    \/ \E k \in IoTasks : IoSubmit(k)
    \/ \E w \in IoWorkers : IoTest(w) \/ IoSpurious(w) \/ IoRun(w)

ListsNext ==
    \/ PrioDequeue \/ CrossRefClear
    \/ \E p \in PrioLevels : PrioEnqueue(p)
    \/ \E p \in RefPairs : CrossRefAdd(p) \/ CrossRefRemove(p)
    \/ \E m \in {DetectedMode(n) : n \in Cpus} \cup {"browser"} : SetMode(m)

SchedulerExtNext == IoNext \/ ListsNext

SchedulerExtSpec == SchedulerExtInit /\ [][SchedulerExtNext]_schedulerExtVars

-----------------------------------------------------------------------------
(* A task the pool accepted is not left behind: while workers live they    *)
(* do not all sleep over a task, and when a shutdown has joined them, the  *)
(* only tasks still in the list came after the shutdown began.             *)
IoPoolDrains ==
    /\ ~(ioQueue # <<>> /\ ioThreads > 0
         /\ \A w \in IoWorkers : ioWorker[w] \in {"sleep", "none"})
    /\ (ioHost = "join" /\ ioThreads > 0 /\ Joined) => Range(ioQueue) \subseteq ioLate

(* The pool keeps what TaskPool promises: no task is run twice, by two     *)
(* workers at once, or both run and dropped.                               *)
Pool == INSTANCE TaskPool WITH
    Tasks <- IoTasks, Threads <- IoWorkers, Nobody <- NoTask,
    Capacity <- Cardinality(IoTasks) + 1,
    waiting <- Range(ioQueue), held <- ioTask, finished <- ioDone

IoPoolIsTaskPool == Pool!Spec

(* Messages leave by priority and, within one, in the order they came; the *)
(* list of references holds each as often as it was recorded and not yet   *)
(* taken back, so a target is marked while one reference to it is left;    *)
(* every mode detected or set has at least one worker.                     *)
SchedulerLists ==
    /\ \A i, j \in 1..Len(prioQueue) : i < j =>
        \/ prioQueue[i].priority < prioQueue[j].priority
        \/ /\ prioQueue[i].priority = prioQueue[j].priority
           /\ prioQueue[i].arrival < prioQueue[j].arrival
    /\ \A p \in RefPairs :
        Cardinality({i \in 1..Len(refs) : refs[i] = p}) = refBag[p]
    /\ MarkedReachable = {p[2] : p \in {q \in RefPairs : refBag[q] > 0}}
    /\ \A n \in Cpus : WorkerCount(mode, n) >= 1
=============================================================================
