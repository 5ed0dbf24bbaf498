------------------------------- MODULE MpmcQueue -------------------------------
(***************************************************************************)
(* The lock-free bounded queue of src/src/ponypp/mpmc.c (Vyukov), one step *)
(* per atomic access.  A slot's data is a plain pointer: writing and       *)
(* reading it are steps of their own, so that two threads at one slot      *)
(* would show.  Positions are natural numbers (size_t in the code, and the *)
(* sequence numbers with them: a thread would have to be suspended for     *)
(* 2^64 operations for the difference to matter); the size, a difference   *)
(* of two counters, keeps its width.                                       *)
(***************************************************************************)
EXTENDS Integers, Sequences, FiniteSets

CONSTANTS
    Threads, Values, Nothing,
    Capacity,      \* mask + 1, a power of two
    Ops,           \* the operations the program uses
    SizeMod,       \* 2^w of size_t
    Reliable,      \* threads that are not suspended for ever
    MaxEnqueues    \* bound: calls of enqueue start below this position

ASSUME QueueAssumption ==
    /\ Nothing \notin Values
    /\ Capacity \in Nat \ {0, 1}
    /\ SizeMod \in Nat \ {0} /\ MaxEnqueues \in Nat
    /\ Ops \subseteq {"enqueue", "dequeue", "size"}
    /\ Reliable \subseteq Threads

VARIABLES
    enqueue_pos, dequeue_pos,
    data, sequence,                  \* the slots
    total_enqueued, total_dequeued,
    pc,                              \* where each thread is
    call,                            \* the operation it is in
    pos,                             \* its local pos
    got                              \* what it will return

shared == <<enqueue_pos, dequeue_pos, data, sequence>>
totals == <<total_enqueued, total_dequeued>>
local == <<pc, call, pos, got>>
vars == <<shared, totals, local>>

Slot(p) == p % Capacity
At(t, op, where) == call[t].op = op /\ pc[t] = where
Goto(t, where) == pc' = [pc EXCEPT ![t] = where]

(* The queue as its callers see it.  A reserved slot holds what its writer *)
(* is going to put there, and an operation has its outcome from the        *)
(* compare-exchange on.                                                    *)
Writers(p) ==
    {t \in Threads : call[t].op = "enqueue" /\ pc[t] \in {"move", "publish"} /\ pos[t] = p}
Item(p) ==
    IF Writers(p) = {} THEN data[Slot(p)] ELSE call[CHOOSE t \in Writers(p) : TRUE].value
Contents == [i \in 1 .. enqueue_pos - dequeue_pos |-> Item(dequeue_pos + i - 1)]

Result(t) ==
    IF pc[t] # "return" /\ call[t].op = "enqueue" THEN call[t].value
    ELSE IF pc[t] = "move" THEN data[Slot(pos[t])] ELSE got[t]
Outcome ==
    [t \in Threads |-> IF pc[t] \in {"move", "publish", "count", "return"}
                       THEN [done |-> TRUE, value |-> Result(t)] ELSE [done |-> FALSE]]

Fifo == INSTANCE BoundedFifo WITH
    Sizes <- 0 .. SizeMod - 1, items <- Contents, answer <- Outcome

(* pny_mpmc_new.                                                           *)
Init ==
    /\ enqueue_pos = 0 /\ dequeue_pos = 0
    /\ sequence = [i \in 0 .. Capacity - 1 |-> i]
    /\ data = [i \in 0 .. Capacity - 1 |-> Nothing]
    /\ total_enqueued = 0 /\ total_dequeued = 0
    /\ pc = [t \in Threads |-> "idle"]
    /\ call = [t \in Threads |-> Fifo!Idle]
    /\ pos = [t \in Threads |-> 0]
    /\ got = [t \in Threads |-> Nothing]

Start(t) ==
    /\ pc[t] = "idle"
    /\ \/ /\ "enqueue" \in Ops /\ enqueue_pos < MaxEnqueues
          /\ \E v \in Values : call' = [call EXCEPT ![t] = Fifo!Enqueue(v)]
       \/ "dequeue" \in Ops /\ call' = [call EXCEPT ![t] = Fifo!Dequeue]
       \/ "size" \in Ops /\ call' = [call EXCEPT ![t] = Fifo!Size]
    /\ Goto(t, "load")
    /\ UNCHANGED <<shared, totals, pos, got>>

(* The operation's answer is known: v.                                     *)
Answer(t, v) == Goto(t, "return") /\ got' = [got EXCEPT ![t] = v]

Return(t) ==
    /\ pc[t] = "return"
    /\ Goto(t, "idle")
    /\ call' = [call EXCEPT ![t] = Fifo!Idle]
    /\ UNCHANGED <<shared, totals, pos, got>>

(* pny_mpmc_enqueue.                                                       *)
EnqueueLoad(t) ==
    /\ At(t, "enqueue", "load")
    /\ pos' = [pos EXCEPT ![t] = enqueue_pos]
    /\ Goto(t, "check")
    /\ UNCHANGED <<shared, totals, call, got>>

(* Variants with a bug: a slot that is still in use is taken, a refusal is *)
(* counted as a success.                                                   *)
EnqueueCheckUnguarded(t) ==
    /\ At(t, "enqueue", "check")
    /\ LET diff == sequence[Slot(pos[t])] - pos[t] IN
       \/ diff <= 0 /\ Goto(t, "cas")
       \/ diff > 0 /\ Goto(t, "load")
    /\ UNCHANGED <<shared, totals, call, pos, got>>
EnqueueCheckCountsRefusal(t) ==
    /\ At(t, "enqueue", "check")
    /\ LET diff == sequence[Slot(pos[t])] - pos[t] IN
       \/ diff = 0 /\ Goto(t, "cas")
       \/ diff < 0 /\ Goto(t, "count")
       \/ diff > 0 /\ Goto(t, "load")
    /\ UNCHANGED <<shared, totals, call, pos, got>>

EnqueueCheck(t) ==
    /\ At(t, "enqueue", "check")
    /\ LET diff == sequence[Slot(pos[t])] - pos[t] IN
       \/ diff = 0 /\ Goto(t, "cas") /\ UNCHANGED got
       \/ diff < 0 /\ Answer(t, Nothing)
       \/ diff > 0 /\ Goto(t, "load") /\ UNCHANGED got
    /\ UNCHANGED <<shared, totals, call, pos>>

(* Variant with a bug: the slot is published before its data is written.   *)
EnqueueReservePublished(t) ==
    /\ At(t, "enqueue", "cas") /\ enqueue_pos = pos[t]
    /\ enqueue_pos' = pos[t] + 1
    /\ sequence' = [sequence EXCEPT ![Slot(pos[t])] = pos[t] + 1]
    /\ Goto(t, "move")
    /\ UNCHANGED <<dequeue_pos, data, totals, call, pos, got>>

EnqueueReserve(t) ==
    /\ At(t, "enqueue", "cas") /\ enqueue_pos = pos[t]
    /\ enqueue_pos' = pos[t] + 1
    /\ Goto(t, "move")
    /\ UNCHANGED <<dequeue_pos, data, sequence, totals, call, pos, got>>

(* A weak compare-exchange may also fail on the expected value.            *)
EnqueueRetry(t) ==
    /\ At(t, "enqueue", "cas")
    /\ pos' = [pos EXCEPT ![t] = enqueue_pos]
    /\ Goto(t, "check")
    /\ UNCHANGED <<shared, totals, call, got>>

EnqueueWrite(t) ==
    /\ At(t, "enqueue", "move")
    /\ data' = [data EXCEPT ![Slot(pos[t])] = call[t].value]
    /\ Goto(t, "publish")
    /\ UNCHANGED <<enqueue_pos, dequeue_pos, sequence, totals, call, pos, got>>

EnqueuePublish(t) ==
    /\ At(t, "enqueue", "publish")
    /\ sequence' = [sequence EXCEPT ![Slot(pos[t])] = pos[t] + 1]
    /\ Goto(t, "count")
    /\ UNCHANGED <<enqueue_pos, dequeue_pos, data, totals, call, pos, got>>

EnqueueCount(t) ==
    /\ At(t, "enqueue", "count")
    /\ total_enqueued' = total_enqueued + 1
    /\ Answer(t, call[t].value)
    /\ UNCHANGED <<shared, total_dequeued, call, pos>>

(* pny_mpmc_dequeue.                                                       *)
DequeueLoad(t) ==
    /\ At(t, "dequeue", "load")
    /\ pos' = [pos EXCEPT ![t] = dequeue_pos]
    /\ Goto(t, "check")
    /\ UNCHANGED <<shared, totals, call, got>>

(* Variant with a bug: an empty queue is waited for.                       *)
DequeueCheckWaits(t) ==
    /\ At(t, "dequeue", "check")
    /\ LET diff == sequence[Slot(pos[t])] - (pos[t] + 1) IN
       \/ diff = 0 /\ Goto(t, "cas")
       \/ diff # 0 /\ Goto(t, "load")
    /\ UNCHANGED <<shared, totals, call, pos, got>>

DequeueCheck(t) ==
    /\ At(t, "dequeue", "check")
    /\ LET diff == sequence[Slot(pos[t])] - (pos[t] + 1) IN
       \/ diff = 0 /\ Goto(t, "cas") /\ UNCHANGED got
       \/ diff < 0 /\ Answer(t, Nothing)
       \/ diff > 0 /\ Goto(t, "load") /\ UNCHANGED got
    /\ UNCHANGED <<shared, totals, call, pos>>

DequeueReserve(t) ==
    /\ At(t, "dequeue", "cas") /\ dequeue_pos = pos[t]
    /\ dequeue_pos' = pos[t] + 1
    /\ Goto(t, "move")
    /\ UNCHANGED <<enqueue_pos, data, sequence, totals, call, pos, got>>

DequeueRetry(t) ==
    /\ At(t, "dequeue", "cas")
    /\ pos' = [pos EXCEPT ![t] = dequeue_pos]
    /\ Goto(t, "check")
    /\ UNCHANGED <<shared, totals, call, got>>

DequeueRead(t) ==
    /\ At(t, "dequeue", "move")
    /\ got' = [got EXCEPT ![t] = data[Slot(pos[t])]]
    /\ Goto(t, "publish")
    /\ UNCHANGED <<shared, totals, call, pos>>

DequeueRelease(t) ==
    /\ At(t, "dequeue", "publish")
    /\ sequence' = [sequence EXCEPT ![Slot(pos[t])] = pos[t] + Capacity]
    /\ Goto(t, "count")
    /\ UNCHANGED <<enqueue_pos, dequeue_pos, data, totals, call, pos, got>>

DequeueCount(t) ==
    /\ At(t, "dequeue", "count")
    /\ total_dequeued' = total_dequeued + 1
    /\ Goto(t, "return")
    /\ UNCHANGED <<shared, total_enqueued, call, pos, got>>

(* pny_mpmc_size: the two totals are read one after the other; pos holds   *)
(* the first.                                                              *)
SizeLoadEnqueued(t) ==
    /\ At(t, "size", "load")
    /\ pos' = [pos EXCEPT ![t] = total_enqueued]
    /\ Goto(t, "check")
    /\ UNCHANGED <<shared, totals, call, got>>

SizeLoadDequeued(t) ==
    /\ At(t, "size", "check")
    /\ Answer(t, (pos[t] - total_dequeued) % SizeMod)
    /\ UNCHANGED <<shared, totals, call, pos>>

Step(t) ==
    \/ Return(t)
    \/ EnqueueLoad(t) \/ EnqueueCheck(t) \/ EnqueueReserve(t) \/ EnqueueRetry(t)
    \/ EnqueueWrite(t) \/ EnqueuePublish(t) \/ EnqueueCount(t)
    \/ DequeueLoad(t) \/ DequeueCheck(t) \/ DequeueReserve(t) \/ DequeueRetry(t)
    \/ DequeueRead(t) \/ DequeueRelease(t) \/ DequeueCount(t)
    \/ SizeLoadEnqueued(t) \/ SizeLoadDequeued(t)

Next == \E t \in Threads : Start(t) \/ Step(t)

Spec == Init /\ [][Next]_vars

(* A reliable thread inside an operation keeps running, and its compare-   *)
(* exchange does not fail for ever on the value it expects.  The other     *)
(* threads may stop anywhere.                                              *)
Fairness ==
    \A t \in Reliable : /\ WF_vars(Step(t))
                        /\ SF_vars(EnqueueReserve(t))
                        /\ SF_vars(DequeueReserve(t))
FairSpec == Spec /\ Fairness

-----------------------------------------------------------------------------
(* Type invariant.                                                         *)
TypeOK ==
    /\ enqueue_pos \in Nat /\ dequeue_pos \in Nat
    /\ data \in [0 .. Capacity - 1 -> Values \cup {Nothing}]
    /\ sequence \in [0 .. Capacity - 1 -> Nat]
    /\ total_enqueued \in Nat /\ total_dequeued \in Nat
    /\ pc \in [Threads -> {"idle", "load", "check", "cas", "move", "publish", "count",
                           "return"}]
    /\ \A t \in Threads : call[t] \in {Fifo!Idle, Fifo!Dequeue, Fifo!Size}
                              \cup {Fifo!Enqueue(v) : v \in Values}
    /\ pos \in [Threads -> Nat]
    /\ \A t \in Threads : got[t] \in Values \cup {Nothing} \cup 0 .. SizeMod - 1

(* No two threads are ever at the data of one slot, whichever of them has  *)
(* reserved it and however long ago: the plain accesses do not race.       *)
SlotExclusive ==
    \A t, u \in Threads :
        pc[t] \in {"move", "publish"} /\ pc[u] \in {"move", "publish"}
            /\ Slot(pos[t]) = Slot(pos[u]) => t = u

(* The queue is a bounded FIFO with operations that take effect at one     *)
(* moment: nothing is lost, repeated or reordered, and no operation is     *)
(* refused unless the queue is full or empty or another one is running.    *)
ImplementsFifo == Fifo!Spec

(* When no operation is running, the statistics say how many elements the  *)
(* queue holds: every success was counted once, and no refusal was.        *)
QuiescentSizeIsExact ==
    (\A t \in Threads : pc[t] = "idle")
        => total_enqueued - total_dequeued = enqueue_pos - dequeue_pos

(* Operations do not block (mpmc.h:37): each returns although any of the   *)
(* unreliable threads may have stopped in the middle of its own.           *)
NonBlocking == \A t \in Reliable : pc[t] # "idle" ~> pc[t] = "idle"

(* The size is a number of elements (mpmc.h:43).                           *)
SizeWithinCapacity ==
    \A t \in Threads : At(t, "size", "return") => got[t] <= Capacity
=============================================================================
