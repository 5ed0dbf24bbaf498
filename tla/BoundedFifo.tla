------------------------------ MODULE BoundedFifo ------------------------------
(***************************************************************************)
(* What the interface of the MPMC queue (include/ponypp/mpmc.h) promises   *)
(* to threads: a bounded first-in first-out queue whose operations take    *)
(* effect at one moment between their call and their return.  An operation *)
(* is refused only when the queue is full or empty, or when another thread *)
(* is inside an operation at that moment.                                  *)
(***************************************************************************)
EXTENDS Naturals, Sequences

CONSTANTS
    Threads,
    Values,     \* the pointers that are enqueued
    Nothing,    \* NULL, and false
    Capacity,
    Sizes       \* what a size may be reported as

VARIABLES
    items,   \* the queue, oldest first
    call,    \* the operation each thread is in
    answer   \* its outcome: Pending until it has taken effect

fifoVars == <<items, call, answer>>

Idle == [op |-> "none"]
Enqueue(v) == [op |-> "enqueue", value |-> v]
Dequeue == [op |-> "dequeue"]
Size == [op |-> "size"]
Pending == [done |-> FALSE]
Done(x) == [done |-> TRUE, value |-> x]

InProgress(t) == call[t].op \in {"enqueue", "dequeue"}
Contended(t) == \E u \in Threads \ {t} : InProgress(u)

Init ==
    /\ items = <<>>
    /\ call = [t \in Threads |-> Idle]
    /\ answer = [t \in Threads |-> Pending]

Call(t, c) ==
    /\ call[t] = Idle
    /\ call' = [call EXCEPT ![t] = c]
    /\ UNCHANGED <<items, answer>>

Decide(t, x) ==
    /\ answer[t] = Pending
    /\ answer' = [answer EXCEPT ![t] = Done(x)]
    /\ UNCHANGED call

Put(t) ==
    /\ call[t].op = "enqueue"
    /\ Len(items) < Capacity
    /\ Decide(t, call[t].value)
    /\ items' = Append(items, call[t].value)

Take(t) ==
    /\ call[t].op = "dequeue"
    /\ items # <<>>
    /\ Decide(t, Head(items))
    /\ items' = Tail(items)

Refuse(t) ==
    /\ \/ call[t].op = "enqueue" /\ Len(items) = Capacity
       \/ call[t].op = "dequeue" /\ items = <<>>
       \/ InProgress(t) /\ Contended(t)
    /\ Decide(t, Nothing)
    /\ UNCHANGED items

(* The size is a statistic: nothing is promised of it.                     *)
Measure(t) ==
    /\ call[t].op = "size"
    /\ \E n \in Sizes : Decide(t, n)
    /\ UNCHANGED items

Return(t) ==
    /\ answer[t] # Pending
    /\ call' = [call EXCEPT ![t] = Idle]
    /\ answer' = [answer EXCEPT ![t] = Pending]
    /\ UNCHANGED items

Next ==
    \E t \in Threads :
        \/ \E v \in Values : Call(t, Enqueue(v))
        \/ Call(t, Dequeue) \/ Call(t, Size)
        \/ Put(t) \/ Take(t) \/ Refuse(t) \/ Measure(t) \/ Return(t)

Spec == Init /\ [][Next]_fifoVars
=============================================================================
