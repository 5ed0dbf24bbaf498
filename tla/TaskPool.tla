-------------------------------- MODULE TaskPool --------------------------------
(***************************************************************************)
(* What a pool of threads promises to those who hand it tasks: a task that *)
(* was accepted waits until one thread takes it, is held by that thread    *)
(* alone and then finished, or is dropped when the pool is taken down.     *)
(* Nothing is promised about order.                                        *)
(***************************************************************************)
EXTENDS Naturals, FiniteSets

CONSTANTS Tasks, Threads, Nobody, Capacity

VARIABLES
    waiting,    \* accepted tasks nobody has taken
    held,       \* the task each thread has in hand
    finished    \* tasks that were handled or dropped

poolVars == <<waiting, held, finished>>

Init ==
    /\ waiting = {}
    /\ held = [t \in Threads |-> Nobody]
    /\ finished = {}

Known == waiting \cup finished \cup {held[t] : t \in Threads}

Accept(k) ==
    /\ k \notin Known
    /\ Cardinality(waiting) < Capacity
    /\ waiting' = waiting \cup {k}
    /\ UNCHANGED <<held, finished>>

Take(t, k) ==
    /\ held[t] = Nobody
    /\ k \in waiting
    /\ waiting' = waiting \ {k}
    /\ held' = [held EXCEPT ![t] = k]
    /\ UNCHANGED finished

Finish(t) ==
    /\ held[t] # Nobody
    /\ finished' = finished \cup {held[t]}
    /\ held' = [held EXCEPT ![t] = Nobody]
    /\ UNCHANGED waiting

(* Only when no thread has a task in hand.                                 *)
TakeDown ==
    /\ \A t \in Threads : held[t] = Nobody
    /\ finished' = finished \cup waiting
    /\ waiting' = {}
    /\ UNCHANGED held

Next ==
    \/ TakeDown
    \/ \E k \in Tasks : Accept(k)
    \/ \E t \in Threads : Finish(t) \/ \E k \in Tasks : Take(t, k)

Spec == Init /\ [][Next]_poolVars
=============================================================================
