----------------------------- MODULE Scheduling -----------------------------
(***************************************************************************)
(* What stands beside the actors' own ticks: the extensions of             *)
(* scheduler_ext.c, and the scheduler's list with its registry             *)
(* (runtime.c 50-127).  The two have no state in common.                   *)
(***************************************************************************)
EXTENDS SchedulerExt, ActorList

(* The I/O pool runs what it accepts before it shuts down, the queues and  *)
(* lists beside it keep order and count (scheduler_ext.c), and the links   *)
(* of the scheduler's own list lead to every actor (runtime.c:50-127).     *)
SchedulerSafe == IoPoolDrains /\ SchedulerLists /\ ListLinked
=============================================================================
