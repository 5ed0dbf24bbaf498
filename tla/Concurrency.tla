---------------------------- MODULE Concurrency -----------------------------
(***************************************************************************)
(* What threads share in stdlib.c: channels, and promises with futures.    *)
(* The two have no state in common.                                        *)
(***************************************************************************)
EXTENDS Channel, Promise

(* Channels lose, repeat and reorder nothing and leave no thread asleep    *)
(* that could go on, and a promise keeps the value it was fulfilled with   *)
(* and runs its callback with it (stdlib.c).                               *)
ConcurrencySafe == ChannelFifo /\ NoLostWakeup /\ PromiseKept
=============================================================================
