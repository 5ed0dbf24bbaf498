---------------------------- MODULE MCActorRuntime ----------------------------
(* ActorRuntime with model values for two actors and two behaviors.        *)
EXTENDS ActorRuntime
CONSTANTS a1, a2, b1, b2
MCSymmetry == Permutations(Actors) \cup Permutations(Behaviors)
=============================================================================
