---------------------------- MODULE MCSupervision ----------------------------
(* Supervision on three actors.                                            *)
EXTENDS Supervision, TLC
CONSTANTS a1, a2, a3
MCSymmetry == Permutations(Actors)
=============================================================================
