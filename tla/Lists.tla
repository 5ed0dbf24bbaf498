-------------------------------- MODULE Lists --------------------------------
(***************************************************************************)
(* Two walks over a list that the runtime's C code does in place: dropping *)
(* the elements at some places and adding numbers up.  They are recursive  *)
(* functions, so that what they give can be proved by induction.           *)
(***************************************************************************)
EXTENDS Integers, Sequences

(* The elements of s at the places of M, in the order of s.                *)
Kept(s, M) ==
    LET F[n \in 0 .. Len(s)] ==
            IF n = 0 THEN <<>> ELSE IF n \in M THEN Append(F[n - 1], s[n]) ELSE F[n - 1]
    IN  F[Len(s)]

(* The sum of a sequence of numbers.                                       *)
Total(s) ==
    LET F[n \in 0 .. Len(s)] == IF n = 0 THEN 0 ELSE F[n - 1] + s[n]
    IN  F[Len(s)]
=============================================================================
