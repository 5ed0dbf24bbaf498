------------------------------- MODULE Types -------------------------------
(***************************************************************************)
(* The reference counts of types.c.  type_new gives its caller one          *)
(* reference; a tuple, union, array or generic type counts one more for each*)
(* of its parts and gives it back when it is freed.  The caller releases    *)
(* what it created, once, and builds types only out of types it still holds.*)
(***************************************************************************)
EXTENDS Naturals, Sequences, FiniteSets, SequencesExt

CONSTANTS TypeMax,    \* bound: types ever created
          TypeParts   \* bound: parts of a composite type

ASSUME TypesAssumption == TypeMax \in Nat /\ TypeParts \in Nat \ {0}

VARIABLES types,   \* [kind, base, parts, rc, live], by order of creation
          held     \* the types whose first reference the caller still has

typesVars == <<types, held>>

MadeType(k, base, parts) == [kind |-> k, base |-> base, parts |-> parts, rc |-> 1, live |-> TRUE]

Uses(parts, t) == Cardinality({i \in 1..Len(parts) : parts[i] = t})

(* Every part's count goes up, once for each place it takes.                *)
CountedOnce(ts, parts) ==        \* variant with a bug: once for each type
  [t \in 1..Len(ts) |-> IF Uses(parts, t) > 0 THEN [ts[t] EXCEPT !.rc = @ + 1] ELSE ts[t]]
Counted(ts, parts) == [t \in 1..Len(ts) |-> [ts[t] EXCEPT !.rc = @ + Uses(parts, t)]]

TypesInit == types = <<>> /\ held = {}

Adds(ts, type) ==
  /\ Len(types) < TypeMax
  /\ types' = Append(ts, type) /\ held' = held \cup {Len(types) + 1}

TypeNew == Adds(types, MadeType("plain", 0, <<>>))

(* type_tuple and type_union.                                              *)
TypeTuple == \E k \in {"tuple", "union"}, parts \in BoundedSeq(held, TypeParts) :
  Adds(Counted(types, parts), MadeType(k, 0, parts))
TypeArray == \E t \in held : Adds(Counted(types, <<t>>), MadeType("array", 0, <<t>>))

(* The generic type is counted too, and never given back.                   *)
TypeGenericWithArgs == \E base \in held, parts \in BoundedSeq(held, TypeParts) :
  Adds(Counted(types, <<base>> \o parts), MadeType("generic", base, parts))

(* type_release frees a type whose count reaches 0; type_free takes the      *)
(* parts' counts down, but frees none of them.                              *)
Discounted(ts, parts) == [t \in 1..Len(ts) |-> [ts[t] EXCEPT !.rc = @ - Uses(parts, t)]]
TypeRelease == \E t \in held :
  LET lower == [types EXCEPT ![t].rc = @ - 1]
  IN  /\ types' = IF lower[t].rc > 0 THEN lower
                  ELSE [Discounted(lower, lower[t].parts) EXCEPT ![t].live = FALSE]
      /\ held' = held \ {t}

TypesNext == TypeNew \/ TypeTuple \/ TypeArray \/ TypeGenericWithArgs \/ TypeRelease

TypesSpec == TypesInit /\ [][TypesNext]_typesVars

-----------------------------------------------------------------------------
Live == {t \in 1..Len(types) : types[t].live}
PlacesOf(t) == {p \in Live \X (1..TypeParts) :
                  p[2] <= Len(types[p[1]].parts) /\ types[p[1]].parts[p[2]] = t}
BasesOf(t) == {u \in 1..Len(types) : types[u].base = t}

(* A live type's count is the caller's reference, one for each place in a    *)
(* live type, and one for every generic type ever made of it; so what a      *)
(* live type is made of, and what the caller holds, is never freed memory.  *)
RefCountsExact ==
  /\ held \subseteq Live
  /\ \A t \in Live :
       /\ types[t].rc = Cardinality(held \cap {t}) + Cardinality(PlacesOf(t)) + Cardinality(BasesOf(t))
       /\ ToSet(types[t].parts) \subseteq Live
=============================================================================
