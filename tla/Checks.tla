------------------------------- MODULE Checks -------------------------------
(***************************************************************************)
(* The two checks between the parser and the code generators: typecheck.c   *)
(* and capabilities.c, over the trees the parser makes, and the capability  *)
(* table of wasm_gc.c.  A program is a sequence of declarations.  The type  *)
(* checker looks at a field's first child (its type, or its initial value   *)
(* if it has none) and at a method's return type; it takes parameters and   *)
(* bodies for empty nodes and returns at once.  It never compares a value   *)
(* with a type: typecheck.c:6 announces that count: U32 = "hello" fails,    *)
(* but of a field with both only the type is looked at (line 308).  Of the  *)
(* rules capabilities.c:4-7 announces, the one on ref and box has no code.  *)
(***************************************************************************)
EXTENDS Naturals, Sequences, SequencesExt, FiniteSetsExt

CONSTANTS BuiltinTypes,   \* tc_is_builtin_type
          ImportTypes,    \* the types each module gives (tc_module_types)
          ActorNames,     \* names of actors
          ActorMembers,   \* the members an actor can have
          MembersMax,     \* bound: members of an actor
          DeclsMax,       \* bound: declarations of a program
          ErrorsMax       \* MAX_ERRORS

(* A member is [kind, name, params, node]: a var, let, new, be or fun with   *)
(* its parameter names and the node the checker sees, or NoNode.  A node is *)
(* [kind, name, nodes]; a "this" is an identifier after "this.", an "assign"*)
(* the empty node of that name, an "empty" any other.                      *)
NoNode == [kind |-> "none", name |-> "", nodes |-> <<>>]

ASSUME ChecksAssumption == MembersMax \in Nat /\ DeclsMax \in Nat /\ ErrorsMax \in Nat \ {0}

VARIABLE program
checksVars == <<program>>

-----------------------------------------------------------------------------
(* typecheck.c.                                                            *)

Actors(p) == SelectSeq(p, LAMBDA d : d.kind = "actor")
Imported(p) == UNION {ImportTypes[d.name] : d \in {x \in ToSet(p) : x.kind = "import"}}
KnownTypes(p, i) == Imported(p) \cup {a.name : a \in ToSet(Actors(p))}

(* Only var fields are collected.                                          *)
VarFields(members) == {m.name : m \in {x \in ToSet(members) : x.kind = "var"}}

RECURSIVE ExprErrors(_, _)
ExprErrors(n, known) ==
  CASE n.kind \in {"none", "literal", "call", "empty"} -> 0
    [] n.kind \in {"ident", "this"} -> IF n.name \in known THEN 0 ELSE 1
    [] n.kind = "print" -> IF Len(n.nodes) > 1 THEN 1 ELSE 0
    [] n.kind = "assign" ->
         IF Len(n.nodes) < 2 THEN 0 ELSE ExprErrors(n.nodes[1], known) + ExprErrors(n.nodes[2], known)
    [] OTHER -> FoldLeft(LAMBDA sum, x : sum + ExprErrors(x, known), 0, n.nodes)

ActorErrors(p, i) ==
  LET known == BuiltinTypes \cup VarFields(p[i].members) \cup KnownTypes(p, i)
  IN  FoldLeft(LAMBDA sum, m : sum + ExprErrors(m.node, known), 0, p[i].members)
TypeErrors(p) ==
  MapThenSumSet(LAMBDA i : ActorErrors(p, i), {i \in 1..Len(p) : p[i].kind = "actor"})
Typecheck(p) == [ok |-> TypeErrors(p) = 0, count |-> Min({TypeErrors(p), ErrorsMax})]

-----------------------------------------------------------------------------
(* capabilities.c: a field is iso and a parameter trn by its name.          *)

IsoFields(a) == {i \in 1..Len(a.members) : a.members[i].kind \in {"var", "let"} /\ a.members[i].name = "iso_field"}
TrnParams(a) == {<<i, j>> \in (1..Len(a.members)) \X (1..2) :
                   /\ a.members[i].kind = "be" /\ j <= Len(a.members[i].params)
                   /\ a.members[i].params[j] = "trn_param"}
CapErrors(a) == Cardinality(TrnParams(a)) + (IF Cardinality(IsoFields(a)) > 1 THEN 1 ELSE 0)
CheckCapabilities(p) ==
  LET total == FoldLeft(LAMBDA sum, a : sum + CapErrors(a), 0, Actors(p))
  IN  [ok |-> total = 0, count |-> Min({total, ErrorsMax})]

(* The table of wasm_gc.c.                                                 *)
Caps == {"iso", "trn", "ref", "val", "box", "tag"}
CapRefType(c) == CASE c \in {"iso", "trn", "ref"} -> "struct" [] c = "val" -> "i31" [] OTHER -> "extern"
CapSendable(c) == c \in {"iso", "val", "tag"}
CapConsume(c) == IF c = "iso" THEN "box" ELSE c

-----------------------------------------------------------------------------
ChecksInit == program = <<>>

ImportDecl == \E m \in DOMAIN ImportTypes :
  program' = Append(program, [kind |-> "import", name |-> m, members |-> <<>>])
ActorDecl == \E a \in ActorNames, ms \in BoundedSeq(ActorMembers, MembersMax) :
  program' = Append(program, [kind |-> "actor", name |-> a, members |-> ms])
ChecksNext == Len(program) < DeclsMax /\ (ImportDecl \/ ActorDecl)

(* The nodes a verdict is about: those outside calls, and of an assignment  *)
(* the two sides if it has both.                                           *)
RECURSIVE Judged(_)
Judged(n) ==
  {n} \cup UNION {Judged(n.nodes[i]) :
                    i \in IF n.kind \in {"call", "print", "empty"} \/ (n.kind = "assign" /\ Len(n.nodes) < 2)
                         THEN {} ELSE 1..Len(n.nodes)}

(* Name resolution does not depend on the order of the declarations: a      *)
(* program passes the type checker exactly when every name that stands in a *)
(* judged node is a builtin type, a field of its actor, an actor or imported*)
(* type of the whole program, and no print has two arguments; both checks   *)
(* report as many errors for the program turned around; and no capability   *)
(* that may be sent is mapped to a mutable object unless it is iso, which   *)
(* consuming ends.  That a program that passes is well typed, or keeps the  *)
(* rules of capabilities, is not claimed: the code does not check it.       *)
ChecksAgree ==
  LET declared == {program[i].name : i \in {j \in 1..Len(program) : program[j].kind = "actor"}}
                  \cup Imported(program) \cup BuiltinTypes
      sound(a) == \A m \in ToSet(a.members) : \A n \in Judged(m.node) :
                    /\ n.kind \in {"ident", "this"} => n.name \in declared \cup VarFields(a.members)
                    /\ n.kind = "print" => Len(n.nodes) <= 1
  IN  /\ Typecheck(program).ok = \A a \in ToSet(Actors(program)) : sound(a)
      /\ Typecheck(program) = Typecheck(Reverse(program))
      /\ CheckCapabilities(program) = CheckCapabilities(Reverse(program))
      /\ \A c \in Caps : /\ CapSendable(c) /\ CapRefType(c) = "struct" => c = "iso"
                         /\ CapConsume(CapConsume(c)) = CapConsume(c)
                         /\ CapConsume(c) # c => CapRefType(CapConsume(c)) # "struct"
=============================================================================
