-------------------------------- MODULE Methods --------------------------------
(***************************************************************************)
(* The bodies of methods that the two code generators translate, and what  *)
(* they mean: integer expressions, variables and one field, branches,      *)
(* loops and returns.  The state is one method, grown by a statement or    *)
(* wrapped in a branch or a loop at a time.  Arithmetic has MethodBits     *)
(* bits; a number is kept as the signed one with the same bits.            *)
(***************************************************************************)
EXTENDS Integers, Sequences, FiniteSets, SequencesExt

CONSTANTS
    MethodBits,     \* width of an integer; 32 in the code
    MethodHeads,    \* methods: [params, u32, ctor, field]
    MethodStmts,    \* statements a body is grown by
    MethodConds,    \* conditions it is wrapped in
    MethodSize,     \* bound: statements of a body, those inside others included
    MethodTurns     \* bound: turns of a loop that are followed

ASSUME MethodAssumption ==
    /\ MethodBits \in 2..16
    /\ MethodSize \in Nat /\ MethodTurns \in Nat

VARIABLES
    methodHead,     \* the method's head
    methodBody      \* its statements

methodVars == <<methodHead, methodBody>>

-----------------------------------------------------------------------------
(* Trees, as the parser makes them.                                        *)

Lit(v) == [k |-> "int", v |-> v]
Name(x) == [k |-> "ident", x |-> x]
Bin(op, a, b) == [k |-> "bin", op |-> op, a |-> a, b |-> b]
Un(op, a) == [k |-> "un", op |-> op, a |-> a]
LetBe(x, u32, e) == [k |-> "let", x |-> x, u32 |-> u32, e |-> e]     \* var x: U32 (or I32) = e
Assign(x, e) == [k |-> "assign", x |-> x, e |-> e]
OpAssign(op, x, e) == [k |-> "opassign", op |-> op, x |-> x, e |-> e]
Branch(c, yes, no) == [k |-> "if", c |-> c, yes |-> yes, no |-> no]
Loop(c, body) == [k |-> "while", c |-> c, body |-> body]
Count(x, a, b, body) == [k |-> "for", x |-> x, a |-> a, b |-> b, body |-> body]
Return(e) == [k |-> "return", e |-> e]
Eval(e) == [k |-> "eval", e |-> e]
Jump(w) == [k |-> "jump", w |-> w]          \* break, continue

RECURSIVE Flat(_)
Flat(ss) ==         \* the statements, those inside others too, in order
    FoldLeft(LAMBDA acc, s :
                Append(acc, s) \o (CASE s.k = "if" -> Flat(s.yes) \o Flat(s.no)
                                     [] s.k \in {"while", "for"} -> Flat(s.body)
                                     [] OTHER -> <<>>),
             <<>>, ss)

Parts(ss) == ToSet(Flat(ss))

RECURSIVE Subexpressions(_)
Subexpressions(e) ==
    {e} \cup (CASE e.k = "un" -> Subexpressions(e.a)
                [] e.k = "bin" -> Subexpressions(e.a) \cup Subexpressions(e.b)
                [] OTHER -> {})

Own(s) ==           \* the expressions of one statement
    CASE s.k \in {"if", "while"} -> Subexpressions(s.c)
      [] s.k = "opassign" -> Subexpressions(Bin(s.op, Name(s.x), s.e))
      [] s.k \in {"jump", "for"} -> {}
      [] OTHER -> Subexpressions(s.e)

Expressions(ss) == UNION {Own(s) : s \in Parts(ss)}

Names(e) == {q.x : q \in {r \in Subexpressions(e) : r.k = "ident"}}
Large(e) == \E q \in Subexpressions(e) : q.k = "int" /\ q.v >= 2 ^ (MethodBits - 1)

Lets(ss) == {s.x : s \in {q \in Parts(ss) : q.k = "let"}}
Targets(ss) == {s.x : s \in {q \in Parts(ss) : q.k \in {"assign", "opassign"}}}

(* The names of type U32, loop variables among them.                       *)
U32Names(head, ss) ==
    head.u32 \cup {s.x : s \in {q \in Parts(ss) : q.k = "for" \/ (q.k = "let" /\ q.u32)}}

Natural(e, u32) == Names(e) \cap u32 # {} \/ Large(e)

IsTail(ss) == ss # <<>> /\ Last(ss).k = "eval"

-----------------------------------------------------------------------------
(* Numbers.  Trap stands for what has no result, as division by zero.      *)

Half == 2 ^ (MethodBits - 1)
Trap == 2 * Half
AsSigned(v) == ((v + Half) % (2 * Half)) - Half
AsUnsigned(v) == v % (2 * Half)
Truth(p) == IF p THEN 1 ELSE 0

Arithmetic == {"+", "-", "*", "/", "%"}
Orders == {"<", ">", "<=", ">="}
Logic == {"and", "or"}

Compares(op, a, b) ==
    CASE op = "<" -> a < b [] op = ">" -> a > b [] op = "<=" -> a <= b [] op = ">=" -> a >= b
      [] op = "==" -> a = b [] op = "!=" -> a # b

Magnitude(v) == IF v < 0 THEN -v ELSE v

Exact(op, a, b) ==      \* before it is cut to the width
    CASE op = "+" -> a + b [] op = "-" -> a - b [] op = "*" -> a * b
      [] op = "/" -> (IF (a < 0) = (b < 0) THEN 1 ELSE -1) * (Magnitude(a) \div Magnitude(b))
      [] op = "%" -> (IF a < 0 THEN -1 ELSE 1) * (Magnitude(a) % Magnitude(b))

Quotient(a, b) == IF b = 0 \/ (a = -Half /\ b = -1) THEN Trap ELSE Exact("/", a, b)

-----------------------------------------------------------------------------
(* The value of an expression in the source: a number of type U32 is       *)
(* compared and divided as such, logic takes its right side when the left  *)
(* does not decide.                                                        *)
RECURSIVE Value(_, _, _)
Value(e, env, u32) ==
    LET a == Value(e.a, env, u32)
        b == Value(e.b, env, u32)
        u == Natural(e, u32)
        As(v) == IF u THEN AsUnsigned(v) ELSE v
    IN  CASE e.k = "int" -> AsSigned(e.v)
          [] e.k = "ident" -> env[e.x]
          [] e.k = "un" -> IF a = Trap THEN Trap ELSE IF e.op = "not" THEN Truth(a = 0) ELSE AsSigned(-a)
          [] e.k = "bin" ->
                CASE a = Trap -> Trap
                  [] e.op = "and" -> IF a = 0 \/ b = Trap THEN (IF a = 0 THEN 0 ELSE Trap) ELSE Truth(b # 0)
                  [] e.op = "or" -> IF a # 0 \/ b = Trap THEN (IF a # 0 THEN 1 ELSE Trap) ELSE Truth(b # 0)
                  [] b = Trap -> Trap
                  [] e.op \in {"+", "-", "*"} -> AsSigned(Exact(e.op, a, b))
                  [] e.op \in {"/", "%"} ->
                        IF Quotient(As(a), As(b)) = Trap THEN Trap ELSE AsSigned(Exact(e.op, As(a), As(b)))
                  [] OTHER -> Truth(Compares(e.op, As(a), As(b)))

(* The value of an expression in C, where a tree may also cast to int: a   *)
(* number and its type, int, unsigned or long; Trap where the standard     *)
(* leaves it undefined, overflow and division by zero.                     *)
RECURSIVE CValue(_, _, _)
CValue(e, env, u32) ==
    LET a == CValue(e.a, env, u32)
        b == CValue(e.b, env, u32)
        common == IF "long" \in {a.t, b.t} THEN "long" ELSE IF "unsigned" \in {a.t, b.t} THEN "unsigned" ELSE "int"
        As(x) == IF common = "unsigned" THEN AsUnsigned(x.v) ELSE x.v
        Undefined == [v |-> Trap, t |-> "undefined"]
        Result(v, t) ==
            CASE t = "unsigned" -> [v |-> AsUnsigned(v), t |-> t]
              [] t = "int" /\ v \notin -Half..(Half - 1) -> Undefined
              [] OTHER -> [v |-> v, t |-> t]
        Fact(p) == Result(Truth(p), "int")
    IN  CASE e.k = "int" -> Result(e.v, IF e.v < Half THEN "int" ELSE "long")
          [] e.k = "ident" -> Result(env[e.x], IF e.x \in u32 THEN "unsigned" ELSE "int")
          [] a = Undefined -> Undefined
          [] e.op = "cast" -> Result(AsSigned(a.v), "int")
          [] e.op = "not" -> Fact(a.v = 0)
          [] e.op = "neg" -> Result(-a.v, a.t)
          [] e.op = "and" /\ a.v = 0 -> Fact(FALSE)
          [] e.op = "or" /\ a.v # 0 -> Fact(TRUE)
          [] b = Undefined -> Undefined
          [] e.op \in Logic -> Fact(b.v # 0)
          [] e.op \in Arithmetic ->
                IF e.op \in {"/", "%"} /\ b.v = 0 THEN Undefined ELSE Result(Exact(e.op, As(a), As(b)), common)
          [] OTHER -> Fact(Compares(e.op, As(a), As(b)))

Evaluate(c, e, env, u32) ==     \* in C, or in the source
    IF c THEN LET r == CValue(e, env, u32) IN IF r.t = "undefined" THEN Trap ELSE AsSigned(r.v)
    ELSE Value(e, env, u32)

(* s holds the values of the names, how it goes on (run, jump, done, trap, *)
(* or long: too many turns) and the value returned.  What a block declares *)
(* is gone after it.                                                       *)
RECURSIVE Perform(_, _, _, _)
Perform(c, s, stmt, u32) ==
    LET Sequence(t, ss) == FoldLeft(LAMBDA acc, x : IF acc.goes = "run" THEN Perform(c, acc, x, u32) ELSE acc, t, ss)
        Block(t, ss) ==
            LET after == Sequence(t, ss)
                inner == {ss[i].x : i \in {j \in DOMAIN ss : ss[j].k = "let"}}
            IN [after EXCEPT !.env = [x \in DOMAIN @ |-> IF x \in inner THEN t.env[x] ELSE @[x]]]
        Of(e, Then(_)) ==
            LET v == Evaluate(c, e, s.env, u32) IN IF v = Trap THEN [s EXCEPT !.goes = "trap"] ELSE Then(v)
        Body(t) ==
            LET after == Block(t, stmt.body) IN
            IF after.goes = "jump" THEN [after EXCEPT !.goes = "run", !.left = after.value = "break", !.value = 0] ELSE after
        Turn(t) ==
            LET v == Evaluate(c, stmt.c, t.env, u32)
            IN  CASE t.goes # "run" \/ t.left -> t
                  [] v = Trap -> [t EXCEPT !.goes = "trap"]
                  [] v = 0 -> [t EXCEPT !.left = TRUE]
                  [] OTHER -> Body(t)
        Turns == FoldLeft(LAMBDA t, i : Turn(t), s, [i \in 1..MethodTurns |-> i])
        Counted == FoldLeft(LAMBDA t, i : IF t.goes # "run" \/ t.left THEN t ELSE Body([t EXCEPT !.env[stmt.x] = i]),
                            s, [i \in 1..(stmt.b - stmt.a) |-> stmt.a + i - 1])
    IN  CASE stmt.k \in {"let", "assign"} -> Of(stmt.e, LAMBDA v : [s EXCEPT !.env[stmt.x] = v])
          [] stmt.k = "opassign" ->
                Of(Bin(stmt.op, Name(stmt.x), stmt.e), LAMBDA v : [s EXCEPT !.env[stmt.x] = v])
          [] stmt.k = "if" -> Of(stmt.c, LAMBDA v : Block(s, IF v # 0 THEN stmt.yes ELSE stmt.no))
          [] stmt.k = "while" ->
                IF Turns.goes = "run" /\ ~Turns.left THEN [Turns EXCEPT !.goes = "long"]
                ELSE [Turns EXCEPT !.left = s.left]
          [] stmt.k = "for" -> [Counted EXCEPT !.left = s.left, !.env[stmt.x] = s.env[stmt.x]]
          [] stmt.k = "return" -> Of(stmt.e, LAMBDA v : [s EXCEPT !.goes = "done", !.value = v])
          [] stmt.k = "eval" -> Of(stmt.e, LAMBDA v : s)
          [] stmt.k = "jump" -> [s EXCEPT !.goes = "jump", !.value = stmt.w]

This == Half - 1        \* the address of the object

(* A body performed with args on an object whose field holds cell: how it  *)
(* ends, the value of its last return, and what the names hold then.       *)
Performed(c, head, ss, args, cell) ==
    LET param(x) == SelectInSeq(head.params, LAMBDA p : p = x)
        names == UNION {Names(e) : e \in Expressions(ss)} \cup Lets(ss) \cup Targets(ss)
                 \cup {s.x : s \in {q \in Parts(ss) : q.k = "for"}} \cup {head.field}
    IN FoldLeft(LAMBDA acc, s : IF acc.goes = "run" THEN Perform(c, acc, s, U32Names(head, ss)) ELSE acc,
                [goes |-> "run", value |-> 0, left |-> FALSE,
                 env |-> [x \in names |-> IF param(x) > 0 THEN args[param(x)]
                                          ELSE IF x = head.field THEN cell ELSE 0]],
                ss)

(* What the method means: end is how its body ends.                        *)
Outcome(head, ss, end) ==
    [goes |-> IF end.goes = "run" THEN "done" ELSE end.goes,
     value |-> IF head.ctor THEN This
               ELSE IF IsTail(ss) /\ end.goes = "run" THEN Value(Last(ss).e, end.env, U32Names(head, ss))
               ELSE end.value,
     cell |-> end.env[head.field]]

Meant(head, ss, args, cell) == Outcome(head, ss, Performed(FALSE, head, ss, args, cell))

-----------------------------------------------------------------------------
(* Well-formed bodies: a name is declared once, and used only where it is  *)
(* in scope.  known is what is in scope at the start of ss.                *)
RECURSIVE InScope(_, _)
InScope(ss, known) ==
    \A i \in DOMAIN ss :
        LET s == ss[i]
            before == SubSeq(ss, 1, i - 1)
            here == known \cup {q.x : q \in {r \in ToSet(before) : r.k = "let"}}
        IN  /\ UNION {Names(e) : e \in Own(s)} \subseteq here
            /\ s.k = "assign" => s.x \in here
            /\ s.k = "if" => InScope(s.yes, here) /\ InScope(s.no, here)
            /\ s.k = "while" => InScope(s.body, here)
            /\ s.k = "for" => InScope(s.body, here \cup {s.x})

WellFormed(head, ss) ==
    LET all == SelectSeq(Flat(ss), LAMBDA s : s.k \in {"let", "for"}) IN
    /\ \A i, j \in DOMAIN all : all[i].x = all[j].x => i = j
    /\ \A i \in DOMAIN all : all[i].x \notin ToSet(head.params) \cup {head.field}
    /\ InScope(ss, ToSet(head.params) \cup {head.field})

(* One type on both sides: no number of type U32 with a signed name.       *)
OneType(head, ss) ==
    LET u32 == U32Names(head, ss) IN
    \A e \in Expressions(ss) : e.k = "bin" /\ e.op \notin Logic /\ Natural(e, u32) => Names(e) \subseteq u32

-----------------------------------------------------------------------------
MethodInit == methodHead \in MethodHeads /\ methodBody = <<>>

AddStatement(s) ==
    /\ Len(Flat(methodBody)) < MethodSize
    /\ methodBody' = Append(methodBody, s)
    /\ UNCHANGED methodHead

Wrapped(s) ==
    /\ methodBody # <<>> /\ Len(Flat(methodBody)) < MethodSize
    /\ methodBody' = <<s>>
    /\ UNCHANGED methodHead

MethodNext ==
    \/ \E s \in MethodStmts : AddStatement(s)
    \/ Wrapped(Count("i", 0, 2, methodBody))
    \/ \E c \in MethodConds :
        \/ Wrapped(Loop(c, methodBody))
        \/ Wrapped(Branch(c, methodBody, <<>>))
        \/ Len(methodBody) > 1 /\ Wrapped(Branch(c, Front(methodBody), <<Last(methodBody)>>))

MethodSpec == MethodInit /\ [][MethodNext]_methodVars

Numbers == -Half..(Half - 1)
=============================================================================
