-------------------------------- MODULE WasmGen --------------------------------
(***************************************************************************)
(* The code generator of wasm.c for the bodies of methods.  A compiled     *)
(* body is a sequence of instructions [op, n]; Valid and Executed are the  *)
(* validation and the execution of WebAssembly itself, HostExecuted what   *)
(* the interpreter of wamr.c does.                                         *)
(***************************************************************************)
EXTENDS Methods

CONSTANT WasmSteps      \* bound: instructions of one execution

ASSUME WasmAssumption == WasmSteps \in Nat

-----------------------------------------------------------------------------
(* The generator.  g holds the code, the names of the locals in order (the *)
(* first is "this"), those declared U32, and the name of the class's field.*)

Ins(op, n) == <<[op |-> op, n |-> n]>>
Const(v) == Ins("const", v)

LocalIndex(g, x) == SelectInSeq(g.locals, LAMBDA y : y = x) - 1    \* -1: none
IsField(g, x) == LocalIndex(g, x) < 0 /\ x = g.field

(* wasm_expr_is_u32: a variable declared so, or a literal over the middle. *)
IsU32(g, e) ==
    \/ e.k = "ident" /\ LocalIndex(g, e.x) >= 0 /\ e.x \in g.u32
    \/ e.k = "int" /\ e.v >= Half

Opcodes == (Arithmetic \ {"%"}) \cup Orders \cup Logic \cup {"==", "!="}

(* wasm_cmp_needs_unsigned, with the table of opcodes.                     *)
OpcodeOf(g, op, a, b) ==
    IF op \in Orders /\ (IsU32(g, a) \/ IsU32(g, b)) THEN op \o "u" ELSE op

(* emit_expr.  An operator outside the table leaves 0, without its parts;  *)
(* so does break, whose node is no identifier.                             *)
RECURSIVE EmitExpr(_, _)
EmitExpr(g, e) ==
    CASE e.k = "int" -> Const(AsSigned(e.v))
      [] e.k = "ident" ->
            IF LocalIndex(g, e.x) >= 0 THEN Ins("get", LocalIndex(g, e.x))
            ELSE IF IsField(g, e.x) THEN Ins("get", 0) \o Ins("load", 0)
            ELSE Const(0)
      [] e.k = "un" /\ e.op = "not" -> EmitExpr(g, e.a) \o Ins("eqz", 0)
      [] e.k = "un" /\ e.op = "neg" -> Const(0) \o EmitExpr(g, e.a) \o Ins("-", 0)
      [] e.k = "bin" /\ e.op \in Opcodes ->
            EmitExpr(g, e.a) \o EmitExpr(g, e.b) \o Ins(OpcodeOf(g, e.op, e.a, e.b), 0)
      [] OTHER -> Const(0)

(* wasm_local_ensure                                                       *)
Ensured(g, x) == IF LocalIndex(g, x) >= 0 THEN g ELSE [g EXCEPT !.locals = Append(@, x)]

Plus(g, code) == [g EXCEPT !.code = @ \o code]

EmitDrop(g, e) == Plus(g, EmitExpr(g, e) \o Ins("drop", 0))

(* Variant with a bug: the branch out of a loop leaves only the loop.      *)
LoopExitShort == Ins("eqz", 0) \o Ins("br_if", 0)
LoopExit == Ins("eqz", 0) \o Ins("br_if", 1)

(* emit_stmt.                                                              *)
RECURSIVE EmitStmt(_, _)
EmitStmt(g, s) ==
    LET Block(h, ss) == FoldLeft(LAMBDA acc, x : EmitStmt(acc, x), h, ss)
    IN
    CASE s.k = "let" ->
            LET h == [Ensured(g, s.x) EXCEPT !.u32 = IF s.u32 THEN @ \cup {s.x} ELSE @]
            IN Plus(h, EmitExpr(h, s.e) \o Ins("set", LocalIndex(h, s.x)))
      [] s.k = "assign" /\ IsField(g, s.x) ->
            Plus(g, Ins("get", 0) \o EmitExpr(g, s.e) \o Ins("store", 0))
      [] s.k = "assign" /\ ~IsField(g, s.x) ->
            LET h == Plus(g, EmitExpr(g, s.e))
            IN Plus(Ensured(h, s.x), Ins("set", LocalIndex(Ensured(h, s.x), s.x)))
      [] s.k = "opassign" ->
            LET h == Ensured(g, s.x)
                i == LocalIndex(h, s.x)
            IN Plus(h, Ins("get", i) \o EmitExpr(h, s.e) \o Ins(s.op, 0) \o Ins("set", i))
      [] s.k = "if" ->
            LET yes == Block(Plus(g, EmitExpr(g, s.c) \o Ins("if", 0)), s.yes)
                no == IF s.no = <<>> THEN yes ELSE Block(Plus(yes, Ins("else", 0)), s.no)
            IN Plus(no, Ins("end", 0))
      [] s.k = "while" ->
            LET head == Plus(g, Ins("block", 0) \o Ins("loop", 0) \o EmitExpr(g, s.c) \o LoopExit)
            IN Plus(Block(head, s.body), Ins("br", 0) \o Ins("end", 0) \o Ins("end", 0))
      [] s.k = "return" -> Plus(g, EmitExpr(g, s.e) \o Ins("return", 0) \o Ins("drop", 0))
      [] s.k = "eval" -> EmitDrop(g, s.e)
      [] s.k = "jump" -> Plus(g, Const(0) \o Ins("drop", 0))
      [] s.k = "for" -> Plus(g, Ins("loop", 0) \o Ins("end", 0) \o Ins("drop", 0))

(* w3_emit_method_body: this and the first four parameters are locals; the *)
(* last statement, if it is an expression, is the result.                  *)
Compiled(head, ss) ==
    LET start == [code |-> <<>>, locals |-> <<"this">> \o SubSeq(head.params, 1, IF Len(head.params) > 4 THEN 4 ELSE Len(head.params)),
                  u32 |-> head.u32, field |-> head.field]
        body == FoldLeft(LAMBDA g, s : EmitStmt(g, s), start, IF IsTail(ss) THEN Front(ss) ELSE ss)
        tail == IF IsTail(ss) THEN EmitExpr(body, Last(ss).e) ELSE <<>>
        result == IF head.ctor THEN Ins("get", 0) ELSE IF IsTail(ss) THEN <<>> ELSE Const(0)
        params == Len(head.params) + 1
    IN [code |-> body.code \o tail \o result \o Ins("end", 0),
        slots |-> IF Len(body.locals) > params THEN Len(body.locals) ELSE params]

-----------------------------------------------------------------------------
(* WebAssembly: every value is an i32, blocks have no result, the function *)
(* has one.  ctl holds, per open block, the height of the stack at its     *)
(* start and whether the code at hand can be reached.                      *)

Takes(op) ==
    CASE op \in {"const", "get", "block", "loop", "br", "else", "end"} -> 0
      [] op \in {"set", "load", "eqz", "drop", "if", "br_if", "return"} -> 1
      [] OTHER -> 2
Gives(op) ==
    IF op \in {"set", "store", "drop", "if", "br_if", "return", "block", "loop", "br", "else", "end"} THEN 0 ELSE 1

Valid(fn) ==
    LET Top(v) == Last(v.ctl)
        Popped(v, n) ==
            IF v.h - n >= Top(v).h THEN [v EXCEPT !.h = @ - n]
            ELSE [v EXCEPT !.h = Top(v).h, !.ok = @ /\ Top(v).dead]
        Dead(v) == [v EXCEPT !.h = Top(v).h, !.ctl = Front(@) \o <<[Top(v) EXCEPT !.dead = TRUE]>>]
        Opened(v) == [v EXCEPT !.ctl = Append(@, [h |-> v.h, dead |-> FALSE])]
        Closed(v) ==
            LET results == IF Len(v.ctl) = 1 THEN 1 ELSE 0
                w == Popped(v, results)
            IN [w EXCEPT !.ok = @ /\ w.h = Top(w).h, !.h = @ + results, !.ctl = Front(@)]
        Check(v, i) ==
            IF ~v.ok \/ v.ctl = <<>> THEN [v EXCEPT !.ok = FALSE]
            ELSE LET w == Popped(v, Takes(i.op)) IN
                 CASE i.op = "end" -> Closed(w)
                   [] i.op = "else" -> Opened(Closed(w))
                   [] i.op \in {"block", "loop", "if"} -> Opened(w)
                   [] i.op \in {"br", "return"} -> Dead([w EXCEPT !.ok = @ /\ i.n < Len(w.ctl)])
                   [] i.op \in {"get", "set"} -> [w EXCEPT !.h = @ + Gives(i.op), !.ok = @ /\ i.n < fn.slots]
                   [] OTHER -> [w EXCEPT !.h = @ + Gives(i.op), !.ok = @ /\ (i.op = "br_if" => i.n < Len(w.ctl))]
        end == FoldLeft(Check, [ok |-> TRUE, h |-> 0, ctl |-> <<[h |-> 0, dead |-> FALSE]>>], fn.code)
    IN end.ok /\ end.ctl = <<>>

(* What an operator of two numbers gives.                                  *)
BitAnd[a \in Nat, b \in Nat] ==
    IF a = 0 \/ b = 0 THEN 0 ELSE (a % 2) * (b % 2) + 2 * BitAnd[a \div 2, b \div 2]

Operated(op, a, b) ==
    CASE op \in {"+", "-", "*"} -> AsSigned(Exact(op, a, b))
      [] op = "/" -> Quotient(a, b)
      [] op = "and" -> AsSigned(BitAnd[AsUnsigned(a), AsUnsigned(b)])
      [] op = "or" -> AsSigned(AsUnsigned(a) + AsUnsigned(b) - BitAnd[AsUnsigned(a), AsUnsigned(b)])
      [] op \in {"<u", ">u", "<=u", ">=u"} ->
            Truth(Compares(SubSeq(op, 1, Len(op) - 1), AsUnsigned(a), AsUnsigned(b)))
      [] OTHER -> Truth(Compares(op, a, b))

(* The else or the end that belongs to the instruction at pc.              *)
Match(code, pc, wanted) ==
    LET Walk(acc, i) ==
            CASE acc.at > 0 -> acc
              [] code[i].op \in {"block", "loop", "if"} -> [acc EXCEPT !.depth = @ + 1]
              [] acc.depth = 0 /\ code[i].op \in wanted -> [acc EXCEPT !.at = i]
              [] code[i].op = "end" -> [acc EXCEPT !.depth = @ - 1]
              [] OTHER -> acc
    IN FoldLeft(Walk, [depth |-> 0, at |-> 0], [i \in 1..(Len(code) - pc) |-> pc + i]).at

(* One instruction of a valid body.                                        *)
Stepped(code, m) ==
    LET i == code[m.pc]
        n == Len(m.stack)
        top == m.stack[n]
        next == [m EXCEPT !.pc = @ + 1]
        Push(x, k) == [next EXCEPT !.stack = Append(SubSeq(@, 1, n - k), x)]
        Pop(k) == [next EXCEPT !.stack = SubSeq(@, 1, n - k)]
        Leave(w, d) ==
            LET at == Len(w.labels) - d
                l == w.labels[at]
            IN [w EXCEPT !.pc = l.pc, !.stack = SubSeq(@, 1, l.h),
                         !.labels = SubSeq(@, 1, IF l.loop THEN at ELSE at - 1)]
        Label(w, loop) ==
            [w EXCEPT !.labels = Append(@, [loop |-> loop, h |-> Len(w.stack),
                                            pc |-> IF loop THEN m.pc + 1 ELSE Match(code, m.pc, {"end"}) + 1])]
        Done(v) == [m EXCEPT !.state = IF v = Trap THEN "trap" ELSE "done", !.value = v]
    IN  CASE i.op = "const" -> Push(i.n, 0)
          [] i.op = "get" -> Push(m.local[i.n], 0)
          [] i.op = "set" -> [Pop(1) EXCEPT !.local[i.n] = top]
          [] i.op = "load" -> Push(IF top = This THEN m.cell ELSE 0, 1)
          [] i.op = "store" -> [Pop(2) EXCEPT !.cell = IF m.stack[n - 1] = This THEN top ELSE @]
          [] i.op = "eqz" -> Push(Truth(top = 0), 1)
          [] i.op = "drop" -> Pop(1)
          [] i.op \in {"block", "loop"} -> Label(next, i.op = "loop")
          [] i.op = "if" ->
                LET other == Match(code, m.pc, {"else", "end"})
                IN IF top # 0 THEN Label(Pop(1), FALSE)
                   ELSE IF code[other].op = "else" THEN [Label(Pop(1), FALSE) EXCEPT !.pc = other + 1]
                   ELSE [Pop(1) EXCEPT !.pc = other + 1]
          [] i.op = "else" -> Leave(m, 0)
          [] i.op = "end" -> IF m.labels = <<>> THEN Done(top) ELSE [next EXCEPT !.labels = Front(@)]
          [] i.op = "br" -> Leave(m, i.n)
          [] i.op = "br_if" -> IF top # 0 THEN Leave(Pop(1), i.n) ELSE Pop(1)
          [] i.op = "return" -> Done(top)
          [] OTHER -> LET v == Operated(i.op, m.stack[n - 1], top)
                      IN IF v = Trap THEN Done(v) ELSE Push(v, 2)

RECURSIVE Steps(_, _, _)
Steps(code, m, left) ==
    IF m.state = "run" /\ left > 0 THEN Steps(code, Stepped(code, m), left - 1) ELSE m

(* The body run on the given arguments and field.                          *)
Executed(fn, args, cell) ==
    Steps(fn.code,
          [pc |-> 1, stack |-> <<>>, labels |-> <<>>, state |-> "run", value |-> 0, cell |-> cell,
           local |-> [i \in 0..(fn.slots - 1) |->
                        IF i = 0 THEN This ELSE IF i <= Len(args) THEN args[i] ELSE 0]],
          WasmSteps)

-----------------------------------------------------------------------------
(* The interpreter of wamr.c.  It keeps no variables and knows no blocks:  *)
(* what it does not know it passes over, drop, if, else, division and      *)
(* logic among it, and the first end, branch or return stops it.           *)

HostOps == {"+", "-", "*", "==", "!="} \cup Orders \cup {o \o "u" : o \in Orders}

HostStepped(m, i) ==
    LET n == Len(m.stack)
        With(k, pushed) == IF n < k THEN [m EXCEPT !.state = "fail"]
                           ELSE [m EXCEPT !.stack = SubSeq(@, 1, n - k) \o pushed]
        Stop == [m EXCEPT !.state = IF n > 0 THEN "done" ELSE "none", !.value = IF n > 0 THEN m.stack[n] ELSE 0]
    IN  CASE m.state # "run" -> m
          [] i.op = "const" -> With(0, <<i.n>>)
          [] i.op = "get" -> With(0, <<0>>)
          [] i.op \in {"set", "block"} -> With(IF n > 0 THEN 1 ELSE 0, <<>>)
          [] i.op = "load" -> IF n = 0 THEN With(1, <<>>) ELSE With(1, <<IF m.stack[n] = This THEN m.cell ELSE 0>>)
          [] i.op = "store" ->
                IF n < 2 THEN With(2, <<>>)
                ELSE [With(2, <<>>) EXCEPT !.cell = IF m.stack[n - 1] = This THEN m.stack[n] ELSE @]
          [] i.op = "eqz" -> IF n = 0 THEN With(1, <<>>) ELSE With(1, <<Truth(m.stack[n] = 0)>>)
          [] i.op \in HostOps -> IF n < 2 THEN With(2, <<>>) ELSE With(2, <<Operated(i.op, m.stack[n - 1], m.stack[n])>>)
          [] i.op \in {"end", "return"} -> Stop
          [] i.op \in {"br", "br_if"} -> [m EXCEPT !.state = "none"]
          [] OTHER -> m

HostExecuted(fn, args, cell) ==
    FoldLeft(HostStepped, [stack |-> args, state |-> "run", value |-> 0, cell |-> cell], fn.code)

-----------------------------------------------------------------------------
IsTruth(e) == (e.k = "un" /\ e.op = "not") \/ (e.k = "bin" /\ e.op \notin Arithmetic)

(* What the generator translates by its meaning: no break or continue, no  *)
(* loop that counts, no operator without an opcode, logic on truth values  *)
(* that divide nothing, numbers of type U32 not divided, and compared      *)
(* where an operand shows the type; x += e on a variable; at most four     *)
(* parameters; in a constructor neither return nor a value at the end.     *)
Translatable(head, ss) ==
    LET u32 == U32Names(head, ss) IN
    /\ WellFormed(head, ss)
    /\ Len(head.params) <= 4
    /\ head.ctor => ~IsTail(ss)
    /\ \A s \in Parts(ss) :
        /\ s.k \notin {"jump", "for"} /\ (head.ctor => s.k # "return")
        /\ s.k = "opassign" => s.x # head.field
    /\ \A e \in Expressions(ss) : e.k = "bin" =>
        /\ e.op \in Opcodes
        /\ e.op \in Logic =>
            /\ IsTruth(e.a) /\ IsTruth(e.b)
            /\ \A q \in Subexpressions(e) : q.k = "bin" => q.op # "/"
        /\ e.op = "/" => ~Natural(e, u32)
        /\ e.op \in Orders /\ Natural(e, u32) =>
            \E x \in {e.a, e.b} : x.k \in {"int", "ident"} /\ Natural(x, u32)

(* What the interpreter of wamr.c can run: results of constants.           *)
Constant(ss) ==
    /\ \A s \in Parts(ss) : s.k \in {"eval", "return"} /\ Names(s.e) = {}
    /\ \A e \in Expressions(ss) : e.k = "bin" => e.op \in HostOps

(* An execution ends as the source means.                                  *)
AsMeant(want, got) ==
    CASE want.goes = "long" -> TRUE
      [] want.goes = "trap" -> got.state = "trap"
      [] OTHER -> got.state = "done" /\ got.value = want.value /\ got.cell = want.cell

(* fn, the code of the body at hand, is valid and has the same result.     *)
CodeAgrees(fn) ==
    /\ ~(methodHead.ctor /\ IsTail(methodBody)) /\ (\A s \in Parts(methodBody) : s.k # "for") => Valid(fn)
    /\ Translatable(methodHead, methodBody) =>
        /\ \A args \in [DOMAIN methodHead.params -> Numbers], cell \in {0, 1} :
            AsMeant(Meant(methodHead, methodBody, args, cell), Executed(fn, args, cell))
        /\ Constant(methodBody) /\ ~methodHead.ctor =>
            LET args == [i \in DOMAIN methodHead.params |-> 1]
            IN HostExecuted(fn, args, 0).value = Executed(fn, args, 0).value

(* The generated body of a method is valid WebAssembly, whatever branches, *)
(* loops and returns it has, but for loops that count and constructors     *)
(* with a value at their end; and, where the generator knows what the body *)
(* uses, it returns what the source means, leaves the field as the source  *)
(* does, and stops where the source divides by zero, for all arguments.    *)
(* On bodies that name nothing the interpreter of wamr.c agrees.           *)
WasmMeansTheSame == CodeAgrees(Compiled(methodHead, methodBody))
=============================================================================
