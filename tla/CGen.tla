---------------------------------- MODULE CGen ----------------------------------
(***************************************************************************)
(* The code generator of codegen.c for the bodies of methods.  The C it    *)
(* prints is a tree too, of the same kind as the source, with names that   *)
(* say where they are found and with casts.                                *)
(***************************************************************************)
EXTENDS Methods

(* g holds the statements printed, the locals known so far, the parameters *)
(* and the field.                                                          *)
Member(x) == "self->" \o x

(* A name that is read: a parameter or a local comes before a field.       *)
Read(g, x) == IF x \notin g.params \cup g.locals /\ x = g.field THEN Member(x) ELSE x

(* A name that is assigned to: a field comes before a local.               *)
AssignedTo(g, x) == IF x \notin g.params /\ x = g.field THEN Member(x) ELSE x

(* cg_expr.                                                                *)
RECURSIVE CExpr(_, _)
CExpr(g, e) ==
    LET Cast(a) == Un("cast", CExpr(g, a)) IN
    CASE e.k = "int" -> e
      [] e.k = "ident" -> Name(Read(g, e.x))
      [] e.k = "un" -> Un(e.op, CExpr(g, e.a))
      [] e.k = "bin" -> IF e.op \in Arithmetic THEN Bin(e.op, Cast(e.a), Cast(e.b))
                        ELSE Bin(e.op, CExpr(g, e.a), CExpr(g, e.b))

(* An expression that stands as a statement: its operators are left out,   *)
(* what they are applied to becomes statements.                            *)
RECURSIVE Dissolved(_, _)
Dissolved(g, e) ==
    CASE e.k = "un" -> Dissolved(g, e.a)
      [] e.k = "bin" -> Dissolved(g, e.a) \o Dissolved(g, e.b)
      [] OTHER -> <<Eval(CExpr(g, e))>>

(* cg_stmt.  Locals are known to the end of the function.                  *)
RECURSIVE CStmt(_, _)
CStmt(g, s) ==
    LET Block(h, ss) == FoldLeft(CStmt, [h EXCEPT !.code = <<>>], ss)
        Printed(h, code) == [h EXCEPT !.code = g.code \o code]
    IN
    CASE s.k = "let" ->
            LET h == [g EXCEPT !.locals = @ \cup {s.x}] IN Printed(h, <<LetBe(s.x, s.u32, CExpr(h, s.e))>>)
      [] s.k = "assign" -> Printed(g, <<Assign(AssignedTo(g, s.x), CExpr(g, s.e))>>)
      [] s.k = "opassign" -> Printed(g, <<OpAssign(s.op, AssignedTo(g, s.x), CExpr(g, s.e))>>)
      [] s.k = "if" ->
            LET yes == Block(g, s.yes)
                no == Block(yes, s.no)
            IN Printed(no, <<Branch(CExpr(g, s.c), yes.code, no.code)>>)
      [] s.k = "while" ->
            LET body == Block(g, s.body) IN Printed(body, <<Loop(CExpr(g, s.c), body.code)>>)
      [] s.k = "for" ->
            LET body == Block(g, s.body) IN Printed(body, <<Count(s.x, s.a, s.b, body.code)>>)
      [] s.k = "return" -> Printed(g, <<Return(CExpr(g, s.e))>>)
      [] s.k = "jump" -> Printed(g, <<s>>)
      [] s.k = "eval" -> Printed(g, Dissolved(g, s.e))

(* A body of one statement that is no branch, loop or return is printed    *)
(* after "return": C only where it is an expression or an assignment.      *)
Sole(g, s) ==
    CASE s.k = "eval" -> <<Return(CExpr(g, s.e))>>
      [] s.k = "assign" -> <<Assign(Read(g, s.x), CExpr(g, s.e)), Return(Name(Read(g, s.x)))>>
      [] OTHER -> <<[k |-> "invalid"]>>

IsSole(ss) == Len(ss) = 1 /\ ss[1].k \notin {"if", "while", "for", "return"}

(* The method.  A constructor returns the object; a method whose last      *)
(* statement is no return gets a "return 0".                               *)
PrintedBody(head, ss) ==
    LET g == [code |-> <<>>, locals |-> {}, params |-> ToSet(head.params), field |-> head.field]
        code == FoldLeft(CStmt, g, ss).code
    IN  CASE head.ctor -> Append(code, Return(Name("self")))
          [] ~head.ctor /\ IsSole(ss) -> Sole(g, ss[1])
          [] ss # <<>> /\ Last(ss).k = "return" -> code
          [] OTHER -> Append(code, Return(Lit(0)))

CHead(head) ==
    [head EXCEPT !.field = Member(@), !.u32 = {IF x = head.field THEN Member(x) ELSE x : x \in @},
                 !.params = Append(@, "self")]

-----------------------------------------------------------------------------
(* C: names are declared, break and continue stand in a loop, and a        *)
(* function leaves by a return.                                            *)
RECURSIVE JumpsInLoops(_)
JumpsInLoops(ss) ==
    \A s \in ToSet(ss) : s.k # "jump" /\ (s.k = "if" => JumpsInLoops(s.yes) /\ JumpsInLoops(s.no))

IsC(head, code) ==
    /\ \A s \in Parts(code) : s.k # "invalid"
    /\ JumpsInLoops(code)
    /\ WellFormed(CHead(head), code)

(* What the generator prints as C: break and continue only in loops, no    *)
(* body that is one declaration, one x += e or one jump.                   *)
Printable(head, ss) ==
    /\ WellFormed(head, ss) /\ JumpsInLoops(ss)
    /\ ~head.ctor /\ IsSole(ss) => ss[1].k \in {"eval", "assign"}

(* And what it translates by its meaning: a value at the end only where it *)
(* is the whole body, no body that is one assignment, whose value would be *)
(* the result; numbers of type U32 divided only by x /= e, and compared    *)
(* where an operand is a variable of that type, which alone has the type   *)
(* in C.  A loop variable, 64 bits wide in C, is neither assigned nor      *)
(* negated.                                                                *)
CTranslatable(head, ss) ==
    LET u32 == U32Names(head, ss)
        counters == {s.x : s \in {q \in Parts(ss) : q.k = "for"}}
    IN
    /\ Printable(head, ss) /\ OneType(head, ss)
    /\ ~head.ctor => (IsTail(ss) => Len(ss) = 1) /\ (IsSole(ss) => IsTail(ss))
    /\ head.ctor => \A s \in Parts(ss) : s.k # "return"
    /\ counters \cap Targets(ss) = {}
    /\ \A s \in Parts(ss) : s.k = "opassign" /\ s.op = "/" /\ Large(s.e) => s.x \in u32
    /\ \A e \in UNION {Own(s) : s \in {q \in Parts(ss) : q.k # "opassign"}}
               \cup UNION {Subexpressions(s.e) : s \in {q \in Parts(ss) : q.k = "opassign"}} :
        /\ e.k = "un" /\ e.op = "neg" => Names(e.a) \cap counters = {}
        /\ e.k = "bin" /\ Natural(e, u32) =>
            /\ e.op \notin {"/", "%"}
            /\ e.op \in Orders \/ (e.op \in {"==", "!="} /\ Large(e)) =>
                \E x \in {e.a, e.b} : x.k = "ident" /\ x.x \in u32

(* What the printed method does on arguments and a field.                  *)
CMeant(head, ss, args, cell) ==
    LET Result(h, end) == [goes |-> end.goes, value |-> end.value, cell |-> end.env[h.field]]
    IN Result(CHead(head), Performed(TRUE, CHead(head), PrintedBody(head, ss), Append(args, This), cell))

(* The source's outcome, where it has one and C does too, is that of C.    *)
SameOutcome(want, got) == want.goes = "done" /\ got.goes # "trap" => got = want

(* The generated function is C, for all bodies but those named above, and, *)
(* where the generator knows what the body uses, it returns what the       *)
(* source means and leaves the field as the source does, for all arguments *)
(* that keep within the numbers of C and do not divide by zero.            *)
CMeansTheSame ==
    /\ Printable(methodHead, methodBody) => IsC(methodHead, PrintedBody(methodHead, methodBody))
    /\ CTranslatable(methodHead, methodBody) =>
        \A args \in [DOMAIN methodHead.params -> Numbers], cell \in {0, 1} :
            SameOutcome(Meant(methodHead, methodBody, args, cell), CMeant(methodHead, methodBody, args, cell))

=============================================================================
