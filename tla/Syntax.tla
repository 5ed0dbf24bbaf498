-------------------------------- MODULE Syntax --------------------------------
(***************************************************************************)
(* Programs as trees, and how the language spells them: the reference that *)
(* Parser is checked against.  A tree grows from an atom by being put into *)
(* contexts; in every state the parser is given its spelling.              *)
(***************************************************************************)
EXTENDS Parser, SequencesExt

CONSTANTS
    ExprContexts,   \* bound on the contexts around an atom
    StmtContexts,   \* bound on the statements around a statement
    Styles          \* "braces" and "indent"

VARIABLES
    tree, kind,     \* the node and what it is: expr, stmt, member, program
    depth,          \* contexts so far
    style           \* how blocks are spelled

syntaxVars == <<tokens, tree, kind, depth, style>>

Op(c) == <<[t |-> c, v |-> c]>>
Id(w) == <<[t |-> "IDENT", v |-> w]>>
Keyword(w) == <<[t |-> "KEYWORD", v |-> w]>>
Cap(w) == <<[t |-> "CAP", v |-> w]>>
Commas(parts) == FlattenSeq([i \in DOMAIN parts |-> IF i > 1 THEN Op(",") \o parts[i] ELSE parts[i]])
Parens(s) == Op("(") \o s \o Op(")")

Ident(d) == Node("IDENT", d, <<>>)
Num(d) == Node("INT", d, <<>>)
Empty(data, kids) == Node("EMPTY", data, kids)
Call(d, args) == Node("CALL", d, <<Empty("args", args)>>)

Path(d) ==
    CASE d = "a.b"    -> Id("a") \o Op(".") \o Id("b")
      [] d = "a.b.c"  -> Id("a") \o Op(".") \o Id("b") \o Op(".") \o Id("c")
      [] d = "this"   -> Cap("this")
      [] d = "this.f" -> Cap("this") \o Op(".") \o Id("f")
      [] d = ".m"     -> Op(".") \o Id("m")
      [] d = "ref"    -> Cap("ref")
      [] d = "U64"    -> <<[t |-> "TYPE", v |-> d]>>
      [] OTHER -> Id(d)

-----------------------------------------------------------------------------
(* Operators, weakest first, as in C but for shifts and comparisons, which *)
(* C orders the same way.  Operators of one strength group to the left.    *)
Strength == "or" :> 1 @@ "and" :> 2 @@ "bitor" :> 3 @@ "bitxor" :> 4 @@ "bitand" :> 5
            @@ "==" :> 6 @@ "!=" :> 6 @@ "<" :> 6 @@ ">" :> 6 @@ "<=" :> 6 @@ ">=" :> 6
            @@ "shl" :> 7 @@ "shr" :> 7 @@ "+" :> 8 @@ "-" :> 8 @@ "*" :> 9 @@ "/" :> 9 @@ "%" :> 9
Sign == "or" :> "||" @@ "and" :> "&&" @@ "bitor" :> "|" @@ "bitxor" :> "^" @@ "bitand" :> "&"
        @@ "shl" :> "<<" @@ "shr" :> ">>" @@ "not" :> "!" @@ "neg" :> "-" @@ "bitnot" :> "~"
SignOf(d) == IF d \in DOMAIN Sign THEN Sign[d] ELSE d
Binary == DOMAIN Strength
Unary == {"not", "neg", "bitnot"}

(* 10 for what needs no parentheses anywhere, 0 for what takes all that    *)
(* follows: a send, an assignment.                                         *)
Power(n) ==
    IF n.type \in {"SEND", "MSG_CALL"} \/ (n.type = "EMPTY" /\ n.data = "assign") THEN 0
    ELSE IF n.type = "EMPTY" /\ n.data \in Binary THEN Strength[n.data]
    ELSE 10

RECURSIVE Spell(_)
Operand(n, least) == IF Power(n) < least THEN Parens(Spell(n)) ELSE Spell(n)
Spell(n) ==
    CASE n.type \in {"STRING", "CHAR", "BOOL", "INT"} -> <<[t |-> n.type, v |-> n.data]>>
      [] n.type = "IDENT" -> Path(n.data) \o (IF n.kids = <<>> THEN <<>> ELSE Op("[") \o Spell(n.kids[1]) \o Op("]"))
      [] n.type = "INDEX_ACCESS" -> Spell(n.kids[1]) \o Op("[") \o Spell(n.kids[2]) \o Op("]")
      [] n.type = "SEND" -> Spell(n.kids[1]) \o Op("!") \o Spell(n.kids[2])
      [] n.type = "MSG_CALL" -> Spell(n.kids[1]) \o Op("@") \o Spell(n.kids[2])
      [] n.type = "IF" -> Keyword("if") \o Spell(n.kids[1]) \o Keyword("then") \o Spell(n.kids[2])
                            \o Keyword("else") \o Spell(n.kids[3]) \o Id("end")
      [] n.type = "CALL" ->
            LET args == n.kids[Len(n.kids)].kids
                list == Parens(Commas([i \in DOMAIN args |-> Spell(args[i])]))
                receiver == IF Len(n.kids) = 1 THEN <<>> ELSE Spell(n.kids[1])
                dot == IF Len(n.kids) = 2 /\ n.data # ".m" THEN Op(".") ELSE <<>>
            IN  receiver \o dot \o Path(n.data) \o list
      [] n.type = "EMPTY" ->
            CASE n.data \in Binary ->
                    Operand(n.kids[1], Strength[n.data]) \o Op(SignOf(n.data)) \o Operand(n.kids[2], Strength[n.data] + 1)
              [] n.data \in Unary -> Op(SignOf(n.data)) \o Operand(n.kids[1], 10)
              [] n.data = "range" -> Spell(n.kids[1]) \o Op("..") \o Spell(n.kids[2])
              [] n.data = "assign" -> Spell(n.kids[1]) \o Op("=") \o Spell(n.kids[2])

Atoms ==
    {Ident(d) : d \in {"a", "a.b", "a.b.c", "this", "this.f", "ref", "U64"}} \cup {Num("1")}
        \cup {Node("STRING", "s", <<>>), Node("CHAR", "c", <<>>), Node("BOOL", "true", <<>>)}
        \cup {Empty("range", <<Num("1"), Num("2")>>), Call("f", <<>>), Call("a.b", <<Num("1"), Ident("a")>>)}

Around(e) ==
    {Empty(d, <<e, Ident("b")>>) : d \in Binary} \cup {Empty(d, <<Num("2"), e>>) : d \in Binary}
        \cup {Empty(d, <<e>>) : d \in Unary}
        \cup {Call(d, <<e>>) : d \in {"f", "a.b", "a.b.c", "this.f", "U64"}}
        \cup {Call("f", <<Num("1"), e, e>>), Node("INDEX_ACCESS", "", <<Ident("b"), e>>)}
        \cup {Node("SEND", "send", <<Ident("b"), e>>), Node("MSG_CALL", "call", <<Ident("b"), e>>)}
        \cup {Empty("assign", <<Ident("b"), e>>), Node("IF", "", <<e, Num("1"), e>>)}
        \cup {Node("CALL", "b", <<Call("a.b", <<e>>), Empty("args", <<e>>)>>),
              Node("CALL", ".m", <<Call("f", <<e>>), Empty("args", <<>>)>>)}

-----------------------------------------------------------------------------
(* Statements.  Members and statements that do not begin with a keyword    *)
(* are followed by a semicolon.                                            *)
Block(kids) == Empty("", kids)
Typed(type) == Node("CAP", "type", <<type>>)
ListOf(t) == Node("IDENT", "L", <<Empty("typeargs", <<t>>)>>)
SpellType(t) ==
    IF t.type = "CAP" THEN Cap(t.data) \o Path(t.kids[1].data)
    ELSE Path(t.data) \o (IF t.kids = <<>> THEN <<>> ELSE Op("[") \o Path(t.kids[1].kids[1].data) \o Op("]"))

RECURSIVE SpellStmt(_), SpellBody(_, _)
SpellStmts(kids) == FlattenSeq([i \in DOMAIN kids |-> SpellStmt(kids[i])])
(* A block with what opens and closes it in this style.                    *)
SpellBody(n, word) ==
    IF style = "braces" THEN Op("{") \o SpellStmts(n.kids) \o Op("}") ELSE word \o SpellStmts(n.kids)
End == IF style = "braces" THEN <<>> ELSE Id("end")

SpellStmt(n) ==
    CASE n.type \in {"VAR", "LET"} ->
            LET typed == n.kids # <<>> /\ n.kids[1].type = "CAP"
                init == n.kids[Len(n.kids)]
            IN  Keyword(IF n.type = "VAR" THEN "var" ELSE "let") \o Id(n.data)
                  \o (IF typed THEN Op(":") \o SpellType(n.kids[1].kids[1]) ELSE <<>>)
                  \o (IF n.kids # <<>> /\ init.type # "CAP" THEN Op("=") \o Spell(init) ELSE <<>>) \o Op(";")
      [] n.type = "IF" /\ n.kids[2].type = "EMPTY" /\ n.kids[2].data = "" ->
            LET other == n.kids[3].kids[1]
            IN  Keyword("if") \o Spell(n.kids[1]) \o SpellBody(n.kids[2], Keyword("then"))
                  \o (IF Len(n.kids) = 2 THEN End
                      ELSE Keyword("else") \o (IF other.type = "IF" THEN SpellStmt(other) ELSE SpellBody(other, <<>>) \o End))
      [] n.type = "WHILE" -> Keyword("while") \o Spell(n.kids[1]) \o SpellBody(n.kids[2], Id("do")) \o End
      [] n.type = "FOR" -> Keyword("for") \o Spell(n.kids[1]) \o Keyword("in") \o Spell(n.kids[2])
                             \o SpellBody(n.kids[3], Id("do")) \o End
      [] n.type = "MATCH" ->
            Keyword("match") \o Spell(n.kids[1]) \o Op("{")
              \o FlattenSeq([i \in 1 .. Len(n.kids) - 1 |->
                    Op("|") \o Spell(n.kids[i + 1].kids[1]) \o Op("=>")
                        \o Op("{") \o SpellStmts(n.kids[i + 1].kids[2].kids) \o Op("}")])
              \o Op("}")
      [] n.type = "EMPTY" /\ n.data = "try" ->
            Keyword("try") \o SpellBody(n.kids[1], <<>>)
              \o (IF Len(n.kids) > 1 THEN Keyword("else") \o SpellBody(n.kids[2], <<>>) ELSE <<>>) \o End
              \o (IF Len(n.kids) > 2 THEN Keyword("then") \o SpellBody(n.kids[3], <<>>) ELSE <<>>)
      [] n.type = "EMPTY" /\ n.data \in {"break", "continue", "error"} -> Id(n.data) \o Op(";")
      [] n.type = "EMPTY" /\ n.data = "return" ->
            Keyword("return") \o FlattenSeq([i \in DOMAIN n.kids |-> Spell(n.kids[i])]) \o Op(";")
      [] n.type = "EMPTY" /\ n.data \in {"add-assign", "sub-assign", "mul-assign", "div-assign"} ->
            Spell(n.kids[1]) \o Op(CHOOSE op \in DOMAIN CompoundOps : CompoundOps[op] = n.data) \o Spell(n.kids[2]) \o Op(";")
      [] OTHER -> Spell(n) \o Op(";")

Simple == {Empty("break", <<>>), Empty("return", <<>>), Node("VAR", "x", <<>>)}
StmtsOf(e) ==
    (IF e.type = "IF" THEN {} ELSE {e})
    \cup {Empty("return", <<e>>), Node("VAR", "x", <<e>>), Node("LET", "x", <<Typed(ListOf(Ident("U64"))), e>>),
     Node("VAR", "x", <<Typed(Node("CAP", "iso", <<Ident("T")>>)), e>>),
     Empty("assign", <<Ident("this.f"), e>>), Empty("assign", <<Node("INDEX_ACCESS", "", <<Ident("b"), e>>), e>>),
     Empty("sub-assign", <<Ident("b"), e>>)}
        \cup {Node("IF", "", <<e, Block(<<s>>)>>) : s \in Simple}
        \cup {Node("WHILE", "", <<e, Block(<<Empty("continue", <<>>)>>)>>)}
StmtAround(s) ==
    LET b == Block(<<s, Empty("break", <<>>)>>)
        c == Block(<<Empty("error", <<>>), s>>)
        if == Node("IF", "", <<Ident("a"), b, Node("ELSE", "", <<c>>)>>)
    IN  {if, Node("IF", "", <<Ident("a"), c, Node("ELSE", "", <<if>>)>>), Node("WHILE", "", <<Ident("a"), c>>),
         Node("FOR", "", <<Ident("i"), Empty("range", <<Num("1"), Num("2")>>), b>>),
         Node("MATCH", "", <<Ident("a"), Node("MATCH_ARM", "", <<Num("1"), b>>), Node("MATCH_ARM", "", <<Ident("_"), c>>)>>),
         Empty("try", <<b>>), Empty("try", <<b, c>>), Empty("try", <<b, c, b>>)}

-----------------------------------------------------------------------------
(* Members of an actor, and programs.                                      *)
Params == Empty("params", <<Empty("p", <<ListOf(Ident("U64"))>>), Empty("ref", <<>>)>>)
SpellParams(n) ==
    Commas([i \in DOMAIN n.kids |-> Path(n.kids[i].data)
               \o (IF n.kids[i].kids = <<>> THEN <<>> ELSE Op(":") \o SpellType(n.kids[i].kids[1]))])

SpellMember(n) ==
    IF n.type \in {"VAR", "LET"}
    THEN Keyword(IF n.type = "VAR" THEN "var" ELSE "let") \o Id(n.data) \o Op(":") \o SpellType(n.kids[1])
           \o FlattenSeq([i \in 1 .. Len(n.kids) - 1 |-> Op("=") \o Spell(n.kids[i + 1])])
    ELSE LET has(i, d) == i <= Len(n.kids) /\ n.kids[i].type = d
             params == has(1, "EMPTY") /\ n.kids[1].data = "params"
             ret == IF params THEN 2 ELSE 1
         IN  Keyword(IF n.type = "BE" THEN "be" ELSE IF n.type = "NEW" THEN "new" ELSE "fun")
               \o (IF n.type = "FUN" THEN Cap("ref") ELSE <<>>) \o Id(n.data)
               \o Parens(IF params THEN SpellParams(n.kids[1]) ELSE <<>>)
               \o (IF has(ret, "IDENT") THEN Op(":") \o SpellType(n.kids[ret]) ELSE <<>>)
               \o Op("=>") \o SpellBody(n.kids[Len(n.kids)], <<>>)

MembersOf(s) ==
    LET b == Block(<<s>>)
    IN  {Node("BE", "m", <<Params, b>>), Node("FUN", "m", <<b>>), Node("FUN", "m", <<Params, Ident("U64"), b>>),
         Node("NEW", "create", <<b>>)}
FieldsOf(e) == {Node("VAR", "x", <<Ident("U64"), e>>), Node("LET", "x", <<ListOf(Ident("U64")), e>>)}

SpellTop(n) ==
    CASE n.type = "ACTOR" ->
            LET generic == n.kids # <<>> /\ n.kids[1].data = "typeparams"
                params == {i \in {1, 2} : i <= Len(n.kids) /\ n.kids[i].data = "params"}
                members == SelectSeq(n.kids, LAMBDA k : k.type # "EMPTY")
                all == FlattenSeq([i \in DOMAIN members |-> SpellMember(members[i])])
            IN  Keyword(IF generic THEN "class" ELSE "actor") \o Id(n.data)
                  \o (IF generic THEN Op("[") \o Commas([i \in DOMAIN n.kids[1].kids |-> Id(n.kids[1].kids[i].data)]) \o Op("]")
                      ELSE <<>>)
                  \o (IF params = {} THEN <<>> ELSE Parens(SpellParams(n.kids[CHOOSE i \in params : TRUE])))
                  \o (IF style = "braces" THEN Op("{") \o all \o Op("}") ELSE all)
      [] n.type = "IMPORT" -> Keyword(IF n.data = "a.b.c" THEN "import" ELSE "use") \o Path(n.data)
      [] n.type = "SUPERVISE" -> Keyword("supervise") \o Id(n.data) \o Id("one_for_one")
      [] n.type = "EXTERN" ->
            IF n.kids[1].type = "IDENT"
            THEN Keyword("use") \o Op("@") \o Id(n.data) \o Op("[") \o Path(n.kids[1].data) \o Op("]")
                   \o Parens(SpellParams(n.kids[2]))
            ELSE Keyword("extern") \o Keyword("fun") \o Id(n.data) \o Parens(SpellParams(n.kids[1]))
                   \o Op(":") \o SpellType(n.kids[2])

(* A supervise after a member without braces would be taken as a part of   *)
(* it, and dropped: it comes before.                                       *)
ProgramsOf(m) ==
    LET actor == Node("ACTOR", "A", <<m, m>>)
        class == Node("ACTOR", "C", <<Empty("typeparams", <<Node("TYPE_PARAM", "T", <<>>), Node("TYPE_PARAM", "U", <<>>)>>), m>>)
    IN  {Node("PROGRAM", "", kids) : kids \in
            {<<Node("IMPORT", "a.b.c", <<>>), actor, class>>,
             <<Node("IMPORT", "m", <<>>), Node("EXTERN", "f", <<Ident("T"), Empty("params", <<Empty("p", <<Ident("T")>>)>>)>>),
               Node("SUPERVISE", "A", <<>>), class>>,
             <<Node("EXTERN", "f", <<Params, Ident("U64")>>), Node("ACTOR", "A", <<Params, m>>), actor>>}}

-----------------------------------------------------------------------------
Spelling(k, n) ==
    CASE k = "expr"    -> Spell(n)
      [] k = "stmt"    -> SpellStmt(n)
      [] k = "member"  -> SpellMember(n)
      [] k = "program" -> FlattenSeq([i \in DOMAIN n.kids |-> SpellTop(n.kids[i])])

SyntaxInit ==
    /\ style \in Styles /\ kind = "expr" /\ depth = 0
    /\ tree \in Atoms
    /\ tokens = Spelling(kind, tree)

Put(k, n, d) ==
    /\ tree' = n /\ kind' = k /\ depth' = d
    /\ tokens' = Spelling(k, n)
    /\ UNCHANGED style

SyntaxNext ==
    \/ kind = "expr" /\ depth < ExprContexts /\ \E n \in Around(tree) : Put("expr", n, depth + 1)
    \/ kind = "expr" /\ depth <= 1 /\ \E n \in StmtsOf(tree) : Put("stmt", n, 2 * depth)
    \/ kind = "stmt" /\ depth < StmtContexts /\ \E n \in StmtAround(tree) : Put("stmt", n, depth + 1)
    \/ kind = "stmt" /\ depth <= 1 /\ \E n \in MembersOf(tree) : Put("member", n, 0)
    \/ kind = "expr" /\ depth = 0 /\ \E n \in FieldsOf(tree) : Put("member", n, 0)
    \/ kind = "member" /\ \E n \in ProgramsOf(tree) : Put("program", n, 0)

RuleOf == "expr" :> "expression" @@ "stmt" :> "statement" @@ "member" :> "members" @@ "program" :> "program"

(* The parser gives the tree back that was spelled, and takes every token: *)
(* operators bind as strongly as in the table above, an else belongs to    *)
(* its if, blocks end where they end, in both styles (parser.c).           *)
ParserInverts == Rule(RuleOf[kind], 1) = Got(IF kind = "member" THEN <<tree>> ELSE tree, Len(tokens) + 1)
=============================================================================
