------------------------------- MODULE Parser -------------------------------
(***************************************************************************)
(* The recursive descent parser (parser.c, ast.c).  Each operator below is *)
(* the C function of that name: given the position of the next token it    *)
(* returns the node, Null for a NULL pointer, and the position after it.   *)
(* A token is its type (of an operator: its spelling) and its value; lines *)
(* and columns are left out, and so is the message that an error leaves    *)
(* behind.  Syntax holds the trees and their spelling.                     *)
(***************************************************************************)
EXTENDS Integers, Sequences, TLC

VARIABLE tokens

Node(type, data, kids) == [type |-> type, data |-> data, kids |-> kids]
Null == Node("NULL", "", <<>>)
Got(n, i) == [n |-> n, at |-> i]
(* ast_node_add_child ignores NULL.                                        *)
Add(kids, n) == IF n = Null THEN kids ELSE Append(kids, n)

EofToken == [t |-> "EOF", v |-> ""]
cur(i) == IF i <= Len(tokens) THEN tokens[i] ELSE EofToken
match(i, type) == i <= Len(tokens) /\ tokens[i].t = type
(* Keywords are told by their value alone.                                 *)
match_keyword(i, word) == i <= Len(tokens) /\ tokens[i].v = word
AnyKeyword(i, words) == i <= Len(tokens) /\ tokens[i].v \in words
Skip(i, type) == IF match(i, type) THEN i + 1 ELSE i
SkipWord(i, word) == IF match_keyword(i, word) THEN i + 1 ELSE i
(* A loop of the parser that takes no token runs for ever: it is cut here. *)
Diverged(kids) == Got(Append(kids, Node("DIVERGED", "", <<>>)), Len(tokens) + 1)

(* The function of the parser for a rule, wherever one calls another; the  *)
(* rules are put together at the end of the module.                        *)
RECURSIVE Rule(_, _)

RECURSIVE TypeList(_, _)
TypeList(i, kids) ==
    LET arg == Rule("type", i)
        next == Skip(arg.at, ",")
    IN  IF i > Len(tokens) \/ match(i, "]") THEN Got(kids, Skip(i, "]"))
        ELSE IF next = i THEN Diverged(kids) ELSE TypeList(next, Add(kids, arg.n))

parse_type(i) ==
    LET t == cur(i)
        inner == Rule("type", i + 1)
        args == TypeList(i + 2, <<>>)
    IN  IF t.t = "CAP" THEN Got(Node("CAP", t.v, Add(<<>>, inner.n)), inner.at)
        ELSE IF t.t \notin {"TYPE", "IDENT"} THEN Got(Null, i)
        ELSE IF match(i + 1, "[")
        THEN Got(Node("IDENT", t.v, <<Node("EMPTY", "typeargs", args.n)>>), args.at)
        ELSE Got(Node("IDENT", t.v, <<>>), i + 1)

-----------------------------------------------------------------------------
(* Expressions.                                                            *)

(* Variant with a bug: shifts bind like comparisons.                       *)
BinaryLevelsFlat ==
    <<"||" :> "or", "&&" :> "and", "|" :> "bitor", "^" :> "bitxor", "&" :> "bitand",
      "==" :> "==" @@ "!=" :> "!=" @@ "<" :> "<" @@ ">" :> ">" @@ "<=" :> "<=" @@ ">=" :> ">="
        @@ "<<" :> "shl" @@ ">>" :> "shr",
      "+" :> "+" @@ "-" :> "-", "*" :> "*" @@ "/" :> "/" @@ "%" :> "%">>

(* Binary operators from parse_or_expr down to parse_mul_expr.             *)
BinaryLevels ==
    <<"||" :> "or", "&&" :> "and", "|" :> "bitor", "^" :> "bitxor", "&" :> "bitand",
      "==" :> "==" @@ "!=" :> "!=" @@ "<" :> "<" @@ ">" :> ">" @@ "<=" :> "<=" @@ ">=" :> ">=",
      "<<" :> "shl" @@ ">>" :> "shr",
      "+" :> "+" @@ "-" :> "-", "*" :> "*" @@ "/" :> "/" @@ "%" :> "%">>
UnaryOps == "!" :> "not" @@ "-" :> "neg" @@ "~" :> "bitnot"

RECURSIVE parse_binary_op(_, _), BinaryLoop(_, _, _), Args(_, _), Chain(_, _), Postfix(_, _), Fields(_, _)
parse_expression(i) == parse_binary_op(1, i)

parse_binary_op(level, i) ==
    IF level > Len(BinaryLevels) THEN Rule("unary", i)
    ELSE LET lhs == parse_binary_op(level + 1, i) IN BinaryLoop(level, lhs.n, lhs.at)

BinaryLoop(level, lhs, i) ==
    LET rhs == parse_binary_op(level + 1, i + 1)
    IN  IF lhs = Null \/ cur(i).t \notin DOMAIN BinaryLevels[level] THEN Got(lhs, i)
        ELSE IF rhs.n = Null THEN Got(lhs, rhs.at)
        ELSE BinaryLoop(level, Node("EMPTY", BinaryLevels[level][cur(i).t], <<lhs, rhs.n>>), rhs.at)

parse_unary_expr(i) ==
    LET inner == Rule("expression", i + 1)
        operand == Rule("unary", i + 1)
    IN  IF match(i, "(") THEN Got(inner.n, Skip(inner.at, ")"))
        ELSE IF cur(i).t \in DOMAIN UnaryOps
        THEN Got(Node("EMPTY", UnaryOps[cur(i).t], Add(<<>>, operand.n)), operand.at)
        ELSE Rule("primary", i)

(* The arguments after an opening parenthesis, up to the closing one.      *)
Args(i, kids) ==
    LET arg == Rule("expression", i)
        next == Skip(arg.at, ",")
    IN  IF i > Len(tokens) \/ match(i, ")") THEN Got(kids, Skip(i, ")"))
        ELSE IF next = i THEN Diverged(kids) ELSE Args(next, Add(kids, arg.n))

(* A call named data, whose arguments begin at i.                          *)
CallWith(data, kids, i) ==
    LET args == Args(i, <<>>) IN Got(Node("CALL", data, Append(kids, Node("EMPTY", "args", args.n))), args.at)

(* a.b().c().d, and f().c().                                               *)
Chain(call, i) ==
    LET next == CallWith(cur(i + 1).v, <<call>>, i + 3)
    IN  IF ~match(i, ".") THEN Got(call, i)
        ELSE IF ~match(i + 1, "IDENT") THEN Got(call, i + 1)
        ELSE IF match(i + 2, "(") THEN Chain(next.n, next.at)
        ELSE Chain(Node("CALL", cur(i + 1).v, <<call>>), i + 2)

Postfix(call, i) ==
    LET next == CallWith("." \o cur(i + 1).v, <<call>>, i + 3)
    IN  IF ~match(i, ".") THEN Got(call, i)
        ELSE IF ~match(i + 1, "IDENT") THEN Got(call, i + 1)
        ELSE IF match(i + 2, "(") THEN Postfix(next.n, next.at) ELSE Got(call, i + 2)

(* A path a.b.c: a field, or a call if a parenthesis follows.              *)
Fields(path, i) ==
    IF match(i, ".") /\ match(i + 1, "IDENT")
    THEN IF match(i + 2, "(") THEN CallWith(path \o "." \o cur(i + 1).v, <<>>, i + 3)
         ELSE Fields(path \o "." \o cur(i + 1).v, i + 2)
    ELSE Got(Node("IDENT", path, <<>>), i)

IfExpression(i) ==
    LET cond == Rule("expression", i + 1)
        then == Rule("expression", SkipWord(cond.at, "then"))
        other == Rule("expression", then.at + 1)
        kids == Add(Add(<<>>, cond.n), then.n)
    IN  IF match_keyword(then.at, "else") THEN Got(Node("IF", "", Add(kids, other.n)), SkipWord(other.at, "end"))
        ELSE Got(Node("IF", "", kids), SkipWord(then.at, "end"))

IntOrRange(i) ==
    LET start == Node("INT", cur(i).v, <<>>)
    IN  IF ~match(i + 1, "..") THEN Got(start, i + 1)
        ELSE IF match(i + 2, "INT")
        THEN Got(Node("EMPTY", "range", <<start, Node("INT", cur(i + 2).v, <<>>)>>), i + 3)
        ELSE Got(start, i + 2)

(* @name[Ret](args): the type is skipped if it is an identifier.           *)
ForeignCall(i) ==
    LET name == cur(i + 1).v
        j == IF match(i + 2, "[") THEN Skip(Skip(i + 3, "IDENT"), "]") ELSE i + 2
    IN  IF match(j, "(") THEN CallWith(name, <<>>, j + 1) ELSE Got(Node("CALL", name, <<>>), j)

ThisExpression(i) ==
    LET field == cur(i + 2).v
        named == match(i + 1, ".") /\ cur(i + 2).t \in {"IDENT", "CAP"} /\ i + 2 <= Len(tokens)
        deep == named /\ match(i + 3, ".") /\ match(i + 4, "IDENT")
        path == field \o "." \o cur(i + 4).v
        j == IF named THEN Skip(i + 3, ".") ELSE Skip(i + 1, ".")
        k == Skip(j, ".")
    IN  IF deep
        THEN IF match(i + 5, "(") THEN CallWith(path, <<>>, i + 6) ELSE Got(Node("IDENT", "this." \o path, <<>>), i + 5)
        ELSE IF named
        THEN IF match(j, "(") THEN CallWith("this." \o field, <<>>, j + 1)
             ELSE Got(Node("IDENT", "this." \o field, <<>>), j)
        ELSE IF k > j /\ match(k, "IDENT")
        THEN IF match(k + 1, "(") THEN CallWith(cur(k).v, <<>>, k + 2) ELSE Got(Node("IDENT", "this", <<>>), k + 1)
        ELSE Got(Node("IDENT", "this", <<>>), k)

TypeExpression(i) ==
    LET args == TypeList(i + 2, <<>>)
    IN  IF match(i + 1, "(") THEN CallWith(cur(i).v, <<>>, i + 2)
        ELSE IF match(i + 1, "[") THEN Got(Node("IDENT", cur(i).v, args.n), args.at)
        ELSE Got(Node("IDENT", cur(i).v, <<>>), i + 1)

IdentExpression(i) ==
    LET v == cur(i).v
        ident == Node("IDENT", v, <<>>)
        path == v \o "." \o cur(i + 2).v
        dotted == match(i + 1, ".") /\ match(i + 2, "IDENT")
        method == CallWith(path, <<>>, i + 4)
        j == Skip(i + 1, ".")
        call == CallWith(v, <<>>, j + 1)
        rest == Rule("expression", j + 1)
    IN  IF dotted
        THEN IF match(i + 3, "(") THEN Chain(method.n, method.at) ELSE Fields(path, i + 3)
        ELSE IF match(j, "(") THEN Postfix(call.n, call.at)
        ELSE IF match(j, "=") THEN Got(Node("EMPTY", "assign", Add(<<ident>>, rest.n)), rest.at)
        ELSE IF match(j, "!") THEN Got(Node("SEND", "send", Add(<<ident>>, rest.n)), rest.at)
        ELSE IF match(j, "@") THEN Got(Node("MSG_CALL", "call", Add(<<ident>>, rest.n)), rest.at)
        ELSE IF match(j, "[") THEN Got(Node("INDEX_ACCESS", "", Add(<<ident>>, rest.n)), Skip(rest.at, "]"))
        ELSE Got(ident, j)

parse_expression_primary(i) ==
    LET t == cur(i)
        inner == Rule("expression", i + 1)
    IN  CASE t.t \in {"STRING", "CHAR", "BOOL"} -> Got(Node(t.t, t.v, <<>>), i + 1)
          [] t.t = "INT" -> IntOrRange(i)
          [] OTHER ->
             IF t.v = "recover" THEN Got(inner.n, SkipWord(inner.at, "end"))
             ELSE IF t.v = "error" THEN Got(Node("EMPTY", "error", <<>>), i + 1)
             ELSE IF t.v = "if" THEN IfExpression(i)
             ELSE CASE t.t = "@" /\ match(i + 1, "IDENT") -> ForeignCall(i)
                    [] t.t = "@" /\ ~match(i + 1, "IDENT") -> Got(Null, i + 1)
                    [] t.t = "CAP" /\ t.v = "this" -> ThisExpression(i)
                    [] t.t = "CAP" /\ t.v # "this" -> Got(Node("IDENT", t.v, <<>>), i + 1)
                    [] t.t = "TYPE" -> TypeExpression(i)
                    [] t.t = "IDENT" -> IdentExpression(i)
                    [] OTHER -> Got(Null, i)

-----------------------------------------------------------------------------
(* Statements and blocks.                                                  *)

MemberWords == {"be", "fun", "new", "actor", "class", "primitive", "trait", "interface", "use", "end", "else", "then"}
CompoundOps == "+=" :> "add-assign" @@ "-=" :> "sub-assign" @@ "*=" :> "mul-assign" @@ "/=" :> "div-assign"

RECURSIVE BlockLoop(_, _, _), IndentedLoop(_, _), MatchArms(_, _)

(* stuck counts the turns without progress: after the sixth a token is     *)
(* dropped.                                                                *)
BlockLoop(i, kids, stuck) ==
    LET s == Rule("statement", i)
        j == IF s.n = Null /\ s.at <= Len(tokens) /\ ~match(s.at, "}") THEN s.at + 1 ELSE s.at
    IN  IF i > Len(tokens) \/ match(i, "}") THEN Got(kids, Skip(i, "}"))
        ELSE IF match(i, ";") THEN BlockLoop(i + 1, kids, stuck)
        ELSE IF j > i THEN BlockLoop(j, Add(kids, s.n), 0)
        ELSE IF stuck < 5 THEN BlockLoop(j, Add(kids, s.n), stuck + 1)
        ELSE BlockLoop(j + 1, Add(kids, s.n), 0)

parse_block(i) ==
    LET body == BlockLoop(i + 1, <<>>, 0)
    IN  IF ~match(i, "{") THEN Got(Null, i) ELSE Got(Node("EMPTY", "", body.n), body.at)

IndentedLoop(i, kids) ==
    LET s == Rule("statement", i)
    IN  IF i > Len(tokens) \/ AnyKeyword(i, MemberWords) \/ match(i, "}") THEN Got(kids, i)
        ELSE IF match(i, ";") THEN IndentedLoop(i + 1, kids)
        ELSE IF s.n # Null THEN IF s.at = i THEN Diverged(kids) ELSE IndentedLoop(s.at, Append(kids, s.n))
        ELSE IF s.at <= Len(tokens) /\ ~match(s.at, "}") THEN IndentedLoop(s.at + 1, kids)
        ELSE Got(kids, s.at)

parse_indented_block(i) == LET body == IndentedLoop(i, <<>>) IN Got(Node("EMPTY", "", body.n), body.at)
Body(i) == IF match(i, "{") THEN Rule("block", i) ELSE parse_indented_block(i)
BodyEnd(i) == LET b == Rule("body", i) IN IF match(i, "{") THEN b ELSE Got(b.n, SkipWord(b.at, "end"))

(* var, let and val; the name may be a capability word.                    *)
Declaration(type, i) ==
    LET typed == match(i + 2, ":")
        ty == Rule("type", i + 3)
        j == IF typed THEN ty.at ELSE i + 2
        kids == IF typed THEN <<Node("CAP", "type", Add(<<>>, ty.n))>> ELSE <<>>
        init == Rule("expression", j + 1)
        done == IF match(j, "=") THEN Got(Add(kids, init.n), init.at) ELSE Got(kids, j)
    IN  IF cur(i + 1).t \notin {"IDENT", "CAP"} THEN Got(Null, i + 1)
        ELSE Got(Node(type, cur(i + 1).v, done.n), Skip(done.at, ";"))

ReturnStatement(i) ==
    LET expr == Rule("expression", i + 1)
    IN  IF cur(i + 1).t \in {"}", ";", "EOF"} THEN Got(Node("EMPTY", "return", <<>>), Skip(i + 1, ";"))
        ELSE Got(Node("EMPTY", "return", Add(<<>>, expr.n)), Skip(expr.at, ";"))

IfStatement(i) ==
    LET cond == Rule("expression", i + 1)
        then == Rule("body", SkipWord(cond.at, "then"))
        kids == Add(Add(<<>>, cond.n), then.n)
        other == IF match_keyword(then.at + 1, "if") THEN Rule("statement", then.at + 1) ELSE Rule("body", then.at + 1)
    IN  IF match_keyword(then.at, "else")
        THEN Got(Node("IF", "", Append(kids, Node("ELSE", "", Add(<<>>, other.n)))), SkipWord(other.at, "end"))
        ELSE Got(Node("IF", "", kids), SkipWord(then.at, "end"))

WhileStatement(i) ==
    LET cond == Rule("expression", i + 1)
        body == BodyEnd(SkipWord(cond.at, "do"))
    IN  Got(Node("WHILE", "", Add(Add(<<>>, cond.n), body.n)), body.at)

(* The loop variable is kept apart from the data of other identifiers.     *)
ForStatement(i) ==
    LET named == match(i + 1, "IDENT") \/ AnyKeyword(i + 1, {"it", "_"})
        var == IF named THEN <<Node("IDENT", cur(i + 1).v, <<>>)>> ELSE <<>>
        range == Rule("expression", SkipWord(IF named THEN i + 2 ELSE i + 1, "in"))
        body == BodyEnd(SkipWord(range.at, "do"))
    IN  Got(Node("FOR", "", Add(Add(var, range.n), body.n)), body.at)

TryStatement(i) ==
    LET try == BodyEnd(i + 1)
        other == BodyEnd(try.at + 1)
        s == IF match_keyword(try.at, "else") THEN Got(<<try.n, other.n>>, other.at) ELSE Got(<<try.n>>, try.at)
        then == Rule("body", s.at + 1)
    IN  IF match_keyword(s.at, "then") THEN Got(Node("EMPTY", "try", Append(s.n, then.n)), then.at)
        ELSE Got(Node("EMPTY", "try", s.n), s.at)

MatchArms(i, arms) ==
    LET j == Skip(i, "|")
        pat == IF match_keyword(j, "else") THEN Got(Node("IDENT", "_", <<>>), j + 1) ELSE Rule("expression", j)
        k == Skip(pat.at, "=>")
        body == IF match(k, "{") THEN Rule("block", k) ELSE Rule("statement", k)
        next == Skip(body.at, ";")
    IN  IF i > Len(tokens) \/ j > Len(tokens) THEN Got(arms, j)
        ELSE IF match_keyword(j, "end") \/ match(j, "}") THEN Got(arms, j + 1)
        ELSE IF next = i THEN Diverged(arms)
        ELSE MatchArms(next, Append(arms, Node("MATCH_ARM", "", Add(Add(<<>>, pat.n), body.n))))

MatchStatement(i) ==
    LET expr == Rule("expression", i + 1)
        arms == MatchArms(Skip(expr.at, "{"), Add(<<>>, expr.n))
    IN  Got(Node("MATCH", "", arms.n), arms.at)

(* An expression, or an assignment to one.                                 *)
ExpressionStatement(i) ==
    LET lhs == Rule("expression", i)
        compound == cur(lhs.at).t \in DOMAIN CompoundOps
        crhs == Rule("expression", lhs.at + 1)
        j == IF compound THEN crhs.at ELSE lhs.at
        rhs == Rule("expression", j + 1)
    IN  IF compound /\ lhs.n # Null /\ crhs.n # Null
        THEN Got(Node("EMPTY", CompoundOps[cur(lhs.at).t], <<lhs.n, crhs.n>>), Skip(j, ";"))
        ELSE IF match(j, "=") THEN Got(Node("EMPTY", "assign", Add(Add(<<>>, lhs.n), rhs.n)), Skip(rhs.at, ";"))
        ELSE Got(lhs.n, Skip(j, ";"))

parse_statement(i) ==
    LET w == cur(i).v
        inner == Rule("expression", i + 1)
    IN  CASE w = "var"    -> Declaration("VAR", i)
          [] w = "let"    -> Declaration("LET", i)
          [] w = "val" /\ cur(i).t = "CAP" -> Declaration("LET", i)
          [] w = "return" -> ReturnStatement(i)
          [] w = "if"     -> IfStatement(i)
          [] w = "while"  -> WhileStatement(i)
          [] w = "for"    -> ForStatement(i)
          [] w = "try"    -> TryStatement(i)
          [] w = "match"  -> MatchStatement(i)
          [] w = "recover" -> Got(inner.n, SkipWord(inner.at, "end"))
          [] w \in {"error", "break", "continue"} -> Got(Node("EMPTY", w, <<>>), Skip(i + 1, ";"))
          [] OTHER -> ExpressionStatement(i)

-----------------------------------------------------------------------------
(* Members and programs.                                                   *)

RECURSIVE ParamList(_, _)
ParamList(i, kids) ==
    LET named == cur(i).t \in {"CAP", "IDENT"}
        ty == Rule("type", i + 2)
        j == IF ~named THEN i ELSE IF match(i + 1, ":") THEN ty.at ELSE i + 1
        \* a default value is parsed and dropped
        k == IF named /\ match(j, "=") THEN Rule("expression", j + 1).at ELSE j
        next == IF match(k, ",") \/ (k <= Len(tokens) /\ ~match(k, ")")) THEN k + 1 ELSE k
        param == Node("EMPTY", cur(i).v, IF match(i + 1, ":") THEN Add(<<>>, ty.n) ELSE <<>>)
    IN  IF i > Len(tokens) \/ match(i, ")") THEN Got(kids, Skip(i, ")"))
        ELSE ParamList(next, IF named THEN Append(kids, param) ELSE kids)

(* Parameters as children of the node they belong to: none if empty.       *)
parse_params(i) ==
    LET list == ParamList(i + 1, <<>>)
    IN  IF ~match(i, "(") THEN Got(<<>>, i)
        ELSE Got(IF list.n = <<>> THEN <<>> ELSE <<Node("EMPTY", "params", list.n)>>, list.at)

(* { ... }, => ..., or : ... after the head of a method.                   *)
MethodBody(kids, i) ==
    LET block == Rule("body", IF match(i, "{") THEN i ELSE i + 1)
        expr == IF match(i + 1, "{") THEN Rule("block", i + 1) ELSE Rule("expression", i + 1)
    IN  IF match(i, "{") \/ match(i, "=>")
        THEN Got(IF match(i, "=>") /\ ~match(i + 1, "{") /\ block.n.kids = <<>> THEN kids ELSE Append(kids, block.n),
                 block.at)
        ELSE IF match(i, ":") THEN Got(Add(kids, expr.n), expr.at)
        ELSE Got(kids, i)

MethodName(i) == cur(i).t \in {"IDENT", "KEYWORD"}

parse_method(type, i) ==
    LET name == Skip(i + 1, "CAP")
        params == Rule("params", name + 1)
        ret == Rule("type", params.at + 1)
        head == IF match(params.at, ":") THEN Got(Add(params.n, ret.n), ret.at) ELSE params
        body == MethodBody(head.n, head.at)
    IN  IF MethodName(name) THEN Got(Node(type, cur(name).v, body.n), body.at) ELSE Got(Null, name)

parse_constructor(i) ==
    LET params == Rule("params", i + 2)
        body == MethodBody(params.n, params.at)
    IN  IF MethodName(i + 1) THEN Got(Node("NEW", cur(i + 1).v, body.n), body.at) ELSE Got(Null, i + 1)

parse_field(type, i) ==
    LET ty == Rule("type", i + 3)
        s == IF match(i + 2, ":") THEN Got(Add(<<>>, ty.n), ty.at) ELSE Got(<<>>, i + 2)
        init == Rule("expression", s.at + 1)
        e == IF match(s.at, "=") THEN Got(Add(s.n, init.n), init.at) ELSE s
    IN  IF match(i + 1, "IDENT") THEN Got(Node(type, cur(i + 1).v, e.n), Skip(e.at, ";")) ELSE Got(Null, i + 1)

RECURSIVE Members(_, _, _), TypeParams(_, _), Module(_, _), Program(_, _), ForeignParams(_, _), CloseBracket(_, _)

AnyMember(i) ==
    LET w == cur(i).v
    IN  CASE w = "be"  -> parse_method("BE", i)
          [] w = "fun" -> parse_method("FUN", i)
          [] w = "new" -> parse_constructor(i)
          [] w = "var" -> parse_field("VAR", i)
          [] w = "let" -> parse_field("LET", i)
          [] OTHER -> Got(Null, i + 1)

Members(i, kids, braces) ==
    LET m == Rule("member", i)
    IN  IF i > Len(tokens) \/ (braces /\ match(i, "}"))
           \/ (~braces /\ AnyKeyword(i, {"actor", "class", "primitive", "trait", "interface", "use"}))
        THEN Got(kids, Skip(i, "}"))
        ELSE Members(m.at, Add(kids, m.n), braces)

TypeParams(i, kids) ==
    IF match(i, "IDENT") THEN TypeParams(Skip(i + 1, ","), Append(kids, Node("TYPE_PARAM", cur(i).v, <<>>)))
    ELSE Got(kids, Skip(i, "]"))

(* actor, class and primitive alike.                                       *)
parse_actor(i) ==
    LET generic == TypeParams(i + 3, <<>>)
        head == IF match(i + 2, "[") THEN Got(<<Node("EMPTY", "typeparams", generic.n)>>, generic.at)
                ELSE Got(<<>>, i + 2)
        params == Rule("params", head.at)
        j == Skip(params.at, "CAP")
        body == Members(Skip(j, "{"), head.n \o params.n, match(j, "{"))
    IN  IF match(i + 1, "IDENT") THEN Got(Node("ACTOR", cur(i + 1).v, body.n), body.at) ELSE Got(Null, i + 1)

(* a.b.c after import and use.                                             *)
Module(path, i) ==
    IF ~match(i, ".") THEN Got(path, i)
    ELSE IF ~match(i + 1, "IDENT") THEN Got(path, i + 1) ELSE Module(path \o "." \o cur(i + 1).v, i + 2)

Import(i) ==
    LET m == Module(cur(i).v, i + 1)
    IN  IF match(i, "IDENT") THEN Got(Node("IMPORT", m.n, <<>>), Skip(m.at, ";"))
        ELSE Got(Node("IMPORT", "", <<>>), Skip(i, ";"))

parse_supervise(i) ==
    IF match(i + 1, "IDENT") THEN Got(Node("SUPERVISE", cur(i + 1).v, <<>>), Skip(i + 2, "IDENT"))
    ELSE Got(Node("SUPERVISE", "", <<>>), i + 1)

CloseBracket(i, depth) ==
    LET d == IF match(i, "[") THEN depth + 1 ELSE IF match(i, "]") THEN depth - 1 ELSE depth
    IN  IF i > Len(tokens) THEN i ELSE IF d = 0 THEN i + 1 ELSE CloseBracket(i + 1, d)

(* Parameters of a foreign function; any bracketed type is a Pointer.      *)
ForeignParams(i, kids) ==
    LET typed == match(i + 1, ":")
        j == IF typed THEN Skip(i + 2, "IDENT") ELSE i + 1
        bracket == typed /\ match(j, "[")
        type == IF bracket THEN <<Node("IDENT", "Pointer", <<>>)>>
                ELSE IF typed /\ match(i + 2, "IDENT") THEN <<Node("IDENT", cur(i + 2).v, <<>>)>> ELSE <<>>
        k == IF ~match(i, "IDENT") THEN i ELSE IF bracket THEN CloseBracket(j + 1, 1) ELSE j
        next == Skip(k, ",")
    IN  IF i > Len(tokens) \/ match(i, ")") THEN Got(kids, Skip(i, ")"))
        ELSE IF next = i THEN Diverged(kids)
        ELSE ForeignParams(next, IF match(i, "IDENT") THEN Append(kids, Node("EMPTY", cur(i).v, type)) ELSE kids)

(* use @name[Ret](params).                                                 *)
UseForeign(i) ==
    LET ret == IF match(i + 1, "[") /\ match(i + 2, "IDENT") THEN <<Node("IDENT", cur(i + 2).v, <<>>)>> ELSE <<>>
        j == IF match(i + 1, "[") THEN Skip(Skip(i + 2, "IDENT"), "]") ELSE i + 1
        params == ForeignParams(j + 1, <<>>)
    IN  IF ~match(i, "IDENT") THEN Got(Null, i)
        ELSE IF match(j, "(") THEN Got(Node("EXTERN", cur(i).v, Append(ret, Node("EMPTY", "params", params.n))), params.at)
        ELSE Got(Node("EXTERN", cur(i).v, ret), j)

(* extern fun name(params): Ret.  at is 0 where parsing is given up.       *)
Extern(i) ==
    LET name == Skip(i + 2, "CAP")
        params == Rule("params", name + 1)
        ret == Rule("type", params.at + 1)
        head == IF match(params.at, ":") THEN Got(Add(params.n, ret.n), ret.at) ELSE params
    IN  IF ~match_keyword(i + 1, "fun") THEN Got(Null, i + 1)
        ELSE IF ~match(name, "IDENT") THEN Got(Null, 0)
        ELSE Got(Node("EXTERN", cur(name).v, head.n), head.at)

Semicolon(r) == Got(r.n, IF r.at = 0 THEN 0 ELSE Skip(r.at, ";"))

TopLevel(i) ==
    LET w == cur(i).v
    IN  CASE w \in {"actor", "class", "primitive"} -> parse_actor(i)
          [] w = "supervise" -> parse_supervise(i)
          [] w = "import" \/ (w = "use" /\ ~match(i + 1, "@")) -> Import(i + 1)
          [] w = "use" /\ match(i + 1, "@") -> Semicolon(UseForeign(i + 2))
          [] w = "extern" -> Semicolon(Extern(i))
          [] OTHER -> Got(Null, i + 1)

Program(i, kids) ==
    LET d == Rule("toplevel", i)
    IN  IF i > Len(tokens) \/ d.at = 0 THEN Got(Node("PROGRAM", "", kids), i)
        ELSE Program(d.at, Add(kids, d.n))

parser_parse_program == Program(1, <<>>)

Rule(rule, i) ==
    CASE rule = "type"       -> parse_type(i)
      [] rule = "expression" -> parse_expression(i)
      [] rule = "unary"      -> parse_unary_expr(i)
      [] rule = "primary"    -> parse_expression_primary(i)
      [] rule = "statement"  -> parse_statement(i)
      [] rule = "block"      -> parse_block(i)
      [] rule = "body"       -> Body(i)
      [] rule = "params"     -> parse_params(i)
      [] rule = "member"     -> AnyMember(i)
      [] rule = "members"    -> Members(i, <<>>, FALSE)
      [] rule = "toplevel"   -> TopLevel(i)
      [] rule = "program"    -> parser_parse_program
=============================================================================
