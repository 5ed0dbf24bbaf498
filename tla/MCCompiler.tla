------------------------------ MODULE MCCompiler ------------------------------
(***************************************************************************)
(* The algorithms of the compiler and its libraries that share no state,   *)
(* side by side: a behaviour builds an input of the one that stage names.  *)
(* The two code generators take the same methods.                          *)
(***************************************************************************)
EXTENDS Codecs, Json, Lexer, Syntax, Packages, Checks, Types, WasmGen, CGen

VARIABLE stage

-----------------------------------------------------------------------------
(* Bit sets of numbers: around each border of every encoding.              *)
MCWords ==
    {{}} \cup {0..n : n \in {0, 5, 6, 7, 15, 30, 31, 32, 62, 63}} \cup {{n} : n \in {7, 8, 31, 32, 63}}
        \cup {n..63 : n \in {4, 5, 6, 7, 14, 15, 16, 30, 31, 32}} \cup {{63} \cup 0..6}
MCBytes == {{}, 0..7, 4..7, 0..5}
MCFields == {{0}, {28}, 0..28}

MCJsonChars == {"a", "\"", "\\", "\n", "<1>"}

MCPieces == {"a", "if", "not", "b1_", "12", "0x1F", "1.5", "1..2", "\"s\\n\"", "\"\\x41'\"", "'a'", "'\\n'",
             "'a\nb'", "'it'", "=", ">", "<", "!", "&", "|", ".", "+", "/", "*", ":", "(", "// c\n",
             "/* \n */", "#d\n", "\n"}

Leaf(n) == [kind |-> "ident", name |-> n, nodes |-> <<>>]
ThisLeaf(n) == [kind |-> "this", name |-> n, nodes |-> <<>>]
Inner(k, ns) == [kind |-> k, name |-> "", nodes |-> ns]
Part(k, n, ps, x) == [kind |-> k, name |-> n, params |-> ps, node |-> x]
MCImports == [m \in {"std.io", "std"} |-> IF m = "std" THEN {"File", "Timer"} ELSE {"File"}]
MCMembers ==
    {Part("var", "iso_field", <<>>, Leaf("File")), Part("let", "iso_field", <<>>, Inner("cap", <<Leaf("B")>>)),
     Part("var", "f", <<>>, Inner("operator", <<ThisLeaf("f"), Leaf("U32")>>)),
     Part("var", "h", <<>>, Inner("assign", <<Leaf("f"), Inner("assign", <<ThisLeaf("Nope")>>)>>)),
     Part("be", "go", <<"x", "trn_param">>, NoNode), Part("fun", "g", <<"trn_param">>, Leaf("Timer")),
     Part("new", "create", <<>>, Inner("empty", <<Leaf("Nope")>>)),
     Part("let", "p", <<>>, Inner("print", <<Inner("literal", <<>>), Inner("literal", <<>>)>>))}

MCHead(params, u32, ctor) == [params |-> params, u32 |-> u32, ctor |-> ctor, field |-> "f"]
MCPlain == MCHead(<<>>, {}, FALSE)
MCHeads == {MCPlain} \cup {MCHead(<<"p">>, u32, FALSE) : u32 \in {{}, {"p"}, {"p", "f"}}}
           \cup {MCHead(<<"p">>, {}, TRUE)}
MCConds ==
    LET p == Name("p") x == Name("x") f == Name("f") IN
    {Bin("<", p, Lit(1)), Bin("<", x, Lit(2)), Bin("and", Bin("!=", f, Lit(1)), Un("not", x)),
     Bin(">=", Bin("-", p, Lit(1)), Lit(5))}
MCStmts ==
    LET p == Name("p") x == Name("x") f == Name("f") IN
    {LetBe("x", FALSE, p), LetBe("x", FALSE, Bin("-", Lit(1), p)), LetBe("y", TRUE, Bin("+", f, Lit(5))),
     Assign("x", Bin("*", x, p)), Assign("f", Un("neg", p)), Assign("f", Bin("/", f, x)),
     OpAssign("+", "x", Lit(1)), OpAssign("-", "f", Lit(1)), OpAssign("/", "p", Un("neg", Lit(2))),
     OpAssign("+", "f", Name("i")), Return(f), Return(Bin("<", p, Name("y"))), Return(Bin("<", Lit(1), Lit(5))),
     Eval(Bin("==", x, f)), Eval(Bin("%", x, Lit(1))), Eval(Bin("*", Lit(3), Un("neg", Lit(1)))),
     Eval(Un("not", Lit(0))), Jump("break"), Jump("continue")}

-----------------------------------------------------------------------------
Stages == {"codecs", "json", "lexer", "parser", "manifest", "tables", "versions", "checks", "types", "methods"}

(* Where a stage may start in several ways, the others see one of them.    *)
MCInit ==
    /\ stage \in Stages
    /\ PackagesInit /\ ChecksInit /\ TypesInit
    /\ CodecsInit /\ (stage # "codecs" => codec = "leb")
    /\ JsonInit /\ (stage # "json" => json = EmptyArray)
    /\ LexerInit /\ (stage # "lexer" => glue = "")
    /\ SyntaxInit /\ (stage # "parser" => style = "braces" /\ tree = Ident("a"))
    /\ MethodInit /\ (stage # "methods" => methodHead = MCPlain)

(* Expressions are spelled alike in both styles.                           *)
MCNext ==
    /\ \/ stage = "codecs" /\ CodecsNext
       \/ stage = "json" /\ JsonNext
       \/ stage = "lexer" /\ LexerNext
       \/ stage = "parser" /\ SyntaxNext /\ (style = "indent" /\ kind' = "expr" => depth' <= 1)
       \/ stage = "manifest" /\ ManifestNext
       \/ stage = "tables" /\ TablesNext
       \/ stage = "versions" /\ VersionsNext
       \/ stage = "checks" /\ ChecksNext
       \/ stage = "types" /\ TypesNext
       \/ stage = "methods" /\ MethodNext
    /\ stage # "codecs" => UNCHANGED codecVars
    /\ stage # "json" => UNCHANGED jsonVars
    /\ stage # "lexer" => UNCHANGED lexerVars
    /\ stage # "parser" => UNCHANGED syntaxVars
    /\ stage \notin {"manifest", "tables", "versions"} => UNCHANGED pkgVars
    /\ stage # "checks" => UNCHANGED checksVars
    /\ stage # "types" => UNCHANGED typesVars
    /\ stage # "methods" => UNCHANGED methodVars
    /\ UNCHANGED stage

compilerVars == <<stage, codecVars, jsonVars, lexerVars, syntaxVars, pkgVars, checksVars, typesVars, methodVars>>

MCSpec == MCInit /\ [][MCNext]_compilerVars
-----------------------------------------------------------------------------
(* What the encoders of stdlib.c, runtime.c and wasm.c write, the decoders *)
(* read back, and written JSON parses to the value again.  Not so, and     *)
(* what happens instead is part of the formulas: a MessagePack bin beyond  *)
(* 65535 bytes (unknown to the reader), a method name beyond 65535         *)
(* characters (cut), a JSON double that "%g" does not tell (six digits, an *)
(* integer without a fraction) or infinite (refused), a long JSON string.  *)
RoundTrips == CodecsRoundTrip /\ JsonRoundTrip

(* The lexer takes a source apart into its tokens, and the parser gives    *)
(* the tree back that the tokens spell (lexer.c, parser.c); the checks     *)
(* refuse undeclared names wherever the declarations stand, and claim no   *)
(* more (typecheck.c, capabilities.c; see ChecksAgree).                    *)
FrontEndFaithful == TokensFaithful /\ ParserInverts /\ ChecksAgree

(* The code of both generators means what the method means (wasm.c with    *)
(* wamr.c, codegen.c), for the methods each is right about: Translatable   *)
(* for Wasm and CTranslatable for C say which are left out.                *)
BackEndsFaithful == WasmMeansTheSame /\ CMeansTheSame
=============================================================================
