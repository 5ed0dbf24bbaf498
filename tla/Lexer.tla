-------------------------------- MODULE Lexer --------------------------------
(***************************************************************************)
(* The lexical analyser (lexer.c).  One step takes one token from the      *)
(* source.  A source is a string, put together from Pieces; positions      *)
(* count from 1.  The type of an operator or bracket is its spelling.      *)
(***************************************************************************)
EXTENDS Integers, Sequences, TLC, SequencesExt

CONSTANTS
    Pieces,         \* strings a source is put together from
    LexPieces,      \* how many
    StrMax          \* stands for the 4095 characters of a string literal

VARIABLES
    pieces,         \* the pieces of this source
    glue,           \* what stands between them: nothing or a space
    cursor,         \* pos, line and column of the Lexer
    lexTokens,      \* the array lexer_lex_all fills
    lexDone         \* TK_EOF was returned

lexerVars == <<pieces, glue, cursor, lexTokens, lexDone>>

Joined(ps, sep) == FoldLeft(LAMBDA s, p : IF s = "" THEN p ELSE s \o sep \o p, "", ps)
source == Joined(pieces, glue)

(* Past the end there is nothing; peek gives NUL there.                    *)
Span(s, i, j) == IF i > Len(s) THEN "" ELSE SubSeq(s, i, IF j > Len(s) THEN Len(s) ELSE j)
Ch(s, i) == Span(s, i, i)
Digits == {"0", "1", "2", "3", "4", "5", "6", "7", "8", "9"}
HexDigits == Digits \cup {"a", "b", "c", "d", "e", "f", "A", "B", "C", "D", "E", "F"}
Letters == (HexDigits \ Digits) \cup {"g", "h", "i", "k", "l", "m", "n", "o", "r", "s", "t", "u", "v", "x", "X", "N"}
Blanks == {" ", "\t", "\r", "\n"}
TwoChars == {"=>", "==", "!=", "<=", ">=", "::", "&&", "||", "<<", ">>", "..", "+=", "-=", "*=", "/="}
OneChars == {"(", ")", "{", "}", "[", "]", ".", ",", ";", ":", "+", "-", "*", "/", "=", "!", "<", ">", "@",
             "|", "?", "&", "^", "~", "%", "$"}

(* Keywords that mean an operator have its type; a sample of the others.   *)
Keywords == "and" :> "&&" @@ "or" :> "||" @@ "not" :> "!" @@ "if" :> "KEYWORD" @@ "be" :> "KEYWORD"
            @@ "true" :> "BOOL" @@ "false" :> "BOOL" @@ "None" :> "TYPE" @@ "iso" :> "CAP"

(* The least i from which on P holds for the first time.                   *)
Until(s, i, P(_)) == CHOOSE j \in i .. Len(s) + 1 :
    /\ j = Len(s) + 1 \/ P(j)
    /\ \A k \in i .. j - 1 : ~P(k)

(* advance_char until position j.                                          *)
MovedTo(s, c, j) ==
    FoldLeft(LAMBDA d, k : IF Ch(s, k) = "\n" THEN [pos |-> k + 1, line |-> d.line + 1, column |-> 1]
                           ELSE [d EXCEPT !.pos = k + 1, !.column = @ + 1],
             c, [k \in 1 .. j - c.pos |-> c.pos + k - 1])

-----------------------------------------------------------------------------
RECURSIVE SkipWhitespace(_, _)
SkipWhitespace(s, i) ==
    LET c == Ch(s, i)
        endOfLine == Until(s, i, LAMBDA j : Ch(s, j) = "\n")
        close == Until(s, i + 2, LAMBDA j : Ch(s, j) = "*" /\ Ch(s, j + 1) = "/")
    IN  IF c \in Blanks THEN SkipWhitespace(s, i + 1)
        ELSE IF c = "#" \/ (c = "/" /\ Ch(s, i + 1) = "/") THEN SkipWhitespace(s, endOfLine)
        ELSE IF c = "/" /\ Ch(s, i + 1) = "*"
        THEN SkipWhitespace(s, IF close <= Len(s) THEN close + 2 ELSE close)
        ELSE i

IdentEnd(s, i) == Until(s, i, LAMBDA j : Ch(s, j) \notin Letters \cup Digits \cup {"_"})

(* An underscore is taken after two characters.                            *)
RECURSIVE NumberEnd(_, _, _, _)
NumberEnd(s, i, start, isFloat) ==
    LET c == Ch(s, i)
    IN  IF c \in Digits \/ (c = "_" /\ start < i - 1) THEN NumberEnd(s, i + 1, start, isFloat)
        ELSE IF c = "." /\ ~isFloat /\ Ch(s, i + 1) # "." THEN NumberEnd(s, i + 1, start, TRUE)
        ELSE IF c \in {"x", "X"}
        THEN NumberEnd(s, Until(s, i + 1, LAMBDA j : Ch(s, j) \notin HexDigits), start, isFloat)
        ELSE i

(* The character that an escape means (i is after the backslash), and the  *)
(* last position it takes.  plain lists the escapes that mean themselves.  *)
Escape(s, i) ==
    LET e == Ch(s, i)
        hex == e = "x" /\ Ch(s, i + 1) \in HexDigits /\ Ch(s, i + 2) \in HexDigits
    IN  IF hex THEN [char |-> "<" \o SubSeq(s, i + 1, i + 2) \o ">", last |-> i + 2]
        ELSE [char |-> CASE e = "n" -> "\n" [] e = "t" -> "\t" [] e = "r" -> "\r" [] OTHER -> e, last |-> i]

(* From i on to the quote q.  A full buffer ends the literal: the position *)
(* is then that of the last character taken, which is skipped as a quote.  *)
RECURSIVE StringFrom(_, _, _, _, _)
StringFrom(s, i, q, val, n) ==
    LET e == IF Ch(s, i) = "\\" /\ i < Len(s) THEN Escape(s, i + 1) ELSE [char |-> Ch(s, i), last |-> i]
    IN  IF i > Len(s) \/ Ch(s, i) = q THEN [val |-> val, end |-> i]
        ELSE IF n + 1 >= StrMax THEN [val |-> val \o e.char, end |-> e.last]
        ELSE StringFrom(s, e.last + 1, q, val \o e.char, n + 1)

AfterQuote(s, i) == IF i <= Len(s) THEN i + 1 ELSE i

(* The characters up to a single quote, an escape counted as one.          *)
RECURSIVE QuotedLength(_, _)
QuotedLength(s, i) ==
    IF i > Len(s) \/ Ch(s, i) = "'" THEN 0
    ELSE 1 + QuotedLength(s, IF Ch(s, i) = "\\" /\ i < Len(s) THEN i + 2 ELSE i + 1)

(* 'a': the first character even if it is the quote, then the quote.       *)
CharLiteral(s, i) ==
    LET e == IF Ch(s, i + 1) = "\\" /\ i + 1 < Len(s) THEN Escape(s, i + 2) ELSE [char |-> Ch(s, i + 1), last |-> i + 1]
        end == IF i + 1 > Len(s) THEN i + 1 ELSE e.last + 1
    IN  [val |-> e.char, end |-> IF Ch(s, end) = "'" THEN end + 1 ELSE end]

Spelled(s, i, end, type) == [type |-> type, value |-> SubSeq(s, i, end - 1), end |-> end]

(* The token that starts at i: its type, value and end.                    *)
TokenAt(s, i) ==
    LET c == Ch(s, i)
        two == Span(s, i, i + 1)
        word == SubSeq(s, i, IdentEnd(s, i) - 1)
        str == StringFrom(s, i + 1, c, "", 0)
        chr == CharLiteral(s, i)
    IN  IF c \in Letters \cup {"_"}
        THEN Spelled(s, i, IdentEnd(s, i), IF word \in DOMAIN Keywords THEN Keywords[word] ELSE "IDENT")
        ELSE IF c \in Digits THEN Spelled(s, i, NumberEnd(s, i, i, FALSE), "INT")
        ELSE IF c = "'" /\ QuotedLength(s, i + 1) <= 1 THEN [type |-> "CHAR", value |-> chr.val, end |-> chr.end]
        ELSE IF c \in {"\"", "'"} THEN [type |-> "STRING", value |-> str.val, end |-> AfterQuote(s, str.end)]
        ELSE IF two \in TwoChars THEN Spelled(s, i, i + 2, two)
        ELSE Spelled(s, i, i + 1, IF c \in OneChars THEN c ELSE "PUNCT")

-----------------------------------------------------------------------------
LexerInit ==
    /\ pieces = <<>> /\ glue \in {"", " "}
    /\ cursor = [pos |-> 1, line |-> 1, column |-> 1]
    /\ lexTokens = <<>> /\ lexDone = FALSE

(* The source grows before the first token is taken.                       *)
Compose ==
    /\ cursor.pos = 1 /\ lexTokens = <<>> /\ ~lexDone /\ Len(pieces) < LexPieces
    /\ \E p \in Pieces : pieces' = Append(pieces, p)
    /\ UNCHANGED <<glue, cursor, lexTokens, lexDone>>

(* lexer_next.                                                             *)
Advance ==
    LET start == MovedTo(source, cursor, SkipWhitespace(source, cursor.pos))
        token == TokenAt(source, start.pos)
    IN  /\ pieces # <<>> /\ ~lexDone /\ start.pos <= Len(source)
        /\ lexTokens' = Append(lexTokens, token @@ [line |-> start.line, column |-> start.column, pos |-> start.pos])
        /\ cursor' = MovedTo(source, start, token.end)
        /\ UNCHANGED <<pieces, glue, lexDone>>

EndOfFile ==
    LET start == MovedTo(source, cursor, SkipWhitespace(source, cursor.pos))
    IN  /\ pieces # <<>> /\ ~lexDone /\ start.pos > Len(source)
        /\ cursor' = start /\ lexDone' = TRUE
        /\ UNCHANGED <<pieces, glue, lexTokens>>

LexerNext == Compose \/ Advance \/ EndOfFile
LexerSpec == LexerInit /\ [][LexerNext]_lexerVars
-----------------------------------------------------------------------------
(* The tokens of one piece.                                                *)
RECURSIVE AllTokens(_, _)
AllTokens(s, from) ==
    LET i == SkipWhitespace(s, from)
        t == TokenAt(s, i)
    IN  IF i > Len(s) THEN <<>> ELSE <<[type |-> t.type, value |-> t.value]>> \o AllTokens(s, t.end)
PieceTokens == [p \in Pieces |-> AllTokens(p, 1)]

(* Tokens lie one after the other with nothing but white space and         *)
(* comments between them, and each is the longest operator that starts     *)
(* where it does.                                                          *)
TokensTile ==
    \A n \in DOMAIN lexTokens :
        LET t == lexTokens[n]
            from == IF n = 1 THEN 1 ELSE lexTokens[n - 1].end
        IN  /\ from <= t.pos /\ t.pos < t.end /\ t.end <= Len(source) + 1
            /\ SkipWhitespace(source, from) = t.pos
            /\ t.type \in OneChars => Span(source, t.pos, t.pos + 1) \notin TwoChars \cup {"//"}

(* The line and column of a token are those of its first character.        *)
TokensPlaced ==
    \A n \in DOMAIN lexTokens :
        LET t == lexTokens[n]
            newlines == {k \in 1 .. t.pos - 1 : Ch(source, k) = "\n"}
        IN  /\ t.line = 1 + Len(SelectSeq([k \in 1 .. t.pos - 1 |-> Ch(source, k)], LAMBDA c : c = "\n"))
            /\ t.column = t.pos - (IF newlines = {} THEN 0 ELSE CHOOSE k \in newlines : \A j \in newlines : j <= k)

(* Pieces with spaces between them give the tokens each of them gives.     *)
TokensCompose ==
    lexDone /\ glue = " " =>
        [n \in DOMAIN lexTokens |-> [type |-> lexTokens[n].type, value |-> lexTokens[n].value]] =
            FlattenSeq([k \in DOMAIN pieces |-> PieceTokens[pieces[k]]])

(* The tokens of lexer_lex_all are the source's, where they stand.         *)
TokensFaithful == TokensTile /\ TokensPlaced /\ TokensCompose
=============================================================================
