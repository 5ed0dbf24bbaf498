-------------------------------- MODULE Json --------------------------------
(***************************************************************************)
(* JSON values of the standard library (stdlib.c): how they are built,     *)
(* written and parsed.  A text is a sequence of symbols: a character, but  *)
(* a literal, a number and the four digits of an escape are one symbol.    *)
(* A value is a record whose field is its type.                            *)
(***************************************************************************)
EXTENDS Integers, Sequences, TLC, SequencesExt

CONSTANTS
    JsonChars,      \* characters strings are made of
    JsonMax,        \* stands for the 4095 characters a parsed string may have
    JsonNodes       \* bound on the calls that build a value

VARIABLES json, jsonCalls

jsonVars == <<json, jsonCalls>>

Literals == {"null", "true", "false"}
Ints == {"0", "-7"}
(* The text that "%g" makes of a double: six digits, and no point or       *)
(* exponent where none is needed.                                          *)
Printed == "0.5" :> "0.5" @@ "1e+20" :> "1e+20" @@ "0.0" :> "0" @@ "3.1415926" :> "3.14159" @@ "infinity" :> "inf"
Doubles == DOMAIN Printed

IsType(v, type) == type \in DOMAIN v
JsonAtoms ==
    [literal : Literals] \cup [int : Ints] \cup [double : Doubles]
        \cup [str : UNION {[1 .. n -> JsonChars] : n \in {0, 1, JsonMax, JsonMax + 1}}]
EmptyArray == [array |-> <<>>]
EmptyObject == [object |-> <<>>]
JsonPair(k, v) == [key |-> k, val |-> v]
Keys == {<<>>} \cup [1 .. 1 -> JsonChars]

(* The first of equal keys (json_obj_get); "absent" for NULL.              *)
ObjGet(o, k) ==
    LET at == {i \in DOMAIN o.object : o.object[i].key = k}
    IN  IF at = {} THEN "absent" ELSE o.object[CHOOSE i \in at : \A j \in at : i <= j].val

JsonInit == jsonCalls = 0 /\ json \in JsonAtoms \cup {EmptyArray, EmptyObject}

ArrPush ==
    /\ IsType(json, "array")
    /\ \E v \in {[literal |-> "null"], [int |-> "0"], [str |-> <<>>], EmptyArray, EmptyObject} :
        json' = [json EXCEPT !.array = Append(@, v)]

(* json_obj_set appends: an equal key stays, in front.                     *)
ObjSet ==
    /\ IsType(json, "object")
    /\ \E k \in Keys, v \in {[literal |-> "true"], [double |-> "0.5"], EmptyObject} :
        json' = [json EXCEPT !.object = Append(@, JsonPair(k, v))]

(* The value becomes an element of a new array or object.                  *)
Enclose == json' \in {[array |-> <<json>>], [object |-> <<JsonPair(<<>>, json)>>]}

JsonNext == jsonCalls < JsonNodes /\ jsonCalls' = jsonCalls + 1 /\ (ArrPush \/ ObjSet \/ Enclose)
-----------------------------------------------------------------------------
(* Writing.                                                                *)

Escapes == "<8>" :> "b" @@ "\f" :> "f" @@ "\n" :> "n" @@ "\r" :> "r" @@ "\t" :> "t" @@ "\"" :> "\"" @@ "\\" :> "\\"
(* Characters below 32 without an escape of their own; 0001 names them.    *)
Controls == {"<1>"}

EscapedChar(c) ==
    IF c \in DOMAIN Escapes THEN <<"\\", Escapes[c]>>
    ELSE IF c \in Controls THEN <<"\\", "u", c>> ELSE <<c>>

Quoted(s) == <<"\"">> \o FlattenSeq([i \in DOMAIN s |-> EscapedChar(s[i])]) \o <<"\"">>

Separated(parts) == FlattenSeq([i \in DOMAIN parts |-> IF i > 1 THEN <<",">> \o parts[i] ELSE parts[i]])

(* gap is what stands where white space is allowed: nothing, as the code   *)
(* writes.                                                                 *)
RECURSIVE JsonText(_, _)
JsonText(v, gap) ==
    gap \o (CASE IsType(v, "literal") -> <<v.literal>>
              [] IsType(v, "int")     -> <<v.int>>
              [] IsType(v, "double")  -> <<Printed[v.double]>>
              [] IsType(v, "str")     -> Quoted(v.str)
              [] IsType(v, "array")   ->
                    <<"[">> \o Separated([i \in DOMAIN v.array |-> JsonText(v.array[i], gap)]) \o gap \o <<"]">>
              [] IsType(v, "object")  ->
                    <<"{">> \o Separated([i \in DOMAIN v.object |->
                                  gap \o Quoted(v.object[i].key) \o gap \o <<":">> \o JsonText(v.object[i].val, gap)])
                            \o gap \o <<"}">>)
        \o gap

Stringify(v) == JsonText(v, <<>>)
-----------------------------------------------------------------------------
(* Parsing from position i of t: the value and the position after it, or   *)
(* NoValue.                                                                *)

(* A number with a point or an exponent is a double; "inf" is no number.   *)
Fractions == {"0.5", "1e+20", "3.14159"}

NoValue == [at |-> 0]
JsonGot(v, i) == [at |-> i, val |-> v]
At(t, i) == IF i <= Len(t) THEN t[i] ELSE "end"
SkipWs(t, i) == CHOOSE j \in i .. Len(t) + 1 : At(t, j) # " " /\ \A k \in i .. j - 1 : t[k] = " "

(* What stands after a backslash at i: the characters it takes and means.  *)
Unescape(t, i) ==
    CASE At(t, i) = "u" /\ i < Len(t) -> [len |-> 2, char |-> t[i + 1]]
      [] At(t, i) = "/" -> [len |-> 1, char |-> "/"]
      [] \E c \in DOMAIN Escapes : Escapes[c] = At(t, i) ->
            [len |-> 1, char |-> CHOOSE c \in DOMAIN Escapes : Escapes[c] = At(t, i)]
      [] OTHER -> [len |-> 0]

(* Variant with a bug: the buffer is filled to its last character.         *)
RECURSIVE ParseCharsFull(_, _, _)
ParseCharsFull(t, i, s) ==
    IF Len(s) > JsonMax \/ At(t, i) \in {"\"", "end"}
    THEN IF At(t, i) = "\"" THEN JsonGot([str |-> s], i + 1) ELSE NoValue
    ELSE IF t[i] # "\\" THEN ParseCharsFull(t, i + 1, Append(s, t[i]))
    ELSE LET e == Unescape(t, i + 1)
         IN  IF e.len = 0 THEN NoValue ELSE ParseCharsFull(t, i + 1 + e.len, Append(s, e.char))

RECURSIVE ParseChars(_, _, _)
ParseChars(t, i, s) ==
    IF Len(s) >= JsonMax \/ At(t, i) \in {"\"", "end"}
    THEN IF At(t, i) = "\"" THEN JsonGot([str |-> s], i + 1) ELSE NoValue
    ELSE IF t[i] # "\\" THEN ParseChars(t, i + 1, Append(s, t[i]))
    ELSE LET e == Unescape(t, i + 1)
         IN  IF e.len = 0 THEN NoValue ELSE ParseChars(t, i + 1 + e.len, Append(s, e.char))

ParseString(t, i) == IF At(t, i) # "\"" THEN NoValue ELSE ParseChars(t, i + 1, <<>>)

RECURSIVE ParseValue(_, _), ParseItems(_, _, _), ParsePairs(_, _, _)
ParseValue(t, start) ==
    LET i == SkipWs(t, start)
        c == At(t, i)
        first == SkipWs(t, i + 1)
    IN  CASE c \in Literals -> JsonGot([literal |-> c], i + 1)
          [] c \in Ints     -> JsonGot([int |-> c], i + 1)
          [] c \in Fractions -> JsonGot([double |-> c], i + 1)
          [] c = "\"" -> ParseString(t, i)
          [] c = "["  -> IF At(t, first) = "]" THEN JsonGot(EmptyArray, first + 1) ELSE ParseItems(t, first, <<>>)
          [] c = "{"  -> IF At(t, first) = "}" THEN JsonGot(EmptyObject, first + 1) ELSE ParsePairs(t, first, <<>>)
          [] OTHER -> NoValue

(* Each turn: one element, then a comma, the closing bracket or a failure. *)
ParseItems(t, i, items) ==
    LET v == ParseValue(t, i)
        j == SkipWs(t, v.at)
        s == Append(items, v.val)
    IN  IF v = NoValue THEN NoValue
        ELSE IF At(t, j) = "," THEN ParseItems(t, SkipWs(t, j + 1), s)
        ELSE IF At(t, j) = "]" THEN JsonGot([array |-> s], j + 1) ELSE NoValue

ParsePairs(t, i, pairs) ==
    LET k == ParseString(t, SkipWs(t, i))
        colon == SkipWs(t, k.at)
        v == ParseValue(t, colon + 1)
        j == SkipWs(t, v.at)
        s == Append(pairs, JsonPair(k.val.str, v.val))
    IN  IF k = NoValue THEN NoValue
        ELSE IF At(t, colon) # ":" THEN NoValue
        ELSE IF v = NoValue THEN NoValue
        ELSE IF At(t, j) = "," THEN ParsePairs(t, j + 1, s)
        ELSE IF At(t, j) = "}" THEN JsonGot([object |-> s], j + 1) ELSE NoValue

(* What follows the first value is not looked at.                          *)
Parse(t) == ParseValue(t, 1)
-----------------------------------------------------------------------------
(* A value with a string longer than the parser's buffer, or infinite.     *)
RECURSIVE Unreadable(_)
Unreadable(v) ==
    CASE IsType(v, "str")    -> Len(v.str) > JsonMax
      [] IsType(v, "double") -> v.double = "infinity"
      [] IsType(v, "array")  -> \E i \in DOMAIN v.array : Unreadable(v.array[i])
      [] IsType(v, "object") -> \E i \in DOMAIN v.object : Unreadable(v.object[i].val)
      [] OTHER -> FALSE

(* The value with its doubles as six digits tell them, those without a     *)
(* fraction as integers.                                                   *)
RECURSIVE Rounded(_)
Rounded(v) ==
    CASE IsType(v, "double") -> CASE v.double = "0.0" -> [int |-> "0"]
                                  [] v.double = "3.1415926" -> [double |-> "3.14159"]
                                  [] OTHER -> v
      [] IsType(v, "array")  -> [array |-> [i \in DOMAIN v.array |-> Rounded(v.array[i])]]
      [] IsType(v, "object") ->
            [object |-> [i \in DOMAIN v.object |-> JsonPair(v.object[i].key, Rounded(v.object[i].val))]]
      [] OTHER -> v

(* What is written is parsed back, also with white space in every place,   *)
(* the value itself when its doubles have a fraction and at most six       *)
(* digits, and with those doubles changed otherwise; an infinite number is *)
(* refused, as are a string beyond the buffer and text that ends early; a  *)
(* key gives its first value before and after (json_parse, json_stringify, *)
(* json_obj_get).                                                          *)
JsonRoundTrip ==
    LET t == Stringify(json)
    IN  /\ \A gap \in {<<>>, <<" ">>, <<" ", " ">>} :
            LET r == Parse(JsonText(json, gap))
            IN  IF Unreadable(json) THEN r = NoValue ELSE r # NoValue /\ r.val = Rounded(json)
        /\ \A n \in 0 .. Len(t) - 1 : Parse(SubSeq(t, 1, n)) = NoValue
        /\ IsType(json, "object") /\ ~Unreadable(json) =>
            \A k \in Keys : ObjGet(Parse(t).val, k) = ObjGet(Rounded(json), k)
=============================================================================
