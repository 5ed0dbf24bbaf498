------------------------------- MODULE Codecs -------------------------------
(***************************************************************************)
(* The binary encodings: protobuf fields and MessagePack (stdlib.c), the   *)
(* runtime's own message format (runtime.c), LEB128 as the Wasm back end   *)
(* writes it (wasm.c), base64, hex and CRC-32 (stdlib.c).                  *)
(*                                                                         *)
(* A word is the set of its bit positions, a byte a word within 0 .. 7;    *)
(* so a shift is a translation of the set and xor the symmetric            *)
(* difference.  The bytes of a payload (a string, an argument) are one     *)
(* element of the buffer, named by its length.  Items are appended to a    *)
(* buffer that is read back, whole and cut off at every length.            *)
(***************************************************************************)
EXTENDS Integers, Sequences, TLC, SequencesExt, FiniteSetsExt

CONSTANTS
    Formats,         \* formats that are looked at
    Words,          \* 64-bit words
    ProtoFields,         \* protobuf field numbers, as words
    Bytes,          \* bytes that are encoded as text
    Lengths,        \* payload lengths and element counts, as numbers
    CodecItems      \* bound on the items written to one buffer

VARIABLES codec, buffer, items

codecVars == <<codec, buffer, items>>

(* Bits lo .. lo + n - 1 of w, moved down to 0.                            *)
Slice(w, lo, n) == {b \in 0 .. n - 1 : lo + b \in w}
Up(w, n) == {b + n : b \in w}
Xor(v, w) == (v \ w) \cup (w \ v)
Bits(n) == {b \in 0 .. 30 : (n \div 2 ^ b) % 2 = 1}
Number(w) == MapThenSumSet(LAMBDA b : 2 ^ b, w)

Little(w, n) == [i \in 1 .. n |-> Slice(w, 8 * (i - 1), 8)]
Big(w, n) == [i \in 1 .. n |-> Slice(w, 8 * (n - i), 8)]
FromLittle(s) == UNION {Up(s[i], 8 * (i - 1)) : i \in DOMAIN s}
FromBig(s) == UNION {Up(s[i], 8 * (Len(s) - i)) : i \in DOMAIN s}
(* (int64_t) of an n-bit signed number.                                    *)
Signed(w, n) == IF n - 1 \in w THEN w \cup (n .. 63) ELSE w

(* A payload of n bytes is {8 + n}, which is no byte.                      *)
Payload(n) == IF n = 0 THEN <<>> ELSE <<{8 + n}>>
SizeOf(e) == IF e \subseteq 0 .. 7 THEN 1 ELSE Max(e) - 8
Size(s) == FoldLeft(LAMBDA n, e : n + SizeOf(e), 0, s)

Refused == [read |-> -1]
Unknown == [read |-> -2]
-----------------------------------------------------------------------------
(* Protobuf.                                                               *)

RECURSIVE Varint(_)
Varint(w) ==
    LET rest == {b - 7 : b \in w \ (0 .. 6)}
    IN  IF rest = {} THEN <<Slice(w, 0, 7)>> ELSE <<Slice(w, 0, 7) \cup {7}>> \o Varint(rest)

(* Variant with a bug: the last of the ten bytes is not looked at.         *)
ReadVarintNine(s, len) ==
    LET ends == {i \in 1 .. Len(s) : i <= len /\ i < 10 /\ 7 \notin s[i]}
    IN  IF ends = {} THEN Refused
        ELSE [read |-> Min(ends),
              val  |-> UNION {Up(s[i] \ {7}, 7 * (i - 1)) : i \in 1 .. Min(ends)} \cap (0 .. 63)]

(* len is the length the caller gives; at most ten bytes are looked at.    *)
ReadVarint(s, len) ==
    LET ends == {i \in 1 .. Len(s) : i <= len /\ i <= 10 /\ 7 \notin s[i]}
    IN  IF ends = {} THEN Refused
        ELSE [read |-> Min(ends),
              val  |-> UNION {Up(s[i] \ {7}, 7 * (i - 1)) : i \in 1 .. Min(ends)} \cap (0 .. 63)]

WireType == [varint |-> 0, fixed64 |-> 1, bytes |-> 2, fixed32 |-> 5]
Tag(f, wire) == Varint(Up(f, 3) \cup Bits(WireType[wire]))

(* int32, int64, uint32, uint64 and bool are varints of 64 bits.           *)
ProtoWrite(f, it) ==
    Tag(f, it.wire) \o
    CASE it.wire = "varint"  -> Varint(it.val)
      [] it.wire = "fixed32" -> Little(it.val, 4)
      [] it.wire = "fixed64" -> Little(it.val, 8)
      [] it.wire = "bytes"   -> Varint(Bits(it.len)) \o Payload(it.len)

ProtoRead(s, len) ==
    LET tag  == ReadVarint(s, len)
        n    == tag.read
        rest == SubSeq(s, n + 1, Len(s))
        wire == Number(Slice(tag.val, 0, 3))
        field == Slice(tag.val, 3, 32)
        v    == ReadVarint(rest, len - n)
        fixed(k, name) ==
            IF len - n < k THEN Refused
            ELSE [read |-> n + k, field |-> field, wire |-> name, val |-> FromLittle(SubSeq(rest, 1, k))]
    IN  IF tag = Refused THEN Refused
        ELSE CASE wire = WireType.varint ->
                    IF v = Refused THEN Refused
                    ELSE [read |-> n + v.read, field |-> field, wire |-> "varint", val |-> v.val]
               [] wire = WireType.fixed64 -> fixed(8, "fixed64")
               [] wire = WireType.fixed32 -> fixed(4, "fixed32")
               [] wire = WireType.bytes ->
                    IF v = Refused \/ len - n < v.read + Number(v.val) THEN Refused
                    ELSE [read |-> n + v.read + Number(v.val), field |-> field, wire |-> "bytes",
                          len  |-> Number(v.val)]
               [] OTHER -> Unknown
-----------------------------------------------------------------------------
(* MessagePack.  A writer refuses when the whole item does not fit.        *)

Below(w, n) == w \subseteq 0 .. n - 1
Negative(w) == 63 \in w
Above(w, n) == n .. 63 \subseteq w      \* w >= - 2^n

PackUInt(w) ==
    CASE Below(w, 7)  -> <<w>>
      [] Below(w, 8)  /\ ~Below(w, 7)  -> <<Bits(204)>> \o Big(w, 1)
      [] Below(w, 16) /\ ~Below(w, 8)  -> <<Bits(205)>> \o Big(w, 2)
      [] Below(w, 32) /\ ~Below(w, 16) -> <<Bits(206)>> \o Big(w, 4)
      [] ~Below(w, 32) -> <<Bits(207)>> \o Big(w, 8)

PackInt(w) ==
    IF ~Negative(w) THEN PackUInt(w)
    ELSE CASE Above(w, 5) -> <<Slice(w, 0, 8)>>
           [] Above(w, 7)  /\ ~Above(w, 5)  -> <<Bits(208)>> \o Big(w, 1)
           [] Above(w, 15) /\ ~Above(w, 7)  -> <<Bits(209)>> \o Big(w, 2)
           [] Above(w, 31) /\ ~Above(w, 15) -> <<Bits(210)>> \o Big(w, 4)
           [] ~Above(w, 31) -> <<Bits(211)>> \o Big(w, 8)

(* A length or a count n: within a tag that has room for numbers up to     *)
(* fix, or after a tag for one, two or four bytes (0: no such tag).        *)
PackLength(n, fix, short, one, two, four) ==
    IF n <= fix THEN <<Bits(short + n)>>
    ELSE IF n <= 255 /\ one # 0 THEN <<Bits(one)>> \o Big(Bits(n), 1)
    ELSE IF n <= 65535 THEN <<Bits(two)>> \o Big(Bits(n), 2)
    ELSE <<Bits(four)>> \o Big(Bits(n), 4)

Pack(it) ==
    CASE it.type = "nil"    -> <<Bits(192)>>
      [] it.type = "bool"   -> <<Bits(IF it.val = {} THEN 194 ELSE 195)>>
      [] it.type = "uint"   -> PackUInt(it.val)
      [] it.type = "int"    -> PackInt(it.val)
      [] it.type = "float"  -> <<Bits(202)>> \o Big(it.val, 4)
      [] it.type = "double" -> <<Bits(203)>> \o Big(it.val, 8)
      [] it.type = "str"    -> PackLength(it.len, 31, 160, 217, 218, 219) \o Payload(it.len)
      [] it.type = "bin"    -> PackLength(it.len, -1, 0, 196, 197, 198) \o Payload(it.len)
      [] it.type = "array"  -> PackLength(it.len, 15, 144, 0, 220, 221)
      [] it.type = "map"    -> PackLength(it.len, 15, 128, 0, 222, 223)

Unpack(s, len) ==
    LET tag == Number(s[1])
        num(type, k) ==
            IF len < k + 1 THEN Refused
            ELSE [read |-> k + 1, type |-> type,
                  val  |-> LET w == FromBig(SubSeq(s, 2, k + 1)) IN IF type = "int" THEN Signed(w, 8 * k) ELSE w]
        size(k) == Number(FromBig(SubSeq(s, 2, k + 1)))
        count(type, k) ==
            IF len < k + 1 THEN Refused ELSE [read |-> k + 1, type |-> type, len |-> size(k)]
        bytes(type, k) ==
            IF len < k + 1 \/ len < k + 1 + size(k) THEN Refused
            ELSE [read |-> k + 1 + size(k), type |-> type, len |-> size(k)]
        flag(b) == [read |-> 1, type |-> "bool", val |-> b]
    IN  IF len < 1 THEN Refused
        ELSE IF tag <= 127 THEN [read |-> 1, type |-> "uint", val |-> s[1]]
        ELSE IF tag >= 224 THEN [read |-> 1, type |-> "int", val |-> Signed(s[1], 8)]
        ELSE IF tag \in 160 .. 191
        THEN IF len < 1 + tag - 160 THEN Refused ELSE [read |-> 1 + tag - 160, type |-> "str", len |-> tag - 160]
        ELSE IF tag \in 144 .. 159 THEN [read |-> 1, type |-> "array", len |-> tag - 144]
        ELSE IF tag \in 128 .. 143 THEN [read |-> 1, type |-> "map", len |-> tag - 128]
        ELSE CASE tag = 192 -> [read |-> 1, type |-> "nil"]
               [] tag = 194 -> flag({}) [] tag = 195 -> flag({0})
               [] tag = 204 -> num("uint", 1) [] tag = 205 -> num("uint", 2)
               [] tag = 206 -> num("uint", 4) [] tag = 207 -> num("uint", 8)
               [] tag = 208 -> num("int", 1) [] tag = 209 -> num("int", 2)
               [] tag = 210 -> num("int", 4) [] tag = 211 -> num("int", 8)
               [] tag = 202 -> num("float", 4) [] tag = 203 -> num("double", 8)
               [] tag = 217 -> bytes("str", 1) [] tag = 218 -> bytes("str", 2) [] tag = 219 -> bytes("str", 4)
               [] tag = 196 -> bytes("bin", 1) [] tag = 197 -> bytes("bin", 2)
               [] tag = 220 -> count("array", 2) [] tag = 221 -> count("array", 4)
               [] tag = 222 -> count("map", 2) [] tag = 223 -> count("map", 4)
               [] OTHER -> Unknown
-----------------------------------------------------------------------------
(* pny_msg_serialize and pny_msg_deserialize.  A structure is copied with  *)
(* its padding: HeaderSize bytes, of which nothing is read back.           *)

HeaderSize == 12

(* it has a capability mark, the length of a method name and of an         *)
(* argument; a missing mark is written as PNY_CAP_VAL, and of a name as    *)
(* many characters as a uint16_t makes of its length.                      *)
Serialize(it) ==
    Payload(HeaderSize) \o <<Bits(IF it.cap = 0 THEN 4 ELSE it.cap)>>
        \o Little(Bits(it.method), 2) \o Payload(it.method % 65536)
        \o Little(Bits(it.arg), 4) \o Payload(it.arg)

(* A buffer that ends within the argument gives a message without one.  Of *)
(* 11 to 14 bytes the method length is read from behind the end: beyond    *)
(* stands for what is there.                                               *)
Deserialize(s, len, beyond) ==
    LET method == IF len < HeaderSize + 3 THEN beyond ELSE Number(FromLittle(SubSeq(s, 3, 4)))
        at     == IF method = 0 THEN 5 ELSE 6
        arg    == Number(FromLittle(SubSeq(s, at, at + 3)))
        pos    == HeaderSize + 3 + method + 4
    IN  IF len < 11 \/ len < pos THEN Refused
        ELSE [cap |-> Number(s[2]), method |-> method, arg |-> IF len >= pos + arg THEN arg ELSE 0]
-----------------------------------------------------------------------------
(* LEB128 of the Wasm writer: 32-bit words.                                *)

RECURSIVE SignedLeb(_)
(* v >>= 7 is arithmetic: w has its sign up to bit 63.                     *)
SignedLeb(w) ==
    LET low  == Slice(w, 0, 7)
        rest == Signed({b - 7 : b \in w \ (0 .. 6)}, 57)
    IN  IF (rest = {} /\ 6 \notin low) \/ (rest = 0 .. 63 /\ 6 \in low)
        THEN <<low>> ELSE <<low \cup {7}>> \o SignedLeb(rest)

(* What the Wasm specification says such bytes mean.                       *)
SignedLebValue(s) ==
    LET w == UNION {Up(s[i] \ {7}, 7 * (i - 1)) : i \in DOMAIN s}
    IN  Signed(w, 7 * Len(s)) \cap (0 .. 63)
-----------------------------------------------------------------------------
(* Base64 (a character is its six bits, or "=" as Pad), hex, CRC-32.       *)

Pad == {64}

Encode64(bytes) ==
    LET n == Len(bytes)
        at(i) == IF i <= n THEN bytes[i] ELSE {}
        group(i) == FromBig(<<at(i), at(i + 1), at(i + 2)>>)
        quad(i) == <<Slice(group(i), 18, 6), Slice(group(i), 12, 6),
                     IF i + 1 <= n THEN Slice(group(i), 6, 6) ELSE Pad,
                     IF i + 2 <= n THEN Slice(group(i), 0, 6) ELSE Pad>>
    IN  FlattenSeq([k \in 1 .. (n + 2) \div 3 |-> quad(3 * k - 2)])

Decode64(chars) ==
    LET n == Len(chars)
        has(i) == i <= n /\ chars[i] # Pad
        at(i) == IF has(i) THEN chars[i] ELSE {}
        group(i) == Up(at(i), 18) \cup Up(at(i + 1), 12) \cup Up(at(i + 2), 6) \cup at(i + 3)
        three(i) == <<Slice(group(i), 16, 8)>>
                      \o (IF has(i + 2) THEN <<Slice(group(i), 8, 8)>> ELSE <<>>)
                      \o (IF has(i + 3) THEN <<Slice(group(i), 0, 8)>> ELSE <<>>)
    IN  FlattenSeq([k \in 1 .. (n + 3) \div 4 |-> three(4 * k - 3)])

EncodeHex(bytes) == FlattenSeq([i \in DOMAIN bytes |-> <<Slice(bytes[i], 4, 4), Slice(bytes[i], 0, 4)>>])
DecodeHex(digits) ==
    IF Len(digits) % 2 = 1 THEN <<Pad>>
    ELSE [i \in 1 .. Len(digits) \div 2 |-> Up(digits[2 * i - 1], 4) \cup digits[2 * i]]

Polynomial == {5, 8, 9, 15, 19, 20, 21, 23, 24, 26, 27, 29, 30, 31}
ShiftXor(c) == LET half == {b - 1 : b \in c \ {0}} IN IF 0 \in c THEN Xor(Polynomial, half) ELSE half
CrcTable == [n \in SUBSET (0 .. 7) |-> FoldLeft(LAMBDA c, j : ShiftXor(c), n, <<1, 2, 3, 4, 5, 6, 7, 8>>)]

Crc32(bytes) ==
    Xor(0 .. 31, FoldLeft(LAMBDA crc, p : Xor(CrcTable[Slice(Xor(crc, p), 0, 8)], {b - 8 : b \in crc \ (0 .. 7)}),
                          0 .. 31, bytes))
-----------------------------------------------------------------------------

(* What can be written: every writer with every boundary of its argument.  *)
Word32 == {Slice(w, 0, 32) : w \in Words}
ProtoItems ==
    [wire : {"varint", "fixed64"}, val : Words] \cup [wire : {"fixed32"}, val : Word32]
        \cup [wire : {"bytes"}, len : Lengths]
PackItems ==
    [type : {"nil"}] \cup [type : {"bool"}, val : {{}, {0}}] \cup [type : {"uint", "int", "double"}, val : Words]
        \cup [type : {"float"}, val : Word32] \cup [type : {"str", "bin", "array", "map"}, len : Lengths]
MessageItems == [cap : 0 .. 6, method : Lengths, arg : Lengths]

Encoded(it) ==
    CASE codec = "proto"   -> ProtoWrite(it.field, it.item)
      [] codec = "msgpack" -> Pack(it)
      [] codec = "message" -> Serialize(it)
      [] codec = "leb"     -> SignedLeb(it)
      [] codec = "bytes"   -> <<it>>

CodecsInit == codec \in Formats /\ buffer = <<>> /\ items = <<>>

(* A buffer repeats one item, or holds any bytes.                          *)
Write(it) ==
    /\ codec # "bytes" /\ items # <<>> => it = items[1]
    /\ items' = Append(items, it)
    /\ buffer' = buffer \o Encoded(it)
    /\ UNCHANGED codec

CodecsNext ==
    \/ codec = "proto" /\ Len(items) < CodecItems
        /\ \E f \in ProtoFields, it \in ProtoItems : Write([field |-> f, item |-> it])
    \/ codec = "msgpack" /\ Len(items) < CodecItems /\ \E it \in PackItems : Write(it)
    \/ codec = "message" /\ items = <<>> /\ \E it \in MessageItems : Write(it)
    \/ codec = "leb" /\ items = <<>> /\ \E w \in Word32 : Write(Signed(w, 32))
    \/ codec = "bytes" /\ Len(items) < 2 * CodecItems /\ \E b \in Bytes : Write(b)
-----------------------------------------------------------------------------
(* What a reader should return for an item: where both can, MessagePack    *)
(* writes an int as a uint; the caller sees the length of payloads.        *)
Expected(it) ==
    IF codec = "proto"
    THEN LET size == [read |-> Size(Encoded(it)), field |-> it.field, wire |-> it.item.wire]
         IN  IF it.item.wire = "bytes" THEN size @@ [len |-> it.item.len] ELSE size @@ [val |-> it.item.val]
    ELSE (IF it.type = "int" /\ ~Negative(it.val) THEN [it EXCEPT !.type = "uint"] ELSE it)
            @@ [read |-> Size(Encoded(it))]

(* Reads items from a buffer of len bytes until one is refused.            *)
RECURSIVE ReadAll(_, _)
ReadAll(s, len) ==
    IF len = 0 THEN <<>>
    ELSE LET r == IF codec = "proto" THEN ProtoRead(s, len) ELSE Unpack(s, len)
             whole == {k \in 1 .. Len(s) : Size(SubSeq(s, 1, k)) = r.read}
         IN  IF r.read < 0 THEN <<r>>
             ELSE <<r>> \o ReadAll(SubSeq(s, Max(whole) + 1, Len(s)), len - r.read)

Cuts == {Size(SubSeq(buffer, 1, i)) - d : i \in 1 .. Len(buffer), d \in {0, 1}}
Written(k) == FoldLeft(LAMBDA n, it : n + Size(Encoded(it)), 0, SubSeq(items, 1, k))

(* A bin of more than 65535 bytes is written with a tag (stdlib.c:1792)    *)
(* that pny_msgpack_read has no case for.                                  *)
HasReader(it) == codec = "msgpack" /\ it.type = "bin" => it.len <= 65535

(* Items of a buffer are read back one after the other; of a buffer that   *)
(* is cut off, the whole items are, and the rest is refused, never misread *)
(* (pny_proto_read_field and pny_msgpack_read on what their writers wrote).*)
(* An item without a reader does not come back: its type is unknown.       *)
StreamsReadBack ==
    codec \in {"proto", "msgpack"} =>
        \A cut \in Cuts :
            LET k == Max({i \in 0 .. Len(items) : Written(i) <= cut})
            IN  ReadAll(buffer, cut) =
                    IF \E i \in DOMAIN items : ~HasReader(items[i])
                    THEN IF cut = 0 THEN <<>> ELSE <<Unknown>>
                    ELSE [i \in 1 .. k |-> Expected(items[i])] \o (IF Written(k) < cut THEN <<Refused>> ELSE <<>>)

(* A message comes back with its mark, its argument and its method, of     *)
(* whose name 65536 characters are lost each time the length wraps; a cut  *)
(* before the end of the argument's length is refused, one of 11 to 14     *)
(* bytes whatever is read behind it (pny_msg_deserialize).                 *)
MessagesReadBack ==
    codec = "message" =>
        \A i \in DOMAIN items, beyond \in {n % 65536 : n \in Lengths} :
            LET it == items[i]
                len == Size(buffer)
            IN  /\ Deserialize(buffer, len, beyond) =
                        [it EXCEPT !.cap = IF @ = 0 THEN 4 ELSE @, !.method = @ % 65536]
                /\ \A cut \in Cuts \cup 0 .. HeaderSize + 3 :
                        cut < len - it.arg => Deserialize(buffer, cut, beyond) = Refused

(* The bytes mean the number to a reader of Wasm (bv_write_i32_leb128).    *)
LebReadsBack == codec = "leb" => \A i \in DOMAIN items : SignedLebValue(buffer) = items[i] /\ Len(buffer) <= 5

(* Base64 and hex are inverted, with or without the padding; the table of  *)
(* pny_crc32 gives the remainder that dividing bit by bit gives.           *)
BytesReadBack ==
    codec = "bytes" =>
        /\ Decode64(Encode64(items)) = items
        /\ Decode64(SelectSeq(Encode64(items), LAMBDA c : c # Pad)) = items
        /\ DecodeHex(EncodeHex(items)) = items
        /\ LET divide(c, p) == FoldLeft(LAMBDA r, b : ShiftXor(Xor(r, Slice(p, b, 1))), c, <<0, 1, 2, 3, 4, 5, 6, 7>>)
           IN  Crc32(items) = Xor(0 .. 31, FoldLeft(divide, 0 .. 31, items))

(* What a codec writes it reads back, a bin beyond 65535 bytes and a       *)
(* method name beyond 65535 characters excepted.                           *)
CodecsRoundTrip == StreamsReadBack /\ MessagesReadBack /\ LebReadsBack /\ BytesReadBack
=============================================================================
