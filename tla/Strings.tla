------------------------------ MODULE Strings ------------------------------
(***************************************************************************)
(* The growable strings of stdlib.c (PnyString), its C-string helpers, and  *)
(* the replacement loop of regex.c.  A string is the sequence of its        *)
(* character codes with the capacity the code records for it; memory for    *)
(* one character more is allocated.  One string is the receiver of a        *)
(* history of calls; "ideal" is what the reference definitions make of it.  *)
(***************************************************************************)
EXTENDS Integers, Sequences, SequencesExt, FiniteSetsExt

CONSTANTS StrArgs,    \* the strings passed as arguments
          StrWidths,  \* capacities, widths, repeat counts and positions
          StrBytes    \* bound: the length of the string, and of output buffers

Space == 32
Upper(c) == IF c \in 97..122 THEN c - 32 ELSE c
Lower(c) == IF c \in 65..90 THEN c + 32 ELSE c

ASSUME StringsAssumption ==
  /\ \A a \in StrArgs : a \in Seq(1..127)
  /\ StrWidths \subseteq Nat /\ StrBytes \in Nat

VARIABLES str,    \* [data, cap]
          ideal,  \* history: the same string by the reference definitions
          hung    \* the last call never returned

strVars == <<str, ideal, hung>>

Made(data, cap) == [data |-> data, cap |-> cap]
StrNew(data) == Made(data, Len(data) + 4)

(* str_grow doubles the capacity until it is enough, which never happens to *)
(* a capacity of 0.                                                        *)
GrownCap(cap, need) ==
  LET steps == CHOOSE k \in 0..need : /\ cap * 2^k >= need
                                      /\ \A j \in 0..k-1 : cap * 2^j < need
  IN  IF cap >= need THEN cap ELSE Max({16, cap * 2^steps})
GrowHangs(cap, need) == cap = 0 /\ need > 0

Cat(s, other) ==
  LET need == Len(s.data) + Len(other)
  IN  Made(s.data \o other, GrownCap(s.cap, need))

-----------------------------------------------------------------------------
(* The calls that make a string of another, as the code computes them.     *)

SliceOf(s, start, end) ==      \* start <= Len(s.data)
  LET last == Min({end, Len(s.data)})
  IN  IF start >= last THEN StrNew(<<>>)
                       ELSE Made(SubSeq(s.data, start + 1, last), last - start)

Blank(c) == c \in {32, 9, 10, 13}
FromFirst(s) ==
  LET inner == {i \in 1..Len(s) : ~Blank(s[i])}
  IN  IF inner = {} THEN Len(s) ELSE Min(inner) - 1
ToLast(s) ==
  LET inner == {i \in 1..Len(s) : ~Blank(s[i])}
  IN  IF inner = {} THEN FromFirst(s) ELSE Max(inner)
Trimmed(s) == SliceOf(s, FromFirst(s.data), ToLast(s.data))

OccursBefore(s, i, word) ==       \* variant with a bug: not at the very end
  i + Len(word) < Len(s) /\ SubSeq(s, i + 1, i + Len(word)) = word
Occurs(s, i, word) == i + Len(word) <= Len(s) /\ SubSeq(s, i + 1, i + Len(word)) = word

(* The loop of pny_str_replace: i is the position in the source.           *)
RECURSIVE ReplaceLoop(_, _, _, _, _)
ReplaceLoop(s, old, new, i, out) ==
  CASE i <= Len(s) - Len(old) /\ Occurs(s, i, old) ->
         ReplaceLoop(s, old, new, i + Len(old), Cat(out, new))
    [] i <= Len(s) - Len(old) /\ ~Occurs(s, i, old) ->
         ReplaceLoop(s, old, new, i + 1, Cat(out, <<s[i + 1]>>))
    [] OTHER -> Cat(out, SubSeq(s, i + 1, Len(s)))
StrReplaced(s, old, new) == ReplaceLoop(s.data, old, new, 0, Made(<<>>, Len(s.data) + Len(new)))
(* An empty pattern matches for ever; a pattern longer than the string       *)
(* makes len - old_len wrap, and the loop runs past the end.               *)
ReplaceHangs(s, old) == Len(old) = 0 \/ Len(old) > Len(s.data)

Times(s, n) == FlattenSeq([i \in 1..n |-> s])
RepeatOf(s, n) == LET data == Times(s.data, n) IN Made(data, Len(data))
PaddedLeft(s, width, c) ==
  IF Len(s.data) >= width THEN StrNew(s.data)
  ELSE Made([i \in 1..(width - Len(s.data)) |-> c] \o s.data, width)
Reversed(s) == Made(Reverse(s.data), Len(s.data))
Mapped(s, F(_)) == StrNew([i \in 1..Len(s.data) |-> F(s.data[i])])
StrJoined(sep, parts) ==
  LET step(r, i) == Cat(IF i > 1 THEN Cat(r, sep) ELSE r, parts[i])
      total == Len(FlattenSeq(parts)) + (Len(parts) - 1) * Len(sep)
  IN  FoldLeft(step, Made(<<>>, total), [i \in 1..Len(parts) |-> i])

-----------------------------------------------------------------------------
(* The C-string helpers, regex.c and the search.                           *)

(* pny_str_split_c: a word ends at the delimiter or at the end; the loop     *)
(* gives up at the word that does not fit.                                 *)
RECURSIVE SplitLoop(_, _, _, _)
SplitLoop(s, delim, start, max) ==
  LET ends == {i \in start..Len(s) : i = Len(s) \/ s[i + 1] = delim}
      end == Min(ends)
      word == SubSeq(s, start + 1, end)
  IN  CASE max = 0 -> <<>>
        [] max > 0 /\ end = Len(s) -> <<word>>
        [] OTHER -> <<word>> \o SplitLoop(s, delim, end + 1, max - 1)
SplitC(s, delim, max) == SplitLoop(s, delim, 0, max)

Overflow == <<-1>>
(* pny_str_replace_c: -1 as soon as the output buffer is too small.         *)
RECURSIVE ReplaceCLoop(_, _, _, _, _, _)
ReplaceCLoop(s, from, to, i, out, size) ==
  LET here == Len(from) > 0 /\ Occurs(s, i, from)
      piece == IF here THEN to ELSE <<s[i + 1]>>
  IN  CASE i >= Len(s) -> out
        [] i < Len(s) /\ Len(out) + Len(piece) >= size -> Overflow
        [] OTHER -> ReplaceCLoop(s, from, to, i + (IF here THEN Len(from) ELSE 1),
                                 out \o piece, size)
ReplaceC(s, from, to, size) == ReplaceCLoop(s, from, to, 0, <<>>, size)

(* regexec of a literal pattern: where the leftmost match starts, or -1.    *)
MatchFrom(s, from, pattern) ==
  LET starts == {i \in from..Len(s) : Occurs(s, i, pattern)}
  IN  IF starts = {} THEN -1 ELSE Min(starts)

(* The replacement text: a character, or 0 for $1, the matched group.       *)
Expanded(repl, pattern) ==
  FlattenSeq([i \in 1..Len(repl) |-> IF repl[i] = 0 THEN pattern ELSE <<repl[i]>>])

(* regex_replace_impl, for a pattern that matches no empty string.          *)
RECURSIVE RegexLoop(_, _, _, _, _, _, _)
RegexLoop(s, pattern, repl, from, out, size, all) ==
  LET start == MatchFrom(s, from, pattern)
      end == start + Len(pattern)
      before == out \o SubSeq(s, from + 1, start) \o Expanded(repl, pattern)
      rest(i) == IF i < Len(s) THEN SubSeq(s, i + 1, Len(s)) ELSE <<>>
      fits(o) == IF Len(o) >= size THEN Overflow ELSE o
  IN  CASE start = -1 -> fits(out \o rest(from))
        [] start # -1 /\ Len(before) >= size -> Overflow
        [] start # -1 /\ Len(before) < size /\ ~all -> fits(before \o rest(end))
        [] OTHER -> RegexLoop(s, pattern, repl, end, before, size, all)
RegexReplace(s, pattern, repl, size, all) == RegexLoop(s, pattern, repl, 0, <<>>, size, all)

(* pny_binary_search_int over 0-based positions.                           *)
RECURSIVE SearchLoop(_, _, _, _)
SearchLoop(arr, lo, hi, target) ==
  LET mid == lo + ((hi - lo) \div 2)
  IN  CASE lo > hi -> -1
        [] lo <= hi /\ arr[mid + 1] = target -> mid
        [] lo <= hi /\ arr[mid + 1] < target -> SearchLoop(arr, mid + 1, hi, target)
        [] OTHER -> IF mid = 0 THEN -1 ELSE SearchLoop(arr, lo, mid - 1, target)
BinarySearch(arr, target) == IF arr = <<>> THEN -1 ELSE SearchLoop(arr, 0, Len(arr) - 1, target)

-----------------------------------------------------------------------------
(* The reference definitions.                                              *)

(* Every leftmost, non-overlapping occurrence of old becomes new.           *)
RECURSIVE Substituted(_, _, _)
Substituted(s, old, new) ==
  CASE s = <<>> -> <<>>
    [] s # <<>> /\ IsPrefix(old, s) ->
         new \o Substituted(SubSeq(s, Len(old) + 1, Len(s)), old, new)
    [] OTHER -> <<s[1]>> \o Substituted(Tail(s), old, new)

RECURSIVE Stripped(_)
Stripped(s) ==
  CASE s # <<>> /\ Blank(s[1]) -> Stripped(Tail(s))
    [] s # <<>> /\ ~Blank(s[1]) /\ Blank(Last(s)) -> Stripped(Front(s))
    [] OTHER -> s

-----------------------------------------------------------------------------
StringsInit ==
  /\ \E a \in StrArgs : str = StrNew(a) /\ ideal = a
  /\ hung = FALSE

(* A call that makes the string "made", whose reference is "meant".        *)
Makes(made, meant) ==
  /\ ~hung /\ Len(made.data) <= StrBytes
  /\ str' = made /\ ideal' = meant /\ UNCHANGED hung
Hangs == hung' = TRUE /\ UNCHANGED <<str, ideal>>

StrNewWith == \E n \in StrWidths : Makes(Made(<<>>, n), <<>>)

StrCat ==
  \E a \in StrArgs :
    IF GrowHangs(str.cap, Len(str.data) + Len(a)) THEN ~hung /\ Hangs
    ELSE Makes(Cat(str, a), ideal \o a)

StrSlice ==
  \E i, j \in StrWidths :
    /\ i <= Len(str.data)
    /\ Makes(SliceOf(str, i, j), SubSeq(ideal, i + 1, Min({j, Len(ideal)})))

StrTrim == Makes(Trimmed(str), Stripped(ideal))

StrReplace ==
  \E old, new \in StrArgs :
    IF ReplaceHangs(str, old) THEN ~hung /\ Hangs
    ELSE Makes(StrReplaced(str, old, new), Substituted(ideal, old, new))

StrShape ==
  \/ \E n \in StrWidths \ {0} : Makes(RepeatOf(str, n), Times(ideal, n))
  \/ \E n \in StrWidths : Makes(PaddedLeft(str, n, Space),
                                [i \in 1..Max({0, n - Len(ideal)}) |-> Space] \o ideal)
  \/ Makes(Reversed(str), Reverse(ideal))
  \/ Makes(Mapped(str, Upper), [i \in 1..Len(ideal) |-> Upper(ideal[i])])
  \/ Makes(Mapped(str, Lower), [i \in 1..Len(ideal) |-> Lower(ideal[i])])

StrJoin ==
  \E sep, a \in StrArgs :
    Makes(StrJoined(sep, <<str.data, a, str.data>>), ideal \o sep \o a \o sep \o ideal)

StringsNext == StrNewWith \/ StrCat \/ StrSlice \/ StrTrim \/ StrReplace \/ StrShape \/ StrJoin

-----------------------------------------------------------------------------
(* However a string came about, it is what the reference definitions make   *)
(* of the same calls, and never longer than the memory it records; the       *)
(* searches and replacements over a fixed output buffer agree with the same *)
(* definitions, or report that the buffer is too small, and only then.      *)
StringsAgree ==
  /\ str.data = ideal /\ Len(str.data) <= str.cap
  /\ \A delim \in ToSet(ideal) \cup {Space} :
       LET words == SplitC(ideal, delim, Len(ideal) + 1)
       IN  /\ StrJoined(<<delim>>, words).data = ideal
           /\ \A max \in 1..Len(words) : SplitC(ideal, delim, max) = SubSeq(words, 1, max)
  /\ \A old \in StrArgs \ {<<>>}, new \in StrArgs, size \in 1..StrBytes :
       LET meant == Substituted(ideal, old, new)
           bounded == IF Len(meant) < size THEN meant ELSE Overflow
       IN  /\ ReplaceC(ideal, old, new, size) = bounded
           /\ RegexReplace(ideal, old, new, size, TRUE) = bounded
           /\ RegexReplace(ideal, old, <<0>>, size, TRUE) =
                (IF Len(ideal) < size THEN ideal ELSE Overflow)
  /\ LET arr == SortSeq(ideal, LAMBDA x, y : x < y)
     IN  \A target \in ToSet(ideal) \cup {Space} :
           LET found == BinarySearch(arr, target)
           IN  IF target \in ToSet(ideal) THEN arr[found + 1] = target ELSE found = -1
=============================================================================
