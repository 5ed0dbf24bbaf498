------------------------------- MODULE ListFacts -------------------------------
(***************************************************************************)
(* Facts about sequences that the proofs of several components share: the  *)
(* least of a set of numbers, counting by renaming, putting elements in,   *)
(* taking them out, and what Kept and Total of Lists give.                 *)
(***************************************************************************)
EXTENDS Lists, FiniteSets, SequencesExt, SequenceTheorems, FiniteSetTheorems,
        WellFoundedInduction, TLAPS

-----------------------------------------------------------------------------
(* Facts about numbers, sets and sequences.                                *)
(* A set of numbers has a least one, which is what Min chooses.            *)
LEMMA LeastNat ==
    ASSUME NEW S \in SUBSET Nat, S # {}
    PROVE  \E m \in S : \A n \in S : m <= n
<1> DEFINE R == OpToRel(<, Nat)
<1>1. IsWellFoundedOn(R, Nat)
  BY NatLessThanWellFounded
<1>2. \A x, y \in Nat : x < y => <<x, y>> \in R
  BY DEF OpToRel
<1> HIDE DEF R
<1>3. PICK m \in S : \A n \in S : ~(<<n, m>> \in R)
  BY <1>1, WFMin
<1>4. ASSUME NEW n \in S PROVE m <= n
  <2>1. ~(n < m)
    BY <1>2, <1>3
  <2> QED BY <2>1
<1> QED BY <1>4

(* As many places as before when each is moved and no two to the same.     *)
LEMMA ImageCount ==
    ASSUME NEW S, IsFiniteSet(S), NEW T, NEW f \in [S -> T],
           \A x, y \in S : f[x] = f[y] => x = y, \A y \in T : \E x \in S : y = f[x]
    PROVE  IsFiniteSet(T) /\ Cardinality(T) = Cardinality(S)
<1>1. f \in Bijection(S, T)
  BY DEF Bijection, Injection, Surjection, IsInjective
<1>2. ExistsBijection(S, T)
  BY <1>1 DEF ExistsBijection
<1> QED BY <1>2, FS_Bijection

(* Where an element stands in a sequence, and how often.                   *)
Places(s, x) == {i \in 1 .. Len(s) : s[i] = x}

LEMMA PlacesFinite ==
    ASSUME NEW S, NEW s \in Seq(S), NEW x
    PROVE  IsFiniteSet(Places(s, x)) /\ Cardinality(Places(s, x)) \in Nat
<1>1. IsFiniteSet(1 .. Len(s))
  BY FS_Interval
<1>2. Places(s, x) \subseteq 1 .. Len(s)
  BY DEF Places
<1> QED BY <1>1, <1>2, FS_Subset, FS_CardinalityType

LEMMA FunctionIsSeq ==
    ASSUME NEW S, NEW n \in Nat, NEW f \in [1 .. n -> S]
    PROVE  f \in Seq(S) /\ Len(f) = n
OBVIOUS

(* A sequence with one element more is what Append makes.                  *)
LEMMA AppendIs ==
    ASSUME NEW S, NEW n \in Nat, NEW s \in Seq(S), Len(s) = n, NEW e \in S,
           NEW t \in [1 .. n + 1 -> S], \A i \in 1 .. n : t[i] = s[i], t[n + 1] = e
    PROVE  t = Append(s, e)
<1>0. t \in Seq(S) /\ Len(t) = n + 1
  OBVIOUS
<1>1. PICK u : u = Append(s, e)
  OBVIOUS
<1>2. u \in Seq(S) /\ Len(u) = n + 1 /\ \A i \in 1 .. n + 1 : u[i] = IF i = n + 1 THEN e ELSE s[i]
  BY <1>1
<1>3. ASSUME NEW i \in 1 .. n + 1 PROVE t[i] = u[i]
  <2>1. CASE i = n + 1
    BY <1>2, <2>1
  <2>2. CASE i # n + 1
    <3>1. i \in 1 .. n
      BY <2>2
    <3> QED BY <1>2, <2>2, <3>1
  <2> QED BY <2>1, <2>2
<1>4. t = u
  BY <1>0, <1>2, <1>3, SeqEqual
<1> QED BY <1>1, <1>4

(* The elements of two sequences put together.                             *)
LEMMA Concatenated ==
    ASSUME NEW S, NEW s \in Seq(S), NEW t \in Seq(S), NEW a \in Nat, NEW b \in Nat, a = Len(s), b = Len(t)
    PROVE  /\ s \o t \in Seq(S) /\ Len(s \o t) = a + b
           /\ \A k \in 1 .. a + b : (s \o t)[k] = IF k <= a THEN s[k] ELSE t[k - a]
<1>1. s \o t \in Seq(S)
  OBVIOUS
<1>2. Len(s \o t) = a + b
  OBVIOUS
<1>3. \A k \in 1 .. a + b : (s \o t)[k] = IF k <= a THEN s[k] ELSE t[k - a]
  OBVIOUS
<1> QED BY <1>1, <1>2, <1>3

LEMMA PrependProperties ==
    ASSUME NEW S, NEW s \in Seq(S), NEW e \in S
    PROVE  /\ <<e>> \o s \in Seq(S) /\ Len(<<e>> \o s) = Len(s) + 1
           /\ \A i \in 1 .. Len(s) + 1 : (<<e>> \o s)[i] = IF i = 1 THEN e ELSE s[i - 1]
<1>1. <<e>> \in Seq(S) /\ Len(<<e>>) = 1 /\ <<e>>[1] = e
  OBVIOUS
<1> QED BY <1>1, ConcatProperties

LEMMA PlacesPrepended ==
    ASSUME NEW S, NEW s \in Seq(S), NEW e \in S, NEW x
    PROVE  Cardinality(Places(<<e>> \o s, x)) = Cardinality(Places(s, x)) + (IF e = x THEN 1 ELSE 0)
<1> DEFINE n == Len(s)
           A == Places(s, x)
           f == [i \in A |-> i + 1]
           B == {f[i] : i \in A}
<1>1. n \in Nat /\ IsFiniteSet(A) /\ A \subseteq 1 .. n
  <2>1. IsFiniteSet(A)
    BY PlacesFinite
  <2>2. n \in Nat /\ A \subseteq 1 .. n
    BY DEF Places
  <2> QED BY <2>1, <2>2
<1>2. IsFiniteSet(B) /\ Cardinality(B) = Cardinality(A)
  <2>1. \A i, j \in A : f[i] = f[j] => i = j
    BY <1>1
  <2>2. f \in [A -> B]
    OBVIOUS
  <2>3. \A y \in B : \E i \in A : y = f[i]
    OBVIOUS
  <2>4. IsFiniteSet(A)
    BY <1>1
  <2> HIDE DEF A, f, B
  <2> QED BY <2>1, <2>2, <2>3, <2>4, ImageCount
<1>3. \A j : j \in B <=> j \in 2 .. n + 1 /\ s[j - 1] = x
  <2>1. ASSUME NEW j \in B PROVE j \in 2 .. n + 1 /\ s[j - 1] = x
    <3>1. PICK i \in A : j = i + 1
      BY <2>1
    <3>2. i \in 1 .. n /\ s[i] = x
      BY <3>1 DEF Places
    <3> QED BY <1>1, <3>1, <3>2
  <2>2. ASSUME NEW j \in 2 .. n + 1, s[j - 1] = x PROVE j \in B
    <3>1. j - 1 \in A /\ f[j - 1] = j
      BY <1>1, <2>2 DEF Places
    <3> QED BY <3>1
  <2> QED BY <2>1, <2>2
<1> HIDE DEF B
<1>4. Places(<<e>> \o s, x) = IF e = x THEN B \cup {1} ELSE B
  BY <1>1, <1>3, PrependProperties DEF Places
<1>5. 1 \notin B
  BY <1>3
<1>6. Cardinality(A) \in Nat
  BY PlacesFinite
<1>7. Cardinality(B \cup {1}) = Cardinality(B) + 1
  BY <1>2, <1>5, FS_AddElement
<1> QED BY <1>2, <1>4, <1>6, <1>7

LEMMA RemoveAtProperties ==
    ASSUME NEW S, NEW s \in Seq(S), NEW k \in 1 .. Len(s)
    PROVE  /\ RemoveAt(s, k) \in Seq(S) /\ Len(RemoveAt(s, k)) = Len(s) - 1
           /\ \A i \in 1 .. Len(s) - 1 : RemoveAt(s, k)[i] = IF i < k THEN s[i] ELSE s[i + 1]
<1> DEFINE a == SubSeq(s, 1, k - 1)
           b == SubSeq(s, k + 1, Len(s))
<1>0. Len(s) \in Nat /\ k \in Nat /\ 1 <= k /\ k <= Len(s)
  OBVIOUS
<1>1. a \in Seq(S) /\ Len(a) = k - 1 /\ \A i \in 1 .. k - 1 : a[i] = s[i]
  BY <1>0, SubSeqProperties
<1>2. b \in Seq(S) /\ Len(b) = Len(s) - k /\ \A i \in 1 .. Len(s) - k : b[i] = s[k + i]
  BY <1>0, SubSeqProperties
<1> HIDE DEF a, b
<1>3. RemoveAt(s, k) = a \o b
  BY DEF RemoveAt, a, b
<1>4. a \o b \in Seq(S) /\ Len(a \o b) = Len(s) - 1
  <2>1. a \o b \in Seq(S) /\ Len(a \o b) = Len(a) + Len(b)
    BY <1>1, <1>2, ConcatProperties
  <2> QED BY <1>0, <1>1, <1>2, <2>1
<1>5. ASSUME NEW i \in 1 .. Len(s) - 1 PROVE (a \o b)[i] = IF i < k THEN s[i] ELSE s[i + 1]
  <2>1. CASE i < k
    BY <1>0, <1>1, <1>2, <2>1, ConcatProperties
  <2>2. CASE ~(i < k)
    <3>1. i \in Len(a) + 1 .. Len(a) + Len(b) /\ i - Len(a) \in 1 .. Len(s) - k /\ k + (i - Len(a)) = i + 1
      BY <1>0, <1>1, <1>2, <2>2
    <3>2. (a \o b)[i] = b[i - Len(a)]
      BY <1>1, <1>2, <2>2, <3>1, ConcatProperties
    <3>3. b[i - Len(a)] = s[k + (i - Len(a))]
      BY <1>2, <3>1
    <3> QED BY <2>2, <3>1, <3>2, <3>3
  <2> QED BY <2>1, <2>2
<1> QED BY <1>3, <1>4, <1>5

LEMMA PlacesRemoved ==
    ASSUME NEW S, NEW s \in Seq(S), NEW k \in 1 .. Len(s), NEW x
    PROVE  Cardinality(Places(RemoveAt(s, k), x)) = Cardinality(Places(s, x)) - (IF s[k] = x THEN 1 ELSE 0)
<1> DEFINE n == Len(s)
           A == Places(s, x) \ {k}
           f == [i \in A |-> IF i < k THEN i ELSE i - 1]
           B == {f[i] : i \in A}
<1>1. n \in Nat /\ IsFiniteSet(A) /\ A \subseteq 1 .. n /\ \A i \in A : i # k
  <2>1. IsFiniteSet(Places(s, x))
    BY PlacesFinite
  <2>2. IsFiniteSet(A)
    BY <2>1, FS_RemoveElement
  <2>3. n \in Nat /\ A \subseteq 1 .. n /\ \A i \in A : i # k
    BY DEF Places
  <2> QED BY <2>2, <2>3
<1>2. IsFiniteSet(B) /\ Cardinality(B) = Cardinality(A)
  <2>1. \A i, j \in A : f[i] = f[j] => i = j
    BY <1>1
  <2>2. f \in [A -> B]
    OBVIOUS
  <2>3. \A y \in B : \E i \in A : y = f[i]
    OBVIOUS
  <2>4. IsFiniteSet(A)
    BY <1>1
  <2> HIDE DEF A, f, B
  <2> QED BY <2>1, <2>2, <2>3, <2>4, ImageCount
<1>3. Places(RemoveAt(s, k), x) = B
  <2>1. ASSUME NEW j \in B PROVE j \in Places(RemoveAt(s, k), x)
    <3>1. PICK i \in A : j = (IF i < k THEN i ELSE i - 1)
      BY <2>1
    <3>2. i \in 1 .. n /\ i # k /\ s[i] = x
      BY <1>1, <3>1 DEF Places
    <3>3. j \in 1 .. n - 1 /\ (IF j < k THEN s[j] ELSE s[j + 1]) = x
      BY <1>1, <3>1, <3>2
    <3> QED BY <3>3, RemoveAtProperties DEF Places
  <2>2. ASSUME NEW j \in Places(RemoveAt(s, k), x) PROVE j \in B
    <3>1. j \in 1 .. n - 1 /\ (IF j < k THEN s[j] ELSE s[j + 1]) = x
      BY <2>2, RemoveAtProperties DEF Places
    <3>2. CASE j < k
      <4>1. j \in A /\ f[j] = j
        BY <1>1, <3>1, <3>2 DEF Places
      <4> QED BY <4>1
    <3>3. CASE ~(j < k)
      <4>1. j + 1 \in A /\ f[j + 1] = j
        BY <1>1, <3>1, <3>3 DEF Places
      <4> QED BY <4>1
    <3> QED BY <3>2, <3>3
  <2> QED BY <2>1, <2>2
<1>4. Cardinality(A) = Cardinality(Places(s, x)) - (IF s[k] = x THEN 1 ELSE 0)
  <2>1. k \in Places(s, x) <=> s[k] = x
    BY DEF Places
  <2>2. IsFiniteSet(Places(s, x)) /\ Cardinality(Places(s, x)) \in Nat
    BY PlacesFinite
  <2>3. Cardinality(A) = IF k \in Places(s, x) THEN Cardinality(Places(s, x)) - 1 ELSE Cardinality(Places(s, x))
    BY <2>2, FS_RemoveElement
  <2> QED BY <2>1, <2>2, <2>3
<1> QED BY <1>2, <1>3, <1>4

LEMMA InsertAtProperties ==
    ASSUME NEW S, NEW s \in Seq(S), NEW e \in S, NEW k \in 1 .. Len(s) + 1
    PROVE  /\ InsertAt(s, k, e) \in Seq(S) /\ Len(InsertAt(s, k, e)) = Len(s) + 1
           /\ \A i \in 1 .. Len(s) + 1 :
                  InsertAt(s, k, e)[i] = IF i < k THEN s[i] ELSE IF i = k THEN e ELSE s[i - 1]
<1> DEFINE a == SubSeq(s, 1, k - 1)
           b == SubSeq(s, k, Len(s))
           c == a \o <<e>>
<1>0. Len(s) \in Nat /\ k \in Nat /\ 1 <= k /\ k <= Len(s) + 1
  OBVIOUS
<1>1. a \in Seq(S) /\ Len(a) = k - 1 /\ \A i \in 1 .. k - 1 : a[i] = s[i]
  BY <1>0, SubSeqProperties
<1>2. b \in Seq(S) /\ Len(b) = Len(s) - k + 1 /\ \A i \in 1 .. Len(s) - k + 1 : b[i] = s[k + i - 1]
  BY <1>0, SubSeqProperties
<1> HIDE DEF a, b
<1>3. c \in Seq(S) /\ Len(c) = k /\ c[k] = e /\ \A i \in 1 .. k - 1 : c[i] = s[i]
  <2>1. <<e>> \in Seq(S) /\ Len(<<e>>) = 1 /\ <<e>>[1] = e
    OBVIOUS
  <2>2. c \in Seq(S) /\ Len(c) = Len(a) + 1
    BY <1>1, <2>1, ConcatProperties
  <2>3. \A i \in 1 .. Len(a) + 1 : c[i] = IF i <= Len(a) THEN a[i] ELSE <<e>>[i - Len(a)]
    BY <1>1, <2>1, ConcatProperties
  <2>4. c[k] = e
    BY <1>0, <1>1, <2>1, <2>3
  <2> HIDE DEF c
  <2> QED BY <1>0, <1>1, <2>2, <2>3, <2>4
<1> HIDE DEF c
<1>4. InsertAt(s, k, e) = c \o b
  BY DEF InsertAt, a, b, c
<1>5. c \o b \in Seq(S) /\ Len(c \o b) = Len(s) + 1
  <2>1. c \o b \in Seq(S) /\ Len(c \o b) = Len(c) + Len(b)
    BY <1>2, <1>3, ConcatProperties
  <2> QED BY <1>0, <1>2, <1>3, <2>1
<1>6. ASSUME NEW i \in 1 .. Len(s) + 1
      PROVE  (c \o b)[i] = IF i < k THEN s[i] ELSE IF i = k THEN e ELSE s[i - 1]
  <2>1. CASE i <= k
    BY <1>0, <1>2, <1>3, <2>1, ConcatProperties
  <2>2. CASE i > k
    <3>1. i - k \in 1 .. Len(s) - k + 1 /\ k + (i - k) - 1 = i - 1 /\ i \in 1 .. Len(c) + Len(b) /\ i - Len(c) = i - k
      BY <1>0, <1>2, <1>3, <2>2
    <3>2. (c \o b)[i] = b[i - Len(c)]
      BY <1>2, <1>3, <2>2, <3>1, ConcatProperties
    <3>3. b[i - k] = s[k + (i - k) - 1]
      BY <1>2, <3>1
    <3> QED BY <1>0, <2>2, <3>1, <3>2, <3>3
  <2>3. i <= k \/ i > k
    BY <1>0
  <2> QED BY <2>1, <2>2, <2>3
<1> QED BY <1>4, <1>5, <1>6

-----------------------------------------------------------------------------
(* Kept and Total.                                                         *)

Steps(L, T, base, next, F) ==
    F \in [0 .. L -> T] /\ F[0] = base /\ \A n \in 1 .. L : F[n] = next[n][F[n - 1]]

(* A function is defined by its first value and by each from the one       *)
(* before it, as far as L.                                                 *)
LEMMA StepByStep ==
    ASSUME NEW L \in Nat, NEW T, NEW base \in T, NEW next \in [1 .. L -> [T -> T]]
    PROVE  \E F : Steps(L, T, base, next, F)
<1> DEFINE Upto(m, F) == /\ F \in [0 .. m -> T] /\ F[0] = base
                         /\ \A n \in 1 .. m : F[n] = next[n][F[n - 1]]
           Bad == {m \in 0 .. L : ~(\E F : Upto(m, F))}
<1>1. ASSUME Bad # {} PROVE FALSE
  <2>1. PICK m \in Bad : \A k \in Bad : m <= k
    <3>1. Bad \in SUBSET Nat
      OBVIOUS
    <3> HIDE DEF Bad
    <3> QED BY <1>1, <3>1, LeastNat
  <2>2. m \in 0 .. L /\ ~(\E F : Upto(m, F))
    BY <2>1
  <2>3. CASE m = 0
    <3> DEFINE F == [n \in 0 .. 0 |-> base]
    <3>1. Upto(0, F)
      OBVIOUS
    <3> HIDE DEF Upto
    <3> QED BY <2>2, <2>3, <3>1
  <2>4. CASE m # 0
    <3>0. m - 1 \in 0 .. L /\ ~(m <= m - 1)
      BY <2>2, <2>4
    <3>1. m - 1 \in 0 .. L /\ m - 1 \notin Bad
      BY <2>1, <3>0
    <3>2. PICK G : Upto(m - 1, G)
      BY <3>1
    <3> DEFINE F == [n \in 0 .. m |-> IF n = m THEN next[m][G[m - 1]] ELSE G[n]]
    <3>3. next[m][G[m - 1]] \in T
      BY <2>2, <2>4, <3>2
    <3>4. F \in [0 .. m -> T] /\ F[0] = base
      BY <2>2, <2>4, <3>2, <3>3
    <3>5. ASSUME NEW n \in 1 .. m PROVE F[n] = next[n][F[n - 1]]
      <4>1. CASE n = m
        <5>1. m \in 0 .. m /\ m - 1 \in 0 .. m /\ m - 1 # m
          BY <2>2, <2>4
        <5>2. F[m] = next[m][G[m - 1]] /\ F[m - 1] = G[m - 1]
          BY <5>1
        <5> QED BY <4>1, <5>2
      <4>2. CASE n # m
        <5>1. n \in 1 .. m - 1 /\ n \in 0 .. m /\ n - 1 \in 0 .. m /\ n - 1 # m
          BY <2>2, <2>4, <4>2
        <5>2. F[n] = G[n] /\ F[n - 1] = G[n - 1]
          BY <4>2, <5>1
        <5> QED BY <3>2, <5>1, <5>2
      <4> QED BY <4>1, <4>2
    <3>6. Upto(m, F)
      BY <3>4, <3>5
    <3> HIDE DEF Upto
    <3> QED BY <2>2, <3>6
  <2> QED BY <2>3, <2>4
<1>2. L \in 0 .. L /\ L \notin Bad
  BY <1>1
<1> QED BY <1>2 DEF Steps

(* What holds at 0 and stays from each number to the next holds up to L.   *)
(* S is the set of the numbers it is about.                                *)
LEMMA Upwards ==
    ASSUME NEW L \in Nat, NEW S, 0 \in S, \A n \in 1 .. L : n - 1 \in S => n \in S
    PROVE  \A n \in 0 .. L : n \in S
<1> DEFINE Bad == (0 .. L) \ S
<1>1. ASSUME Bad # {} PROVE FALSE
  <2>1. PICK m \in Bad : \A k \in Bad : m <= k
    <3>1. Bad \in SUBSET Nat
      OBVIOUS
    <3> HIDE DEF Bad
    <3> QED BY <1>1, <3>1, LeastNat
  <2>2. m \in 1 .. L /\ m - 1 \in S
    BY <2>1
  <2> QED BY <2>1, <2>2
<1> QED BY <1>1

(* The partial sums of a sequence.                                         *)
Sums(s, F) == F[0] = 0 /\ \A n \in 1 .. Len(s) : F[n] = F[n - 1] + s[n]

LEMMA IntSeq ==
    ASSUME NEW s \in Seq(Int)
    PROVE  Len(s) \in Nat /\ DOMAIN s = 1 .. Len(s) /\ \A n \in 1 .. Len(s) : s[n] \in Int
BY ElementOfSeq

LEMMA TotalSums ==
    ASSUME NEW s \in Seq(Int)
    PROVE  \E F : Sums(s, F) /\ Total(s) = F[Len(s)] /\ \A n \in 0 .. Len(s) : F[n] \in Int
<1> DEFINE Def(F) == F = [n \in 0 .. Len(s) |-> IF n = 0 THEN 0 ELSE F[n - 1] + s[n]]
<1>0. PICK L \in Nat : L = Len(s) /\ \A n \in 1 .. L : s[n] \in Int
  BY IntSeq
<1>1. PICK next : next = [n \in 1 .. L |-> [x \in Int |-> x + s[n]]]
  OBVIOUS
<1>2. PICK F \in [0 .. L -> Int] : F[0] = 0 /\ \A n \in 1 .. L : F[n] = next[n][F[n - 1]]
  <2>1. next \in [1 .. L -> [Int -> Int]]
    <3>1. \A n \in 1 .. L : [x \in Int |-> x + s[n]] \in [Int -> Int]
      BY <1>0
    <3> QED BY <1>1, <3>1
  <2>2. L \in Nat /\ 0 \in Int
    BY <1>0
  <2>3. \E F : Steps(L, Int, 0, next, F)
    BY <2>1, <2>2, StepByStep
  <2> QED BY <2>3 DEF Steps
<1>3. \A n \in 1 .. L : F[n] = F[n - 1] + s[n]
  <2> SUFFICES ASSUME NEW n \in 1 .. L PROVE F[n] = F[n - 1] + s[n]
    OBVIOUS
  <2>1. n - 1 \in 0 .. L
    BY <1>0
  <2>2. F[n - 1] \in Int
    BY <1>2, <2>1
  <2>3. next[n][F[n - 1]] = F[n - 1] + s[n]
    BY <1>1, <2>2
  <2> QED BY <1>2, <2>3
<1>4. Def(F)
  <2>1. \A n \in 0 .. L : F[n] = IF n = 0 THEN 0 ELSE F[n - 1] + s[n]
    BY <1>0, <1>2, <1>3
  <2> QED BY <1>0, <1>2, <2>1
<1>5. PICK G : G = CHOOSE H : Def(H)
  OBVIOUS
<1>6. Def(G)
  <2> HIDE DEF Def
  <2> QED BY <1>4, <1>5
<1>7. Total(s) = G[L]
  BY <1>0, <1>5 DEF Total
<1>8. Sums(s, G)
  <2>1. \A n \in 0 .. L : G[n] = IF n = 0 THEN 0 ELSE G[n - 1] + s[n]
    BY <1>0, <1>6
  <2> QED BY <1>0, <2>1 DEF Sums
<1>9. \A n \in 0 .. L : G[n] \in Int
  <2> DEFINE S == {i \in 0 .. L : G[i] \in Int}
  <2>1. 0 \in S /\ \A n \in 1 .. L : n - 1 \in S => n \in S
    BY <1>0, <1>8 DEF Sums
  <2>2. \A n \in 0 .. L : n \in S
    <3> HIDE DEF S
    <3> QED BY <2>1, Upwards
  <2> QED BY <2>2
<1> QED BY <1>0, <1>7, <1>8, <1>9

LEMMA SumsTotal ==
    ASSUME NEW s \in Seq(Int), NEW F, Sums(s, F)
    PROVE  Total(s) = F[Len(s)]
<1>0. PICK L \in Nat : L = Len(s)
  BY IntSeq
<1>1. PICK G : Sums(s, G) /\ Total(s) = G[L]
  BY <1>0, TotalSums
<1> DEFINE S == {i \in 0 .. L : G[i] = F[i]}
<1>2. 0 \in S /\ \A n \in 1 .. L : n - 1 \in S => n \in S
  BY <1>0, <1>1 DEF Sums
<1>3. \A n \in 0 .. L : n \in S
  <2> HIDE DEF S
  <2> QED BY <1>2, Upwards
<1> QED BY <1>0, <1>1, <1>3

LEMMA TotalType == ASSUME NEW s \in Seq(Int) PROVE Total(s) \in Int
<1>1. Len(s) \in 0 .. Len(s)
  BY IntSeq
<1> QED BY <1>1, TotalSums

LEMMA TotalEmpty == Total(<<>>) = 0
<1>1. <<>> \in Seq(Int) /\ Len(<<>>) = 0
  OBVIOUS
<1> QED BY <1>1, TotalSums DEF Sums

(* What the partial sums of a sequence are, for use in a step.             *)
SumsTo(s, L, F) ==
    /\ Total(s) = F[L] /\ F[0] = 0
    /\ \A n \in 0 .. L : F[n] \in Int
    /\ \A n \in 1 .. L : F[n] = F[n - 1] + s[n] /\ F[n - 1] \in Int /\ s[n] \in Int

LEMMA SumsOf ==
    ASSUME NEW s \in Seq(Int)
    PROVE  \E L \in Nat : \E F : L = Len(s) /\ SumsTo(s, L, F)
<1>1. PICK L \in Nat : L = Len(s) /\ \A n \in 1 .. L : s[n] \in Int
  BY IntSeq
<1>2. PICK F : Sums(s, F) /\ Total(s) = F[L] /\ \A n \in 0 .. L : F[n] \in Int
  BY <1>1, TotalSums
<1>3. \A n \in 1 .. L : n - 1 \in 0 .. L
  BY <1>1
<1> QED BY <1>1, <1>2, <1>3 DEF Sums, SumsTo

LEMMA TotalAppended ==
    ASSUME NEW s \in Seq(Int), NEW e \in Int, NEW t \in Seq(Int), Len(t) = Len(s) + 1,
           \A i \in 1 .. Len(s) : t[i] = s[i], t[Len(s) + 1] = e
    PROVE  Total(t) = Total(s) + e
<1>0. PICK L \in Nat : \E F : L = Len(s) /\ SumsTo(s, L, F)
  BY SumsOf
<1>1. PICK F : /\ L = Len(s) /\ Total(s) = F[L] /\ F[0] = 0
               /\ \A n \in 0 .. L : F[n] \in Int
               /\ \A n \in 1 .. L : F[n] = F[n - 1] + s[n] /\ F[n - 1] \in Int /\ s[n] \in Int
  BY <1>0 DEF SumsTo
<1>2. PICK G : G = [n \in 0 .. L + 1 |-> IF n = L + 1 THEN F[L] + e ELSE F[n]]
  OBVIOUS
<1>3. \A n \in 0 .. L + 1 : G[n] = IF n = L + 1 THEN F[L] + e ELSE F[n]
  BY <1>2
<1>4. ASSUME NEW n \in 1 .. L + 1 PROVE G[n] = G[n - 1] + t[n]
  <2>1. n - 1 \in 0 .. L + 1 /\ n \in 0 .. L + 1 /\ n - 1 # L + 1
    OBVIOUS
  <2>2. CASE n = L + 1
    BY <1>1, <1>3, <2>1, <2>2
  <2>3. CASE n # L + 1
    <3>1. n \in 1 .. L
      BY <2>3
    <3> QED BY <1>1, <1>3, <2>1, <2>3, <3>1
  <2> QED BY <2>2, <2>3
<1>5. Sums(t, G)
  <2>1. G[0] = 0
    BY <1>1, <1>3
  <2>2. Len(t) = L + 1
    BY <1>1
  <2> QED BY <1>4, <2>1, <2>2 DEF Sums
<1> QED BY <1>1, <1>3, <1>5, SumsTotal

LEMMA TotalPrepended ==
    ASSUME NEW s \in Seq(Int), NEW e \in Int, NEW t \in Seq(Int), Len(t) = Len(s) + 1,
           \A i \in 1 .. Len(s) : t[i + 1] = s[i], t[1] = e
    PROVE  Total(t) = Total(s) + e
<1>0. PICK L \in Nat : \E F : L = Len(s) /\ SumsTo(s, L, F)
  BY SumsOf
<1>1. PICK F : /\ L = Len(s) /\ Total(s) = F[L] /\ F[0] = 0
               /\ \A n \in 0 .. L : F[n] \in Int
               /\ \A n \in 1 .. L : F[n] = F[n - 1] + s[n] /\ F[n - 1] \in Int /\ s[n] \in Int
  BY <1>0 DEF SumsTo
<1>2. PICK G : G = [n \in 0 .. L + 1 |-> IF n = 0 THEN 0 ELSE F[n - 1] + e]
  OBVIOUS
<1>3. \A n \in 0 .. L + 1 : G[n] = IF n = 0 THEN 0 ELSE F[n - 1] + e
  BY <1>2
<1>4. ASSUME NEW n \in 1 .. L + 1 PROVE G[n] = G[n - 1] + t[n]
  <2>1. n - 1 \in 0 .. L + 1 /\ n \in 0 .. L + 1 /\ n # 0
    OBVIOUS
  <2>2. CASE n = 1
    BY <1>1, <1>3, <2>1, <2>2
  <2>3. CASE n # 1
    <3>1. PICK m \in 1 .. L : n = m + 1
      <4>1. n - 1 \in 1 .. L /\ n = (n - 1) + 1
        BY <2>3
      <4> QED BY <4>1
    <3>2. F[m] = F[m - 1] + s[m] /\ F[m - 1] \in Int /\ s[m] \in Int /\ t[n] = s[m]
      BY <1>1, <3>1
    <3>3. G[n] = F[m] + e /\ G[n - 1] = F[m - 1] + e
      <4>1. n - 1 = m /\ m # 0
        BY <3>1
      <4> QED BY <1>3, <2>1, <4>1
    <3> QED BY <3>2, <3>3
  <2> QED BY <2>2, <2>3
<1>5. Sums(t, G)
  BY <1>1, <1>3, <1>4 DEF Sums
<1>6. G[L + 1] = F[L] + e
  BY <1>3
<1> QED BY <1>1, <1>5, <1>6, SumsTotal

LEMMA TotalChanged ==
    ASSUME NEW s \in Seq(Int), NEW t \in Seq(Int), Len(t) = Len(s), NEW k \in 1 .. Len(s),
           \A i \in 1 .. Len(s) : i # k => t[i] = s[i]
    PROVE  Total(t) = Total(s) + (t[k] - s[k])
<1>0. PICK L \in Nat : \E F : L = Len(s) /\ SumsTo(s, L, F)
  BY SumsOf
<1>1. PICK F : /\ L = Len(s) /\ Total(s) = F[L] /\ F[0] = 0
               /\ \A n \in 0 .. L : F[n] \in Int
               /\ \A n \in 1 .. L : F[n] = F[n - 1] + s[n] /\ F[n - 1] \in Int /\ s[n] \in Int
  BY <1>0 DEF SumsTo
<1>2. k \in 1 .. L /\ s[k] \in Int /\ t[k] \in Int
  BY <1>1, IntSeq
<1>3. PICK d : d = t[k] - s[k]
  OBVIOUS
<1>4. PICK G : G = [n \in 0 .. L |-> IF n < k THEN F[n] ELSE F[n] + d]
  OBVIOUS
<1>5. \A n \in 0 .. L : G[n] = IF n < k THEN F[n] ELSE F[n] + d
  BY <1>4
<1>6. ASSUME NEW n \in 1 .. L PROVE G[n] = G[n - 1] + t[n]
  <2>1. n - 1 \in 0 .. L /\ n \in 0 .. L
    OBVIOUS
  <2>2. F[n] = F[n - 1] + s[n] /\ F[n - 1] \in Int /\ s[n] \in Int
    BY <1>1
  <2>3. CASE n = k
    <3>1. G[n] = F[n] + d /\ G[n - 1] = F[n - 1]
      BY <1>2, <1>5, <2>1, <2>3
    <3> QED BY <1>2, <1>3, <2>2, <2>3, <3>1
  <2>4. CASE n < k
    <3>1. t[n] = s[n]
      BY <1>1, <1>2, <2>4
    <3>2. G[n] = F[n] /\ G[n - 1] = F[n - 1]
      BY <1>2, <1>5, <2>1, <2>4
    <3> QED BY <2>2, <3>1, <3>2
  <2>5. CASE n > k
    <3>1. t[n] = s[n]
      BY <1>1, <1>2, <2>5
    <3>2. ~(n < k) /\ ~(n - 1 < k)
      BY <1>2, <2>5
    <3>3. G[n] = F[n] + d /\ G[n - 1] = F[n - 1] + d
      BY <1>5, <2>1, <3>2
    <3> QED BY <1>2, <1>3, <2>2, <3>1, <3>3
  <2> QED BY <1>2, <2>3, <2>4, <2>5
<1>7. Sums(t, G)
  BY <1>1, <1>2, <1>5, <1>6 DEF Sums
<1>8. G[L] = F[L] + d
  BY <1>2, <1>5
<1> QED BY <1>1, <1>3, <1>7, <1>8, SumsTotal

LEMMA TotalRemoved ==
    ASSUME NEW s \in Seq(Int), NEW k \in 1 .. Len(s), NEW t \in Seq(Int), Len(t) = Len(s) - 1,
           \A i \in 1 .. Len(s) - 1 : t[i] = IF i < k THEN s[i] ELSE s[i + 1]
    PROVE  Total(t) = Total(s) - s[k]
<1>0. PICK L \in Nat : \E F : L = Len(s) /\ SumsTo(s, L, F)
  BY SumsOf
<1>1. PICK F : /\ L = Len(s) /\ Total(s) = F[L] /\ F[0] = 0
               /\ \A n \in 0 .. L : F[n] \in Int
               /\ \A n \in 1 .. L : F[n] = F[n - 1] + s[n] /\ F[n - 1] \in Int /\ s[n] \in Int
  BY <1>0 DEF SumsTo
<1>2. k \in 1 .. L /\ s[k] \in Int /\ L > 0 /\ F[k] = F[k - 1] + s[k] /\ F[k - 1] \in Int
  BY <1>1
<1>4. PICK G : G = [n \in 0 .. L - 1 |-> IF n < k THEN F[n] ELSE F[n + 1] - s[k]]
  OBVIOUS
<1>5. \A n \in 0 .. L - 1 : G[n] = IF n < k THEN F[n] ELSE F[n + 1] - s[k]
  BY <1>4
<1>6. ASSUME NEW n \in 1 .. L - 1 PROVE G[n] = G[n - 1] + t[n]
  <2>1. n - 1 \in 0 .. L - 1 /\ n \in 0 .. L - 1 /\ n \in 1 .. L /\ n + 1 \in 1 .. L
        /\ (n + 1) - 1 = n /\ (n - 1) + 1 = n
    OBVIOUS
  <2>2. F[n] = F[n - 1] + s[n] /\ F[n - 1] \in Int /\ s[n] \in Int
    BY <1>1, <2>1
  <2>3. F[n + 1] = F[n] + s[n + 1] /\ F[n] \in Int /\ s[n + 1] \in Int
    BY <1>1, <2>1
  <2>4. t[n] = IF n < k THEN s[n] ELSE s[n + 1]
    BY <1>1
  <2>5. CASE n = k
    <3>1. G[n] = F[n + 1] - s[k] /\ G[n - 1] = F[n - 1] /\ t[n] = s[n + 1]
      BY <1>2, <1>5, <2>1, <2>4, <2>5
    <3> QED BY <1>2, <2>2, <2>3, <2>5, <3>1
  <2>6. CASE n < k
    <3>1. G[n] = F[n] /\ G[n - 1] = F[n - 1] /\ t[n] = s[n]
      BY <1>2, <1>5, <2>1, <2>4, <2>6
    <3> QED BY <2>2, <3>1
  <2>7. CASE n > k
    <3>1. G[n] = F[n + 1] - s[k] /\ G[n - 1] = F[n] - s[k] /\ t[n] = s[n + 1]
      BY <1>2, <1>5, <2>1, <2>4, <2>7
    <3>2. PICK x \in Int, y \in Int, z \in Int : x = F[n] /\ y = s[n + 1] /\ z = s[k]
      BY <1>2, <2>3
    <3>3. F[n + 1] = x + y
      BY <2>3, <3>2
    <3>4. (x + y) - z = (x - z) + y
      OBVIOUS
    <3> QED BY <3>1, <3>2, <3>3, <3>4
  <2> QED BY <1>2, <2>5, <2>6, <2>7
<1>7. Sums(t, G)
  <2>1. 0 \in 0 .. L - 1 /\ 0 < k
    BY <1>2
  <2> QED BY <1>1, <1>5, <1>6, <2>1 DEF Sums
<1>8. G[L - 1] = F[L] - s[k]
  <2>1. L - 1 \in 0 .. L - 1 /\ L \in 0 .. L /\ (L - 1) + 1 = L
    BY <1>2
  <2>2. F[L] \in Int
    BY <1>1, <2>1
  <2>3. CASE k = L
    BY <1>2, <1>5, <2>1, <2>2, <2>3
  <2>4. CASE k # L
    <3>1. ~(L - 1 < k)
      BY <1>2, <2>4
    <3> QED BY <1>5, <2>1, <3>1
  <2> QED BY <2>3, <2>4
<1> QED BY <1>1, <1>7, <1>8, SumsTotal

-----------------------------------------------------------------------------
(* What Kept keeps of the first elements of s.                             *)
Keeping(s, M, S, F) ==
    /\ F[0] = <<>> /\ \A n \in 0 .. Len(s) : F[n] \in Seq(S)
    /\ \A n \in 1 .. Len(s) : F[n] = IF n \in M THEN Append(F[n - 1], s[n]) ELSE F[n - 1]

LEMMA KeptSteps ==
    ASSUME NEW S, NEW s \in Seq(S), NEW M
    PROVE  \E F : Keeping(s, M, S, F) /\ Kept(s, M) = F[Len(s)]
<1> DEFINE Def(F) == F = [n \in 0 .. Len(s) |->
                            IF n = 0 THEN <<>> ELSE IF n \in M THEN Append(F[n - 1], s[n]) ELSE F[n - 1]]
<1>0. PICK L \in Nat : L = Len(s) /\ \A n \in 1 .. L : s[n] \in S
  <2>1. Len(s) \in Nat /\ \A n \in 1 .. Len(s) : s[n] \in S
    BY ElementOfSeq
  <2> QED BY <2>1
<1>1. PICK next : next = [n \in 1 .. L |-> [x \in Seq(S) |-> IF n \in M THEN Append(x, s[n]) ELSE x]]
  OBVIOUS
<1>2. PICK F : Steps(L, Seq(S), <<>>, next, F)
  <2>1. next \in [1 .. L -> [Seq(S) -> Seq(S)]]
    <3>1. ASSUME NEW n \in 1 .. L
          PROVE  [x \in Seq(S) |-> IF n \in M THEN Append(x, s[n]) ELSE x] \in [Seq(S) -> Seq(S)]
      <4>1. \A x \in Seq(S) : Append(x, s[n]) \in Seq(S)
        BY <1>0, AppendProperties
      <4> QED BY <4>1
    <3> QED BY <1>1, <3>1
  <2>2. L \in Nat /\ <<>> \in Seq(S)
    OBVIOUS
  <2> QED BY <2>1, <2>2, StepByStep
<1>3. F \in [0 .. L -> Seq(S)] /\ F[0] = <<>> /\ \A n \in 1 .. L : F[n] = next[n][F[n - 1]]
  BY <1>2 DEF Steps
<1>4. \A n \in 1 .. L : F[n] = IF n \in M THEN Append(F[n - 1], s[n]) ELSE F[n - 1]
  <2> SUFFICES ASSUME NEW n \in 1 .. L PROVE F[n] = IF n \in M THEN Append(F[n - 1], s[n]) ELSE F[n - 1]
    OBVIOUS
  <2>1. n - 1 \in 0 .. L
    OBVIOUS
  <2>2. F[n - 1] \in Seq(S)
    BY <1>3, <2>1
  <2>3. next[n][F[n - 1]] = IF n \in M THEN Append(F[n - 1], s[n]) ELSE F[n - 1]
    BY <1>1, <2>2
  <2> QED BY <1>3, <2>3
<1>5. Def(F)
  <2>1. \A n \in 0 .. L : F[n] = IF n = 0 THEN <<>> ELSE IF n \in M THEN Append(F[n - 1], s[n]) ELSE F[n - 1]
    <3>1. \A n \in 0 .. L : n = 0 \/ n \in 1 .. L
      OBVIOUS
    <3> QED BY <1>3, <1>4, <3>1
  <2>2. F = [n \in 0 .. L |-> F[n]]
    BY <1>3
  <2> QED BY <1>0, <2>1, <2>2
<1>6. PICK G : G = CHOOSE H : Def(H)
  OBVIOUS
<1>7. Def(G)
  <2> HIDE DEF Def
  <2> QED BY <1>5, <1>6
<1>8. Kept(s, M) = G[L]
  BY <1>0, <1>6 DEF Kept
<1>9. \A n \in 0 .. L : G[n] = F[n]
  <2> DEFINE I == {i \in 0 .. L : G[i] = F[i]}
  <2>0. G[0] = <<>> /\ \A n \in 1 .. L : G[n] = IF n \in M THEN Append(G[n - 1], s[n]) ELSE G[n - 1]
    <3>1. \A n \in 0 .. L : G[n] = IF n = 0 THEN <<>> ELSE IF n \in M THEN Append(G[n - 1], s[n]) ELSE G[n - 1]
      BY <1>0, <1>7
    <3>2. 0 \in 0 .. L /\ \A n \in 1 .. L : n \in 0 .. L /\ n # 0
      OBVIOUS
    <3> QED BY <3>1, <3>2
  <2>1. 0 \in I /\ \A n \in 1 .. L : n - 1 \in I => n \in I
    <3>1. 0 \in I
      BY <2>0, <1>3
    <3>2. ASSUME NEW n \in 1 .. L, n - 1 \in I PROVE n \in I
      <4>1. G[n - 1] = F[n - 1] /\ n \in 0 .. L
        BY <3>2
      <4>2. G[n] = F[n]
        BY <2>0, <1>4, <4>1
      <4> QED BY <4>1, <4>2
    <3> QED BY <3>1, <3>2
  <2>2. \A n \in 0 .. L : n \in I
    <3> HIDE DEF I
    <3> QED BY <2>1, Upwards
  <2> QED BY <2>2
<1>10. Keeping(s, M, S, F)
  BY <1>0, <1>3, <1>4 DEF Keeping
<1>11. L \in 0 .. L
  OBVIOUS
<1> QED BY <1>0, <1>8, <1>9, <1>10, <1>11

(* What is kept are the elements at the places of M, each once, in order.  *)
Selects(t, s, M, n, g) ==
    /\ g \in [1 .. Len(t) -> M \cap 1 .. n]
    /\ \A i, j \in 1 .. Len(t) : i < j => g[i] < g[j]
    /\ \A k \in M \cap 1 .. n : \E i \in 1 .. Len(t) : g[i] = k
    /\ \A i \in 1 .. Len(t) : t[i] = s[g[i]]

LEMMA SelectsAppended ==
    ASSUME NEW S, NEW s, NEW t \in Seq(S), NEW M, NEW n \in Nat \ {0}, n \in M, s[n] \in S,
           NEW g, Selects(t, s, M, n - 1, g)
    PROVE  \E h : Selects(Append(t, s[n]), s, M, n, h)
<1>1. PICK l \in Nat : l = Len(t)
  OBVIOUS
<1>2. PICK u : u = Append(t, s[n])
  OBVIOUS
<1>3. Len(u) = l + 1 /\ u[l + 1] = s[n] /\ \A i \in 1 .. l : u[i] = t[i]
  BY <1>1, <1>2, AppendProperties
<1>4. PICK h : h = [i \in 1 .. l + 1 |-> IF i = l + 1 THEN n ELSE g[i]]
  OBVIOUS
<1>5. \A i \in 1 .. l : h[i] = g[i] /\ g[i] \in M /\ g[i] \in 1 .. n - 1
  <2>1. \A i \in 1 .. l : g[i] \in M \cap 1 .. n - 1
    BY <1>1 DEF Selects
  <2>2. \A i \in 1 .. l : i \in 1 .. l + 1 /\ i # l + 1
    BY <1>1
  <2> QED BY <1>4, <2>1, <2>2
<1>6. h[l + 1] = n
  BY <1>4
<1>7. \A i \in 1 .. l + 1 : i \in 1 .. l \/ i = l + 1
  OBVIOUS
<1>8. h \in [1 .. l + 1 -> M \cap 1 .. n]
  <2>1. \A i \in 1 .. l + 1 : h[i] \in M \cap 1 .. n
    BY <1>5, <1>6, <1>7
  <2> QED BY <1>4, <2>1
<1>9. ASSUME NEW i \in 1 .. l + 1, NEW j \in 1 .. l + 1, i < j PROVE h[i] < h[j]
  <2>1. i \in 1 .. l
    BY <1>9
  <2>2. CASE j = l + 1
    BY <1>5, <1>6, <2>1, <2>2
  <2>3. CASE j \in 1 .. l
    BY <1>1, <1>5, <1>9, <2>1, <2>3 DEF Selects
  <2> QED BY <1>7, <2>2, <2>3
<1>10. ASSUME NEW k \in M \cap 1 .. n PROVE \E i \in 1 .. l + 1 : h[i] = k
  <2>1. CASE k = n
    BY <1>6, <2>1
  <2>2. CASE k # n
    <3>1. k \in M \cap 1 .. n - 1
      BY <2>2
    <3>2. PICK i \in 1 .. l : g[i] = k
      BY <1>1, <3>1 DEF Selects
    <3>3. i \in 1 .. l + 1
      OBVIOUS
    <3> QED BY <1>5, <3>2, <3>3
  <2> QED BY <2>1, <2>2
<1>11. ASSUME NEW i \in 1 .. l + 1 PROVE u[i] = s[h[i]]
  <2>1. CASE i = l + 1
    BY <1>3, <1>6, <2>1
  <2>2. CASE i \in 1 .. l
    BY <1>1, <1>3, <1>5, <2>2 DEF Selects
  <2> QED BY <1>7, <2>1, <2>2
<1>12. Selects(u, s, M, n, h)
  BY <1>3, <1>8, <1>9, <1>10, <1>11 DEF Selects
<1> QED BY <1>2, <1>12

LEMMA SelectsSkipped ==
    ASSUME NEW s, NEW t, NEW M, NEW n \in Nat \ {0}, n \notin M, NEW g, Selects(t, s, M, n - 1, g)
    PROVE  Selects(t, s, M, n, g)
<1>1. M \cap 1 .. n - 1 = M \cap 1 .. n
  OBVIOUS
<1> QED BY <1>1 DEF Selects

LEMMA KeptSelects ==
    ASSUME NEW S, NEW s \in Seq(S), NEW M
    PROVE  Kept(s, M) \in Seq(S) /\ \E g : Selects(Kept(s, M), s, M, Len(s), g)
<1>0. PICK L \in Nat : L = Len(s) /\ \A n \in 1 .. L : s[n] \in S
  <2>1. Len(s) \in Nat /\ \A n \in 1 .. Len(s) : s[n] \in S
    BY ElementOfSeq
  <2> QED BY <2>1
<1>1. PICK F : Keeping(s, M, S, F) /\ Kept(s, M) = F[L]
  BY <1>0, KeptSteps
<1>2. /\ F[0] = <<>> /\ \A n \in 0 .. L : F[n] \in Seq(S)
      /\ \A n \in 1 .. L : F[n] = IF n \in M THEN Append(F[n - 1], s[n]) ELSE F[n - 1]
  BY <1>0, <1>1 DEF Keeping
<1> DEFINE I == {n \in 0 .. L : \E g : Selects(F[n], s, M, n, g)}
<1>3. 0 \in I
  <2>1. Len(F[0]) = 0 /\ 1 .. 0 = {}
    BY <1>2
  <2>2. PICK g : g = [i \in 1 .. 0 |-> 0]
    OBVIOUS
  <2>3. Selects(F[0], s, M, 0, g)
    BY <2>1, <2>2 DEF Selects
  <2> QED BY <2>3
<1>4. ASSUME NEW n \in 1 .. L, n - 1 \in I PROVE n \in I
  <2>1. n - 1 \in 0 .. L /\ n \in 0 .. L /\ n \in Nat \ {0}
    OBVIOUS
  <2>2. F[n - 1] \in Seq(S) /\ s[n] \in S
    BY <1>0, <1>2, <2>1
  <2>3. PICK g : Selects(F[n - 1], s, M, n - 1, g)
    BY <1>4
  <2>4. CASE n \in M
    <3>1. F[n] = Append(F[n - 1], s[n])
      BY <1>2, <2>4
    <3>2. \E h : Selects(Append(F[n - 1], s[n]), s, M, n, h)
      BY <2>1, <2>2, <2>3, <2>4, SelectsAppended
    <3> QED BY <2>1, <3>1, <3>2
  <2>5. CASE n \notin M
    <3>1. F[n] = F[n - 1]
      BY <1>2, <2>5
    <3>2. Selects(F[n - 1], s, M, n, g)
      BY <2>1, <2>3, <2>5, SelectsSkipped
    <3> QED BY <2>1, <3>1, <3>2
  <2> QED BY <2>4, <2>5
<1>5. \A n \in 0 .. L : n \in I
  <2> HIDE DEF I
  <2> QED BY <1>3, <1>4, Upwards
<1>6. L \in 0 .. L
  OBVIOUS
<1>7. F[L] \in Seq(S) /\ \E g : Selects(F[L], s, M, L, g)
  BY <1>2, <1>5, <1>6
<1> QED BY <1>0, <1>1, <1>7

(* What is kept and what is dropped add up to the whole, in number and in  *)
(* what h says of each element.                                            *)
Weighed(s, h) == [i \in 1 .. Len(s) |-> h[s[i]]]

LEMMA WeighedType ==
    ASSUME NEW S, NEW s \in Seq(S), NEW h \in [S -> Int]
    PROVE  /\ Weighed(s, h) \in Seq(Int) /\ Len(Weighed(s, h)) = Len(s)
           /\ \A i \in 1 .. Len(s) : Weighed(s, h)[i] = h[s[i]]
<1>1. Len(s) \in Nat /\ \A i \in 1 .. Len(s) : s[i] \in S
  BY ElementOfSeq
<1>2. \A i \in 1 .. Len(s) : h[s[i]] \in Int
  BY <1>1
<1>3. Weighed(s, h) \in [1 .. Len(s) -> Int]
  BY <1>2 DEF Weighed
<1>4. Weighed(s, h) \in Seq(Int) /\ Len(Weighed(s, h)) = Len(s)
  BY <1>1, <1>3
<1> QED BY <1>4 DEF Weighed

LEMMA WeighedAppended ==
    ASSUME NEW S, NEW s \in Seq(S), NEW e \in S, NEW h \in [S -> Int]
    PROVE  Total(Weighed(Append(s, e), h)) = Total(Weighed(s, h)) + h[e]
<1>1. PICK l \in Nat : l = Len(s)
  OBVIOUS
<1>2. PICK u : u = Append(s, e)
  OBVIOUS
<1>3. u \in Seq(S) /\ Len(u) = l + 1 /\ u[l + 1] = e /\ \A i \in 1 .. l : u[i] = s[i]
  BY <1>1, <1>2, AppendProperties
<1>4. Weighed(s, h) \in Seq(Int) /\ Len(Weighed(s, h)) = l /\ \A i \in 1 .. l : Weighed(s, h)[i] = h[s[i]]
  BY <1>1, WeighedType
<1>5. Weighed(u, h) \in Seq(Int) /\ Len(Weighed(u, h)) = l + 1 /\ \A i \in 1 .. l + 1 : Weighed(u, h)[i] = h[u[i]]
  <2>1. u \in Seq(S)
    BY <1>3
  <2>2. Weighed(u, h) \in Seq(Int) /\ Len(Weighed(u, h)) = Len(u) /\ \A i \in 1 .. Len(u) : Weighed(u, h)[i] = h[u[i]]
    BY <2>1, WeighedType
  <2> QED BY <1>3, <2>2
<1>6. \A i \in 1 .. l : Weighed(u, h)[i] = Weighed(s, h)[i]
  <2> SUFFICES ASSUME NEW i \in 1 .. l PROVE Weighed(u, h)[i] = Weighed(s, h)[i]
    OBVIOUS
  <2>1. i \in 1 .. l + 1
    OBVIOUS
  <2>2. Weighed(u, h)[i] = h[u[i]] /\ u[i] = s[i] /\ Weighed(s, h)[i] = h[s[i]]
    BY <1>3, <1>4, <1>5, <2>1
  <2> QED BY <2>2
<1>7. Weighed(u, h)[l + 1] = h[e]
  BY <1>3, <1>5
<1>8. h[e] \in Int
  OBVIOUS
<1>9. PICK a, b : a = Weighed(s, h) /\ b = Weighed(u, h)
  OBVIOUS
<1>10. Total(b) = Total(a) + h[e]
  BY <1>4, <1>5, <1>6, <1>7, <1>8, <1>9, TotalAppended
<1> QED BY <1>2, <1>9, <1>10

LEMMA KeptSplits ==
    ASSUME NEW S, NEW s \in Seq(S), NEW M, NEW N, \A n \in 1 .. Len(s) : n \in M <=> n \notin N,
           NEW h \in [S -> Int]
    PROVE  /\ Len(Kept(s, M)) + Len(Kept(s, N)) = Len(s)
           /\ Total(Weighed(Kept(s, M), h)) + Total(Weighed(Kept(s, N), h)) = Total(Weighed(s, h))
<1>0. PICK L \in Nat : L = Len(s) /\ \A n \in 1 .. L : s[n] \in S
  <2>1. Len(s) \in Nat /\ \A n \in 1 .. Len(s) : s[n] \in S
    BY ElementOfSeq
  <2> QED BY <2>1
<1>1. PICK F : Keeping(s, M, S, F) /\ Kept(s, M) = F[L]
  BY <1>0, KeptSteps
<1>2. PICK G : Keeping(s, N, S, G) /\ Kept(s, N) = G[L]
  BY <1>0, KeptSteps
<1>3. PICK w \in Seq(Int) : w = Weighed(s, h) /\ Len(w) = L /\ \A i \in 1 .. L : w[i] = h[s[i]]
  BY <1>0, WeighedType
<1>4. PICK K : SumsTo(w, L, K)
  BY <1>3, SumsOf
<1>5. /\ Total(w) = K[L] /\ K[0] = 0 /\ \A n \in 0 .. L : K[n] \in Int
      /\ \A n \in 1 .. L : K[n] = K[n - 1] + h[s[n]] /\ h[s[n]] \in Int
  BY <1>3, <1>4 DEF SumsTo
<1>6. /\ F[0] = <<>> /\ \A n \in 0 .. L : F[n] \in Seq(S)
      /\ \A n \in 1 .. L : F[n] = IF n \in M THEN Append(F[n - 1], s[n]) ELSE F[n - 1]
  BY <1>0, <1>1 DEF Keeping
<1>7. /\ G[0] = <<>> /\ \A n \in 0 .. L : G[n] \in Seq(S)
      /\ \A n \in 1 .. L : G[n] = IF n \in N THEN Append(G[n - 1], s[n]) ELSE G[n - 1]
  BY <1>0, <1>2 DEF Keeping
<1> DEFINE I == {n \in 0 .. L : /\ Len(F[n]) + Len(G[n]) = n
                                /\ Total(Weighed(F[n], h)) + Total(Weighed(G[n], h)) = K[n]}
<1>8. 0 \in I
  <2>1. Weighed(<<>>, h) = <<>>
    <3>1. Len(<<>>) = 0 /\ 1 .. 0 = {}
      OBVIOUS
    <3> QED BY <3>1 DEF Weighed
  <2>2. Total(Weighed(F[0], h)) + Total(Weighed(G[0], h)) = K[0]
    BY <1>5, <1>6, <1>7, <2>1, TotalEmpty
  <2>3. Len(F[0]) + Len(G[0]) = 0 /\ 0 \in 0 .. L
    BY <1>6, <1>7
  <2> QED BY <2>2, <2>3
<1>9. ASSUME NEW n \in 1 .. L, n - 1 \in I PROVE n \in I
  <2>1. n - 1 \in 0 .. L /\ n \in 0 .. L
    OBVIOUS
  <2>2. F[n - 1] \in Seq(S) /\ G[n - 1] \in Seq(S) /\ s[n] \in S
    BY <1>0, <1>6, <1>7, <2>1
  <2>3. Total(Weighed(F[n - 1], h)) \in Int /\ Total(Weighed(G[n - 1], h)) \in Int
    BY <2>2, WeighedType, TotalType
  <2>4. Len(F[n - 1]) \in Nat /\ Len(G[n - 1]) \in Nat
    BY <2>2
  <2>5. Len(F[n - 1]) + Len(G[n - 1]) = n - 1
        /\ Total(Weighed(F[n - 1], h)) + Total(Weighed(G[n - 1], h)) = K[n - 1]
    BY <1>9
  <2>6. K[n] = K[n - 1] + h[s[n]] /\ h[s[n]] \in Int /\ K[n - 1] \in Int
    BY <1>5, <2>1
  <2>7. CASE n \in M
    <3>1. F[n] = Append(F[n - 1], s[n]) /\ G[n] = G[n - 1]
      BY <1>0, <1>6, <1>7, <2>7
    <3>2. Len(F[n]) = Len(F[n - 1]) + 1
      BY <2>2, <3>1, AppendProperties
    <3>3. Total(Weighed(F[n], h)) = Total(Weighed(F[n - 1], h)) + h[s[n]]
      BY <2>2, <3>1, WeighedAppended
    <3>4. Len(F[n]) + Len(G[n]) = n
      <4>1. PICK a \in Nat, b \in Nat : a = Len(F[n - 1]) /\ b = Len(G[n - 1])
        BY <2>4
      <4>2. Len(F[n]) = a + 1 /\ Len(G[n]) = b
        BY <3>1, <3>2, <4>1
      <4>3. a + b = n - 1
        BY <2>5, <4>1
      <4> QED BY <4>2, <4>3
    <3>5. Total(Weighed(F[n], h)) + Total(Weighed(G[n], h)) = K[n]
      BY <2>3, <2>5, <2>6, <3>1, <3>3
    <3> QED BY <2>1, <3>4, <3>5
  <2>8. CASE n \notin M
    <3>1. G[n] = Append(G[n - 1], s[n]) /\ F[n] = F[n - 1]
      BY <1>0, <1>6, <1>7, <2>8
    <3>2. Len(G[n]) = Len(G[n - 1]) + 1
      BY <2>2, <3>1, AppendProperties
    <3>3. Total(Weighed(G[n], h)) = Total(Weighed(G[n - 1], h)) + h[s[n]]
      BY <2>2, <3>1, WeighedAppended
    <3>4. Len(F[n]) + Len(G[n]) = n
      <4>1. PICK a \in Nat, b \in Nat : a = Len(F[n - 1]) /\ b = Len(G[n - 1])
        BY <2>4
      <4>2. Len(F[n]) = a /\ Len(G[n]) = b + 1
        BY <3>1, <3>2, <4>1
      <4>3. a + b = n - 1
        BY <2>5, <4>1
      <4> QED BY <4>2, <4>3
    <3>5. Total(Weighed(F[n], h)) + Total(Weighed(G[n], h)) = K[n]
      BY <2>3, <2>5, <2>6, <3>1, <3>3
    <3> QED BY <2>1, <3>4, <3>5
  <2> QED BY <2>7, <2>8
<1>10. \A n \in 0 .. L : n \in I
  <2> HIDE DEF I
  <2> QED BY <1>8, <1>9, Upwards
<1>11. L \in 0 .. L
  OBVIOUS
<1>12. L \in I
  BY <1>10, <1>11
<1> QED BY <1>0, <1>1, <1>2, <1>3, <1>5, <1>12

(* A set of numbers up to n has a greatest one, which is what Max chooses. *)
LEMMA GreatestNat ==
    ASSUME NEW n \in Nat, NEW S \in SUBSET (0 .. n), S # {}
    PROVE  \E m \in S : \A k \in S : k <= m
<1> DEFINE T == {x \in 0 .. n : n - x \in S}
<1>1. PICK y \in S : y \in 0 .. n
  OBVIOUS
<1>2. n - y \in 0 .. n /\ n - (n - y) = y
  BY <1>1
<1>3. T # {} /\ T \in SUBSET Nat
  <2>1. n - y \in T
    BY <1>1, <1>2
  <2>2. T \in SUBSET Nat
    OBVIOUS
  <2> QED BY <2>1, <2>2
<1>4. PICK m \in T : \A x \in T : m <= x
  <2> HIDE DEF T
  <2> QED BY <1>3, LeastNat
<1>5. n - m \in S /\ m \in 0 .. n
  BY <1>4
<1>6. ASSUME NEW k \in S PROVE k <= n - m
  <2>1. k \in 0 .. n /\ n - k \in 0 .. n /\ n - (n - k) = k
    OBVIOUS
  <2>2. n - k \in T
    BY <2>1
  <2>3. m <= n - k
    BY <1>4, <2>2
  <2> QED BY <1>5, <2>1, <2>3
<1> QED BY <1>5, <1>6

(* What is kept depends on the places and elements there are only.         *)
LEMMA KeepingAgree ==
    ASSUME NEW S, NEW s \in Seq(S), NEW t \in Seq(S), NEW M, NEW N, NEW F, NEW G,
           Keeping(s, M, S, F), Keeping(t, N, S, G), NEW L \in Nat, L <= Len(s), L <= Len(t),
           \A n \in 1 .. L : (n \in M <=> n \in N) /\ s[n] = t[n]
    PROVE  \A n \in 0 .. L : F[n] = G[n]
<1> DEFINE I == {n \in 0 .. L : F[n] = G[n]}
<1>1. 0 \in I
  BY DEF Keeping
<1>2. ASSUME NEW n \in 1 .. L, n - 1 \in I PROVE n \in I
  <2>1. n \in 1 .. Len(s) /\ n \in 1 .. Len(t) /\ F[n - 1] = G[n - 1]
    BY <1>2
  <2>2. F[n] = IF n \in M THEN Append(F[n - 1], s[n]) ELSE F[n - 1]
    BY <2>1 DEF Keeping
  <2>3. G[n] = IF n \in N THEN Append(G[n - 1], t[n]) ELSE G[n - 1]
    BY <2>1 DEF Keeping
  <2>4. (n \in M <=> n \in N) /\ s[n] = t[n]
    OBVIOUS
  <2>5. F[n] = G[n]
    BY <2>1, <2>2, <2>3, <2>4
  <2> QED BY <2>5
<1>3. \A n \in 0 .. L : n \in I
  <2> HIDE DEF I
  <2> QED BY <1>1, <1>2, Upwards
<1> QED BY <1>3

(* An element more is kept or not; the rest is as before.                  *)
SamePlaces(s, t, M, N) == \A n \in 1 .. Len(s) : (n \in M <=> n \in N) /\ s[n] = t[n]

KeptMore(s, t, M, N) ==
    /\ Len(s) + 1 \in N => Kept(t, N) = Append(Kept(s, M), t[Len(s) + 1])
    /\ Len(s) + 1 \notin N => Kept(t, N) = Kept(s, M)

LEMMA KeptAppended ==
    ASSUME NEW S, NEW s \in Seq(S), NEW t \in Seq(S), NEW M, NEW N, Len(t) = Len(s) + 1, SamePlaces(s, t, M, N)
    PROVE  KeptMore(s, t, M, N)
<1>1. PICK L \in Nat : L = Len(s) /\ Len(t) = L + 1 /\ L <= Len(t) /\ L + 1 \in 1 .. Len(t) /\ (L + 1) - 1 = L /\ L \in 0 .. L
  <2>1. Len(s) \in Nat
    OBVIOUS
  <2> QED BY <2>1
<1>2. PICK F : Keeping(s, M, S, F) /\ Kept(s, M) = F[L]
  BY <1>1, KeptSteps
<1>3. PICK G : Keeping(t, N, S, G) /\ Kept(t, N) = G[L + 1]
  BY <1>1, KeptSteps
<1>4. \A n \in 1 .. L : (n \in M <=> n \in N) /\ s[n] = t[n]
  BY <1>1 DEF SamePlaces
<1>5. \A n \in 0 .. L : F[n] = G[n]
  BY <1>1, <1>2, <1>3, <1>4, KeepingAgree
<1>6. G[L + 1] = IF L + 1 \in N THEN Append(G[L], t[L + 1]) ELSE G[L]
  BY <1>1, <1>3 DEF Keeping
<1> QED BY <1>1, <1>2, <1>3, <1>5, <1>6 DEF KeptMore

(* The sequence t is s without its element k, and N the places that M are  *)
(* then.                                                                   *)
LeftOut(s, t, k, M, N) ==
    /\ Len(t) = Len(s) - 1 /\ \A n \in 1 .. Len(t) : t[n] = IF n < k THEN s[n] ELSE s[n + 1]
    /\ \A n \in 1 .. Len(t) : n \in N <=> (n < k /\ n \in M) \/ (n >= k /\ n + 1 \in M)
NoneBefore(M, k) == \A n \in 1 .. k - 1 : n \notin M

(* Without the first element that was kept, the others are.                *)
LEMMA KeptFirstRemoved ==
    ASSUME NEW S, NEW s \in Seq(S), NEW t \in Seq(S), NEW M, NEW N, NEW k \in 1 .. Len(s), k \in M,
           NoneBefore(M, k), LeftOut(s, t, k, M, N)
    PROVE  /\ Len(Kept(s, M)) = Len(Kept(t, N)) + 1
           /\ \A i \in 1 .. Len(Kept(t, N)) : Kept(t, N)[i] = Kept(s, M)[i + 1]
<1>0. /\ \A n \in 1 .. Len(s) : n < k => n \notin M
      /\ Len(t) = Len(s) - 1 /\ \A n \in 1 .. Len(t) : t[n] = IF n < k THEN s[n] ELSE s[n + 1]
      /\ \A n \in 1 .. Len(t) : n \in N <=> n >= k /\ n + 1 \in M
  <2>1. \A n \in 1 .. Len(s) : n < k => n \notin M
    <3>1. \A n \in 1 .. Len(s) : n < k => n \in 1 .. k - 1
      OBVIOUS
    <3> QED BY <3>1 DEF NoneBefore
  <2>2. \A n \in 1 .. Len(t) : n \in N <=> n >= k /\ n + 1 \in M
    <3>1. \A n \in 1 .. Len(t) : n < k => n \notin M
      BY <2>1 DEF LeftOut
    <3> QED BY <3>1 DEF LeftOut
  <2> QED BY <2>1, <2>2 DEF LeftOut
<1>1. PICK L \in Nat : L = Len(s) /\ L >= 1 /\ k <= L /\ Len(t) = L - 1 /\ L - 1 \in Nat
  <2>1. Len(s) \in Nat
    OBVIOUS
  <2> QED BY <1>0, <2>1
<1>2. PICK F : Keeping(s, M, S, F) /\ Kept(s, M) = F[L]
  BY <1>1, KeptSteps
<1>3. PICK G : Keeping(t, N, S, G) /\ Kept(t, N) = G[L - 1]
  BY <1>1, KeptSteps
<1>4. /\ F[0] = <<>> /\ \A n \in 0 .. L : F[n] \in Seq(S)
      /\ \A n \in 1 .. L : F[n] = IF n \in M THEN Append(F[n - 1], s[n]) ELSE F[n - 1]
  BY <1>1, <1>2 DEF Keeping
<1>5. /\ G[0] = <<>> /\ \A n \in 0 .. L - 1 : G[n] \in Seq(S)
      /\ \A n \in 1 .. L - 1 : G[n] = IF n \in N THEN Append(G[n - 1], t[n]) ELSE G[n - 1]
  BY <1>1, <1>3 DEF Keeping
<1>6. \A n \in 1 .. L : s[n] \in S
  BY <1>1, ElementOfSeq
<1> DEFINE Behind(f, g) == Len(f) = Len(g) + 1 /\ \A i \in 1 .. Len(g) : g[i] = f[i + 1]
           I == {n \in 0 .. L : IF n < k THEN F[n] = <<>> /\ (n <= L - 1 => G[n] = <<>>) ELSE Behind(F[n], G[n - 1])}
<1>7. 0 \in I
  BY <1>4, <1>5
<1>8. ASSUME NEW n \in 1 .. L, n - 1 \in I PROVE n \in I
  <2>1. CASE n < k
    <3>1. F[n - 1] = <<>> /\ G[n - 1] = <<>> /\ n \in 1 .. L - 1
      BY <1>1, <1>8, <2>1
    <3>2. n \notin M /\ n \notin N
      BY <1>0, <1>1, <2>1, <3>1
    <3>3. F[n] = <<>> /\ G[n] = <<>>
      BY <1>4, <1>5, <3>1, <3>2
    <3> QED BY <2>1, <3>3
  <2>2. CASE n = k
    <3>1. F[n - 1] = <<>> /\ G[n - 1] = <<>>
      BY <1>1, <1>8, <2>2
    <3>2. F[n] = Append(<<>>, s[n])
      BY <1>4, <2>2, <3>1
    <3>3. Len(F[n]) = 1 /\ Len(G[n - 1]) = 0
      BY <1>6, <3>1, <3>2
    <3>4. Behind(F[n], G[n - 1])
      BY <3>3
    <3> QED BY <2>2, <3>4
  <2>3. CASE n > k
    <3>1. PICK f, g, f2, g2 : f = F[n - 1] /\ g = G[n - 2] /\ f2 = F[n] /\ g2 = G[n - 1]
      OBVIOUS
    <3>2. f \in Seq(S) /\ g \in Seq(S) /\ n - 1 \in 1 .. L - 1 /\ (n - 1) - 1 = n - 2 /\ n - 2 \in 0 .. L - 1
      BY <1>1, <1>4, <1>5, <2>3, <3>1
    <3>3. Len(f) = Len(g) + 1 /\ \A i \in 1 .. Len(g) : g[i] = f[i + 1]
      <4>1. n - 1 \in 0 .. L /\ ~(n - 1 < k)
        BY <2>3
      <4> QED BY <1>8, <3>1, <3>2, <4>1
    <3>4. f2 = IF n \in M THEN Append(f, s[n]) ELSE f
      BY <1>4, <3>1
    <3>5. g2 = IF n - 1 \in N THEN Append(g, t[n - 1]) ELSE g
      BY <1>5, <3>1, <3>2
    <3>6. (n - 1 \in N <=> n \in M) /\ t[n - 1] = s[n]
      <4>1. n - 1 \in 1 .. Len(t) /\ (n - 1) + 1 = n /\ ~(n - 1 < k) /\ n - 1 >= k
        BY <1>1, <2>3
      <4> QED BY <1>0, <4>1
    <3>7. PICK e : e = s[n] /\ e \in S
      BY <1>6
    <3>8. PICK a \in Nat : a = Len(g) /\ Len(f) = a + 1
      BY <3>2, <3>3
    <3>9. Len(f2) = Len(g2) + 1 /\ \A i \in 1 .. Len(g2) : g2[i] = f2[i + 1]
      <4>1. CASE n \notin M
        BY <3>3, <3>4, <3>5, <3>6, <4>1
      <4>2. CASE n \in M
        <5>1. f2 = Append(f, e) /\ g2 = Append(g, e)
          BY <3>4, <3>5, <3>6, <3>7, <4>2
        <5>2. /\ Len(f2) = a + 2 /\ f2[a + 2] = e /\ \A i \in 1 .. a + 1 : f2[i] = f[i]
              /\ Len(g2) = a + 1 /\ g2[a + 1] = e /\ \A i \in 1 .. a : g2[i] = g[i]
          BY <3>2, <3>7, <3>8, <5>1
        <5>3. ASSUME NEW i \in 1 .. a + 1 PROVE g2[i] = f2[i + 1]
          <6>1. CASE i = a + 1
            BY <3>8, <5>2, <6>1
          <6>2. CASE i # a + 1
            <7>1. i \in 1 .. a /\ i + 1 \in 1 .. a + 1
              BY <3>8, <6>2
            <7> QED BY <3>3, <3>8, <5>2, <7>1
          <6> QED BY <6>1, <6>2
        <5> QED BY <5>2, <5>3, <3>8
      <4> QED BY <4>1, <4>2
    <3>10. n \in 0 .. L /\ ~(n < k)
      BY <2>3
    <3> QED BY <3>1, <3>9, <3>10
  <2> QED BY <2>1, <2>2, <2>3
<1>9. \A n \in 0 .. L : n \in I
  <2> HIDE DEF I
  <2> QED BY <1>1, <1>7, <1>8, Upwards
<1>10. Behind(F[L], G[L - 1])
  <2>1. L \in I /\ ~(L < k)
    BY <1>1, <1>9
  <2> QED BY <2>1
<1> QED BY <1>2, <1>3, <1>10
=============================================================================
