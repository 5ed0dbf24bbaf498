--------------------------- MODULE CollectorProofs ---------------------------
(***************************************************************************)
(* Proofs about the two collectors.  The copying collector of gc.c: what   *)
(* is marked is the least set closed under the words of its objects; the   *)
(* copies lie side by side in the other space; a word that was the address *)
(* of a marked object is the address of its copy once that object's turn   *)
(* has come, so an object that refers to older ones only is copied with    *)
(* its words right.  The heap of the WebAssembly runtime: what is counted  *)
(* is what refers.                                                         *)
(***************************************************************************)
EXTENDS Collectors, ListFacts

-----------------------------------------------------------------------------
(* Reachability: a set that spreads along a relation.                      *)

(* A set that starts with B and takes in whoever its members lead to is    *)
(* closed after as many rounds as there are places, and no larger than any *)
(* closed set with B.                                                      *)
Spreads(N, B, R, F) ==
    F[0] = B /\ \A n \in 1 .. N : F[n] = F[n - 1] \cup {j \in 1 .. N : \E i \in F[n - 1] : <<i, j>> \in R}
ClosedUnder(N, R, S) == \A i \in S : \A j \in 1 .. N : <<i, j>> \in R => j \in S

(* Every round stays among the places there are and has the start.         *)
LEMMA SpreadIn ==
    ASSUME NEW N \in Nat, NEW B \in SUBSET (1 .. N), NEW R, NEW F, Spreads(N, B, R, F)
    PROVE  \A n \in 0 .. N : F[n] \subseteq 1 .. N /\ B \subseteq F[n]
<1> DEFINE S == {n \in 0 .. N : F[n] \subseteq 1 .. N /\ B \subseteq F[n]}
<1>1. 0 \in S
  <2>1. F[0] = B /\ 0 \in 0 .. N
    BY DEF Spreads
  <2> QED BY <2>1
<1>2. \A n \in 1 .. N : n - 1 \in S => n \in S
  BY DEF Spreads
<1>3. \A n \in 0 .. N : n \in S
  <2> HIDE DEF S
  <2> QED BY <1>1, <1>2, Upwards
<1> QED BY <1>3

(* Every round stays within a closed set that the start is part of.        *)
LEMMA SpreadLeast ==
    ASSUME NEW N \in Nat, NEW B \in SUBSET (1 .. N), NEW R, NEW F, Spreads(N, B, R, F),
           NEW T, B \subseteq T, ClosedUnder(N, R, T)
    PROVE  F[N] \subseteq T
<1> DEFINE S == {n \in 0 .. N : F[n] \subseteq T}
<1>1. 0 \in S
  <2>1. F[0] = B /\ 0 \in 0 .. N
    BY DEF Spreads
  <2> QED BY <2>1
<1>2. ASSUME NEW n \in 1 .. N, n - 1 \in S PROVE n \in S
  <2>1. F[n - 1] \subseteq T /\ F[n] = F[n - 1] \cup {j \in 1 .. N : \E i \in F[n - 1] : <<i, j>> \in R}
    BY <1>2 DEF Spreads
  <2>2. F[n] \subseteq T
    BY <2>1 DEF ClosedUnder
  <2> QED BY <2>2
<1>3. \A n \in 0 .. N : n \in S
  <2> HIDE DEF S
  <2> QED BY <1>1, <1>2, Upwards
<1> QED BY <1>3

(* After as many rounds as there are places nothing can be added.          *)
LEMMA SpreadCloses ==
    ASSUME NEW N \in Nat, NEW B \in SUBSET (1 .. N), NEW R, NEW F, Spreads(N, B, R, F)
    PROVE  ClosedUnder(N, R, F[N])
<1>1. \A n \in 0 .. N : F[n] \subseteq 1 .. N /\ IsFiniteSet(F[n]) /\ Cardinality(F[n]) \in Nat
  <2>1. IsFiniteSet(1 .. N)
    BY FS_Interval
  <2> QED BY <2>1, SpreadIn, FS_Subset, FS_CardinalityType
<1> DEFINE S == {n \in 0 .. N : ClosedUnder(N, R, F[n]) \/ Cardinality(F[n]) >= n + 1}
<1>2. 0 \in S
  <2>1. CASE F[0] = {}
    BY <2>1 DEF ClosedUnder
  <2>2. CASE F[0] # {}
    <3>1. Cardinality(F[0]) # 0
      BY <1>1, <2>2, FS_EmptySet
    <3> QED BY <1>1, <3>1
  <2> QED BY <2>1, <2>2
<1>3. ASSUME NEW n \in 1 .. N, n - 1 \in S PROVE n \in S
  <2>1. n - 1 \in 0 .. N /\ n \in 0 .. N /\ (n - 1) + 1 = n
    OBVIOUS
  <2>2. F[n] = F[n - 1] \cup {j \in 1 .. N : \E i \in F[n - 1] : <<i, j>> \in R}
    BY DEF Spreads
  <2>3. CASE ClosedUnder(N, R, F[n - 1])
    <3>1. F[n] = F[n - 1]
      BY <2>2, <2>3 DEF ClosedUnder
    <3> QED BY <2>1, <2>3, <3>1
  <2>4. CASE ~ClosedUnder(N, R, F[n - 1])
    <3>1. Cardinality(F[n - 1]) >= n
      BY <1>3, <2>1, <2>4
    <3>2. PICK j \in 1 .. N : j \notin F[n - 1] /\ j \in F[n]
      BY <2>2, <2>4 DEF ClosedUnder
    <3>3. Cardinality(F[n - 1] \cup {j}) = Cardinality(F[n - 1]) + 1 /\ IsFiniteSet(F[n - 1] \cup {j})
      BY <1>1, <2>1, <3>2, FS_AddElement
    <3>4. F[n - 1] \cup {j} \subseteq F[n] /\ IsFiniteSet(F[n])
      BY <1>1, <2>1, <2>2, <3>2
    <3>5. Cardinality(F[n - 1] \cup {j}) <= Cardinality(F[n])
      BY <3>4, FS_Subset
    <3>6. Cardinality(F[n - 1]) \in Nat /\ Cardinality(F[n]) \in Nat
      BY <1>1, <2>1
    <3>7. Cardinality(F[n]) >= n + 1
      BY <3>1, <3>3, <3>5, <3>6
    <3> QED BY <2>1, <3>7
  <2> QED BY <2>3, <2>4
<1>4. N \in S
  <2>1. \A n \in 0 .. N : n \in S
    <3> HIDE DEF S
    <3> QED BY <1>2, <1>3, Upwards
  <2> QED BY <2>1
<1>5. ~(Cardinality(F[N]) >= N + 1)
  <2>1. IsFiniteSet(1 .. N) /\ Cardinality(1 .. N) = N
    BY FS_Interval
  <2>2. Cardinality(F[N]) <= N
    <3>1. F[N] \subseteq 1 .. N
      BY <1>1
    <3> QED BY <2>1, <3>1, FS_Subset
  <2>3. Cardinality(F[N]) \in Nat
    BY <1>1
  <2> QED BY <2>2, <2>3
<1> QED BY <1>4, <1>5

-----------------------------------------------------------------------------
(* What is marked (phases 0 to 2 of gc_collect).                           *)

GcObjects == [id : Nat, at : Nat, data : Seq(Nat)]
Heaps == [from : 1 .. 2, table : [1 .. 2 -> Seq(GcObjects)], used : [1 .. 2 -> Nat]]
Objs(h) == h.table[h.from]

(* Where the spaces begin.                                                 *)
LEMMA Bases ==
    /\ GcSpace \in Nat /\ \A s \in 1 .. 2 : GcBase[s] \in Nat /\ GcBase[s] >= 2
    /\ GcBase[1] + GcSpace <= GcBase[2] \/ GcBase[2] + GcSpace <= GcBase[1]
<1>1. \A s \in 1 .. 2 : GcBase[s] \in Nat \ {0, 1}
  BY GcAssumption
<1>2. ASSUME NEW s \in 1 .. 2 PROVE GcBase[s] \in Nat /\ GcBase[s] >= 2
  <2>1. PICK b \in Nat \ {0, 1} : b = GcBase[s]
    BY <1>1
  <2> QED BY <2>1
<1> QED BY <1>2, GcAssumption

(* The parts of a heap.                                                    *)
LEMMA HeapParts ==
    ASSUME NEW h \in Heaps
    PROVE  /\ h.from \in 1 .. 2 /\ Other(h.from) \in 1 .. 2 /\ Other(h.from) # h.from
           /\ Other(Other(h.from)) = h.from
           /\ \A s \in 1 .. 2 : h.table[s] \in Seq(GcObjects) /\ h.used[s] \in Nat
           /\ Len(Objs(h)) \in Nat /\ Objs(h) \in Seq(GcObjects)
           /\ \A i \in 1 .. Len(Objs(h)) : Objs(h)[i] \in GcObjects
<1>1. h.from \in 1 .. 2 /\ h.table \in [1 .. 2 -> Seq(GcObjects)] /\ h.used \in [1 .. 2 -> Nat]
  BY DEF Heaps
<1>2. Objs(h) \in Seq(GcObjects)
  BY <1>1 DEF Objs
<1>3. Len(Objs(h)) \in Nat /\ \A i \in 1 .. Len(Objs(h)) : Objs(h)[i] \in GcObjects
  BY <1>2, ElementOfSeq
<1>4. Other(h.from) \in 1 .. 2 /\ Other(h.from) # h.from /\ Other(Other(h.from)) = h.from
  BY <1>1 DEF Other
<1> QED BY <1>1, <1>2, <1>3, <1>4

(* Which objects of from_space a root names, and which object leads to     *)
(* which by a word in its data.                                            *)
Heads(h, roots) == {i \in 1 .. Len(Objs(h)) : \E r \in roots : <<h.from, i>> \in Headers(h, r)}
LeadsTo(h, i, j) == \E k \in DOMAIN Objs(h)[i].data : Within(h, Objs(h)[i].data[k], j)
Leads(h) == {p \in (1 .. Len(Objs(h))) \X (1 .. Len(Objs(h))) : LeadsTo(h, p[1], p[2])}

(* Marked is the last round of such a spread along Leads.                  *)
LEMMA MarkedSteps ==
    ASSUME NEW h \in Heaps, NEW roots
    PROVE  \E F : Spreads(Len(Objs(h)), Heads(h, roots), Leads(h), F) /\ Marked(h, roots) = F[Len(Objs(h))]
<1>0. PICK N \in Nat : N = Len(Objs(h))
  BY HeapParts
<1> DEFINE More(S) == {j \in 1 .. N : \E i \in S : LeadsTo(h, i, j)}
           Def(F) == F = [n \in 0 .. N |-> IF n = 0 THEN Heads(h, roots) ELSE F[n - 1] \cup More(F[n - 1])]
<1>1. PICK next : next = [n \in 1 .. N |-> [x \in SUBSET (1 .. N) |-> x \cup More(x)]]
  OBVIOUS
<1>2. PICK F : Steps(N, SUBSET (1 .. N), Heads(h, roots), next, F)
  <2>1. next \in [1 .. N -> [SUBSET (1 .. N) -> SUBSET (1 .. N)]]
    BY <1>1
  <2>2. Heads(h, roots) \in SUBSET (1 .. N)
    BY <1>0 DEF Heads
  <2> QED BY <2>1, <2>2, StepByStep
<1>3. F \in [0 .. N -> SUBSET (1 .. N)] /\ F[0] = Heads(h, roots) /\ \A n \in 1 .. N : F[n] = next[n][F[n - 1]]
  BY <1>2 DEF Steps
<1>4. \A n \in 1 .. N : F[n] = F[n - 1] \cup More(F[n - 1])
  <2> SUFFICES ASSUME NEW n \in 1 .. N PROVE F[n] = F[n - 1] \cup More(F[n - 1])
    OBVIOUS
  <2>1. n - 1 \in 0 .. N
    OBVIOUS
  <2>2. F[n - 1] \in SUBSET (1 .. N)
    BY <1>3, <2>1
  <2> HIDE DEF More
  <2>3. next[n][F[n - 1]] = F[n - 1] \cup More(F[n - 1])
    BY <1>1, <2>2
  <2> QED BY <1>3, <2>3
<1>5. Def(F)
  <2> HIDE DEF More
  <2>1. \A n \in 0 .. N : F[n] = IF n = 0 THEN Heads(h, roots) ELSE F[n - 1] \cup More(F[n - 1])
    <3>1. \A n \in 0 .. N : n = 0 \/ n \in 1 .. N
      OBVIOUS
    <3> QED BY <1>3, <1>4, <3>1
  <2>2. F = [n \in 0 .. N |-> F[n]]
    BY <1>3
  <2> QED BY <2>1, <2>2
<1>6. PICK G : G = CHOOSE H : Def(H)
  OBVIOUS
<1>7. Def(G)
  <2> HIDE DEF Def
  <2> QED BY <1>5, <1>6
<1>8. Marked(h, roots) = G[N]
  <2> DEFINE RawHeads == {i \in Indices(h) : \E r \in roots : <<h.from, i>> \in Headers(h, r)}
             RawMore(S) == {j \in Indices(h) : \E i \in S : \E k \in DOMAIN Objs(h)[i].data :
                                         Within(h, Objs(h)[i].data[k], j)}
             RawDef(F_1) == F_1 = [n \in 0 .. Len(Objs(h)) |-> IF n = 0 THEN RawHeads ELSE F_1[n - 1] \cup RawMore(F_1[n - 1])]
  <2>1. Marked(h, roots) = (CHOOSE H : RawDef(H))[Len(Objs(h))]
    BY DEF Marked, Objs
  <2>2. RawHeads = Heads(h, roots) /\ \A S : RawMore(S) = More(S)
    BY <1>0 DEF Heads, Indices, Objs, LeadsTo
  <2>3. \A H : RawDef(H) <=> Def(H)
    <3> HIDE DEF RawHeads, RawMore, More
    <3> QED BY <1>0, <2>2
  <2>4. (CHOOSE H : RawDef(H)) = (CHOOSE H : Def(H))
    <3> HIDE DEF RawDef, Def
    <3> QED BY <2>3
  <2> QED BY <1>0, <1>6, <2>1, <2>4
<1>9. G[0] = Heads(h, roots) /\ \A n \in 1 .. N : G[n] = G[n - 1] \cup More(G[n - 1])
  <2> HIDE DEF More
  <2>1. \A n \in 0 .. N : G[n] = IF n = 0 THEN Heads(h, roots) ELSE G[n - 1] \cup More(G[n - 1])
    BY <1>7
  <2>2. 0 \in 0 .. N /\ \A n \in 1 .. N : n \in 0 .. N /\ n # 0
    OBVIOUS
  <2> QED BY <2>1, <2>2
<1>10. \A n \in 0 .. N : G[n] \subseteq 1 .. N
  <2> DEFINE S == {n \in 0 .. N : G[n] \subseteq 1 .. N}
  <2>1. 0 \in S /\ \A n \in 1 .. N : n - 1 \in S => n \in S
    <3>1. Heads(h, roots) \subseteq 1 .. N /\ \A x : More(x) \subseteq 1 .. N
      BY <1>0 DEF Heads
    <3> HIDE DEF More
    <3> QED BY <1>9, <3>1
  <2>2. \A n \in 0 .. N : n \in S
    <3> HIDE DEF S
    <3> QED BY <2>1, Upwards
  <2> QED BY <2>2
<1>11. ASSUME NEW n \in 1 .. N
       PROVE G[n] = G[n - 1] \cup {j \in 1 .. N : \E i \in G[n - 1] : <<i, j>> \in Leads(h)}
  <2>1. n - 1 \in 0 .. N
    OBVIOUS
  <2>2. G[n - 1] \subseteq 1 .. N
    BY <1>10, <2>1
  <2>3. \A i \in G[n - 1], j \in 1 .. N : <<i, j>> \in Leads(h) <=> LeadsTo(h, i, j)
    BY <1>0, <2>2 DEF Leads
  <2>4. More(G[n - 1]) = {j \in 1 .. N : \E i \in G[n - 1] : <<i, j>> \in Leads(h)}
    BY <2>3
  <2> HIDE DEF More
  <2> QED BY <1>9, <2>4
<1>12. Spreads(N, Heads(h, roots), Leads(h), G)
  BY <1>9, <1>11 DEF Spreads
<1> QED BY <1>0, <1>8, <1>12

(* What is marked is what the roots name, all it leads to, and nothing     *)
(* that a closed set with the roots lacks.                                 *)
LEMMA MarkedCloses ==
    ASSUME NEW h \in Heaps, NEW roots, NEW N \in Nat, N = Len(Objs(h)), NEW M, M = Marked(h, roots)
    PROVE  /\ M \subseteq 1 .. N /\ Heads(h, roots) \subseteq M
           /\ \A i \in M : \A j \in 1 .. N : LeadsTo(h, i, j) => j \in M
<1>1. PICK F : Spreads(N, Heads(h, roots), Leads(h), F) /\ M = F[N]
  BY MarkedSteps
<1>2. Heads(h, roots) \in SUBSET (1 .. N)
  BY DEF Heads
<1>3. M \subseteq 1 .. N /\ Heads(h, roots) \subseteq M
  <2>1. N \in 0 .. N
    OBVIOUS
  <2> QED BY <1>1, <1>2, <2>1, SpreadIn
<1>4. ClosedUnder(N, Leads(h), M)
  BY <1>1, <1>2, SpreadCloses
<1>5. ASSUME NEW i \in M, NEW j \in 1 .. N, LeadsTo(h, i, j) PROVE j \in M
  <2>1. i \in 1 .. N
    BY <1>3
  <2>2. <<i, j>> \in Leads(h)
    BY <1>5, <2>1 DEF Leads
  <2> QED BY <1>4, <2>2 DEF ClosedUnder
<1> QED BY <1>3, <1>5

(* A closed set that has what the roots name has all that is marked.       *)
LEMMA MarkedLeast ==
    ASSUME NEW h \in Heaps, NEW roots, NEW N \in Nat, N = Len(Objs(h)),
           NEW T, Heads(h, roots) \subseteq T, T \subseteq 1 .. N,
           \A i \in T : \A j \in 1 .. N : LeadsTo(h, i, j) => j \in T
    PROVE  Marked(h, roots) \subseteq T
<1>1. PICK F : Spreads(N, Heads(h, roots), Leads(h), F) /\ Marked(h, roots) = F[N]
  BY MarkedSteps
<1>2. Heads(h, roots) \in SUBSET (1 .. N)
  BY DEF Heads
<1>3. ClosedUnder(N, Leads(h), T)
  BY DEF Leads, ClosedUnder
<1> QED BY <1>1, <1>2, <1>3, SpreadLeast

-----------------------------------------------------------------------------
(* One turn of the copying loop (phase 3).                                 *)

(* One turn of the copying loop, field by field.                           *)
Placed(o, a) == [o EXCEPT !.at = a]
NewPlace(h) == GcBase[Other(h.from)] + h.used[Other(h.from)] + 1

(* An object redirected is the object, but for the word exchanged.         *)
LEMMA RedirectedLemma ==
    ASSUME NEW o \in GcObjects, NEW old, NEW new \in Nat
    PROVE  /\ Redirected(o, old, new) \in GcObjects
           /\ Redirected(o, old, new).id = o.id /\ Redirected(o, old, new).at = o.at
           /\ Len(Redirected(o, old, new).data) = Len(o.data)
           /\ \A k \in 1 .. Len(o.data) :
                Redirected(o, old, new).data[k] = IF o.data[k] = old THEN new ELSE o.data[k]
<1>1. o.id \in Nat /\ o.at \in Nat /\ o.data \in Seq(Nat)
  BY DEF GcObjects
<1>2. PICK l \in Nat : l = Len(o.data) /\ DOMAIN o.data = 1 .. l /\ \A k \in 1 .. l : o.data[k] \in Nat
  <2>1. Len(o.data) \in Nat /\ DOMAIN o.data = 1 .. Len(o.data) /\ \A k \in 1 .. Len(o.data) : o.data[k] \in Nat
    BY <1>1, ElementOfSeq
  <2> QED BY <2>1
<1>3. PICK d : d = [k \in 1 .. l |-> IF o.data[k] = old THEN new ELSE o.data[k]]
  OBVIOUS
<1>4. d \in Seq(Nat) /\ Len(d) = l
  <2>1. \A k \in 1 .. l : (IF o.data[k] = old THEN new ELSE o.data[k]) \in Nat
    BY <1>2
  <2>2. d \in [1 .. l -> Nat]
    BY <1>3, <2>1
  <2> QED BY <2>2
<1>5. Redirected(o, old, new) = [o EXCEPT !.data = d]
  BY <1>2, <1>3 DEF Redirected
<1>6. Redirected(o, old, new) = [id |-> o.id, at |-> o.at, data |-> d]
  BY <1>5 DEF GcObjects
<1> QED BY <1>1, <1>2, <1>3, <1>4, <1>6 DEF GcObjects

(* A turn adds one copy, and redirects the words of what is marked.        *)
LEMMA CopyOneFacts ==
    ASSUME NEW h \in Heaps, NEW M, NEW i \in 1 .. Len(Objs(h)), NEW f, f = h.from, NEW t, t = Other(f),
           NEW g, g = CopyOne(h, M, i), NEW N \in Nat, N = Len(Objs(h))
    PROVE  /\ g \in Heaps /\ g.from = f /\ Len(Objs(g)) = N
           /\ \A j \in 1 .. N :
                  Objs(g)[j] = IF j \in M THEN Redirected(Objs(h)[j], DataAddr(f, Objs(h)[i]), NewPlace(h)) ELSE Objs(h)[j]
           /\ g.table[t] = Append(h.table[t], Placed(Objs(h)[i], h.used[t]))
           /\ g.used[t] = h.used[t] + Size(Objs(h)[i]) /\ g.used[f] = h.used[f]
<1>1. /\ f \in 1 .. 2 /\ t \in 1 .. 2 /\ t # f
      /\ h.table[t] \in Seq(GcObjects) /\ h.used[t] \in Nat /\ h.used[f] \in Nat
      /\ Objs(h) \in Seq(GcObjects) /\ Objs(h)[i] \in GcObjects
      /\ \A j \in 1 .. N : Objs(h)[j] \in GcObjects
  BY HeapParts
<1>2. PICK copy : copy = [Objs(h)[i] EXCEPT !.at = h.used[t]]
  OBVIOUS
<1>3. copy \in GcObjects /\ copy.at = h.used[t]
      /\ copy.data = Objs(h)[i].data /\ Len(copy.data) \in Nat
  <2>1. Objs(h)[i].id \in Nat /\ Objs(h)[i].data \in Seq(Nat)
    BY <1>1 DEF GcObjects
  <2>2. copy = [id |-> Objs(h)[i].id, at |-> h.used[t], data |-> Objs(h)[i].data]
    BY <1>1, <1>2 DEF GcObjects
  <2>3. copy.at = h.used[t] /\ copy.data = Objs(h)[i].data /\ copy.id = Objs(h)[i].id
    BY <2>2
  <2>4. copy \in GcObjects
    BY <1>1, <2>1, <2>2 DEF GcObjects
  <2> QED BY <2>1, <2>3, <2>4
<1>4. DataAddr(t, copy) = NewPlace(h)
  BY <1>3 DEF DataAddr, NewPlace
<1>5. NewPlace(h) \in Nat
  <2>1. PICK b \in Nat, u \in Nat : b = GcBase[t] /\ u = h.used[t]
    BY <1>1, HeapParts, Bases
  <2> QED BY <1>1, <2>1 DEF NewPlace
<1>6. PICK r : r = [j \in 1 .. N |-> IF j \in M THEN Redirected(Objs(h)[j], DataAddr(f, Objs(h)[i]), NewPlace(h)) ELSE Objs(h)[j]]
  OBVIOUS
<1>7. r \in Seq(GcObjects) /\ Len(r) = N
  <2>1. \A j \in 1 .. N : r[j] \in GcObjects
    BY <1>1, <1>5, <1>6, RedirectedLemma
  <2>2. r \in [1 .. N -> GcObjects]
    BY <1>6, <2>1
  <2> QED BY <2>2
<1>8. g = [h EXCEPT !.table[h.from] = r, !.table[t] = Append(@, copy), !.used[t] = @ + Size(copy)]
  <2>1. DOMAIN Objs(h) = 1 .. N
    BY <1>1
  <2>2. CopyOne(h, M, i) =
            LET objs == Objs(h)
                to == Other(h.from)
                new == DataAddr(to, copy)
                old == DataAddr(h.from, objs[i])
                redirected == [j \in DOMAIN objs |->
                          IF j \in M THEN Redirected(objs[j], old, new) ELSE objs[j]]
            IN [h EXCEPT !.table[h.from] = redirected, !.table[to] = Append(@, copy), !.used[to] = @ + Size(copy)]
    BY <1>2 DEF CopyOne, Objs
  <2>3. r = [j \in DOMAIN Objs(h) |-> IF j \in M THEN Redirected(Objs(h)[j], DataAddr(h.from, Objs(h)[i]), DataAddr(Other(h.from), copy)) ELSE Objs(h)[j]]
    BY <1>4, <1>6, <2>1
  <2> QED BY <2>2, <2>3
<1>9. Append(h.table[t], copy) \in Seq(GcObjects)
  BY <1>1, <1>3, AppendProperties
<1>10. Size(copy) \in Nat /\ Size(copy) = Size(Objs(h)[i])
  BY <1>3 DEF Size
<1>11. /\ g.from = f /\ g.table = [h.table EXCEPT ![f] = r, ![t] = Append(h.table[t], copy)]
       /\ g.used = [h.used EXCEPT ![t] = @ + Size(copy)]
       /\ g = [from |-> g.from, table |-> g.table, used |-> g.used]
  <2>1. h.table \in [1 .. 2 -> Seq(GcObjects)] /\ DOMAIN h.table = 1 .. 2 /\ [h.table EXCEPT ![f] = r][t] = h.table[t]
    BY <1>1 DEF Heaps
  <2> HIDE DEF Size
  <2> QED BY <1>1, <1>8, <2>1 DEF Heaps
<1>12. /\ g.table \in [1 .. 2 -> Seq(GcObjects)] /\ g.table[f] = r /\ g.table[t] = Append(h.table[t], copy)
  <2>1. h.table \in [1 .. 2 -> Seq(GcObjects)]
    BY DEF Heaps
  <2> QED BY <1>1, <1>7, <1>9, <1>11, <2>1
<1>13. g.used \in [1 .. 2 -> Nat] /\ g.used[f] = h.used[f] /\ g.used[t] = h.used[t] + Size(copy)
  <2>1. h.used \in [1 .. 2 -> Nat] /\ h.used[t] + Size(copy) \in Nat
    BY <1>1, <1>10 DEF Heaps
  <2> QED BY <1>1, <1>11, <2>1
<1>14. g \in Heaps
  BY <1>1, <1>11, <1>12, <1>13 DEF Heaps
<1>15. Objs(g) = r
  BY <1>11, <1>12 DEF Objs
<1>16. Placed(Objs(h)[i], h.used[t]) = copy
  BY <1>2 DEF Placed
<1>17. g.table[t] = Append(h.table[t], Placed(Objs(h)[i], h.used[t]))
  BY <1>12, <1>16
<1>18. g.used[t] = h.used[t] + Size(Objs(h)[i]) /\ g.used[f] = h.used[f]
  BY <1>10, <1>13
<1>19. Len(Objs(g)) = N
  BY <1>7, <1>15
<1>20. \A j \in 1 .. N :
           Objs(g)[j] = IF j \in M THEN Redirected(Objs(h)[j], DataAddr(f, Objs(h)[i]), NewPlace(h)) ELSE Objs(h)[j]
  BY <1>6, <1>15
<1> QED BY <1>11, <1>14, <1>17, <1>18, <1>19, <1>20

(* The same of the to_space, where the copy goes.                          *)
LEMMA CopyOneTo ==
    ASSUME NEW h \in Heaps, NEW M, NEW i \in 1 .. Len(Objs(h)), NEW t, t = Other(h.from)
    PROVE  /\ CopyOne(h, M, i).table[t] = Append(h.table[t], Placed(Objs(h)[i], h.used[t]))
           /\ CopyOne(h, M, i).used[t] = h.used[t] + Size(Objs(h)[i])
<1>1. PICK f, g : f = h.from /\ g = CopyOne(h, M, i)
  OBVIOUS
<1>2. PICK N \in Nat : N = Len(Objs(h))
  BY HeapParts
<1>3. g.table[t] = Append(h.table[t], Placed(Objs(h)[i], h.used[t])) /\ g.used[t] = h.used[t] + Size(Objs(h)[i])
  BY <1>1, <1>2, CopyOneFacts
<1> QED BY <1>1, <1>3

(* A turn leaves a heap with as many objects in from_space.                *)
LEMMA CopyOneType ==
    ASSUME NEW h \in Heaps, NEW M, NEW i \in 1 .. Len(Objs(h))
    PROVE  CopyOne(h, M, i) \in Heaps /\ CopyOne(h, M, i).from = h.from /\ Len(Objs(CopyOne(h, M, i))) = Len(Objs(h))
<1>1. PICK f, t, g : f = h.from /\ t = Other(f) /\ g = CopyOne(h, M, i)
  OBVIOUS
<1>2. PICK N \in Nat : N = Len(Objs(h))
  BY HeapParts
<1>3. g \in Heaps /\ g.from = f /\ Len(Objs(g)) = N
  BY <1>1, <1>2, CopyOneFacts
<1> QED BY <1>1, <1>2, <1>3

(* The heap after each turn of the copying loop.                           *)
CopyRun(h, M, N, G) ==
    /\ G[0] = h
    /\ \A n \in 0 .. N : G[n] \in Heaps /\ G[n].from = h.from /\ Len(Objs(G[n])) = N
    /\ \A n \in 1 .. N : G[n] = IF n \in M THEN CopyOne(G[n - 1], M, n) ELSE G[n - 1]

(* The loop is such a run of turns.                                        *)
LEMMA CopiedRun ==
    ASSUME NEW h \in Heaps, NEW M, NEW N \in Nat, N = Len(Objs(h))
    PROVE  \E G : CopyRun(h, M, N, G) /\ Copied(h, M) = G[N]
<1> DEFINE T == {g \in Heaps : g.from = h.from /\ Len(Objs(g)) = N}
           Turn(g, n) == IF n \in M THEN CopyOne(g, M, n) ELSE g
           Def(F) == F = [n \in 0 .. N |-> IF n = 0 THEN h ELSE Turn(F[n - 1], n)]
<1>0. \A g \in T : \A n \in 1 .. N : Turn(g, n) \in T
  <2> SUFFICES ASSUME NEW g \in T, NEW n \in 1 .. N PROVE Turn(g, n) \in T
    OBVIOUS
  <2>1. g \in Heaps /\ g.from = h.from /\ n \in 1 .. Len(Objs(g)) /\ N = Len(Objs(g))
    OBVIOUS
  <2>2. CopyOne(g, M, n) \in Heaps /\ CopyOne(g, M, n).from = g.from /\ Len(Objs(CopyOne(g, M, n))) = Len(Objs(g))
    BY <2>1, CopyOneType
  <2> QED BY <2>1, <2>2
<1> HIDE DEF Turn
<1>1. PICK next : next = [n \in 1 .. N |-> [x \in T |-> Turn(x, n)]]
  OBVIOUS
<1>2. PICK F : Steps(N, T, h, next, F)
  <2>1. next \in [1 .. N -> [T -> T]]
    <3> HIDE DEF T
    <3> QED BY <1>0, <1>1
  <2>2. h \in T
    OBVIOUS
  <2> HIDE DEF T
  <2> QED BY <2>1, <2>2, StepByStep
<1>3. F \in [0 .. N -> T] /\ F[0] = h /\ \A n \in 1 .. N : F[n] = next[n][F[n - 1]]
  BY <1>2 DEF Steps
<1>4. \A n \in 1 .. N : F[n] = Turn(F[n - 1], n)
  <2> SUFFICES ASSUME NEW n \in 1 .. N PROVE F[n] = Turn(F[n - 1], n)
    OBVIOUS
  <2>1. n - 1 \in 0 .. N
    OBVIOUS
  <2> HIDE DEF T
  <2>2. F[n - 1] \in T
    BY <1>3, <2>1
  <2>3. next[n][F[n - 1]] = Turn(F[n - 1], n)
    BY <1>1, <2>2
  <2> QED BY <1>3, <2>3
<1>5. Def(F)
  <2>1. \A n \in 0 .. N : F[n] = IF n = 0 THEN h ELSE Turn(F[n - 1], n)
    <3>1. \A n \in 0 .. N : n = 0 \/ n \in 1 .. N
      OBVIOUS
    <3> QED BY <1>3, <1>4, <3>1
  <2>2. F = [n \in 0 .. N |-> F[n]]
    BY <1>3
  <2> QED BY <2>1, <2>2
<1>6. PICK G : G = CHOOSE H : Def(H)
  OBVIOUS
<1>7. Def(G)
  <2> HIDE DEF Def
  <2> QED BY <1>5, <1>6
<1>8. Copied(h, M) = G[N]
  BY <1>6 DEF Copied, Objs, Turn
<1>9. G[0] = h /\ \A n \in 1 .. N : G[n] = Turn(G[n - 1], n)
  <2>1. \A n \in 0 .. N : G[n] = IF n = 0 THEN h ELSE Turn(G[n - 1], n)
    BY <1>7
  <2>2. 0 \in 0 .. N /\ \A n \in 1 .. N : n \in 0 .. N /\ n # 0
    OBVIOUS
  <2> QED BY <2>1, <2>2
<1>10. \A n \in 0 .. N : G[n] \in T
  <2> DEFINE S == {n \in 0 .. N : G[n] \in T}
  <2>1. 0 \in S /\ \A n \in 1 .. N : n - 1 \in S => n \in S
    <3>1. h \in T
      OBVIOUS
    <3> HIDE DEF T
    <3> QED BY <1>0, <1>9, <3>1
  <2>2. \A n \in 0 .. N : n \in S
    <3> HIDE DEF S
    <3> QED BY <2>1, Upwards
  <2> QED BY <2>2
<1>11. CopyRun(h, M, N, G)
  BY <1>9, <1>10 DEF CopyRun, Turn
<1> QED BY <1>8, <1>11

(* The objects of a space lie side by side and end where u begins.         *)
SideBySide(s, u) ==
    /\ \A i \in 1 .. Len(s) : s[i].at + Size(s[i]) = IF i = Len(s) THEN u ELSE s[i + 1].at
    /\ \A i, j \in 1 .. Len(s) : i < j => s[i].at + Size(s[i]) <= s[j].at
    /\ \A i \in 1 .. Len(s) : s[i].at + Size(s[i]) <= u

(* The fields of an object.                                                *)
LEMMA SizeType == \A o \in GcObjects : /\ Size(o) \in Nat /\ o.at \in Nat /\ o.id \in Nat /\ o.data \in Seq(Nat)
                                       /\ Size(o) = 1 + Len(o.data) /\ Len(o.data) \in Nat
<1> SUFFICES ASSUME NEW o \in GcObjects
             PROVE  /\ Size(o) \in Nat /\ o.at \in Nat /\ o.id \in Nat /\ o.data \in Seq(Nat)
                    /\ Size(o) = 1 + Len(o.data) /\ Len(o.data) \in Nat
  OBVIOUS
<1>1. o.at \in Nat /\ o.data \in Seq(Nat) /\ o.id \in Nat
  BY DEF GcObjects
<1>2. Len(o.data) \in Nat
  BY <1>1
<1> QED BY <1>1, <1>2 DEF Size

(* An object put where the space ends keeps the row without gaps.          *)
LEMMA SideAppended ==
    ASSUME NEW s \in Seq(GcObjects), NEW u \in Nat, SideBySide(s, u), NEW o \in GcObjects, o.at = u
    PROVE  SideBySide(Append(s, o), u + Size(o))
<1>1. PICK l \in Nat : l = Len(s) /\ \A i \in 1 .. l : s[i] \in GcObjects
  <2>1. Len(s) \in Nat /\ \A i \in 1 .. Len(s) : s[i] \in GcObjects
    BY ElementOfSeq
  <2> QED BY <2>1
<1>2. PICK r : r = Append(s, o)
  OBVIOUS
<1>3. Len(r) = l + 1 /\ r[l + 1] = o /\ \A i \in 1 .. l : r[i] = s[i]
  BY <1>1, <1>2, AppendProperties
<1>4. PICK e \in Nat : e = Size(o)
  BY SizeType
<1>5. /\ \A i \in 1 .. l : s[i].at + Size(s[i]) = IF i = l THEN u ELSE s[i + 1].at
      /\ \A i, j \in 1 .. l : i < j => s[i].at + Size(s[i]) <= s[j].at
      /\ \A i \in 1 .. l : s[i].at + Size(s[i]) <= u
  BY <1>1 DEF SideBySide
<1>6. \A i \in 1 .. l : s[i].at + Size(s[i]) \in Nat
  <2>1. \A i \in 1 .. l : s[i].at \in Nat /\ Size(s[i]) \in Nat
    BY <1>1, SizeType
  <2> QED BY <2>1
<1>7. ASSUME NEW i \in 1 .. l + 1
      PROVE  /\ r[i].at + Size(r[i]) = IF i = l + 1 THEN u + e ELSE r[i + 1].at
             /\ r[i].at + Size(r[i]) <= u + e
  <2>1. CASE i = l + 1
    BY <1>3, <1>4, <2>1
  <2>2. CASE i # l + 1
    <3>1. i \in 1 .. l
      BY <2>2
    <3>2. r[i] = s[i] /\ s[i].at + Size(s[i]) = (IF i = l THEN u ELSE s[i + 1].at)
          /\ s[i].at + Size(s[i]) <= u /\ s[i].at + Size(s[i]) \in Nat
      BY <1>3, <1>5, <1>6, <3>1
    <3>3. r[i + 1].at = IF i = l THEN u ELSE s[i + 1].at
      <4>1. CASE i = l
        BY <1>3, <4>1
      <4>2. CASE i # l
        <5>1. i + 1 \in 1 .. l
          BY <3>1, <4>2
        <5> QED BY <1>3, <4>2, <5>1
      <4> QED BY <4>1, <4>2
    <3>4. PICK q \in Nat : q = s[i].at + Size(s[i])
      BY <3>2
    <3>5. q <= u + e
      BY <3>2, <3>4
    <3> QED BY <2>2, <3>2, <3>3, <3>4, <3>5
  <2> QED BY <2>1, <2>2
<1>8. ASSUME NEW i \in 1 .. l + 1, NEW j \in 1 .. l + 1, i < j PROVE r[i].at + Size(r[i]) <= r[j].at
  <2>1. i \in 1 .. l /\ r[i] = s[i]
    BY <1>3, <1>8
  <2>2. CASE j = l + 1
    BY <1>3, <1>5, <2>1, <2>2
  <2>3. CASE j # l + 1
    <3>1. j \in 1 .. l /\ r[j] = s[j]
      BY <1>3, <2>3
    <3> QED BY <1>5, <1>8, <2>1, <3>1
  <2> QED BY <2>2, <2>3
<1> QED BY <1>2, <1>3, <1>4, <1>7, <1>8 DEF SideBySide

-----------------------------------------------------------------------------
(* How the copies lie after each turn.                                     *)

(* An object moved is the object, but for its place.                       *)
LEMMA PlacedLemma ==
    ASSUME NEW o \in GcObjects, NEW a \in Nat
    PROVE  /\ Placed(o, a) \in GcObjects /\ Placed(o, a).id = o.id /\ Placed(o, a).at = a
           /\ Placed(o, a).data = o.data /\ Size(Placed(o, a)) = Size(o)
<1>1. o.id \in Nat /\ o.data \in Seq(Nat)
  BY DEF GcObjects
<1>2. Placed(o, a) = [id |-> o.id, at |-> a, data |-> o.data]
  BY DEF GcObjects, Placed
<1>3. Placed(o, a).id = o.id /\ Placed(o, a).at = a /\ Placed(o, a).data = o.data
  BY <1>2
<1>4. Placed(o, a) \in GcObjects
  BY <1>1, <1>2 DEF GcObjects
<1> QED BY <1>3, <1>4 DEF Size

(* What the collector starts from: an empty to_space, and a from_space     *)
(* whose objects lie side by side.                                         *)
WellLaid(h) ==
    /\ SideBySide(Objs(h), h.used[h.from]) /\ h.used[h.from] <= GcSpace
    /\ h.table[Other(h.from)] = <<>> /\ h.used[Other(h.from)] = 0

(* The copy of object i is the last one there after turn i.                *)
CopyIndex(G, t, i) == Len(G[i].table[t])
CopyOf(G, t, i) == Placed(Objs(G[i - 1])[i], G[i - 1].used[t])

(* What holds after n turns.                                               *)
CopiesFit(h, N, g, f, t, n) ==
    /\ SideBySide(g.table[t], g.used[t])
    /\ g.used[t] <= h.used[f] /\ \A j \in 1 .. N : j > n => g.used[t] <= Objs(h)[j].at
    /\ \A j \in 1 .. N : /\ Objs(g)[j].id = Objs(h)[j].id /\ Objs(g)[j].at = Objs(h)[j].at
                         /\ Len(Objs(g)[j].data) = Len(Objs(h)[j].data)
CopiesKept(M, G, g, t, n) ==
    /\ \A i \in M : i <= n => /\ CopyIndex(G, t, i) \in 1 .. Len(g.table[t])
                              /\ g.table[t][CopyIndex(G, t, i)] = CopyOf(G, t, i)
    /\ \A c \in 1 .. Len(g.table[t]) : \E i \in M : i <= n /\ c = CopyIndex(G, t, i)
Copying(h, M, N, G, f, t, n) == CopiesFit(h, N, G[n], f, t, n) /\ CopiesKept(M, G, G[n], t, n)

(* Before the first turn there is no copy.                                 *)
LEMMA CopyStarts ==
    ASSUME NEW h \in Heaps, WellLaid(h), NEW N \in Nat, N = Len(Objs(h)),
           NEW M, M \subseteq 1 .. N, NEW G, CopyRun(h, M, N, G),
           NEW f, f = h.from, NEW t, t = Other(f)
    PROVE  Copying(h, M, N, G, f, t, 0)
<1>1. G[0] = h /\ h.table[t] = <<>> /\ h.used[t] = 0 /\ h.used[f] \in Nat
  BY HeapParts DEF CopyRun, WellLaid
<1>2. Len(h.table[t]) = 0 /\ 1 .. 0 = {}
  BY <1>1
<1>3. SideBySide(h.table[t], 0)
  BY <1>2 DEF SideBySide
<1>4. \A j \in 1 .. N : Objs(h)[j].at \in Nat
  BY HeapParts, SizeType
<1>5. \A i \in M : ~(i <= 0)
  OBVIOUS
<1>6. PICK g : g = G[0] /\ g = h
  BY <1>1
<1>7. /\ SideBySide(g.table[t], g.used[t])
      /\ g.used[t] <= h.used[f] /\ \A j \in 1 .. N : j > 0 => g.used[t] <= Objs(h)[j].at
  BY <1>1, <1>3, <1>4, <1>6
<1>8. \A c \in 1 .. Len(g.table[t]) : FALSE
  BY <1>1, <1>2, <1>6
<1>9. CopiesFit(h, N, g, f, t, 0)
  BY <1>6, <1>7 DEF CopiesFit
<1>10. CopiesKept(M, G, g, t, 0)
  BY <1>5, <1>8 DEF CopiesKept
<1> QED BY <1>6, <1>9, <1>10 DEF Copying

(* Each turn keeps what holds of the copies.                               *)
LEMMA CopyTurn ==
    ASSUME NEW h \in Heaps, WellLaid(h), NEW N \in Nat, N = Len(Objs(h)),
           NEW M, M \subseteq 1 .. N, NEW G, CopyRun(h, M, N, G),
           NEW f, f = h.from, NEW t, t = Other(f), NEW n \in 1 .. N, Copying(h, M, N, G, f, t, n - 1)
    PROVE  Copying(h, M, N, G, f, t, n)
<1>0. PICK m \in 0 .. N : m = n - 1
  OBVIOUS
<1>1. CASE n \notin M
  <2>1. G[n] = G[m]
    BY <1>0, <1>1 DEF CopyRun
  <2>2. \A i \in M : i <= n <=> i <= m
    BY <1>0, <1>1
  <2>3. \A j \in 1 .. N : j > n => j > m
    BY <1>0
  <2>4. Copying(h, M, N, G, f, t, m)
    BY <1>0
  <2>5. PICK g : g = G[n] /\ g = G[m]
    BY <2>1
  <2>6. /\ SideBySide(g.table[t], g.used[t])
        /\ g.used[t] <= h.used[f] /\ \A j \in 1 .. N : j > m => g.used[t] <= Objs(h)[j].at
        /\ \A j \in 1 .. N : /\ Objs(g)[j].id = Objs(h)[j].id /\ Objs(g)[j].at = Objs(h)[j].at
                             /\ Len(Objs(g)[j].data) = Len(Objs(h)[j].data)
    BY <2>4, <2>5 DEF Copying, CopiesFit, CopiesKept
  <2>7. /\ \A i \in M : i <= m => /\ CopyIndex(G, t, i) \in 1 .. Len(g.table[t])
                                  /\ g.table[t][CopyIndex(G, t, i)] = CopyOf(G, t, i)
        /\ \A c \in 1 .. Len(g.table[t]) : \E i \in M : i <= m /\ c = CopyIndex(G, t, i)
    BY <2>4, <2>5 DEF Copying, CopiesFit, CopiesKept
  <2>8. \A j \in 1 .. N : j > n => g.used[t] <= Objs(h)[j].at
    BY <2>3, <2>6
  <2>9. /\ \A i \in M : i <= n => /\ CopyIndex(G, t, i) \in 1 .. Len(g.table[t])
                                  /\ g.table[t][CopyIndex(G, t, i)] = CopyOf(G, t, i)
        /\ \A c \in 1 .. Len(g.table[t]) : \E i \in M : i <= n /\ c = CopyIndex(G, t, i)
    BY <2>2, <2>7
  <2>10. CopiesFit(h, N, g, f, t, n)
    BY <2>6, <2>8 DEF CopiesFit
  <2>11. CopiesKept(M, G, g, t, n)
    BY <2>9 DEF CopiesKept
  <2> QED BY <2>5, <2>10, <2>11 DEF Copying
<1>2. CASE n \in M
  <2>1. PICK g, k : g = G[m] /\ k = G[n] /\ k = CopyOne(g, M, n)
    BY <1>0, <1>2 DEF CopyRun
  <2>2. /\ g \in Heaps /\ g.from = f /\ Len(Objs(g)) = N /\ n \in 1 .. Len(Objs(g))
        /\ f \in 1 .. 2 /\ t \in 1 .. 2 /\ t # f /\ \A j \in 1 .. N : Objs(g)[j] \in GcObjects
        /\ g.table[t] \in Seq(GcObjects) /\ g.used[t] \in Nat
    <3>1. /\ f \in 1 .. 2 /\ t \in 1 .. 2 /\ t # f
          /\ G[m] \in Heaps /\ G[m].from = f /\ Len(Objs(G[m])) = N
          /\ \A j \in 1 .. N : Objs(G[m])[j] \in GcObjects
          /\ G[m].table[t] \in Seq(GcObjects) /\ G[m].used[t] \in Nat
      <4>1. G[m] \in Heaps /\ G[m].from = f /\ Len(Objs(G[m])) = N
        BY DEF CopyRun
      <4> QED BY <4>1, HeapParts
    <3> QED BY <2>1, <3>1
  <2>3. PICK u \in Nat, l \in Nat, e \in Nat, o \in GcObjects :
            u = g.used[t] /\ l = Len(g.table[t]) /\ e = Size(Objs(h)[n]) /\ o = Placed(Objs(g)[n], u)
    <3>0. Objs(h)[n] \in GcObjects /\ Objs(g)[n] \in GcObjects
      BY <2>2, HeapParts
    <3>1. Len(g.table[t]) \in Nat /\ Size(Objs(h)[n]) \in Nat /\ Placed(Objs(g)[n], g.used[t]) \in GcObjects
      <4>1. Len(g.table[t]) \in Nat
        BY <2>2
      <4>2. Size(Objs(h)[n]) \in Nat
        BY <3>0, SizeType
      <4>3. Placed(Objs(g)[n], g.used[t]) \in GcObjects
        BY <2>2, <3>0, PlacedLemma
      <4> QED BY <4>1, <4>2, <4>3
    <3> QED BY <2>2, <3>1
  <2>4. /\ SideBySide(g.table[t], u) /\ u <= h.used[f] /\ \A j \in 1 .. N : j > m => u <= Objs(h)[j].at
        /\ \A j \in 1 .. N : /\ Objs(g)[j].id = Objs(h)[j].id /\ Objs(g)[j].at = Objs(h)[j].at
                             /\ Len(Objs(g)[j].data) = Len(Objs(h)[j].data)
        /\ \A i \in M : i <= m => CopyIndex(G, t, i) \in 1 .. l /\ g.table[t][CopyIndex(G, t, i)] = CopyOf(G, t, i)
        /\ \A c \in 1 .. l : \E i \in M : i <= m /\ c = CopyIndex(G, t, i)
    BY <1>0, <2>1, <2>3 DEF Copying, CopiesFit, CopiesKept
  <2>5. /\ o.at = u /\ Size(o) = e /\ Size(Objs(g)[n]) = e
    <3>1. o.at = u /\ Size(o) = Size(Objs(g)[n])
      <4>1. PICK b : b = Objs(g)[n] /\ b \in GcObjects
        BY <2>2
      <4>2. Placed(b, u).at = u /\ Size(Placed(b, u)) = Size(b)
        BY <4>1, PlacedLemma
      <4> QED BY <2>3, <4>1, <4>2
    <3>2. Size(Objs(g)[n]) = e
      BY <2>3, <2>4 DEF Size
    <3> QED BY <3>1, <3>2
  <2>6. /\ \A j \in 1 .. N :
              Objs(k)[j] = IF j \in M THEN Redirected(Objs(g)[j], DataAddr(f, Objs(g)[n]), NewPlace(g)) ELSE Objs(g)[j]
        /\ k.table[t] = Append(g.table[t], o) /\ k.used[t] = u + e
    <3>1. \A j \in 1 .. N :
              Objs(k)[j] = IF j \in M THEN Redirected(Objs(g)[j], DataAddr(f, Objs(g)[n]), NewPlace(g)) ELSE Objs(g)[j]
      BY <2>1, <2>2, CopyOneFacts
    <3>2. k.table[t] = Append(g.table[t], Placed(Objs(g)[n], g.used[t])) /\ k.used[t] = g.used[t] + Size(Objs(g)[n])
      <4>1. t = Other(g.from)
        BY <2>2
      <4>2. /\ CopyOne(g, M, n).table[t] = Append(g.table[t], Placed(Objs(g)[n], g.used[t]))
            /\ CopyOne(g, M, n).used[t] = g.used[t] + Size(Objs(g)[n])
        BY <2>2, <4>1, CopyOneTo
      <4> QED BY <2>1, <4>2
    <3> QED BY <2>3, <2>5, <3>1, <3>2
  <2>7. SideBySide(k.table[t], u + e)
    BY <2>2, <2>3, <2>4, <2>5, <2>6, SideAppended
  <2>8. u + e <= h.used[f] /\ \A j \in 1 .. N : j > n => u + e <= Objs(h)[j].at
    <3>1. /\ \A i \in 1 .. N : \A j \in 1 .. N : i < j => Objs(h)[i].at + Size(Objs(h)[i]) <= Objs(h)[j].at
          /\ \A i \in 1 .. N : Objs(h)[i].at + Size(Objs(h)[i]) <= h.used[f]
      BY DEF WellLaid, SideBySide
    <3>2. PICK a \in Nat, v \in Nat : a = Objs(h)[n].at /\ v = h.used[f]
      BY HeapParts, SizeType
    <3>3. u <= a /\ a + e <= v
      BY <1>0, <2>3, <2>4, <3>1, <3>2
    <3>4. ASSUME NEW j \in 1 .. N, j > n PROVE u + e <= Objs(h)[j].at
      <4>1. PICK b \in Nat : b = Objs(h)[j].at
        BY HeapParts, SizeType
      <4>2. a + e <= b
        BY <2>3, <3>1, <3>2, <3>4, <4>1
      <4> QED BY <3>3, <4>1, <4>2
    <3>5. u + e <= v
      BY <3>2, <3>3
    <3> QED BY <3>2, <3>4, <3>5
  <2>9. ASSUME NEW j \in 1 .. N
        PROVE  /\ Objs(k)[j].id = Objs(h)[j].id /\ Objs(k)[j].at = Objs(h)[j].at
               /\ Len(Objs(k)[j].data) = Len(Objs(h)[j].data)
    <3>1. NewPlace(g) \in Nat
      <4>1. NewPlace(g) = GcBase[t] + u + 1
        BY <2>2, <2>3 DEF NewPlace
      <4>2. PICK b \in Nat : b = GcBase[t]
        BY HeapParts, Bases
      <4> QED BY <2>3, <4>1, <4>2
    <3>2. PICK a : a = DataAddr(f, Objs(g)[n])
      OBVIOUS
    <3>3. PICK q : q = Redirected(Objs(g)[j], a, NewPlace(g))
      OBVIOUS
    <3>4. q.id = Objs(g)[j].id /\ q.at = Objs(g)[j].at /\ Len(q.data) = Len(Objs(g)[j].data)
      BY <2>2, <3>1, <3>3, RedirectedLemma
    <3> QED BY <2>4, <2>6, <3>2, <3>3, <3>4
  <2>10. /\ Len(k.table[t]) = l + 1 /\ k.table[t][l + 1] = o /\ \A c \in 1 .. l : k.table[t][c] = g.table[t][c]
    <3>1. PICK s : s = g.table[t] /\ s \in Seq(GcObjects) /\ l = Len(s)
      BY <2>2, <2>3
    <3>2. /\ Len(Append(s, o)) = l + 1 /\ Append(s, o)[l + 1] = o
          /\ \A c \in 1 .. l : Append(s, o)[c] = s[c]
      BY <3>1, AppendProperties
    <3> QED BY <2>6, <3>1, <3>2
  <2>11. CopyIndex(G, t, n) = l + 1 /\ CopyOf(G, t, n) = o
    BY <1>0, <2>1, <2>3, <2>10 DEF CopyIndex, CopyOf
  <2>12. ASSUME NEW i \in M, i <= n
         PROVE  CopyIndex(G, t, i) \in 1 .. l + 1 /\ k.table[t][CopyIndex(G, t, i)] = CopyOf(G, t, i)
    <3>1. CASE i = n
      BY <2>10, <2>11, <3>1
    <3>2. CASE i # n
      <4>1. i <= m
        BY <1>0, <2>12, <3>2
      <4>2. CopyIndex(G, t, i) \in 1 .. l /\ g.table[t][CopyIndex(G, t, i)] = CopyOf(G, t, i)
        BY <2>4, <4>1
      <4>3. PICK c \in 1 .. l : c = CopyIndex(G, t, i)
        BY <4>2
      <4>4. c \in 1 .. l + 1 /\ k.table[t][c] = g.table[t][c]
        BY <2>10
      <4> QED BY <4>2, <4>3, <4>4
    <3> QED BY <3>1, <3>2
  <2>13. ASSUME NEW c \in 1 .. l + 1 PROVE \E i \in M : i <= n /\ c = CopyIndex(G, t, i)
    <3>1. CASE c = l + 1
      BY <1>2, <2>11, <3>1
    <3>2. CASE c # l + 1
      <4>1. PICK i \in M : i <= m /\ c = CopyIndex(G, t, i)
        BY <2>4, <3>2
      <4>2. i <= n
        BY <1>0, <4>1
      <4> QED BY <4>1, <4>2
    <3> QED BY <3>1, <3>2
  <2>14. k = G[n] /\ k.used[t] = u + e /\ Len(k.table[t]) = l + 1
    BY <2>1, <2>6, <2>10
  <2> HIDE DEF WellLaid
  <2>15. CopiesFit(h, N, k, f, t, n)
    BY <2>7, <2>8, <2>9, <2>14 DEF CopiesFit
  <2>16. CopiesKept(M, G, k, t, n)
    BY <2>12, <2>13, <2>14 DEF CopiesKept
  <2> QED BY <2>1, <2>15, <2>16 DEF Copying
<1> QED BY <1>1, <1>2

(* So it holds after every turn.                                           *)
LEMMA CopyingHolds ==
    ASSUME NEW h \in Heaps, WellLaid(h), NEW N \in Nat, N = Len(Objs(h)),
           NEW M, M \subseteq 1 .. N, NEW G, CopyRun(h, M, N, G),
           NEW f, f = h.from, NEW t, t = Other(f)
    PROVE  \A n \in 0 .. N : Copying(h, M, N, G, f, t, n)
<1> DEFINE S == {n \in 0 .. N : Copying(h, M, N, G, f, t, n)}
<1>1. 0 \in S
  <2>1. Copying(h, M, N, G, f, t, 0)
    BY CopyStarts
  <2> QED BY <2>1
<1>2. ASSUME NEW n \in 1 .. N, n - 1 \in S PROVE n \in S
  <2>1. Copying(h, M, N, G, f, t, n - 1)
    BY <1>2
  <2>2. Copying(h, M, N, G, f, t, n)
    BY <2>1, CopyTurn
  <2> QED BY <2>2
<1>3. \A n \in 0 .. N : n \in S
  <2> HIDE DEF S
  <2> QED BY <1>1, <1>2, Upwards
<1> QED BY <1>3

-----------------------------------------------------------------------------
(* Exchanging the spaces, and a whole collection.                          *)

(* Exchanging the spaces.                                                  *)
LEMMA FlippedFacts ==
    ASSUME NEW h \in Heaps, NEW f, f = h.from, NEW t, t = Other(f)
    PROVE  /\ Flipped(h) \in Heaps /\ Flipped(h).from = t /\ Other(t) = f
           /\ Flipped(h).table[t] = h.table[t] /\ Flipped(h).table[f] = <<>>
           /\ Flipped(h).used[t] = h.used[t] /\ Flipped(h).used[f] = 0
<1>1. f \in 1 .. 2 /\ t \in 1 .. 2 /\ t # f /\ Other(t) = f
  BY HeapParts
<1>2. h.table \in [1 .. 2 -> Seq(GcObjects)] /\ h.used \in [1 .. 2 -> Nat]
  BY DEF Heaps
<1>3. <<>> \in Seq(GcObjects)
  OBVIOUS
<1>4. PICK tb, us : tb = [h.table EXCEPT ![f] = <<>>] /\ us = [h.used EXCEPT ![f] = 0]
  OBVIOUS
<1>5. tb \in [1 .. 2 -> Seq(GcObjects)] /\ tb[f] = <<>> /\ tb[t] = h.table[t]
  BY <1>1, <1>2, <1>3, <1>4
<1>6. us \in [1 .. 2 -> Nat] /\ us[f] = 0 /\ us[t] = h.used[t]
  BY <1>1, <1>2, <1>4
<1>7. Flipped(h) = [from |-> t, table |-> tb, used |-> us]
  BY <1>4 DEF Flipped
<1>8. Flipped(h).from = t /\ Flipped(h).table = tb /\ Flipped(h).used = us
  BY <1>7
<1>9. Flipped(h) \in Heaps
  BY <1>1, <1>5, <1>6, <1>7 DEF Heaps
<1> QED BY <1>1, <1>5, <1>6, <1>8, <1>9

(* An empty space is in order.                                             *)
LEMMA SideEmpty == SideBySide(<<>>, 0)
<1>1. Len(<<>>) = 0 /\ 1 .. 0 = {}
  OBVIOUS
<1> QED BY <1>1 DEF SideBySide

(* Exchanging the spaces shows the empty one, which is laid out well.      *)
LEMMA FlippedLaid ==
    ASSUME NEW h \in Heaps, WellLaid(h)
    PROVE  Flipped(h) \in Heaps /\ WellLaid(Flipped(h))
<1>1. PICK f, t, k : f = h.from /\ t = Other(f) /\ k = Flipped(h)
  OBVIOUS
<1>2. /\ k \in Heaps /\ k.from = t /\ Other(t) = f /\ k.table[t] = h.table[t] /\ k.table[f] = <<>>
      /\ k.used[t] = h.used[t] /\ k.used[f] = 0
  BY <1>1, FlippedFacts
<1>3. h.table[t] = <<>> /\ h.used[t] = 0
  BY <1>1 DEF WellLaid
<1>4. 0 <= GcSpace
  BY GcAssumption
<1> QED BY <1>1, <1>2, <1>3, <1>4, SideEmpty DEF WellLaid, Objs

(* Copying and exchanging leave a heap that is laid out well.              *)
LEMMA CopiedLaid ==
    ASSUME NEW h \in Heaps, WellLaid(h), NEW M, M \subseteq 1 .. Len(Objs(h))
    PROVE  /\ Copied(h, M) \in Heaps /\ Copied(h, M).from = h.from
           /\ Flipped(Copied(h, M)) \in Heaps /\ WellLaid(Flipped(Copied(h, M)))
<1>0. PICK N \in Nat : N = Len(Objs(h))
  BY HeapParts
<1>1. PICK G : CopyRun(h, M, N, G) /\ Copied(h, M) = G[N]
  BY <1>0, CopiedRun
<1>2. PICK f, t, C, k : f = h.from /\ t = Other(f) /\ C = Copied(h, M) /\ k = Flipped(C)
  OBVIOUS
<1>3. C \in Heaps /\ C.from = f
  <2>1. N \in 0 .. N
    BY <1>0
  <2> QED BY <1>1, <1>2, <2>1 DEF CopyRun
<1>4. SideBySide(C.table[t], C.used[t]) /\ C.used[t] <= h.used[f]
  <2>1. N \in 0 .. N
    BY <1>0
  <2>2. Copying(h, M, N, G, f, t, N)
    BY <1>0, <1>1, <1>2, <2>1, CopyingHolds
  <2> QED BY <1>1, <1>2, <2>2 DEF Copying, CopiesFit, CopiesKept
<1>5. /\ k \in Heaps /\ k.from = t /\ Other(t) = f /\ k.table[t] = C.table[t] /\ k.table[f] = <<>>
      /\ k.used[t] = C.used[t] /\ k.used[f] = 0
  BY <1>2, <1>3, FlippedFacts
<1>6. C.used[t] <= GcSpace
  <2>1. h.used[f] <= GcSpace
    BY <1>2 DEF WellLaid
  <2>2. C.used[t] \in Nat /\ h.used[f] \in Nat /\ GcSpace \in Nat
    <3>1. t \in 1 .. 2 /\ f \in 1 .. 2
      BY <1>2, HeapParts
    <3> QED BY <1>3, <3>1, HeapParts, GcAssumption
  <2> QED BY <1>4, <2>1, <2>2
<1>7. WellLaid(k)
  BY <1>4, <1>5, <1>6 DEF WellLaid, Objs
<1> QED BY <1>2, <1>3, <1>5, <1>7

(* A collection leaves a heap that is laid out well, and roots.            *)
Live(roots) == {roots[r] : r \in DOMAIN roots} \ {0}
MarkedBy(h, roots) == Marked(h, Live(roots))

(* A collection of a heap that is not empty, part by part.                 *)
LEMMA CollectedParts ==
    ASSUME NEW h, NEW roots, h.used[h.from] # 0
    PROVE  /\ Collected(h, roots).heap = Flipped(Copied(h, MarkedBy(h, roots)))
           /\ Collected(h, roots).roots = [r \in DOMAIN roots |->
                  IF roots[r] = 0 THEN 0 ELSE RootMoved(Copied(h, MarkedBy(h, roots)), MarkedBy(h, roots), roots[r])]
BY DEF Collected, Live, MarkedBy

(* A root stays an address.                                                *)
LEMMA RootMovedType ==
    ASSUME NEW h \in Heaps, NEW M, NEW root \in Nat
    PROVE  RootMoved(h, M, root) \in Nat
<1>1. PICK known : known = {p \in Headers(h, root) : p[1] = h.from => p[2] \in M}
  OBVIOUS
<1>2. PICK copies : copies = h.table[Other(h.from)]
  OBVIOUS
<1>3. PICK old : old = CHOOSE p \in known : TRUE
  OBVIOUS
<1>4. PICK same : same = {j \in DOMAIN copies : copies[j].data = h.table[old[1]][old[2]].data}
  OBVIOUS
<1>5. PICK x : x = CHOOSE j \in same : \A k \in same : j <= k
  OBVIOUS
<1>6. RootMoved(h, M, root) = IF known = {} \/ same = {} THEN root ELSE DataAddr(Other(h.from), copies[x])
  <2>1. RootMoved(h, M, root) =
            LET here == {j \in DOMAIN copies : copies[j].data = h.table[old[1]][old[2]].data}
            IN IF known = {} \/ here = {} THEN root
               ELSE DataAddr(Other(h.from), copies[CHOOSE j \in here : \A k \in here : j <= k])
    BY <1>1, <1>2, <1>3 DEF RootMoved
  <2> QED BY <1>4, <1>5, <2>1
<1>7. CASE same # {}
  <2>1. copies \in Seq(GcObjects) /\ Other(h.from) \in Nat
    BY <1>2, HeapParts
  <2>2. DOMAIN copies \subseteq Nat /\ \A j \in DOMAIN copies : copies[j] \in GcObjects
    BY <2>1, ElementOfSeq
  <2>3. same \in SUBSET Nat
    BY <1>4, <2>2
  <2>4. \E j \in same : \A k \in same : j <= k
    BY <1>7, <2>3, LeastNat
  <2>5. x \in same
    BY <1>5, <2>4
  <2>6. copies[x] \in GcObjects
    BY <1>4, <2>2, <2>5
  <2>7. copies[x].at \in Nat
    BY <2>6, SizeType
  <2>8. PICK b \in Nat, a \in Nat : b = GcBase[Other(h.from)] /\ a = copies[x].at
    BY <2>7, HeapParts, Bases
  <2>9. DataAddr(Other(h.from), copies[x]) = b + a + 1
    BY <2>8 DEF DataAddr
  <2> QED BY <1>6, <2>8, <2>9
<1>8. CASE same = {}
  BY <1>6, <1>8
<1> QED BY <1>7, <1>8

(* A collection leaves a heap that is laid out well, and addresses.        *)
LEMMA CollectedLaid ==
    ASSUME NEW h \in Heaps, WellLaid(h), NEW D, NEW roots \in [D -> Nat]
    PROVE  /\ Collected(h, roots).heap \in Heaps /\ WellLaid(Collected(h, roots).heap)
           /\ Collected(h, roots).roots \in [D -> Nat]
<1>1. CASE h.used[h.from] = 0
  <2>1. Collected(h, roots) = [heap |-> h, roots |-> roots]
    BY <1>1 DEF Collected
  <2> QED BY <2>1
<1>2. CASE h.used[h.from] # 0
  <2>1. PICK M, C, c : M = MarkedBy(h, roots) /\ C = Copied(h, M) /\ c = Collected(h, roots)
    OBVIOUS
  <2>2. c.heap = Flipped(C) /\ c.roots = [r \in DOMAIN roots |-> IF roots[r] = 0 THEN 0 ELSE RootMoved(C, M, roots[r])]
    BY <1>2, <2>1, CollectedParts
  <2>3. M \subseteq 1 .. Len(Objs(h))
    <3>1. PICK N \in Nat : N = Len(Objs(h))
      BY HeapParts
    <3> QED BY <2>1, <3>1, MarkedCloses DEF MarkedBy
  <2>4. C \in Heaps /\ Flipped(C) \in Heaps /\ WellLaid(Flipped(C))
    BY <2>1, <2>3, CopiedLaid
  <2>5. c.roots \in [D -> Nat]
    <3>1. \A r \in D : (IF roots[r] = 0 THEN 0 ELSE RootMoved(C, M, roots[r])) \in Nat
      BY <2>4, RootMovedType
    <3> QED BY <2>2, <3>1
  <2> QED BY <2>1, <2>2, <2>4, <2>5
<1> QED BY <1>1, <1>2

(* A new object is put behind the others.                                  *)

-----------------------------------------------------------------------------
(* Addresses, and what the program is promised about them.                 *)

Addr(h, i) == DataAddr(h.from, Objs(h)[i])

(* Subtracting the base of the space from both sides.                      *)
LEMMA Shifted ==
    ASSUME NEW a \in Nat, NEW b \in Nat, NEW c \in Nat, NEW r \in Nat, NEW x \in Nat, NEW y \in Nat,
           x = c + a + 1, y = c + b + 1
    PROVE  (y - 1 <= x <=> b <= a + 1) /\ (x < y - 1 + r <=> a + 1 < b + r)
OBVIOUS

Full(h) == \A i \in 1 .. Len(Objs(h)) : Len(Objs(h)[i].data) # 0

(* Where the N objects of from_space f lie, and their addresses.           *)
AddressRow(h, N, f) ==
    /\ \A i \in 1 .. N : /\ Objs(h)[i].at \in Nat /\ Size(Objs(h)[i]) \in Nat /\ Size(Objs(h)[i]) >= 2
                          /\ Addr(h, i) = GcBase[f] + Objs(h)[i].at + 1
    /\ \A i, j \in 1 .. N : i < j => Objs(h)[i].at + Size(Objs(h)[i]) <= Objs(h)[j].at
    /\ \A i \in 1 .. N : Addr(h, i) \in Nat /\ GcBase[f] + 1 <= Addr(h, i) /\ Addr(h, i) < GcBase[f] + GcSpace

(* A well laid space has them so.                                          *)
LEMMA AddressOf ==
    ASSUME NEW h \in Heaps, WellLaid(h), Full(h), NEW N \in Nat, N = Len(Objs(h)), NEW f \in Nat, f = h.from
    PROVE  AddressRow(h, N, f)
<1>0. \A i \in 1 .. N : Len(Objs(h)[i].data) # 0
  BY DEF Full
<1>1. \A i \in 1 .. N : /\ Objs(h)[i].at \in Nat /\ Size(Objs(h)[i]) \in Nat /\ Size(Objs(h)[i]) >= 2
                        /\ Addr(h, i) = GcBase[f] + Objs(h)[i].at + 1
  <2>1. \A i \in 1 .. N : Objs(h)[i] \in GcObjects
    BY HeapParts
  <2>2. \A i \in 1 .. N : Objs(h)[i].at \in Nat /\ Size(Objs(h)[i]) = 1 + Len(Objs(h)[i].data) /\ Len(Objs(h)[i].data) \in Nat
    BY <2>1, SizeType
  <2>3. \A i \in 1 .. N : Addr(h, i) = GcBase[f] + Objs(h)[i].at + 1
    BY DEF Addr, DataAddr
  <2>4. ASSUME NEW i \in 1 .. N PROVE Size(Objs(h)[i]) \in Nat /\ Size(Objs(h)[i]) >= 2
    <3>1. PICK l \in Nat : l = Len(Objs(h)[i].data)
      BY <2>2
    <3>2. l # 0 /\ Size(Objs(h)[i]) = 1 + l
      BY <1>0, <2>2, <3>1
    <3> QED BY <3>1, <3>2
  <2> QED BY <2>2, <2>3, <2>4
<1>2. /\ \A i, j \in 1 .. N : i < j => Objs(h)[i].at + Size(Objs(h)[i]) <= Objs(h)[j].at
      /\ \A i \in 1 .. N : Objs(h)[i].at + Size(Objs(h)[i]) <= GcSpace
  <2>1. PICK u \in Nat : u = h.used[f]
    BY HeapParts
  <2>2. SideBySide(Objs(h), u) /\ u <= GcSpace
    BY <2>1 DEF WellLaid
  <2>3. \A i \in 1 .. N : Objs(h)[i].at + Size(Objs(h)[i]) <= u
    BY <2>2 DEF SideBySide
  <2>4. \A i \in 1 .. N : Objs(h)[i].at + Size(Objs(h)[i]) <= GcSpace
    <3> SUFFICES ASSUME NEW i \in 1 .. N PROVE Objs(h)[i].at + Size(Objs(h)[i]) <= GcSpace
      OBVIOUS
    <3>1. PICK a \in Nat, s \in Nat : a = Objs(h)[i].at /\ s = Size(Objs(h)[i])
      BY <1>1
    <3>2. a + s <= u /\ GcSpace \in Nat
      BY <2>3, <3>1, GcAssumption
    <3> QED BY <2>2, <3>1, <3>2
  <2> QED BY <2>2, <2>4 DEF SideBySide
<1>3. PICK c \in Nat : c = GcBase[f]
  BY HeapParts, Bases
<1>4. \A i \in 1 .. N : Addr(h, i) \in Nat /\ GcBase[f] + 1 <= Addr(h, i) /\ Addr(h, i) < GcBase[f] + GcSpace
  <2> SUFFICES ASSUME NEW i \in 1 .. N
               PROVE  Addr(h, i) \in Nat /\ GcBase[f] + 1 <= Addr(h, i) /\ Addr(h, i) < GcBase[f] + GcSpace
    OBVIOUS
  <2>1. PICK a \in Nat, s \in Nat : a = Objs(h)[i].at /\ s = Size(Objs(h)[i])
    BY <1>1
  <2>2. a + s <= GcSpace /\ s >= 2 /\ Addr(h, i) = c + a + 1
    BY <1>1, <1>2, <1>3, <2>1
  <2>3. GcSpace \in Nat /\ GcBase[f] = c
    BY <1>3, Bases
  <2> QED BY <2>2, <2>3
<1> QED BY <1>1, <1>2, <1>4 DEF AddressRow

(* They have addresses of their own, inside no other object.               *)
LEMMA Addresses ==
    ASSUME NEW h \in Heaps, WellLaid(h), Full(h), NEW N \in Nat, N = Len(Objs(h)), NEW f \in Nat, f = h.from
    PROVE  /\ \A i, j \in 1 .. N : Addr(h, i) = Addr(h, j) => i = j
           /\ \A i, j \in 1 .. N : Within(h, Addr(h, i), j) <=> i = j
           /\ \A w \in 0 .. 1 : \A j \in 1 .. N : ~Within(h, w, j)
<1>0. AddressRow(h, N, f)
  BY AddressOf
<1>1. \A i \in 1 .. N : /\ Objs(h)[i].at \in Nat /\ Size(Objs(h)[i]) \in Nat /\ Size(Objs(h)[i]) >= 2
                        /\ Addr(h, i) = GcBase[f] + Objs(h)[i].at + 1
  BY <1>0 DEF AddressRow
<1>2. \A i, j \in 1 .. N : i < j => Objs(h)[i].at + Size(Objs(h)[i]) <= Objs(h)[j].at
  BY <1>0 DEF AddressRow
<1>4. \A i \in 1 .. N : Addr(h, i) \in Nat /\ GcBase[f] + 1 <= Addr(h, i) /\ Addr(h, i) < GcBase[f] + GcSpace
  BY <1>0 DEF AddressRow
<1>5. \A i, j \in 1 .. N : i < j => Addr(h, i) < Addr(h, j)
  <2> SUFFICES ASSUME NEW i \in 1 .. N, NEW j \in 1 .. N, i < j PROVE Addr(h, i) < Addr(h, j)
    OBVIOUS
  <2>1. PICK a \in Nat, s \in Nat, b \in Nat : a = Objs(h)[i].at /\ s = Size(Objs(h)[i]) /\ b = Objs(h)[j].at
    BY <1>1
  <2>2. PICK c \in Nat : c = GcBase[f]
    BY HeapParts, Bases
  <2>3. a + s <= b /\ s >= 2 /\ Addr(h, i) = c + a + 1 /\ Addr(h, j) = c + b + 1
    BY <1>1, <1>2, <2>1, <2>2
  <2> QED BY <2>3
<1>6. \A i, j \in 1 .. N : Addr(h, i) = Addr(h, j) => i = j
  <2> SUFFICES ASSUME NEW i \in 1 .. N, NEW j \in 1 .. N, Addr(h, i) = Addr(h, j), i # j PROVE FALSE
    OBVIOUS
  <2>1. Addr(h, i) \in Nat /\ Addr(h, j) \in Nat
    BY <1>4
  <2>2. i < j \/ j < i
    OBVIOUS
  <2> QED BY <1>5, <2>1, <2>2
<1>7. \A j \in 1 .. N : \A w : Within(h, w, j) <=> Addr(h, j) - 1 <= w /\ w < Addr(h, j) - 1 + Size(Objs(h)[j])
  BY DEF Within, Addr, Objs
<1>8. ASSUME NEW i \in 1 .. N, NEW j \in 1 .. N PROVE Within(h, Addr(h, i), j) <=> i = j
  <2>1. PICK a \in Nat, s \in Nat, b \in Nat, r \in Nat :
            a = Objs(h)[i].at /\ s = Size(Objs(h)[i]) /\ b = Objs(h)[j].at /\ r = Size(Objs(h)[j])
    BY <1>1
  <2>2. s >= 2 /\ r >= 2 /\ Addr(h, i) = GcBase[f] + a + 1 /\ Addr(h, j) = GcBase[f] + b + 1
    BY <1>1, <2>1
  <2>3. (i < j => a + s <= b) /\ (j < i => b + r <= a) /\ (i = j => a = b)
    BY <1>2, <2>1
  <2>4. Within(h, Addr(h, i), j) <=> b <= a + 1 /\ a + 1 < b + r
    <3>1. PICK x \in Nat, y \in Nat : x = Addr(h, i) /\ y = Addr(h, j)
      BY <1>4
    <3>2. Within(h, x, j) <=> y - 1 <= x /\ x < y - 1 + r
      BY <1>7, <2>1, <3>1
    <3>3. x = GcBase[f] + a + 1 /\ y = GcBase[f] + b + 1
      BY <2>2, <3>1
    <3>4. PICK c \in Nat : c = GcBase[f]
      BY HeapParts, Bases
    <3>5. x = c + a + 1 /\ y = c + b + 1
      BY <3>3, <3>4
    <3>6. (y - 1 <= x <=> b <= a + 1) /\ (x < y - 1 + r <=> a + 1 < b + r)
      BY <3>5, Shifted
    <3> QED BY <3>1, <3>2, <3>6
  <2>5. i < j \/ j < i \/ i = j
    OBVIOUS
  <2> QED BY <2>2, <2>3, <2>4, <2>5
<1>9. ASSUME NEW w \in 0 .. 1, NEW j \in 1 .. N PROVE ~Within(h, w, j)
  <2>1. PICK c \in Nat : c = GcBase[f] /\ c >= 2
    BY HeapParts, Bases
  <2>2. PICK x \in Nat : x = Addr(h, j) /\ c + 1 <= x
    BY <1>4, <2>1
  <2>3. x - 1 > w
    BY <2>1, <2>2
  <2>4. ~(Addr(h, j) - 1 <= w)
    BY <2>2, <2>3
  <2> QED BY <1>7, <2>4
<1> QED BY <1>6, <1>8, <1>9

(* What it is to be the header of an address.                              *)
LEMMA HeadersLemma ==
    ASSUME NEW h \in Heaps, NEW d, NEW s \in 1 .. 2, NEW i
    PROVE  <<s, i>> \in Headers(h, d) <=> i \in 1 .. Len(h.table[s]) /\ DataAddr(s, h.table[s][i]) = d
<1>1. DOMAIN h.table[s] = 1 .. Len(h.table[s])
  BY HeapParts
<1> QED BY <1>1 DEF Headers

(* A header names a space.                                                 *)
LEMMA HeadersPairs ==
    ASSUME NEW h \in Heaps, NEW d, NEW p \in Headers(h, d)
    PROVE  p = <<p[1], p[2]>> /\ p[1] \in 1 .. 2
BY DEF Headers

(* What a word stands for.                                                 *)
Named(h, a, id) ==
    IF id = 0 THEN a = 0 ELSE \E i \in 1 .. Len(Objs(h)) : Objs(h)[i].id = id /\ Addr(h, i) = a
Says(h, w, m) == IF m = -1 THEN w = 1 ELSE Named(h, w, m)

(* The objects of a set L that is closed under what the program wrote, and *)
(* holds what its slots denote, are all there and say what was written.    *)
Survival(h, roots, held, shadow, L) ==
    /\ L \subseteq 1 .. Len(shadow)
    /\ \A i, j \in 1 .. Len(Objs(h)) : Objs(h)[i].id = Objs(h)[j].id => i = j
    /\ \A i \in 1 .. Len(Objs(h)) : /\ Objs(h)[i].id \in 1 .. Len(shadow)
                                    /\ Len(Objs(h)[i].data) # 0
                                    /\ Len(Objs(h)[i].data) = Len(shadow[Objs(h)[i].id])
    /\ \A r \in GcSlots : held[r] \in L \cup {0} /\ Named(h, roots[r], held[r])
    /\ \A id \in L : \A k \in 1 .. Len(shadow[id]) : shadow[id][k] \in L \cup {0, -1}
    /\ \A i \in 1 .. Len(Objs(h)) : Objs(h)[i].id \in L =>
           \A k \in 1 .. Len(Objs(h)[i].data) : Says(h, Objs(h)[i].data[k], shadow[Objs(h)[i].id][k])

-----------------------------------------------------------------------------
(* Where the words of a marked object point, turn by turn.                 *)

(* A word after n turns: an address of an object whose turn was is the     *)
(* address of its copy, other addresses and small numbers are as before.   *)
WordRight(h, M, G, n, i, q) ==
    /\ \A j \in M : Objs(h)[i].data[q] = Addr(h, j) =>
           Objs(G[n])[i].data[q] = IF j <= n THEN NewPlace(G[j - 1]) ELSE Addr(h, j)
    /\ Objs(h)[i].data[q] \in 0 .. 1 => Objs(G[n])[i].data[q] = Objs(h)[i].data[q]
Words(h, M, G, n) ==
    \A i \in M : \A q \in 1 .. Len(Objs(h)[i].data) : WordRight(h, M, G, n, i, q)

(* The addresses of the objects that fill a space.                         *)
FilledSpace(f, x) == GcBase[f] + 1 <= x /\ x < GcBase[f] + GcSpace

(* Addresses of the two spaces differ.                                     *)
LEMMA SpacesApart ==
    ASSUME NEW t \in 1 .. 2, NEW f \in 1 .. 2, t # f, NEW x \in Nat, NEW y \in Nat,
           FilledSpace(t, x), FilledSpace(f, y)
    PROVE  x # y
<1>1. (t = 1 /\ f = 2) \/ (t = 2 /\ f = 1)
  OBVIOUS
<1>2. PICK a \in Nat, b \in Nat, n \in Nat :
          a = GcBase[t] /\ b = GcBase[f] /\ n = GcSpace /\ (a + n <= b \/ b + n <= a)
  BY <1>1, Bases
<1>3. a + 1 <= x /\ x < a + n /\ b + 1 <= y /\ y < b + n
  BY <1>2 DEF FilledSpace
<1> QED BY <1>2, <1>3

(* NULL and the number 1 are no addresses.                                 *)
LEMMA SmallOutside ==
    ASSUME NEW f \in 1 .. 2, NEW x \in Nat, GcBase[f] + 1 <= x, NEW w \in 0 .. 1
    PROVE  x # w
<1>1. PICK b \in Nat : b = GcBase[f] /\ b >= 2 /\ b + 1 <= x
  BY Bases
<1> QED BY <1>1

(* Every address of from_space is such a one.                              *)
LEMMA AddressIn ==
    ASSUME NEW h \in Heaps, WellLaid(h), Full(h), NEW N \in Nat, N = Len(Objs(h))
    PROVE  \A i \in 1 .. N : Addr(h, i) \in Nat /\ FilledSpace(h.from, Addr(h, i))
<1>1. PICK f \in Nat : f = h.from
  BY HeapParts
<1>2. AddressRow(h, N, f)
  BY <1>1, AddressOf
<1> QED BY <1>1, <1>2 DEF FilledSpace, AddressRow

(* A copy is put at an address of the other space.                         *)
LEMMA NewPlaces ==
    ASSUME NEW h \in Heaps, WellLaid(h), Full(h), NEW N \in Nat, N = Len(Objs(h)),
           NEW M, M \subseteq 1 .. N, NEW G, CopyRun(h, M, N, G),
           NEW j \in 1 .. N
    PROVE  NewPlace(G[j - 1]) \in Nat /\ FilledSpace(Other(h.from), NewPlace(G[j - 1]))
<1>0. PICK f \in Nat, t \in Nat : f = h.from /\ t = Other(f)
  BY HeapParts
<1>1. j - 1 \in 0 .. N
  OBVIOUS
<1>2. Copying(h, M, N, G, f, t, j - 1)
  BY <1>0, <1>1, CopyingHolds
<1>3. PICK u \in Nat : u = G[j - 1].used[t]
  <2>1. G[j - 1] \in Heaps /\ t \in 1 .. 2
    BY <1>0, <1>1, HeapParts DEF CopyRun
  <2> QED BY <2>1, HeapParts
<1>4. AddressRow(h, N, f)
  BY <1>0, AddressOf
<1>5. PICK a \in Nat, b \in Nat, c \in Nat :
          /\ a = Objs(h)[j].at /\ b = GcBase[f] /\ c = GcBase[t] /\ u <= a
          /\ b + a + 1 < b + GcSpace
  <2>1. u <= Objs(h)[j].at
    <3>1. j > j - 1
      OBVIOUS
    <3> QED BY <1>2, <1>3, <3>1 DEF Copying, CopiesFit
  <2>2. GcBase[f] \in Nat /\ GcBase[t] \in Nat
    <3>1. f \in 1 .. 2 /\ t \in 1 .. 2
      BY <1>0, HeapParts
    <3> QED BY <3>1, Bases
  <2>3. /\ Objs(h)[j].at \in Nat /\ Addr(h, j) = GcBase[f] + Objs(h)[j].at + 1
        /\ Addr(h, j) < GcBase[f] + GcSpace
    BY <1>4 DEF AddressRow
  <2>4. PICK a \in Nat, b \in Nat, c \in Nat : a = Objs(h)[j].at /\ b = GcBase[f] /\ c = GcBase[t]
    BY <2>2, <2>3
  <2>5. u <= a /\ b + a + 1 < b + GcSpace
    BY <2>1, <2>3, <2>4
  <2> QED BY <2>4, <2>5
<1>6. NewPlace(G[j - 1]) = GcBase[t] + u + 1
  <2>1. G[j - 1].from = f
    BY <1>0, <1>1 DEF CopyRun
  <2> QED BY <1>0, <1>3, <2>1 DEF NewPlace
<1>7. c + u + 1 \in Nat /\ c + 1 <= c + u + 1 /\ c + u + 1 < c + GcSpace
  <2>1. PICK s \in Nat : s = GcSpace
    BY GcAssumption
  <2>2. u <= a /\ b + a + 1 < b + s
    BY <1>5, <2>1
  <2>3. c + u + 1 \in Nat /\ c + 1 <= c + u + 1 /\ c + u + 1 < c + s
    BY <2>2
  <2> QED BY <2>1, <2>3
<1>8. GcBase[t] + u + 1 \in Nat /\ FilledSpace(t, GcBase[t] + u + 1)
  BY <1>5, <1>7 DEF FilledSpace
<1> QED BY <1>0, <1>6, <1>8

(* Each turn keeps what holds of the words.                                *)
LEMMA WordsTurn ==
    ASSUME NEW h \in Heaps, WellLaid(h), Full(h), NEW N \in Nat, N = Len(Objs(h)),
           NEW M, M \subseteq 1 .. N, NEW G, CopyRun(h, M, N, G),
           NEW f \in Nat, f = h.from, NEW t \in Nat, t = Other(f), NEW n \in 1 .. N, NEW m, m = n - 1, Words(h, M, G, m)
    PROVE  Words(h, M, G, n)
<1>0. m \in 0 .. N
  OBVIOUS
<1>1. CASE n \notin M
  <2>1. G[n] = G[m]
    BY <1>1 DEF CopyRun
  <2>2. \A i \in M : i <= n <=> i <= m
    <3> SUFFICES ASSUME NEW i \in M PROVE i <= n <=> i <= m
      OBVIOUS
    <3>1. i \in 1 .. N /\ i # n
      BY <1>1
    <3> QED BY <3>1
  <2>3. ASSUME NEW i \in M, NEW q \in 1 .. Len(Objs(h)[i].data) PROVE WordRight(h, M, G, n, i, q)
    <3>1. WordRight(h, M, G, m, i, q)
      BY DEF Words
    <3>2. PICK x, y : x = Objs(h)[i].data[q] /\ y = Objs(G[n])[i].data[q] /\ y = Objs(G[m])[i].data[q]
      BY <2>1
    <3>3. /\ \A j \in M : x = Addr(h, j) => y = IF j <= m THEN NewPlace(G[j - 1]) ELSE Addr(h, j)
          /\ x \in 0 .. 1 => y = x
      BY <3>1, <3>2 DEF WordRight
    <3>4. \A j \in M : x = Addr(h, j) => y = IF j <= n THEN NewPlace(G[j - 1]) ELSE Addr(h, j)
      BY <2>2, <3>3
    <3> QED BY <3>2, <3>3, <3>4 DEF WordRight
  <2> QED BY <2>3 DEF Words
<1>2. CASE n \in M
  <2>1. PICK g, k : g = G[m] /\ k = G[n] /\ k = CopyOne(g, M, n)
    BY <1>2 DEF CopyRun
  <2>2. g \in Heaps /\ g.from = f /\ Len(Objs(g)) = N /\ n \in 1 .. Len(Objs(g))
    BY <1>0, <2>1 DEF CopyRun
  <2>3. \A j \in 1 .. N : Objs(g)[j] \in GcObjects /\ Objs(h)[j] \in GcObjects
    BY <2>2, HeapParts
  <2>4. \A j \in 1 .. N :
            Objs(k)[j] = IF j \in M THEN Redirected(Objs(g)[j], DataAddr(f, Objs(g)[n]), NewPlace(g)) ELSE Objs(g)[j]
    BY <2>1, <2>2, CopyOneFacts
  <2>5. \A j \in 1 .. N : Objs(g)[j].at = Objs(h)[j].at /\ Len(Objs(g)[j].data) = Len(Objs(h)[j].data)
    <3>1. Copying(h, M, N, G, f, t, m)
      BY <1>0, CopyingHolds
    <3> QED BY <2>1, <3>1 DEF Copying, CopiesFit, CopiesKept
  <2>6. DataAddr(f, Objs(g)[n]) = Addr(h, n)
    BY <2>5 DEF DataAddr, Addr
  <2>7. NewPlace(g) \in Nat /\ NewPlace(g) = NewPlace(G[n - 1])
    BY <2>1, NewPlaces
  <2>8. \A i \in M : \A q \in 1 .. Len(Objs(h)[i].data) :
            Objs(k)[i].data[q] = IF Objs(g)[i].data[q] = Addr(h, n) THEN NewPlace(G[n - 1]) ELSE Objs(g)[i].data[q]
    <3> SUFFICES ASSUME NEW i \in M, NEW q \in 1 .. Len(Objs(h)[i].data)
                 PROVE  Objs(k)[i].data[q] =
                            IF Objs(g)[i].data[q] = Addr(h, n) THEN NewPlace(G[n - 1]) ELSE Objs(g)[i].data[q]
      OBVIOUS
    <3>1. i \in 1 .. N /\ Objs(g)[i] \in GcObjects /\ q \in 1 .. Len(Objs(g)[i].data)
      BY <2>3, <2>5
    <3>2. PICK o, a, b : o = Objs(g)[i] /\ a = Addr(h, n) /\ b = NewPlace(g)
      OBVIOUS
    <3>3. Objs(k)[i] = Redirected(o, a, b) /\ o \in GcObjects /\ b \in Nat
      BY <2>4, <2>6, <2>7, <3>1, <3>2
    <3>4. Redirected(o, a, b).data[q] = IF o.data[q] = a THEN b ELSE o.data[q]
      BY <3>1, <3>2, <3>3, RedirectedLemma
    <3> QED BY <2>7, <3>2, <3>3, <3>4
  <2>9. f \in 1 .. 2 /\ t \in 1 .. 2 /\ t # f
    BY HeapParts
  <2>10. /\ \A i \in 1 .. N : Addr(h, i) \in Nat /\ GcBase[f] + 1 <= Addr(h, i) /\ Addr(h, i) < GcBase[f] + GcSpace
         /\ \A i, j \in 1 .. N : Addr(h, i) = Addr(h, j) => i = j
    <3>2. \A i \in 1 .. N : Addr(h, i) \in Nat /\ GcBase[f] + 1 <= Addr(h, i) /\ Addr(h, i) < GcBase[f] + GcSpace
      <4>1. \A i \in 1 .. N : Addr(h, i) \in Nat /\ FilledSpace(f, Addr(h, i))
        BY AddressIn
      <4> QED BY <4>1 DEF FilledSpace
    <3>3. \A i, j \in 1 .. N : Addr(h, i) = Addr(h, j) => i = j
      BY Addresses
    <3> QED BY <3>2, <3>3
  <2>11. \A j \in 1 .. N : NewPlace(G[j - 1]) # Addr(h, n)
    <3> SUFFICES ASSUME NEW j \in 1 .. N PROVE NewPlace(G[j - 1]) # Addr(h, n)
      OBVIOUS
    <3>1. PICK x \in Nat, y \in Nat : x = NewPlace(G[j - 1]) /\ y = Addr(h, n)
      BY <2>10, NewPlaces
    <3>2. FilledSpace(t, x) /\ FilledSpace(f, y)
      <4>1. FilledSpace(t, NewPlace(G[j - 1]))
        BY NewPlaces
      <4>2. FilledSpace(f, Addr(h, n))
        BY <2>10 DEF FilledSpace
      <4> QED BY <3>1, <4>1, <4>2
    <3>3. x # y
      BY <2>9, <3>2, SpacesApart
    <3> QED BY <3>1, <3>3
  <2>12. ASSUME NEW i \in M, NEW q \in 1 .. Len(Objs(h)[i].data), NEW j \in M, Objs(h)[i].data[q] = Addr(h, j)
         PROVE  Objs(k)[i].data[q] = IF j <= n THEN NewPlace(G[j - 1]) ELSE Addr(h, j)
    <3>1. j \in 1 .. N /\ Objs(g)[i].data[q] = IF j <= m THEN NewPlace(G[j - 1]) ELSE Addr(h, j)
      BY <2>1, <2>12 DEF Words, WordRight
    <3>2. CASE j <= m
      <4>1. j <= n
        BY <3>1, <3>2
      <4> QED BY <2>8, <2>11, <3>1, <3>2, <4>1
    <3>3. CASE ~(j <= m)
      <4>1. Objs(g)[i].data[q] = Addr(h, j)
        BY <3>1, <3>3
      <4>2. CASE j = n
        BY <2>8, <4>1, <4>2
      <4>3. CASE j # n
        <5>1. ~(j <= n) /\ Addr(h, j) # Addr(h, n)
          BY <2>10, <3>1, <3>3, <4>3
        <5> QED BY <2>8, <4>1, <5>1
      <4> QED BY <4>2, <4>3
    <3> QED BY <3>2, <3>3
  <2>13. ASSUME NEW i \in M, NEW q \in 1 .. Len(Objs(h)[i].data), Objs(h)[i].data[q] \in 0 .. 1
         PROVE  Objs(k)[i].data[q] = Objs(h)[i].data[q]
    <3>1. PICK w \in 0 .. 1 : w = Objs(h)[i].data[q]
      BY <2>13
    <3>2. Objs(g)[i].data[q] = w
      BY <2>1, <2>13, <3>1 DEF Words, WordRight
    <3>3. Addr(h, n) # w
      <4>1. PICK y \in Nat : y = Addr(h, n) /\ GcBase[f] + 1 <= y
        BY <2>10
      <4>2. y # w
        BY <2>9, <4>1, SmallOutside
      <4> QED BY <4>1, <4>2
    <3> QED BY <2>8, <3>1, <3>2, <3>3
  <2>14. ASSUME NEW i \in M, NEW q \in 1 .. Len(Objs(h)[i].data)
         PROVE  WordRight(h, M, G, n, i, q)
    <3>1. PICK x, y : x = Objs(h)[i].data[q] /\ y = Objs(G[n])[i].data[q] /\ y = Objs(k)[i].data[q]
      BY <2>1
    <3>2. \A j \in M : x = Addr(h, j) => y = IF j <= n THEN NewPlace(G[j - 1]) ELSE Addr(h, j)
      BY <2>12, <3>1
    <3>3. x \in 0 .. 1 => y = x
      BY <2>13, <3>1
    <3> QED BY <3>1, <3>2, <3>3 DEF WordRight
  <2> QED BY <2>14 DEF Words
<1> QED BY <1>1, <1>2

(* So it holds after every turn.                                           *)
LEMMA WordsHold ==
    ASSUME NEW h \in Heaps, WellLaid(h), Full(h), NEW N \in Nat, N = Len(Objs(h)),
           NEW M, M \subseteq 1 .. N, NEW G, CopyRun(h, M, N, G),
           NEW f \in Nat, f = h.from, NEW t \in Nat, t = Other(f)
    PROVE  \A n \in 0 .. N : Words(h, M, G, n)
<1> DEFINE S == {n \in 0 .. N : Words(h, M, G, n)}
<1>1. 0 \in S
  <2>1. G[0] = h
    BY DEF CopyRun
  <2>2. \A j \in M : ~(j <= 0)
    OBVIOUS
  <2>3. Words(h, M, G, 0)
    BY <2>1, <2>2 DEF Words, WordRight
  <2> QED BY <2>3
<1>2. ASSUME NEW n \in 1 .. N, n - 1 \in S PROVE n \in S
  <2>1. PICK m : m = n - 1 /\ Words(h, M, G, m)
    BY <1>2
  <2>2. Words(h, M, G, n)
    BY <2>1, WordsTurn
  <2> QED BY <2>2
<1>3. \A n \in 0 .. N : n \in S
  <2> HIDE DEF S
  <2> QED BY <1>1, <1>2, Upwards
<1> QED BY <1>3

-----------------------------------------------------------------------------
(* The copies a collection leaves.                                         *)

Distinct(h) == \A i, j \in 1 .. Len(Objs(h)) : Objs(h)[i].id = Objs(h)[j].id => i = j

CopiesMade(h, k, M, G, t, N) ==
    /\ k.from = t /\ Objs(k) = G[N].table[t] /\ WellLaid(k)
    /\ \A i \in M : /\ CopyIndex(G, t, i) \in 1 .. Len(Objs(k))
                    /\ Objs(k)[CopyIndex(G, t, i)].id = Objs(h)[i].id
                    /\ Objs(k)[CopyIndex(G, t, i)].at = G[i - 1].used[t]
                    /\ Objs(k)[CopyIndex(G, t, i)].data = Objs(G[i - 1])[i].data
                    /\ Len(Objs(G[i - 1])[i].data) = Len(Objs(h)[i].data)
    /\ \A c \in 1 .. Len(Objs(k)) : \E i \in M : c = CopyIndex(G, t, i)

(* What a collection leaves: one copy of each marked object, with the      *)
(* words the object had when its turn came.                                *)
LEMMA Copies ==
    ASSUME NEW h \in Heaps, WellLaid(h), NEW N \in Nat, N = Len(Objs(h)),
           NEW M, M \subseteq 1 .. N, NEW G, CopyRun(h, M, N, G),
           NEW f \in Nat, f = h.from, NEW t \in Nat, t = Other(f), NEW k \in Heaps, k = Flipped(G[N])
    PROVE  CopiesMade(h, k, M, G, t, N)
<1>0. N \in 0 .. N
  OBVIOUS
<1>1. G[N] \in Heaps /\ G[N].from = f
  BY <1>0 DEF CopyRun
<1>2. PICK C : C = G[N]
  OBVIOUS
<1>3. k.from = t /\ k.table[t] = C.table[t] /\ C = G[N]
  BY <1>1, <1>2, FlippedFacts
<1>4. Objs(k) = G[N].table[t]
  BY <1>3 DEF Objs
<1>5. WellLaid(k)
  <2>1. \E H : CopyRun(h, M, N, H) /\ Copied(h, M) = H[N]
    BY CopiedRun
  <2>2. SideBySide(G[N].table[t], G[N].used[t]) /\ G[N].used[t] <= h.used[f]
    <3>1. Copying(h, M, N, G, f, t, N)
      BY <1>0, CopyingHolds
    <3> QED BY <3>1 DEF Copying, CopiesFit, CopiesKept
  <2>3. /\ Other(t) = f /\ k.table[f] = <<>> /\ k.used[t] = C.used[t] /\ k.used[f] = 0
    BY <1>1, <1>2, FlippedFacts
  <2>4. PICK u \in Nat, v \in Nat : u = C.used[t] /\ v = h.used[f]
    <3>1. f \in 1 .. 2 /\ t \in 1 .. 2
      BY HeapParts
    <3> QED BY <1>1, <1>2, <3>1, HeapParts
  <2>5. v <= GcSpace /\ GcSpace \in Nat /\ u <= v
    <3>1. h.used[h.from] <= GcSpace
      BY DEF WellLaid
    <3> QED BY <1>2, <2>2, <2>4, <3>1, GcAssumption
  <2>6. u <= GcSpace
    BY <2>4, <2>5
  <2> QED BY <1>2, <1>3, <1>4, <2>2, <2>3, <2>4, <2>6 DEF WellLaid
<1>6. /\ \A i \in M : /\ CopyIndex(G, t, i) \in 1 .. Len(G[N].table[t])
                      /\ G[N].table[t][CopyIndex(G, t, i)] = CopyOf(G, t, i)
      /\ \A c \in 1 .. Len(G[N].table[t]) : \E i \in M : c = CopyIndex(G, t, i)
  <2>1. Copying(h, M, N, G, f, t, N)
    BY <1>0, CopyingHolds
  <2>2. \A i \in M : i <= N
    OBVIOUS
  <2> QED BY <2>1, <2>2 DEF Copying, CopiesFit, CopiesKept
<1>7. ASSUME NEW i \in M
      PROVE  /\ CopyOf(G, t, i).id = Objs(h)[i].id /\ CopyOf(G, t, i).at = G[i - 1].used[t]
             /\ CopyOf(G, t, i).data = Objs(G[i - 1])[i].data
             /\ Len(Objs(G[i - 1])[i].data) = Len(Objs(h)[i].data)
  <2>1. PICK m \in 0 .. N : m = i - 1 /\ i \in 1 .. N
    OBVIOUS
  <2>2. G[m] \in Heaps /\ Len(Objs(G[m])) = N /\ t \in 1 .. 2
    BY HeapParts DEF CopyRun
  <2>3. Objs(G[m])[i] \in GcObjects /\ G[m].used[t] \in Nat
    BY <2>1, <2>2, HeapParts
  <2>4. Copying(h, M, N, G, f, t, m)
    BY CopyingHolds
  <2>5. Objs(G[m])[i].id = Objs(h)[i].id /\ Len(Objs(G[m])[i].data) = Len(Objs(h)[i].data)
    BY <2>1, <2>4 DEF Copying, CopiesFit, CopiesKept
  <2>6. CopyOf(G, t, i) = Placed(Objs(G[m])[i], G[m].used[t])
    BY <2>1 DEF CopyOf
  <2>7. PICK o, u : o = Objs(G[m])[i] /\ u = G[m].used[t]
    OBVIOUS
  <2>8. Placed(o, u).id = o.id /\ Placed(o, u).at = u /\ Placed(o, u).data = o.data
    BY <2>3, <2>7, PlacedLemma
  <2>9. G[i - 1] = G[m] /\ CopyOf(G, t, i) = Placed(o, u)
    BY <2>1, <2>6, <2>7
  <2> QED BY <2>5, <2>7, <2>8, <2>9
<1>8. PICK s : s = Objs(k) /\ s = G[N].table[t]
  BY <1>4
<1>9. ASSUME NEW i \in M
      PROVE  /\ CopyIndex(G, t, i) \in 1 .. Len(s)
             /\ s[CopyIndex(G, t, i)].id = Objs(h)[i].id
             /\ s[CopyIndex(G, t, i)].at = G[i - 1].used[t]
             /\ s[CopyIndex(G, t, i)].data = Objs(G[i - 1])[i].data
             /\ Len(Objs(G[i - 1])[i].data) = Len(Objs(h)[i].data)
  <2>1. CopyIndex(G, t, i) \in 1 .. Len(s) /\ s[CopyIndex(G, t, i)] = CopyOf(G, t, i)
    BY <1>6, <1>8
  <2>2. PICK o : o = CopyOf(G, t, i)
    OBVIOUS
  <2>3. /\ o.id = Objs(h)[i].id /\ o.at = G[i - 1].used[t] /\ o.data = Objs(G[i - 1])[i].data
        /\ Len(Objs(G[i - 1])[i].data) = Len(Objs(h)[i].data)
    BY <1>7, <2>2
  <2> QED BY <2>1, <2>2, <2>3
<1>10. \A c \in 1 .. Len(s) : \E i \in M : c = CopyIndex(G, t, i)
  BY <1>6, <1>8
<1> QED BY <1>3, <1>5, <1>8, <1>9, <1>10 DEF CopiesMade

AddressesDiffer(h) == \A i, j \in 1 .. Len(Objs(h)) : Addr(h, i) = Addr(h, j) => i = j

(* Full objects laid out well have addresses of their own.                 *)
LEMMA AddressesApart ==
    ASSUME NEW h \in Heaps, WellLaid(h), Full(h)
    PROVE  AddressesDiffer(h)
<1>1. PICK N \in Nat, f \in Nat : N = Len(Objs(h)) /\ f = h.from
  BY HeapParts
<1>3. \A i, j \in 1 .. N : Addr(h, i) = Addr(h, j) => i = j
  BY <1>1, Addresses
<1> QED BY <1>1, <1>3 DEF AddressesDiffer

(* A copy's address is where the redirected words point.                   *)
Place(G, j) == NewPlace(G[j - 1])
CopiesTold(k, M, G, t) ==
    /\ Full(k) /\ Distinct(k)
    /\ \A i \in M : Addr(k, CopyIndex(G, t, i)) = Place(G, i)
    /\ \A i, j \in M : CopyIndex(G, t, i) = CopyIndex(G, t, j) => i = j
    /\ \A i, j \in M : Place(G, i) = Place(G, j) => i = j

(* No two copies of a collection share an address.                         *)
LEMMA CopiesApart ==
    ASSUME NEW h \in Heaps, WellLaid(h), Full(h), Distinct(h), NEW N \in Nat, N = Len(Objs(h)),
           NEW M, M \subseteq 1 .. N, NEW G, CopyRun(h, M, N, G),
           NEW f \in Nat, f = h.from, NEW t \in Nat, t = Other(f), NEW k \in Heaps, k = Flipped(G[N])
    PROVE  CopiesTold(k, M, G, t)
<1>0. CopiesMade(h, k, M, G, t, N)
  BY Copies
<1>1. k.from = t /\ Objs(k) = G[N].table[t] /\ WellLaid(k)
  BY <1>0 DEF CopiesMade
<1>2. \A i \in M : /\ CopyIndex(G, t, i) \in 1 .. Len(Objs(k))
                   /\ Objs(k)[CopyIndex(G, t, i)].id = Objs(h)[i].id
                   /\ Objs(k)[CopyIndex(G, t, i)].at = G[i - 1].used[t]
                   /\ Len(Objs(k)[CopyIndex(G, t, i)].data) = Len(Objs(h)[i].data)
  BY <1>0 DEF CopiesMade
<1>3. \A c \in 1 .. Len(Objs(k)) : \E i \in M : c = CopyIndex(G, t, i)
  BY <1>0 DEF CopiesMade
<1>4. Full(k)
  <2> SUFFICES ASSUME NEW c \in 1 .. Len(Objs(k)) PROVE Len(Objs(k)[c].data) # 0
    BY DEF Full
  <2>1. PICK i \in M : c = CopyIndex(G, t, i)
    BY <1>3
  <2>2. Len(Objs(k)[c].data) = Len(Objs(h)[i].data)
    BY <1>2, <2>1
  <2>3. Len(Objs(h)[i].data) # 0
    BY DEF Full
  <2> QED BY <2>2, <2>3
<1>5. \A i, j \in M : CopyIndex(G, t, i) = CopyIndex(G, t, j) => i = j
  BY <1>2 DEF Distinct
<1>6. Distinct(k)
  BY <1>2, <1>3 DEF Distinct
<1>7. ASSUME NEW i \in M PROVE Addr(k, CopyIndex(G, t, i)) = NewPlace(G[i - 1])
  <2>1. NewPlace(G[i - 1]) = GcBase[t] + G[i - 1].used[t] + 1
    <3>1. i - 1 \in 0 .. N
      OBVIOUS
    <3>2. G[i - 1].from = f
      BY <3>1 DEF CopyRun
    <3> QED BY <3>2 DEF NewPlace
  <2>2. Addr(k, CopyIndex(G, t, i)) = GcBase[t] + Objs(k)[CopyIndex(G, t, i)].at + 1
    BY <1>1 DEF Addr, DataAddr
  <2> QED BY <1>2, <2>1, <2>2
<1>8. ASSUME NEW i \in M, NEW j \in M, NewPlace(G[i - 1]) = NewPlace(G[j - 1]) PROVE i = j
  <2>3. AddressesDiffer(k)
    BY <1>1, <1>4, AddressesApart
  <2>4. CopyIndex(G, t, i) = CopyIndex(G, t, j)
    BY <1>2, <1>7, <1>8, <2>3 DEF AddressesDiffer
  <2> QED BY <1>5, <2>4
<1> QED BY <1>4, <1>5, <1>6, <1>7, <1>8 DEF CopiesTold, Place

-----------------------------------------------------------------------------
(* The words of what is marked, before the collection.                     *)

(* A word of an object of L is NULL, the number that is no address, or the *)
(* address of an object of L.                                              *)
WordCase(h, shadow, L, i, k) ==
    LET w == Objs(h)[i].data[k]
        m == shadow[Objs(h)[i].id][k]
    IN \/ m = -1 /\ w = 1
       \/ m = 0 /\ w = 0
       \/ m \in L /\ m # 0 /\ m # -1 /\ \E j \in 1 .. Len(Objs(h)) : w = Addr(h, j) /\ Objs(h)[j].id = m

(* The words of a live object, by what the program wrote.                  *)
LEMMA WordsOfLive ==
    ASSUME NEW h, NEW roots, NEW held, NEW shadow, NEW L, Survival(h, roots, held, shadow, L),
           NEW i \in 1 .. Len(Objs(h)), Objs(h)[i].id \in L, NEW k \in 1 .. Len(Objs(h)[i].data)
    PROVE  WordCase(h, shadow, L, i, k)
<1>1. PICK w, m : w = Objs(h)[i].data[k] /\ m = shadow[Objs(h)[i].id][k]
  OBVIOUS
<1>2. Len(Objs(h)[i].data) = Len(shadow[Objs(h)[i].id])
  BY DEF Survival
<1>3. m \in L \cup {0, -1}
  BY <1>1, <1>2 DEF Survival
<1>4. Says(h, w, m)
  BY <1>1 DEF Survival
<1> QED BY <1>1, <1>3, <1>4 DEF WordCase, Says, Named

(* No object of a heap that survives is empty.                             *)
LEMMA SurvivalFull ==
    ASSUME NEW h, NEW roots, NEW held, NEW shadow, NEW L, Survival(h, roots, held, shadow, L)
    PROVE  Full(h) /\ Distinct(h)
BY DEF Survival, Full, Distinct

(* Addresses, as facts about each object.                                  *)
Inside(h) == /\ \A i, j \in 1 .. Len(Objs(h)) : Within(h, Addr(h, i), j) <=> i = j
             /\ \A w \in 0 .. 1 : \A j \in 1 .. Len(Objs(h)) : ~Within(h, w, j)

(* An address lies inside the object it is of, and in no other.            *)
LEMMA AddressesInside ==
    ASSUME NEW h \in Heaps, WellLaid(h), Full(h)
    PROVE  Inside(h)
<1>1. PICK N \in Nat, f \in Nat : N = Len(Objs(h)) /\ f = h.from
  BY HeapParts
<1>3. \A i, j \in 1 .. N : Within(h, Addr(h, i), j) <=> i = j
  BY <1>1, Addresses
<1>4. \A w \in 0 .. 1 : \A j \in 1 .. N : ~Within(h, w, j)
  BY <1>1, Addresses
<1> QED BY <1>1, <1>3, <1>4 DEF Inside

(* What is marked is alive.                                                *)
LEMMA MarkedLives ==
    ASSUME NEW h \in Heaps, WellLaid(h), NEW roots \in [GcSlots -> Nat], NEW held, NEW shadow, NEW L,
           Survival(h, roots, held, shadow, L)
    PROVE  \A i \in MarkedBy(h, roots) : i \in 1 .. Len(Objs(h)) /\ Objs(h)[i].id \in L
<1>1. PICK N \in Nat : N = Len(Objs(h))
  BY HeapParts
<1>2. PICK T : T = {i \in 1 .. N : Objs(h)[i].id \in L}
  OBVIOUS
<1>3. Full(h) /\ AddressesDiffer(h) /\ Inside(h)
  BY SurvivalFull, AddressesApart, AddressesInside
<1>4. ASSUME NEW i \in Heads(h, Live(roots)) PROVE i \in T
  <2>1. PICK a \in Live(roots) : <<h.from, i>> \in Headers(h, a) /\ i \in 1 .. N
    BY <1>1 DEF Heads
  <2>2. PICK r \in GcSlots : a = roots[r] /\ a # 0
    BY <2>1 DEF Live
  <2>3. Addr(h, i) = a
    <3>1. h.from \in 1 .. 2
      BY HeapParts
    <3> QED BY <2>1, <3>1, HeadersLemma DEF Addr, Objs
  <2>4. held[r] \in L \cup {0} /\ Named(h, a, held[r])
    BY <2>2 DEF Survival
  <2>5. held[r] \in L /\ \E j \in 1 .. N : Objs(h)[j].id = held[r] /\ Addr(h, j) = a
    BY <1>1, <2>2, <2>4 DEF Named
  <2> QED BY <1>1, <1>2, <1>3, <2>1, <2>3, <2>5 DEF AddressesDiffer
<1>5. ASSUME NEW i \in T, NEW j \in 1 .. N, LeadsTo(h, i, j) PROVE j \in T
  <2>1. i \in 1 .. N /\ Objs(h)[i].id \in L
    BY <1>2
  <2>2. DOMAIN Objs(h)[i].data = 1 .. Len(Objs(h)[i].data)
    <3>1. Objs(h)[i] \in GcObjects
      BY <1>1, <2>1, HeapParts
    <3>2. Objs(h)[i].data \in Seq(Nat)
      BY <3>1, SizeType
    <3> QED BY <3>2
  <2>3. PICK k \in 1 .. Len(Objs(h)[i].data) : Within(h, Objs(h)[i].data[k], j)
    BY <1>5, <2>2 DEF LeadsTo
  <2>4. WordCase(h, shadow, L, i, k)
    BY <1>1, <2>1, WordsOfLive
  <2>5. PICK w : w = Objs(h)[i].data[k] /\ Within(h, w, j)
    BY <2>3
  <2>6. ~Within(h, 0, j) /\ ~Within(h, 1, j)
    BY <1>1, <1>3 DEF Inside
  <2>7. PICK q \in 1 .. N : w = Addr(h, q) /\ Objs(h)[q].id \in L
    BY <1>1, <2>4, <2>5, <2>6 DEF WordCase
  <2>8. q = j
    BY <1>1, <1>3, <2>5, <2>7 DEF Inside
  <2> QED BY <1>2, <2>7, <2>8
<1>6. MarkedBy(h, roots) \subseteq T
  <2>1. Heads(h, Live(roots)) \subseteq T /\ T \subseteq 1 .. N
    BY <1>2, <1>4
  <2> QED BY <1>1, <1>5, <2>1, MarkedLeast DEF MarkedBy
<1> QED BY <1>1, <1>2, <1>6

(* A word of a marked object, when the collection can do right.            *)
MarkedWord(h, M, shadow, i, k) ==
    LET w == Objs(h)[i].data[k]
        m == shadow[Objs(h)[i].id][k]
    IN \/ m = -1 /\ w = 1
       \/ m = 0 /\ w = 0
       \/ m # 0 /\ m # -1 /\ \E j \in M : j <= i - 1 /\ w = Addr(h, j) /\ Objs(h)[j].id = m

(* The words of a marked object, by what the program wrote.                *)
LEMMA MarkedWords ==
    ASSUME NEW h \in Heaps, WellLaid(h), NEW roots \in [GcSlots -> Nat], NEW held, NEW shadow, NEW L,
           Survival(h, roots, held, shadow, L), Tame(h, roots), NEW M, M = MarkedBy(h, roots)
    PROVE  /\ \A i \in M : \A k \in 1 .. Len(Objs(h)[i].data) : MarkedWord(h, M, shadow, i, k)
           /\ \A i, j \in M : i # j => Objs(h)[i].data # Objs(h)[j].data
<1>1. PICK N \in Nat : N = Len(Objs(h))
  BY HeapParts
<1>2. \A i \in M : i \in 1 .. N /\ Objs(h)[i].id \in L
  BY <1>1, MarkedLives
<1>3. Inside(h)
  BY SurvivalFull, AddressesInside
<1>4. \A i \in M : \A j \in M : LeadsTo(h, i, j) => j < i
  BY DEF Tame, LeadsTo, Objs, MarkedBy, Live
<1>5. \A i, j \in M : i # j => Objs(h)[i].data # Objs(h)[j].data
  BY DEF Tame, Objs, MarkedBy, Live
<1>6. \A i \in M : \A j \in 1 .. N : LeadsTo(h, i, j) => j \in M
  BY <1>1, MarkedCloses DEF MarkedBy
<1>7. ASSUME NEW i \in M, NEW k \in 1 .. Len(Objs(h)[i].data) PROVE MarkedWord(h, M, shadow, i, k)
  <2>1. WordCase(h, shadow, L, i, k)
    BY <1>1, <1>2, WordsOfLive
  <2>2. PICK w, m : w = Objs(h)[i].data[k] /\ m = shadow[Objs(h)[i].id][k]
    OBVIOUS
  <2>3. k \in DOMAIN Objs(h)[i].data
    <3>1. Objs(h)[i] \in GcObjects
      BY <1>1, <1>2, HeapParts
    <3>2. Objs(h)[i].data \in Seq(Nat)
      BY <3>1, SizeType
    <3> QED BY <3>2
  <2>4. ASSUME NEW j \in 1 .. N, w = Addr(h, j) PROVE j \in M /\ j <= i - 1
    <3>1. Within(h, w, j)
      BY <1>1, <1>3, <2>4 DEF Inside
    <3>2. LeadsTo(h, i, j)
      BY <2>2, <2>3, <3>1 DEF LeadsTo
    <3>3. j \in M /\ j < i /\ i \in 1 .. N
      BY <1>2, <1>4, <1>6, <3>2
    <3> QED BY <3>3
  <2> QED BY <1>1, <2>1, <2>2, <2>4 DEF WordCase, MarkedWord
<1> QED BY <1>5, <1>7

-----------------------------------------------------------------------------
(* The words of the copies, after it.                                      *)

(* The word a marked object has in the end, and the place of its copy.     *)
NewWord(h, M, G, i, k, v) ==
    LET w == Objs(h)[i].data[k]
    IN \/ (w = 0 \/ w = 1) /\ v = w
       \/ \E j \in M : w = Addr(h, j) /\ v = Place(G, j)

(* A word is what it will be once the turn of its own object has come.     *)
LEMMA WordSettles ==
    ASSUME NEW h \in Heaps, WellLaid(h), Full(h), NEW N \in Nat, N = Len(Objs(h)),
           NEW M, M \subseteq 1 .. N, NEW G, CopyRun(h, M, N, G),
           NEW shadow, NEW i \in M, NEW k \in 1 .. Len(Objs(h)[i].data), MarkedWord(h, M, shadow, i, k),
           NEW n \in {i - 1, N}
    PROVE  NewWord(h, M, G, i, k, Objs(G[n])[i].data[k])
<1>1. PICK f \in Nat, t \in Nat : f = h.from /\ t = Other(f)
  BY HeapParts
<1>2. n \in 0 .. N /\ i - 1 <= n
  OBVIOUS
<1>3. Words(h, M, G, n)
  BY <1>1, <1>2, WordsHold
<1>4. PICK w, v : w = Objs(h)[i].data[k] /\ v = Objs(G[n])[i].data[k]
  OBVIOUS
<1>5. /\ \A j \in M : w = Addr(h, j) => v = IF j <= n THEN Place(G, j) ELSE Addr(h, j)
      /\ w \in 0 .. 1 => v = w
  BY <1>3, <1>4 DEF Words, WordRight, Place
<1>6. CASE w = 0 \/ w = 1
  BY <1>4, <1>5, <1>6 DEF NewWord
<1>7. CASE ~(w = 0 \/ w = 1)
  <2>1. PICK j \in M : j <= i - 1 /\ w = Addr(h, j)
    BY <1>4, <1>7 DEF MarkedWord
  <2>2. j <= n
    <3>1. j \in 1 .. N /\ i \in 1 .. N
      OBVIOUS
    <3> QED BY <1>2, <2>1, <3>1
  <2>3. v = Place(G, j)
    BY <1>5, <2>1, <2>2
  <2> QED BY <1>4, <2>1, <2>3 DEF NewWord
<1> QED BY <1>6, <1>7

Big(x) == x # 0 /\ x # 1

(* The place of a copy is neither 0 nor 1.                                 *)
LEMMA BigPlaces ==
    ASSUME NEW h \in Heaps, WellLaid(h), Full(h), NEW N \in Nat, N = Len(Objs(h)),
           NEW M, M \subseteq 1 .. N, NEW G, CopyRun(h, M, N, G),
           NEW j \in 1 .. N
    PROVE  Big(Place(G, j))
<1>1. PICK t \in 1 .. 2 : t = Other(h.from)
  BY HeapParts
<1>2. PICK x : x = NewPlace(G[j - 1])
  OBVIOUS
<1>3. x \in Nat /\ x # 0 /\ x # 1
  <2>1. NewPlace(G[j - 1]) \in Nat /\ FilledSpace(t, NewPlace(G[j - 1]))
    BY <1>1, NewPlaces
  <2>2. x \in Nat /\ GcBase[t] + 1 <= x
    BY <1>2, <2>1 DEF FilledSpace
  <2> QED BY <2>2, SmallOutside
<1> QED BY <1>1, <1>2, <1>3 DEF Big, Place

(* Two rows of words with the same elements are the same row.              *)
LEMMA SameWords ==
    ASSUME NEW a \in Seq(Nat), NEW b \in Seq(Nat), Len(a) = Len(b), \A k \in 1 .. Len(a) : a[k] = b[k]
    PROVE  a = b
OBVIOUS

(* Addresses and places are no small numbers; both tell objects apart.     *)
Telling(h, M, G) ==
    /\ \A j \in M : Addr(h, j) # 0 /\ Addr(h, j) # 1 /\ Place(G, j) # 0 /\ Place(G, j) # 1
    /\ \A i, j \in M : Addr(h, i) = Addr(h, j) => i = j
    /\ \A i, j \in M : Place(G, i) = Place(G, j) => i = j

(* The places of the copies tell their objects apart.                      *)
LEMMA TellingLemma ==
    ASSUME NEW h \in Heaps, WellLaid(h), Full(h), Distinct(h), NEW N \in Nat, N = Len(Objs(h)),
           NEW M, M \subseteq 1 .. N, NEW G, CopyRun(h, M, N, G)
    PROVE  Telling(h, M, G)
<1>1. PICK f \in Nat, t \in Nat : f = h.from /\ t = Other(f) /\ f >= 1 /\ t >= 1
  BY HeapParts
<1>2. AddressesDiffer(h)
  BY AddressesApart
<1>3. PICK k \in Heaps : k = Flipped(G[N])
  <2>1. N \in 0 .. N
    OBVIOUS
  <2>2. G[N] \in Heaps
    BY <2>1 DEF CopyRun
  <2> QED BY <2>2, FlippedFacts
<1>4. \A i, j \in M : Place(G, i) = Place(G, j) => i = j
  <2>1. CopiesTold(k, M, G, t)
    BY <1>1, <1>3, CopiesApart
  <2> QED BY <2>1 DEF CopiesTold
<1>5. ASSUME NEW j \in M PROVE Place(G, j) # 0 /\ Place(G, j) # 1
  <2>1. j \in 1 .. N
    OBVIOUS
  <2> QED BY <2>1, BigPlaces DEF Big
<1>6. ASSUME NEW j \in M PROVE Addr(h, j) # 0 /\ Addr(h, j) # 1
  <2>1. Addr(h, j) \in Nat /\ FilledSpace(h.from, Addr(h, j))
    BY AddressIn
  <2>2. PICK x \in Nat : x = Addr(h, j) /\ GcBase[f] + 1 <= x
    BY <1>1, <2>1 DEF FilledSpace
  <2>3. f \in 1 .. 2
    BY <1>1, HeapParts
  <2> QED BY <2>2, <2>3, SmallOutside
<1> QED BY <1>2, <1>4, <1>5, <1>6 DEF Telling, AddressesDiffer

(* The words are settled when an object's turn comes, and still tell the   *)
(* marked objects apart.                                                   *)
LEMMA NewWordsTell ==
    ASSUME NEW h, NEW M, NEW G, Telling(h, M, G),
           NEW i \in M, NEW j \in M, NEW k, NEW v, NewWord(h, M, G, i, k, v), NewWord(h, M, G, j, k, v)
    PROVE  Objs(h)[i].data[k] = Objs(h)[j].data[k]
BY DEF Telling, NewWord

(* A word ends up as one thing only.                                       *)
LEMMA NewWordsSame ==
    ASSUME NEW h, NEW M, NEW G, Telling(h, M, G),
           NEW i \in M, NEW k, NEW v, NEW u, NewWord(h, M, G, i, k, v), NewWord(h, M, G, i, k, u)
    PROVE  v = u
BY DEF Telling, NewWord

Settled(M, N, G) ==
    /\ \A i \in M : Objs(G[i - 1])[i].data = Objs(G[N])[i].data
    /\ \A i, j \in M : Objs(G[N])[i].data = Objs(G[N])[j].data => i = j

(* The words of an object whose turn has come do not change any more.      *)
LEMMA DataSettles ==
    ASSUME NEW h \in Heaps, WellLaid(h), Full(h), Distinct(h), NEW N \in Nat, N = Len(Objs(h)),
           NEW M, M \subseteq 1 .. N, NEW G, CopyRun(h, M, N, G),
           NEW shadow, \A i \in M : \A k \in 1 .. Len(Objs(h)[i].data) : MarkedWord(h, M, shadow, i, k),
           \A i, j \in M : i # j => Objs(h)[i].data # Objs(h)[j].data
    PROVE  Settled(M, N, G)
<1>1. Telling(h, M, G)
  BY TellingLemma
<1>2. ASSUME NEW i \in M, NEW n \in {i - 1, N}
      PROVE  /\ Objs(G[n])[i].data \in Seq(Nat) /\ Len(Objs(G[n])[i].data) = Len(Objs(h)[i].data)
             /\ \A k \in 1 .. Len(Objs(h)[i].data) : NewWord(h, M, G, i, k, Objs(G[n])[i].data[k])
  <2>1. PICK f, t : f = h.from /\ t = Other(f)
    OBVIOUS
  <2>2. n \in 0 .. N /\ i \in 1 .. N
    OBVIOUS
  <2>3. Copying(h, M, N, G, f, t, n)
    BY <2>1, <2>2, CopyingHolds
  <2>4. Len(Objs(G[n])[i].data) = Len(Objs(h)[i].data)
    BY <2>2, <2>3 DEF Copying, CopiesFit, CopiesKept
  <2>5. Objs(G[n])[i].data \in Seq(Nat)
    <3>1. G[n] \in Heaps /\ Len(Objs(G[n])) = N
      BY <2>2 DEF CopyRun
    <3>2. Objs(G[n])[i] \in GcObjects
      BY <2>2, <3>1, HeapParts
    <3> QED BY <3>2, SizeType
  <2>6. ASSUME NEW k \in 1 .. Len(Objs(h)[i].data) PROVE NewWord(h, M, G, i, k, Objs(G[n])[i].data[k])
    <3>1. MarkedWord(h, M, shadow, i, k)
      OBVIOUS
    <3> QED BY <3>1, WordSettles
  <2> QED BY <2>4, <2>5, <2>6
<1>3. ASSUME NEW i \in M PROVE Objs(G[i - 1])[i].data = Objs(G[N])[i].data
  <2>1. PICK a, b : a = Objs(G[i - 1])[i].data /\ b = Objs(G[N])[i].data
    OBVIOUS
  <2>2. a \in Seq(Nat) /\ b \in Seq(Nat) /\ Len(a) = Len(b) /\ Len(a) = Len(Objs(h)[i].data)
    BY <1>2, <2>1
  <2>3. ASSUME NEW k \in 1 .. Len(a) PROVE a[k] = b[k]
    <3>1. NewWord(h, M, G, i, k, a[k]) /\ NewWord(h, M, G, i, k, b[k])
      BY <1>2, <2>1, <2>2
    <3> QED BY <1>1, <3>1, NewWordsSame
  <2> QED BY <2>1, <2>2, <2>3, SameWords
<1>4. ASSUME NEW i \in M, NEW j \in M, Objs(G[N])[i].data = Objs(G[N])[j].data PROVE i = j
  <2>1. PICK a, b : a = Objs(h)[i].data /\ b = Objs(h)[j].data
    OBVIOUS
  <2>2. a \in Seq(Nat) /\ b \in Seq(Nat)
    <3>1. Objs(h)[i] \in GcObjects /\ Objs(h)[j] \in GcObjects
      BY HeapParts
    <3> QED BY <2>1, <3>1, SizeType
  <2>3. Len(a) = Len(b)
    BY <1>2, <1>4, <2>1
  <2>4. ASSUME NEW k \in 1 .. Len(a) PROVE a[k] = b[k]
    <3>1. PICK v : v = Objs(G[N])[i].data[k] /\ v = Objs(G[N])[j].data[k]
      BY <1>4
    <3>2. NewWord(h, M, G, i, k, v)
      BY <1>2, <2>1, <3>1
    <3>3. NewWord(h, M, G, j, k, v)
      BY <1>2, <2>1, <2>3, <3>1
    <3> QED BY <1>1, <2>1, <3>2, <3>3, NewWordsTell
  <2>5. a = b
    BY <2>2, <2>3, <2>4, SameWords
  <2> QED BY <2>1, <2>5
<1> QED BY <1>3, <1>4 DEF Settled

-----------------------------------------------------------------------------
(* A root follows its object.                                              *)

(* No copy is put at the address of an object of from_space.               *)
LEMMA PlaceIsNew ==
    ASSUME NEW h \in Heaps, WellLaid(h), Full(h), NEW N \in Nat, N = Len(Objs(h)),
           NEW M, M \subseteq 1 .. N, NEW G, CopyRun(h, M, N, G),
           NEW i \in 1 .. N, NEW j \in 1 .. N
    PROVE  Place(G, j) # Addr(h, i)
<1>1. PICK f \in Nat, t \in Nat : f = h.from /\ t = Other(f)
  BY HeapParts
<1>2. PICK x, y : x = NewPlace(G[j - 1]) /\ y = Addr(h, i)
  OBVIOUS
<1>3. x \in Nat /\ FilledSpace(t, x)
  BY <1>1, <1>2, NewPlaces
<1>4. y \in Nat /\ FilledSpace(f, y)
  BY <1>1, <1>2, AddressIn
<1>5. x # y
  <2>1. f \in 1 .. 2 /\ t \in 1 .. 2 /\ t # f
    BY <1>1, HeapParts
  <2> QED BY <1>3, <1>4, <2>1, SpacesApart
<1> QED BY <1>2, <1>5 DEF Place

(* A root that names a marked object gets the address of its copy.         *)
LEMMA RootFollows ==
    ASSUME NEW h \in Heaps, WellLaid(h), Full(h), Distinct(h), NEW N \in Nat, N = Len(Objs(h)),
           NEW M, M \subseteq 1 .. N, NEW G, CopyRun(h, M, N, G),
           Settled(M, N, G), NEW i \in M
    PROVE  RootMoved(G[N], M, Addr(h, i)) = Place(G, i)
<1>1. PICK f \in Nat, t \in Nat : f = h.from /\ t = Other(f) /\ f \in 1 .. 2 /\ t \in 1 .. 2 /\ t # f
  BY HeapParts
<1>2. PICK C \in Heaps : C = G[N] /\ C.from = f /\ Len(Objs(C)) = N
  <2>1. N \in 0 .. N
    OBVIOUS
  <2> QED BY <1>1, <2>1 DEF CopyRun
<1>3. PICK k \in Heaps : k = Flipped(C)
  BY FlippedFacts
<1>4. CopiesMade(h, k, M, G, t, N) /\ CopiesTold(k, M, G, t)
  BY <1>1, <1>2, <1>3, Copies, CopiesApart
<1>5. Objs(k) = C.table[t] /\ k.from = t
  BY <1>2, <1>4 DEF CopiesMade
<1>6. \A j \in 1 .. N : DataAddr(f, Objs(C)[j]) = Addr(h, j)
  <2>1. N \in 0 .. N
    OBVIOUS
  <2>2. Copying(h, M, N, G, f, t, N)
    BY <1>1, <2>1, CopyingHolds
  <2>3. \A j \in 1 .. N : Objs(C)[j].at = Objs(h)[j].at
    BY <1>2, <2>2 DEF Copying, CopiesFit, CopiesKept
  <2> QED BY <1>1, <2>3 DEF DataAddr, Addr
<1>7. \A c \in 1 .. Len(Objs(k)) : DataAddr(t, C.table[t][c]) # Addr(h, i)
  <2> SUFFICES ASSUME NEW c \in 1 .. Len(Objs(k)) PROVE DataAddr(t, C.table[t][c]) # Addr(h, i)
    OBVIOUS
  <2>1. PICK j \in M : c = CopyIndex(G, t, j)
    BY <1>4 DEF CopiesMade
  <2>2. Addr(k, c) = Place(G, j)
    BY <1>4, <2>1 DEF CopiesTold
  <2>3. j \in 1 .. N /\ i \in 1 .. N
    OBVIOUS
  <2>4. Place(G, j) # Addr(h, i)
    BY <2>3, PlaceIsNew
  <2> QED BY <1>5, <2>2, <2>4 DEF Addr
<1>8. PICK root, known : root = Addr(h, i) /\ known = {p \in Headers(C, root) : p[1] = C.from => p[2] \in M}
  OBVIOUS
<1>9. known = {<<f, i>>}
  <2>1. <<f, i>> \in known
    <3>1. i \in 1 .. Len(C.table[f]) /\ DataAddr(f, C.table[f][i]) = root
      BY <1>2, <1>6, <1>8 DEF Objs
    <3>2. <<f, i>> \in Headers(C, root)
      BY <1>1, <3>1, HeadersLemma
    <3> QED BY <1>8, <3>2
  <2>2. ASSUME NEW p \in known PROVE p = <<f, i>>
    <3>1. PICK s, j : s \in 1 .. 2 /\ p = <<s, j>> /\ p \in Headers(C, root)
      BY <1>8, HeadersPairs
    <3>2. j \in 1 .. Len(C.table[s]) /\ DataAddr(s, C.table[s][j]) = root
      BY <3>1, HeadersLemma
    <3>3. s # t
      BY <1>5, <1>7, <1>8, <3>2
    <3>4. s = f
      BY <1>1, <3>1, <3>3
    <3>5. j \in 1 .. N /\ Addr(h, j) = Addr(h, i)
      BY <1>2, <1>6, <1>8, <3>2, <3>4 DEF Objs
    <3>6. j = i
      BY <3>5, AddressesApart DEF AddressesDiffer
    <3> QED BY <3>1, <3>4, <3>6
  <2> QED BY <2>1, <2>2
<1>10. PICK same : same = {c \in DOMAIN C.table[t] : C.table[t][c].data = C.table[f][i].data}
  OBVIOUS
<1>11. same = {CopyIndex(G, t, i)}
  <2>1. DOMAIN C.table[t] = 1 .. Len(Objs(k))
    BY <1>1, <1>5, HeapParts
  <2>2. \A j \in M : CopyIndex(G, t, j) \in 1 .. Len(Objs(k)) /\ C.table[t][CopyIndex(G, t, j)].data = Objs(C)[j].data
    BY <1>2, <1>4, <1>5 DEF CopiesMade, Settled
  <2>3. C.table[f][i].data = Objs(C)[i].data
    BY <1>2 DEF Objs
  <2>4. \A c \in 1 .. Len(Objs(k)) : \E j \in M : c = CopyIndex(G, t, j)
    BY <1>4 DEF CopiesMade
  <2>5. \A j \in M : Objs(C)[j].data = Objs(C)[i].data => j = i
    BY <1>2 DEF Settled
  <2> QED BY <1>10, <2>1, <2>2, <2>3, <2>4, <2>5
<1>12. PICK x : x = CHOOSE j \in same : \A q \in same : j <= q
  OBVIOUS
<1>13. x = CopyIndex(G, t, i)
  <2>1. CopyIndex(G, t, i) \in Nat
    BY <1>1, <1>4 DEF CopiesMade
  <2>2. \E j \in same : \A q \in same : j <= q
    BY <1>11, <2>1
  <2>3. x \in same
    BY <1>12, <2>2
  <2> QED BY <1>11, <2>3
<1>14. RootMoved(C, M, root) = DataAddr(t, C.table[t][x])
  <2>1. PICK old : old = CHOOSE p \in known : TRUE
    OBVIOUS
  <2>2. old = <<f, i>> /\ old[1] = f /\ old[2] = i
    BY <1>9, <2>1
  <2>3. RootMoved(C, M, root) =
            IF known = {} \/ {c \in DOMAIN C.table[t] : C.table[t][c].data = C.table[old[1]][old[2]].data} = {} THEN root
            ELSE DataAddr(t, C.table[t][CHOOSE j \in {c \in DOMAIN C.table[t] : C.table[t][c].data = C.table[old[1]][old[2]].data} :
                                            \A q \in {c \in DOMAIN C.table[t] : C.table[t][c].data = C.table[old[1]][old[2]].data} : j <= q])
    BY <1>1, <1>2, <1>8, <2>1 DEF RootMoved
  <2>4. RootMoved(C, M, root) = IF known = {} \/ same = {} THEN root
                                ELSE DataAddr(t, C.table[t][CHOOSE j \in same : \A q \in same : j <= q])
    BY <1>10, <2>2, <2>3
  <2>5. known # {} /\ same # {}
    BY <1>9, <1>11
  <2> QED BY <1>12, <2>4, <2>5
<1>15. DataAddr(t, C.table[t][x]) = Place(G, i)
  BY <1>4, <1>5, <1>13 DEF CopiesTold, Addr
<1> QED BY <1>2, <1>8, <1>14, <1>15

-----------------------------------------------------------------------------
(* A collection keeps what is promised.                                    *)

(* The words of a copy say what the object's words said.                   *)
LEMMA CopySays ==
    ASSUME NEW h, NEW M, NEW G, NEW k, NEW t, NEW shadow, NEW N, Telling(h, M, G),
           CopiesMade(h, k, M, G, t, N), CopiesTold(k, M, G, t),
           NEW i \in M, NEW q, MarkedWord(h, M, shadow, i, q), NEW v, NewWord(h, M, G, i, q, v)
    PROVE  Says(k, v, shadow[Objs(h)[i].id][q])
<1>1. PICK w, m : w = Objs(h)[i].data[q] /\ m = shadow[Objs(h)[i].id][q]
  OBVIOUS
<1>2. CASE m = -1 /\ w = 1
  <2>1. v = 1
    BY <1>1, <1>2 DEF NewWord, Telling
  <2> QED BY <1>1, <1>2, <2>1 DEF Says
<1>3. CASE m = 0 /\ w = 0
  <2>1. v = 0
    BY <1>1, <1>3 DEF NewWord, Telling
  <2> QED BY <1>1, <1>3, <2>1 DEF Says, Named
<1>4. CASE m # 0 /\ m # -1 /\ \E j \in M : w = Addr(h, j) /\ Objs(h)[j].id = m
  <2>1. PICK j \in M : w = Addr(h, j) /\ Objs(h)[j].id = m
    BY <1>4
  <2>2. v = Place(G, j)
    BY <1>1, <2>1 DEF NewWord, Telling
  <2>3. CopyIndex(G, t, j) \in 1 .. Len(Objs(k)) /\ Objs(k)[CopyIndex(G, t, j)].id = m
    BY <2>1 DEF CopiesMade
  <2>4. Addr(k, CopyIndex(G, t, j)) = v
    BY <2>2 DEF CopiesTold
  <2> QED BY <1>1, <1>4, <2>3, <2>4 DEF Says, Named
<1> QED BY <1>1, <1>2, <1>3, <1>4 DEF MarkedWord

(* A root follows what it names.                                           *)
LEMMA RootKept ==
    ASSUME NEW h \in Heaps, WellLaid(h), NEW roots \in [GcSlots -> Nat], NEW held, NEW shadow, NEW L,
           Survival(h, roots, held, shadow, L), NEW N \in Nat, N = Len(Objs(h)), NEW M, M = MarkedBy(h, roots),
           M \subseteq 1 .. N, NEW G, CopyRun(h, M, N, G), Settled(M, N, G), Telling(h, M, G),
           NEW k, NEW t, CopiesMade(h, k, M, G, t, N), CopiesTold(k, M, G, t),
           NEW r \in GcSlots
    PROVE  /\ held[r] \in {Objs(h)[i].id : i \in M} \cup {0}
           /\ Named(k, IF roots[r] = 0 THEN 0 ELSE RootMoved(G[N], M, roots[r]), held[r])
<1>1. held[r] \in L \cup {0} /\ Named(h, roots[r], held[r])
  BY DEF Survival
<1>2. CASE held[r] = 0
  BY <1>1, <1>2 DEF Named
<1>3. CASE held[r] # 0
  <2>1. PICK i \in 1 .. N : Objs(h)[i].id = held[r] /\ Addr(h, i) = roots[r]
    BY <1>1, <1>3 DEF Named
  <2>2. Full(h) /\ Distinct(h)
    BY SurvivalFull
  <2>3. Addr(h, i) # 0
    <3>1. PICK f \in Nat : f = h.from
      BY HeapParts
    <3>2. Addr(h, i) \in Nat /\ FilledSpace(h.from, Addr(h, i))
      BY <2>2, AddressIn
    <3>3. PICK y \in Nat : y = Addr(h, i) /\ GcBase[f] + 1 <= y
      BY <3>1, <3>2 DEF FilledSpace
    <3>4. f \in 1 .. 2
      BY <3>1, HeapParts
    <3> QED BY <3>3, <3>4, SmallOutside
  <2>4. i \in M
    <3>1. h.from \in 1 .. 2
      BY HeapParts
    <3>2. <<h.from, i>> \in Headers(h, roots[r])
      <4>1. PICK a, s : a = roots[r] /\ s = h.from /\ s \in 1 .. 2
        BY <3>1
      <4>2. i \in 1 .. Len(h.table[s]) /\ DataAddr(s, h.table[s][i]) = a
        BY <2>1, <4>1 DEF Addr, Objs
      <4>3. <<s, i>> \in Headers(h, a)
        BY <4>1, <4>2, HeadersLemma
      <4> QED BY <4>1, <4>3
    <3>3. roots[r] \in Live(roots)
      BY <2>1, <2>3 DEF Live
    <3>4. i \in Heads(h, Live(roots))
      BY <3>2, <3>3 DEF Heads
    <3> QED BY <3>4, MarkedCloses DEF MarkedBy
  <2>5. RootMoved(G[N], M, Addr(h, i)) = Place(G, i)
    BY <2>2, <2>4, RootFollows
  <2>6. CopyIndex(G, t, i) \in 1 .. Len(Objs(k)) /\ Objs(k)[CopyIndex(G, t, i)].id = held[r]
    BY <2>1, <2>4 DEF CopiesMade
  <2>7. Addr(k, CopyIndex(G, t, i)) = Place(G, i)
    BY <2>4 DEF CopiesTold
  <2>8. (IF roots[r] = 0 THEN 0 ELSE RootMoved(G[N], M, roots[r])) = Place(G, i)
    BY <2>1, <2>3, <2>5
  <2>9. Named(k, Place(G, i), held[r])
    BY <1>3, <2>6, <2>7 DEF Named
  <2> QED BY <2>1, <2>4, <2>8, <2>9
<1> QED BY <1>2, <1>3

(* A collection that could do right keeps what is promised.                *)
LEMMA CollectSurvives ==
    ASSUME NEW h \in Heaps, WellLaid(h), NEW roots \in [GcSlots -> Nat], NEW held, NEW shadow, NEW L,
           Survival(h, roots, held, shadow, L), Tame(h, roots), h.used[h.from] # 0
    PROVE  \E K : Survival(Collected(h, roots).heap, Collected(h, roots).roots, held, shadow, K)
<1>1. PICK N \in Nat, f \in Nat, t \in Nat : N = Len(Objs(h)) /\ f = h.from /\ t = Other(f)
  BY HeapParts
<1>2. PICK M : M = MarkedBy(h, roots)
  OBVIOUS
<1>3. M \subseteq 1 .. N /\ \A i \in M : Objs(h)[i].id \in L
  BY <1>1, <1>2, MarkedLives
<1>4. PICK G : CopyRun(h, M, N, G) /\ Copied(h, M) = G[N]
  BY <1>1, CopiedRun
<1>5. PICK k \in Heaps : k = Flipped(G[N])
  <2>1. N \in 0 .. N
    OBVIOUS
  <2>2. G[N] \in Heaps
    BY <1>4, <2>1 DEF CopyRun
  <2> QED BY <2>2, FlippedFacts
<1>6. Full(h) /\ Distinct(h)
  BY SurvivalFull
<1>7. CopiesMade(h, k, M, G, t, N) /\ CopiesTold(k, M, G, t) /\ Telling(h, M, G)
  BY <1>1, <1>3, <1>4, <1>5, <1>6, Copies, CopiesApart, TellingLemma
<1>8. /\ \A i \in M : \A q \in 1 .. Len(Objs(h)[i].data) : MarkedWord(h, M, shadow, i, q)
      /\ \A i, j \in M : i # j => Objs(h)[i].data # Objs(h)[j].data
  BY <1>2, MarkedWords
<1>9. Settled(M, N, G)
  BY <1>1, <1>3, <1>4, <1>6, <1>8, DataSettles
<1>10. PICK after : after = Collected(h, roots)
  OBVIOUS
<1>11. after.heap = k /\ after.roots = [r \in GcSlots |-> IF roots[r] = 0 THEN 0 ELSE RootMoved(G[N], M, roots[r])]
  BY <1>2, <1>4, <1>5, <1>10, CollectedParts
<1>12. PICK K : K = {Objs(h)[i].id : i \in M}
  OBVIOUS
<1>13. /\ \A i \in 1 .. N : /\ Objs(h)[i].id \in 1 .. Len(shadow)
                            /\ Len(Objs(h)[i].data) = Len(shadow[Objs(h)[i].id])
  BY <1>1 DEF Survival
<1>14. \A c \in 1 .. Len(Objs(k)) : \E i \in M : c = CopyIndex(G, t, i)
  BY <1>7 DEF CopiesMade
<1>15. \A i \in M : /\ Objs(k)[CopyIndex(G, t, i)].id = Objs(h)[i].id
                    /\ Objs(k)[CopyIndex(G, t, i)].data = Objs(G[i - 1])[i].data
                    /\ Len(Objs(k)[CopyIndex(G, t, i)].data) = Len(Objs(h)[i].data)
  BY <1>7 DEF CopiesMade
<1>16. K \subseteq 1 .. Len(shadow)
  BY <1>3, <1>12, <1>13
<1>17. Full(k) /\ Distinct(k)
  BY <1>7 DEF CopiesTold
<1>18. ASSUME NEW c \in 1 .. Len(Objs(k))
       PROVE  /\ Objs(k)[c].id \in 1 .. Len(shadow) /\ Len(Objs(k)[c].data) = Len(shadow[Objs(k)[c].id])
  BY <1>3, <1>13, <1>14, <1>15
<1>19. ASSUME NEW r \in GcSlots PROVE held[r] \in K \cup {0} /\ Named(k, after.roots[r], held[r])
  <2>1. /\ held[r] \in {Objs(h)[i].id : i \in M} \cup {0}
        /\ Named(k, IF roots[r] = 0 THEN 0 ELSE RootMoved(G[N], M, roots[r]), held[r])
    BY <1>1, <1>2, <1>3, <1>4, <1>7, <1>9, RootKept
  <2> QED BY <1>11, <1>12, <2>1
<1>20. ASSUME NEW id \in K, NEW q \in 1 .. Len(shadow[id]) PROVE shadow[id][q] \in K \cup {0, -1}
  <2>1. PICK i \in M : id = Objs(h)[i].id
    BY <1>12
  <2>2. MarkedWord(h, M, shadow, i, q)
    BY <1>3, <1>8, <1>13, <2>1
  <2> QED BY <1>12, <2>1, <2>2 DEF MarkedWord
<1>21. ASSUME NEW c \in 1 .. Len(Objs(k)), NEW q \in 1 .. Len(Objs(k)[c].data)
       PROVE  Says(k, Objs(k)[c].data[q], shadow[Objs(k)[c].id][q])
  <2>1. PICK i \in M : c = CopyIndex(G, t, i)
    BY <1>14
  <2>2. q \in 1 .. Len(Objs(h)[i].data) /\ Objs(k)[c].id = Objs(h)[i].id
    BY <1>15, <2>1
  <2>3. MarkedWord(h, M, shadow, i, q)
    BY <1>8, <2>2
  <2>4. PICK n, v : n = i - 1 /\ v = Objs(G[n])[i].data[q]
    OBVIOUS
  <2>5. NewWord(h, M, G, i, q, v)
    BY <1>1, <1>3, <1>4, <1>6, <2>2, <2>3, <2>4, WordSettles
  <2>6. Says(k, v, shadow[Objs(h)[i].id][q])
    BY <1>7, <2>3, <2>5, CopySays
  <2>7. v = Objs(k)[c].data[q]
    BY <1>15, <2>1, <2>4
  <2> QED BY <2>2, <2>6, <2>7
<1>22. Survival(k, after.roots, held, shadow, K)
  BY <1>16, <1>17, <1>18, <1>19, <1>20, <1>21 DEF Survival, Full, Distinct
<1> QED BY <1>10, <1>11, <1>22

-----------------------------------------------------------------------------
(* The steps of the program: a store, an allocation, a root dropped.       *)

(* A heap g whose objects are those of h up to what their words say.       *)
SameLayout(g, h) ==
    /\ g.from = h.from /\ g.used = h.used /\ g.table[Other(h.from)] = h.table[Other(h.from)]
    /\ Len(Objs(g)) = Len(Objs(h))
    /\ \A j \in 1 .. Len(Objs(h)) : /\ Objs(g)[j].id = Objs(h)[j].id /\ Objs(g)[j].at = Objs(h)[j].at
                                    /\ Len(Objs(g)[j].data) = Len(Objs(h)[j].data)

(* A heap with the same objects at the same places is laid out well.       *)
LEMMA SameLaid ==
    ASSUME NEW h \in Heaps, NEW g \in Heaps, SameLayout(g, h), WellLaid(h)
    PROVE  WellLaid(g)
<1>1. PICK N, u : N \in Nat /\ N = Len(Objs(h)) /\ N = Len(Objs(g)) /\ u = h.used[h.from] /\ u = g.used[g.from]
  <2>1. Len(Objs(h)) \in Nat
    BY HeapParts
  <2> QED BY <2>1 DEF SameLayout
<1>2. \A j \in 1 .. N : Objs(g)[j].at = Objs(h)[j].at /\ Size(Objs(g)[j]) = Size(Objs(h)[j])
  BY <1>1 DEF SameLayout, Size
<1>3. SideBySide(Objs(h), u)
  BY <1>1 DEF WellLaid
<1>4. SideBySide(Objs(g), u)
  <2>1. \A i \in 1 .. N : i # N => i + 1 \in 1 .. N
    BY <1>1
  <2>2. \A i \in 1 .. N : Objs(h)[i].at + Size(Objs(h)[i]) = IF i = N THEN u ELSE Objs(h)[i + 1].at
    BY <1>1, <1>3 DEF SideBySide
  <2>3. \A i \in 1 .. N : Objs(g)[i].at + Size(Objs(g)[i]) = IF i = N THEN u ELSE Objs(g)[i + 1].at
    BY <1>2, <2>1, <2>2
  <2>4. /\ \A i, j \in 1 .. N : i < j => Objs(h)[i].at + Size(Objs(h)[i]) <= Objs(h)[j].at
        /\ \A i \in 1 .. N : Objs(h)[i].at + Size(Objs(h)[i]) <= u
    BY <1>1, <1>3 DEF SideBySide
  <2>5. /\ \A i, j \in 1 .. N : i < j => Objs(g)[i].at + Size(Objs(g)[i]) <= Objs(g)[j].at
        /\ \A i \in 1 .. N : Objs(g)[i].at + Size(Objs(g)[i]) <= u
    BY <1>2, <2>4
  <2> QED BY <1>1, <2>3, <2>5 DEF SideBySide
<1> QED BY <1>1, <1>4 DEF WellLaid, SameLayout

(* Its addresses name the same objects.                                    *)
LEMMA SameNames ==
    ASSUME NEW h, NEW g, SameLayout(g, h), NEW a, NEW id
    PROVE  Named(h, a, id) => Named(g, a, id)
<1>1. \A j \in 1 .. Len(Objs(h)) : Addr(g, j) = Addr(h, j) /\ Objs(g)[j].id = Objs(h)[j].id
  BY DEF SameLayout, Addr, DataAddr
<1> QED BY <1>1 DEF Named, SameLayout

(* A word written into an object.                                          *)
WithWord(h, i, k, w) ==
    [from |-> h.from, table |-> [h.table EXCEPT ![h.from][i].data[k] = w], used |-> h.used]

(* A store changes one word of one object.                                 *)
LEMMA StoredFacts ==
    ASSUME NEW h \in Heaps, NEW i \in 1 .. Len(Objs(h)), NEW k \in 1 .. Len(Objs(h)[i].data), NEW w \in Nat,
           NEW g, g = WithWord(h, i, k, w)
    PROVE  /\ g \in Heaps /\ SameLayout(g, h)
           /\ \A j \in 1 .. Len(Objs(h)) : \A q \in 1 .. Len(Objs(h)[j].data) :
                  Objs(g)[j].data[q] = IF j = i /\ q = k THEN w ELSE Objs(h)[j].data[q]
<1>1. PICK f, t, s, o, d : f = h.from /\ t = Other(f) /\ s = Objs(h) /\ o = s[i] /\ d = o.data
  OBVIOUS
<1>2. f \in 1 .. 2 /\ t \in 1 .. 2 /\ t # f /\ s \in Seq(GcObjects) /\ o \in GcObjects /\ d \in Seq(Nat)
  <2>1. f \in 1 .. 2 /\ t \in 1 .. 2 /\ t # f /\ s \in Seq(GcObjects) /\ o \in GcObjects
    BY <1>1, HeapParts
  <2> QED BY <1>1, <2>1, SizeType
<1>3. h.table \in [1 .. 2 -> Seq(GcObjects)] /\ h.table[f] = s /\ h.used \in [1 .. 2 -> Nat]
  BY <1>1 DEF Heaps, Objs
<1>4. PICK d2 : d2 = [d EXCEPT ![k] = w]
  OBVIOUS
<1>5. d2 \in Seq(Nat) /\ Len(d2) = Len(d) /\ \A q \in 1 .. Len(d) : d2[q] = IF q = k THEN w ELSE d[q]
  BY <1>1, <1>2, <1>4
<1>6. PICK o2 : o2 = [o EXCEPT !.data = d2]
  OBVIOUS
<1>7. o2 \in GcObjects /\ o2.id = o.id /\ o2.at = o.at /\ o2.data = d2
  <2>1. o2 = [id |-> o.id, at |-> o.at, data |-> d2] /\ o.id \in Nat /\ o.at \in Nat
    BY <1>2, <1>6 DEF GcObjects
  <2>2. o2.id = o.id /\ o2.at = o.at /\ o2.data = d2
    BY <2>1
  <2> QED BY <1>5, <2>1, <2>2 DEF GcObjects
<1>8. PICK s2 : s2 = [s EXCEPT ![i] = o2]
  OBVIOUS
<1>9. s2 \in Seq(GcObjects) /\ Len(s2) = Len(s) /\ \A j \in 1 .. Len(s) : s2[j] = IF j = i THEN o2 ELSE s[j]
  BY <1>1, <1>2, <1>7, <1>8
<1>10. PICK tb : tb = [h.table EXCEPT ![f] = s2]
  OBVIOUS
<1>11. tb \in [1 .. 2 -> Seq(GcObjects)] /\ tb[f] = s2 /\ tb[t] = h.table[t]
  BY <1>2, <1>3, <1>9, <1>10
<1>12. [h.table EXCEPT ![f][i].data[k] = w] = tb
  BY <1>1, <1>3, <1>4, <1>6, <1>8, <1>10
<1>13. g = [from |-> f, table |-> tb, used |-> h.used]
  BY <1>1, <1>12 DEF WithWord
<1>14. g.from = f /\ g.table = tb /\ g.used = h.used
  BY <1>13
<1>15. g \in Heaps
  BY <1>2, <1>3, <1>11, <1>13 DEF Heaps
<1>16. Objs(g) = s2
  BY <1>11, <1>14 DEF Objs
<1>17. SameLayout(g, h)
  <2>1. ASSUME NEW j \in 1 .. Len(s)
        PROVE  s2[j].id = s[j].id /\ s2[j].at = s[j].at /\ Len(s2[j].data) = Len(s[j].data)
    BY <1>1, <1>5, <1>7, <1>9
  <2>2. g.from = h.from /\ g.used = h.used /\ g.table[Other(h.from)] = h.table[Other(h.from)]
    BY <1>1, <1>11, <1>14
  <2> QED BY <1>1, <1>9, <1>16, <2>1, <2>2 DEF SameLayout
<1> QED BY <1>1, <1>5, <1>7, <1>9, <1>15, <1>16, <1>17

(* A store keeps what is promised.                                         *)
LEMMA StoreSurvives ==
    ASSUME NEW h \in Heaps, NEW roots, NEW held, NEW shadow \in Seq(Seq(Int)), NEW L,
           Survival(h, roots, held, shadow, L),
           NEW i \in 1 .. Len(Objs(h)), Objs(h)[i].id \in L, NEW k \in 1 .. Len(Objs(h)[i].data),
           NEW w \in Nat, NEW m, m \in L \cup {0, -1}, Says(h, w, m),
           NEW g, g = WithWord(h, i, k, w), NEW sh, sh = [shadow EXCEPT ![Objs(h)[i].id][k] = m]
    PROVE  Survival(g, roots, held, sh, L)
<1>1. PICK N \in Nat : N = Len(Objs(h))
  BY HeapParts
<1>2. SameLayout(g, h)
  BY StoredFacts
<1>3. /\ Len(Objs(g)) = N
      /\ \A j \in 1 .. N : Objs(g)[j].id = Objs(h)[j].id /\ Len(Objs(g)[j].data) = Len(Objs(h)[j].data)
  BY <1>1, <1>2 DEF SameLayout
<1>4. \A j \in 1 .. N : \A q \in 1 .. Len(Objs(h)[j].data) :
          Objs(g)[j].data[q] = IF j = i /\ q = k THEN w ELSE Objs(h)[j].data[q]
  <2>1. i \in 1 .. Len(Objs(h)) /\ k \in 1 .. Len(Objs(h)[i].data)
    OBVIOUS
  <2>2. \A j \in 1 .. Len(Objs(h)) : \A q \in 1 .. Len(Objs(h)[j].data) :
            Objs(g)[j].data[q] = IF j = i /\ q = k THEN w ELSE Objs(h)[j].data[q]
    BY <2>1, StoredFacts
  <2> QED BY <1>1, <2>2
<1>5. PICK id : id = Objs(h)[i].id
  OBVIOUS
<1>6. id \in 1 .. Len(shadow) /\ Len(shadow[id]) = Len(Objs(h)[i].data)
  BY <1>5 DEF Survival
<1>7. /\ Len(sh) = Len(shadow)
      /\ \A x \in 1 .. Len(shadow) : Len(sh[x]) = Len(shadow[x])
      /\ \A x \in 1 .. Len(shadow) : \A q \in 1 .. Len(shadow[x]) :
             sh[x][q] = IF x = id /\ q = k THEN m ELSE shadow[x][q]
  <2>1. PICK e : e = [shadow[id] EXCEPT ![k] = m]
    OBVIOUS
  <2>2. sh = [shadow EXCEPT ![id] = e]
    BY <1>5, <1>6, <2>1
  <2>3. m \in Int
    <3>1. L \subseteq Nat
      BY <1>6 DEF Survival
    <3> QED BY <3>1
  <2>4. shadow[id] \in Seq(Int)
    BY <1>6
  <2>5. /\ e \in Seq(Int) /\ Len(e) = Len(shadow[id])
        /\ \A q \in 1 .. Len(shadow[id]) : e[q] = IF q = k THEN m ELSE shadow[id][q]
    <3>1. PICK n \in Nat : n = Len(shadow[id]) /\ shadow[id] \in [1 .. n -> Int]
      BY <2>4, LenProperties
    <3>2. PICK s : s = shadow[id] /\ s \in [1 .. n -> Int]
      BY <3>1
    <3>3. e = [s EXCEPT ![k] = m]
      BY <2>1, <3>2
    <3>4. e \in [1 .. n -> Int] /\ \A q \in 1 .. n : e[q] = IF q = k THEN m ELSE s[q]
      BY <2>3, <3>2, <3>3
    <3>5. e \in Seq(Int) /\ Len(e) = n
      BY <3>4, FunctionIsSeq
    <3> QED BY <3>1, <3>2, <3>4, <3>5
  <2>6. Len(sh) = Len(shadow) /\ \A x \in 1 .. Len(shadow) : sh[x] = IF x = id THEN e ELSE shadow[x]
    <3>1. PICK n \in Nat : n = Len(shadow) /\ shadow \in [1 .. n -> Seq(Int)]
      BY LenProperties
    <3>2. e \in Seq(Int)
      BY <2>5
    <3>3. sh \in [1 .. n -> Seq(Int)] /\ \A x \in 1 .. n : sh[x] = IF x = id THEN e ELSE shadow[x]
      BY <2>2, <3>1, <3>2
    <3>4. Len(sh) = n
      BY <3>3, FunctionIsSeq
    <3> QED BY <3>1, <3>3, <3>4
  <2>7. ASSUME NEW x \in 1 .. Len(shadow)
        PROVE  /\ Len(sh[x]) = Len(shadow[x])
               /\ \A q \in 1 .. Len(shadow[x]) : sh[x][q] = IF x = id /\ q = k THEN m ELSE shadow[x][q]
    <3>1. CASE x = id
      <4>1. sh[x] = e
        BY <2>6, <3>1
      <4> QED BY <2>5, <3>1, <4>1
    <3>2. CASE x # id
      <4>1. sh[x] = shadow[x]
        BY <2>6, <3>2
      <4> QED BY <3>2, <4>1
    <3> QED BY <3>1, <3>2
  <2> QED BY <2>6, <2>7
<1>8. L \subseteq 1 .. Len(shadow)
  BY DEF Survival
<1>9. \A a, x : Named(h, a, x) => Named(g, a, x)
  BY <1>2, SameNames
<1>10. \A a, x : Says(h, a, x) => Says(g, a, x)
  BY <1>9 DEF Says
<1>11. \A j1, j2 \in 1 .. N : Objs(h)[j1].id = Objs(h)[j2].id => j1 = j2
  BY <1>1 DEF Survival
<1>12. \A j \in 1 .. N : /\ Objs(h)[j].id \in 1 .. Len(shadow) /\ Len(Objs(h)[j].data) # 0
                         /\ Len(Objs(h)[j].data) = Len(shadow[Objs(h)[j].id])
  BY <1>1 DEF Survival
<1>13. \A r \in GcSlots : held[r] \in L \cup {0} /\ Named(g, roots[r], held[r])
  BY <1>9 DEF Survival
<1>14. ASSUME NEW x \in L, NEW q \in 1 .. Len(sh[x]) PROVE sh[x][q] \in L \cup {0, -1}
  <2>1. x \in 1 .. Len(shadow) /\ q \in 1 .. Len(shadow[x])
    BY <1>7, <1>8
  <2>2. shadow[x][q] \in L \cup {0, -1}
    BY <2>1 DEF Survival
  <2>3. PICK y, z : y = sh[x][q] /\ z = shadow[x][q]
    OBVIOUS
  <2>4. y = IF x = id /\ q = k THEN m ELSE z
    BY <1>7, <2>1, <2>3
  <2>5. y \in L \cup {0, -1}
    BY <2>2, <2>3, <2>4
  <2> QED BY <2>3, <2>5
<1>15. ASSUME NEW j \in 1 .. N, Objs(h)[j].id \in L, NEW q \in 1 .. Len(Objs(h)[j].data)
       PROVE  Says(g, Objs(g)[j].data[q], sh[Objs(h)[j].id][q])
  <2>1. Says(h, Objs(h)[j].data[q], shadow[Objs(h)[j].id][q])
    BY <1>1, <1>15 DEF Survival
  <2>2. Objs(h)[j].id \in 1 .. Len(shadow) /\ q \in 1 .. Len(shadow[Objs(h)[j].id])
    BY <1>12
  <2>3. Objs(h)[j].id = id <=> j = i
    BY <1>1, <1>5, <1>11
  <2>4. CASE j = i /\ q = k
    <3>1. Objs(g)[j].data[q] = w /\ sh[Objs(h)[j].id][q] = m
      BY <1>4, <1>7, <2>2, <2>3, <2>4
    <3> QED BY <1>10, <3>1
  <2>5. CASE ~(j = i /\ q = k)
    <3>1. Objs(g)[j].data[q] = Objs(h)[j].data[q]
      BY <1>4, <2>5
    <3>2. PICK x : x = Objs(h)[j].id
      OBVIOUS
    <3>3. x \in 1 .. Len(shadow) /\ q \in 1 .. Len(shadow[x]) /\ ~(x = id /\ q = k)
      BY <2>2, <2>3, <2>5, <3>2
    <3>4. sh[x][q] = shadow[x][q]
      <4>1. sh[x][q] = IF x = id /\ q = k THEN m ELSE shadow[x][q]
        BY <1>7, <3>3
      <4> QED BY <3>3, <4>1
    <3> QED BY <1>10, <2>1, <3>1, <3>2, <3>4
  <2> QED BY <2>4, <2>5
<1>16. L \subseteq 1 .. Len(sh)
  BY <1>7, <1>8
<1>17. ASSUME NEW j \in 1 .. N
       PROVE  /\ Objs(g)[j].id \in 1 .. Len(sh) /\ Len(Objs(g)[j].data) # 0
              /\ Len(Objs(g)[j].data) = Len(sh[Objs(g)[j].id])
  <2>1. PICK x : x = Objs(h)[j].id
    OBVIOUS
  <2>2. x \in 1 .. Len(shadow) /\ Len(sh[x]) = Len(shadow[x]) /\ Len(Objs(h)[j].data) = Len(shadow[x])
    BY <1>7, <1>12, <2>1
  <2>3. Objs(g)[j].id = x /\ Len(Objs(g)[j].data) = Len(Objs(h)[j].data) /\ Len(Objs(h)[j].data) # 0
    BY <1>3, <1>12, <2>1
  <2> QED BY <1>7, <2>2, <2>3
<1>18. \A j1, j2 \in 1 .. N : Objs(g)[j1].id = Objs(g)[j2].id => j1 = j2
  <2> SUFFICES ASSUME NEW j1 \in 1 .. N, NEW j2 \in 1 .. N, Objs(g)[j1].id = Objs(g)[j2].id PROVE j1 = j2
    OBVIOUS
  <2>1. Objs(h)[j1].id = Objs(h)[j2].id
    BY <1>3
  <2> QED BY <1>11, <2>1
<1>19. \A j \in 1 .. N : Objs(g)[j].id \in L =>
           \A q \in 1 .. Len(Objs(g)[j].data) : Says(g, Objs(g)[j].data[q], sh[Objs(g)[j].id][q])
  BY <1>3, <1>15
<1> QED BY <1>3, <1>13, <1>14, <1>16, <1>17, <1>18, <1>19 DEF Survival

Born(h, id, words) == [id |-> id, at |-> h.used[h.from], data |-> words]

(* The heap g is h with one more object.                                   *)
OneMore(g, h, o) ==
    /\ g.from = h.from /\ g.table[Other(h.from)] = h.table[Other(h.from)] /\ g.used[Other(h.from)] = h.used[Other(h.from)]
    /\ Objs(g) = Append(Objs(h), o) /\ g.used[h.from] = h.used[h.from] + Size(o)

(* An allocation puts one object behind the others.                        *)
LEMMA WithObjectFacts ==
    ASSUME NEW h \in Heaps, NEW words \in Seq(Nat), NEW id \in Nat, id = Len(gcShadow) + 1,
           NEW g, g = WithObject(h, words)
    PROVE  g \in Heaps /\ OneMore(g, h, Born(h, id, words)) /\ Born(h, id, words) \in GcObjects
<1>1. PICK f, t, o : f = h.from /\ t = Other(f) /\ o = Born(h, id, words)
  OBVIOUS
<1>2. f \in 1 .. 2 /\ t \in 1 .. 2 /\ t # f /\ Objs(h) \in Seq(GcObjects)
  BY <1>1, HeapParts
<1>3. PICK u \in Nat, n \in Nat : u = h.used[f] /\ n = Len(words)
  BY <1>1, HeapParts
<1>4. o \in GcObjects /\ o = [id |-> Len(gcShadow) + 1, at |-> h.used[h.from], data |-> words] /\ Size(o) = 1 + n
  <2>1. o = [id |-> id, at |-> u, data |-> words]
    BY <1>1, <1>3 DEF Born
  <2>2. o.data = words
    BY <2>1
  <2> QED BY <1>1, <1>3, <2>1, <2>2 DEF GcObjects, Size, Born
<1>5. PICK s2 : s2 = Append(Objs(h), o)
  OBVIOUS
<1>6. s2 \in Seq(GcObjects)
  BY <1>2, <1>4, <1>5, AppendProperties
<1>7. PICK v \in Nat : v = u + 1 + n /\ v = u + Size(o)
  <2>1. PICK e \in Nat : e = Size(o) /\ e = 1 + n
    BY <1>4
  <2>2. u + e = u + 1 + n /\ u + e \in Nat
    BY <2>1
  <2> QED BY <2>1, <2>2
<1>8. h.table \in [1 .. 2 -> Seq(GcObjects)] /\ h.table[f] = Objs(h) /\ h.used \in [1 .. 2 -> Nat]
  BY <1>1 DEF Heaps, Objs
<1>9. PICK tb, us : tb = [h.table EXCEPT ![f] = s2] /\ us = [h.used EXCEPT ![f] = v]
  OBVIOUS
<1>10. tb \in [1 .. 2 -> Seq(GcObjects)] /\ tb[f] = s2 /\ tb[t] = h.table[t]
  BY <1>2, <1>6, <1>8, <1>9
<1>11. us \in [1 .. 2 -> Nat] /\ us[f] = v /\ us[t] = h.used[t]
  BY <1>2, <1>8, <1>9
<1>12. g = [h EXCEPT !.table[f] = Append(Objs(h), o), !.used[f] = h.used[f] + 1 + Len(words)]
  BY <1>1, <1>2, <1>4, <1>8 DEF WithObject, Objs
<1>13. g = [from |-> f, table |-> tb, used |-> us]
  BY <1>1, <1>3, <1>5, <1>7, <1>9, <1>12 DEF Heaps
<1>14. g.from = f /\ g.table = tb /\ g.used = us
  BY <1>13
<1>15. g \in Heaps
  BY <1>2, <1>10, <1>11, <1>13 DEF Heaps
<1>16. OneMore(g, h, o)
  BY <1>1, <1>3, <1>5, <1>7, <1>10, <1>11, <1>14 DEF OneMore, Objs
<1> QED BY <1>1, <1>4, <1>15, <1>16

(* The heap with it is laid out well.                                      *)
LEMMA OneMoreLaid ==
    ASSUME NEW h \in Heaps, WellLaid(h), NEW g, NEW o \in GcObjects, o.at = h.used[h.from],
           OneMore(g, h, o), h.used[h.from] + Size(o) <= GcSpace
    PROVE  WellLaid(g)
<1>1. PICK u : u = h.used[h.from] /\ u \in Nat /\ Objs(h) \in Seq(GcObjects)
  BY HeapParts
<1>2. SideBySide(Objs(h), u)
  BY <1>1 DEF WellLaid
<1>3. SideBySide(Append(Objs(h), o), u + Size(o))
  BY <1>1, <1>2, SideAppended
<1> QED BY <1>1, <1>3 DEF WellLaid, OneMore

(* A new object in the hand of the program.                                *)
LEMMA AllocSurvives ==
    ASSUME NEW h \in Heaps, WellLaid(h), NEW roots \in [GcSlots -> Nat], NEW held \in [GcSlots -> Nat],
           NEW shadow \in Seq(Seq(Int)), NEW L, Survival(h, roots, held, shadow, L),
           NEW words \in Seq(Nat), NEW ms \in Seq(Int), Len(words) = Len(ms), Len(words) # 0,
           \A q \in 1 .. Len(words) : ms[q] \in L \cup {0, -1} /\ Says(h, words[q], ms[q]),
           NEW g \in Heaps, NEW x \in Nat, x = Len(shadow) + 1, OneMore(g, h, Born(h, x, words)), Born(h, x, words) \in GcObjects,
           NEW r \in GcSlots, NEW rs, rs = [roots EXCEPT ![r] = NewAddr(h)],
           NEW hd, hd = [held EXCEPT ![r] = x], NEW sh, sh = Append(shadow, ms)
    PROVE  Survival(g, rs, hd, sh, L \cup {x})
<1>1. PICK N \in Nat, o \in GcObjects : N = Len(Objs(h)) /\ o = Born(h, x, words)
  BY HeapParts
<1>2. o.id = x /\ o.at = h.used[h.from] /\ o.data = words
  BY <1>1 DEF Born
<1>3. /\ g.from = h.from /\ Len(Objs(g)) = N + 1 /\ Objs(g)[N + 1] = o
      /\ \A j \in 1 .. N : Objs(g)[j] = Objs(h)[j]
  <2>1. Objs(g) = Append(Objs(h), o) /\ Objs(h) \in Seq(GcObjects)
    BY <1>1, HeapParts DEF OneMore
  <2> QED BY <1>1, <2>1, AppendProperties DEF OneMore
<1>4. /\ Len(sh) = x /\ sh[x] = ms /\ \A j \in 1 .. Len(shadow) : sh[j] = shadow[j]
  BY AppendProperties
<1>5. L \subseteq 1 .. Len(shadow) /\ Len(shadow) \in Nat
  BY DEF Survival
<1>6. \A j \in 1 .. N : /\ Objs(h)[j].id \in 1 .. Len(shadow) /\ Len(Objs(h)[j].data) # 0
                        /\ Len(Objs(h)[j].data) = Len(shadow[Objs(h)[j].id])
  BY <1>1 DEF Survival
<1>7. \A a, y : Named(h, a, y) => Named(g, a, y)
  <2>1. \A j \in 1 .. N : j \in 1 .. N + 1 /\ Addr(g, j) = Addr(h, j) /\ Objs(g)[j].id = Objs(h)[j].id
    BY <1>3 DEF Addr
  <2> QED BY <1>1, <1>3, <2>1 DEF Named
<1>8. \A a, y : Says(h, a, y) => Says(g, a, y)
  BY <1>7 DEF Says
<1>9. Named(g, NewAddr(h), x)
  <2>1. Addr(g, N + 1) = NewAddr(h)
    BY <1>2, <1>3 DEF Addr, DataAddr, NewAddr
  <2>2. x # 0 /\ N + 1 \in 1 .. N + 1
    BY <1>5
  <2> QED BY <1>2, <1>3, <2>1, <2>2 DEF Named
<1>10. L \cup {x} \subseteq 1 .. Len(sh)
  <2>1. PICK l \in Nat : l = Len(shadow) /\ x = l + 1
    BY <1>5
  <2>2. L \subseteq 1 .. l /\ Len(sh) = l + 1
    BY <1>4, <1>5, <2>1
  <2>3. \A y \in 1 .. l : y \in 1 .. l + 1
    OBVIOUS
  <2>4. l + 1 \in 1 .. l + 1
    OBVIOUS
  <2> QED BY <2>1, <2>2, <2>3, <2>4
<1>11. \A i, j \in 1 .. N + 1 : Objs(g)[i].id = Objs(g)[j].id => i = j
  <2>1. \A i, j \in 1 .. N : Objs(h)[i].id = Objs(h)[j].id => i = j
    BY <1>1 DEF Survival
  <2>2. ASSUME NEW j \in 1 .. N PROVE Objs(h)[j].id # x
    <3>1. PICK l \in Nat : l = Len(shadow) /\ x = l + 1
      BY <1>5
    <3>2. Objs(h)[j].id \in 1 .. l
      BY <1>6, <3>1
    <3> QED BY <3>1, <3>2
  <2> SUFFICES ASSUME NEW i \in 1 .. N + 1, NEW j \in 1 .. N + 1, Objs(g)[i].id = Objs(g)[j].id, i # j
               PROVE  FALSE
    OBVIOUS
  <2>3. CASE i \in 1 .. N /\ j \in 1 .. N
    BY <1>3, <2>1, <2>3
  <2>4. CASE i = N + 1
    <3>1. j \in 1 .. N
      BY <2>4
    <3> QED BY <1>2, <1>3, <2>2, <2>4, <3>1
  <2>5. CASE j = N + 1
    <3>1. i \in 1 .. N
      BY <2>5
    <3> QED BY <1>2, <1>3, <2>2, <2>5, <3>1
  <2> QED BY <2>3, <2>4, <2>5
<1>12. ASSUME NEW j \in 1 .. N + 1
       PROVE  /\ Objs(g)[j].id \in 1 .. Len(sh) /\ Len(Objs(g)[j].data) # 0
              /\ Len(Objs(g)[j].data) = Len(sh[Objs(g)[j].id])
  <2>1. CASE j = N + 1
    BY <1>2, <1>3, <1>4, <1>5, <2>1
  <2>2. CASE j # N + 1
    <3>1. j \in 1 .. N /\ Objs(g)[j] = Objs(h)[j]
      BY <1>3, <2>2
    <3>2. PICK y : y = Objs(h)[j].id
      OBVIOUS
    <3>3. y \in 1 .. Len(shadow) /\ sh[y] = shadow[y] /\ Len(Objs(h)[j].data) = Len(shadow[y]) /\ Len(Objs(h)[j].data) # 0
      BY <1>4, <1>6, <3>1, <3>2
    <3>4. y \in 1 .. Len(sh)
      BY <1>4, <1>5, <3>3
    <3> QED BY <3>1, <3>2, <3>3, <3>4
  <2> QED BY <2>1, <2>2
<1>13. ASSUME NEW s \in GcSlots PROVE hd[s] \in L \cup {x} \cup {0} /\ Named(g, rs[s], hd[s])
  <2>1. held[s] \in L \cup {0} /\ Named(h, roots[s], held[s])
    BY DEF Survival
  <2>2. CASE s = r
    BY <1>9, <2>2
  <2>3. CASE s # r
    BY <1>7, <2>1, <2>3
  <2> QED BY <2>2, <2>3
<1>14. ASSUME NEW y \in L \cup {x}, NEW q \in 1 .. Len(sh[y]) PROVE sh[y][q] \in L \cup {x} \cup {0, -1}
  <2>1. CASE y = x
    BY <1>4, <2>1
  <2>2. CASE y # x
    <3>1. y \in L /\ sh[y] = shadow[y]
      BY <1>4, <1>5, <2>2
    <3>2. shadow[y][q] \in L \cup {0, -1}
      BY <3>1 DEF Survival
    <3> QED BY <3>1, <3>2
  <2> QED BY <2>1, <2>2
<1>15. ASSUME NEW j \in 1 .. N + 1, Objs(g)[j].id \in L \cup {x}, NEW q \in 1 .. Len(Objs(g)[j].data)
       PROVE  Says(g, Objs(g)[j].data[q], sh[Objs(g)[j].id][q])
  <2>1. CASE j = N + 1
    BY <1>2, <1>3, <1>4, <1>8, <2>1
  <2>2. CASE j # N + 1
    <3>1. j \in 1 .. N /\ Objs(g)[j] = Objs(h)[j]
      BY <1>3, <2>2
    <3>2. PICK y : y = Objs(h)[j].id
      OBVIOUS
    <3>3. y \in 1 .. Len(shadow) /\ sh[y] = shadow[y] /\ y # x
      BY <1>4, <1>5, <1>6, <3>1, <3>2
    <3>4. y \in L /\ q \in 1 .. Len(Objs(h)[j].data)
      BY <1>15, <3>1, <3>2, <3>3
    <3>5. Says(h, Objs(h)[j].data[q], shadow[y][q])
      BY <1>1, <3>1, <3>2, <3>4 DEF Survival
    <3> QED BY <1>8, <3>1, <3>2, <3>3, <3>5
  <2> QED BY <2>1, <2>2
<1> QED BY <1>3, <1>10, <1>11, <1>12, <1>13, <1>14, <1>15 DEF Survival

(* A root dropped keeps what is promised.                                  *)
LEMMA DropSurvives ==
    ASSUME NEW h, NEW roots \in [GcSlots -> Nat], NEW held \in [GcSlots -> Nat],
           NEW shadow, NEW L, Survival(h, roots, held, shadow, L), NEW r \in GcSlots
    PROVE  Survival(h, [roots EXCEPT ![r] = 0], [held EXCEPT ![r] = 0], shadow, L)
<1>1. PICK rs, hd : rs = [roots EXCEPT ![r] = 0] /\ hd = [held EXCEPT ![r] = 0]
  OBVIOUS
<1>2. \A s \in GcSlots : hd[s] \in L \cup {0} /\ Named(h, rs[s], hd[s])
  <2>1. \A s \in GcSlots : held[s] \in L \cup {0} /\ Named(h, roots[s], held[s])
    BY DEF Survival
  <2>2. Named(h, 0, 0)
    BY DEF Named
  <2> QED BY <1>1, <2>1, <2>2
<1>3. Survival(h, rs, hd, shadow, L)
  BY <1>2 DEF Survival
<1> QED BY <1>1, <1>3

-----------------------------------------------------------------------------
(* The inductive invariant of the heap, and its steps.                     *)

GcTyped ==
    /\ TheHeap \in Heaps /\ WellLaid(TheHeap)
    /\ gcRoots \in [GcSlots -> Nat] /\ gcHeld \in [GcSlots -> Nat]
    /\ gcShadow \in Seq(Seq(Int))
GcKept == gcLayer = "heap" /\ gcTame => \E L : Survival(TheHeap, gcRoots, gcHeld, gcShadow, L)
GcInv == GcTyped /\ GcKept

(* The type of a pair of spaces.                                           *)
LEMMA TwoOf ==
    ASSUME NEW S, NEW a \in S, NEW b \in S
    PROVE  <<a, b>> \in [1 .. 2 -> S]
<1>1. <<a, b>> \in Seq(S) /\ Len(<<a, b>>) = 2
  OBVIOUS
<1> QED BY <1>1

(* The first state has the invariant: there are no objects.                *)
LEMMA GcStarts == HeapGcInit => GcInv
<1> SUFFICES ASSUME HeapGcInit PROVE GcInv
  OBVIOUS
<1>1. PICK h : h = TheHeap
  OBVIOUS
<1>2. h = [from |-> 1, table |-> <<(<<>>), (<<>>)>>, used |-> <<0, 0>>]
  BY <1>1 DEF HeapGcInit, TheHeap
<1>3. <<(<<>>), (<<>>)>> \in [1 .. 2 -> Seq(GcObjects)] /\ <<0, 0>> \in [1 .. 2 -> Nat]
  <2>0. <<>> \in Seq(GcObjects)
    OBVIOUS
  <2>1. PICK e \in Seq(GcObjects) : e = <<>>
    BY <2>0
  <2>2. <<e, e>> \in [1 .. 2 -> Seq(GcObjects)] /\ <<0, 0>> \in [1 .. 2 -> Nat]
    BY <2>1, TwoOf
  <2> QED BY <2>1, <2>2
<1>4. h.from = 1 /\ h.table[1] = <<>> /\ h.table[2] = <<>> /\ h.used[1] = 0 /\ h.used[2] = 0
  BY <1>2
<1>5. h \in Heaps
  BY <1>2, <1>3 DEF Heaps
<1>6. Other(1) = 2
  BY DEF Other
<1>7. WellLaid(h)
  BY <1>4, <1>6, SideEmpty, GcAssumption DEF WellLaid, Objs
<1>8. PICK roots, held : roots = gcRoots /\ held = gcHeld /\ roots = [r \in GcSlots |-> 0] /\ held = [r \in GcSlots |-> 0]
  BY DEF HeapGcInit
<1>9. gcShadow = <<>>
  BY DEF HeapGcInit
<1>10. Len(Objs(h)) = 0 /\ 1 .. 0 = {} /\ Len(<<>>) = 0
  BY <1>4 DEF Objs
<1>11. Survival(h, roots, held, <<>>, {})
  BY <1>8, <1>10 DEF Survival, Named
<1> QED BY <1>1, <1>5, <1>7, <1>8, <1>9, <1>11 DEF GcInv, GcTyped, GcKept

(* What the program writes: as a word, and as what it means.               *)
LEMMA WordsWritten ==
    ASSUME GcTyped, NEW src \in Sources
    PROVE  /\ Word(src) \in Nat /\ Meaning(src) \in Int
           /\ \A L : Survival(TheHeap, gcRoots, gcHeld, gcShadow, L) =>
                  Meaning(src) \in L \cup {0, -1} /\ Says(TheHeap, Word(src), Meaning(src))
<1>1. PICK h, roots, held, shadow : h = TheHeap /\ roots = gcRoots /\ held = gcHeld /\ shadow = gcShadow
  OBVIOUS
<1>2. roots \in [GcSlots -> Nat] /\ held \in [GcSlots -> Nat]
  BY <1>1 DEF GcTyped
<1>3. PICK w, m : w = Word(src) /\ m = Meaning(src)
  OBVIOUS
<1>4. \/ w = 0 /\ m = 0
      \/ w = 1 /\ m = -1
      \/ src \in GcSlots /\ w = roots[src] /\ m = held[src]
  BY <1>1, <1>3 DEF Sources, Word, Meaning
<1>5. w \in Nat /\ m \in Int
  BY <1>2, <1>4
<1>6. ASSUME NEW L, Survival(h, roots, held, shadow, L) PROVE m \in L \cup {0, -1} /\ Says(h, w, m)
  <2>1. CASE w = 0 /\ m = 0
    BY <2>1 DEF Says, Named
  <2>2. CASE w = 1 /\ m = -1
    BY <2>2 DEF Says
  <2>3. CASE src \in GcSlots /\ w = roots[src] /\ m = held[src]
    <3>1. held[src] \in L \cup {0} /\ Named(h, roots[src], held[src])
      BY <1>6, <2>3 DEF Survival
    <3>2. held[src] # -1
      BY <1>2, <2>3
    <3> QED BY <2>3, <3>1, <3>2 DEF Says
  <2> QED BY <1>4, <2>1, <2>2, <2>3
<1> QED BY <1>1, <1>3, <1>5, <1>6

(* The heap of the next state.                                             *)
LEMMA HeapBecomes ==
    ASSUME NEW g \in Heaps, BecomesHeap(g)
    PROVE  TheHeap' = g
<1>1. g = [from |-> g.from, table |-> g.table, used |-> g.used]
  BY DEF Heaps
<1> QED BY <1>1 DEF BecomesHeap, TheHeap

(* The type of what the program writes.                                    *)
LEMMA WordSeqs ==
    ASSUME GcTyped, NEW n \in Nat \ {0}, NEW srcs \in [1 .. n -> Sources],
           NEW words, words = [k \in DOMAIN srcs |-> Word(srcs[k])],
           NEW ms, ms = [k \in DOMAIN srcs |-> Meaning(srcs[k])]
    PROVE  words \in Seq(Nat) /\ ms \in Seq(Int) /\ Len(words) = n /\ Len(ms) = n /\ Len(srcs) = n
<1>1. \A k \in 1 .. n : srcs[k] \in Sources
  OBVIOUS
<1>2. \A k \in 1 .. n : Word(srcs[k]) \in Nat /\ Meaning(srcs[k]) \in Int
  BY <1>1, WordsWritten
<1>3. /\ \A k \in 1 .. n : words[k] = Word(srcs[k]) /\ ms[k] = Meaning(srcs[k])
      /\ words \in [1 .. n -> Nat] /\ ms \in [1 .. n -> Int]
  BY <1>2
<1>4. words \in Seq(Nat) /\ ms \in Seq(Int) /\ Len(words) = n /\ Len(ms) = n
  BY <1>3
<1>5. Len(srcs) = n
  OBVIOUS
<1> QED BY <1>4, <1>5

(* The words of a new object tell of what the program keeps.               *)
WordsTell(words, ms, n, L) ==
    \A q \in 1 .. n : ms[q] \in L \cup {0, -1} /\ Says(TheHeap, words[q], ms[q])

LEMMA WordsTold ==
    ASSUME GcTyped, NEW n \in Nat \ {0}, NEW srcs \in [1 .. n -> Sources],
           NEW words, words = [k \in DOMAIN srcs |-> Word(srcs[k])],
           NEW ms, ms = [k \in DOMAIN srcs |-> Meaning(srcs[k])],
           NEW L, Survival(TheHeap, gcRoots, gcHeld, gcShadow, L)
    PROVE  WordsTell(words, ms, n, L)
<1>1. \A k \in 1 .. n : srcs[k] \in Sources
  OBVIOUS
<1>2. \A k \in 1 .. n : Word(srcs[k]) \in Nat /\ Meaning(srcs[k]) \in Int
  BY <1>1, WordsWritten
<1>3. \A k \in 1 .. n : words[k] = Word(srcs[k]) /\ ms[k] = Meaning(srcs[k])
  BY <1>2
<1>4. ASSUME NEW q \in 1 .. n
      PROVE  ms[q] \in L \cup {0, -1} /\ Says(TheHeap, words[q], ms[q])
  BY <1>1, <1>3, WordsWritten
<1> QED BY <1>4 DEF WordsTell

(* The type of a new address.                                              *)
LEMMA NewAddrType == \A h \in Heaps : NewAddr(h) \in Nat
<1> SUFFICES ASSUME NEW h \in Heaps PROVE NewAddr(h) \in Nat
  OBVIOUS
<1>1. PICK f \in 1 .. 2, u \in Nat, b \in Nat : f = h.from /\ u = h.used[f] /\ b = GcBase[f]
  BY HeapParts, Bases
<1> QED BY <1>1 DEF NewAddr

(* A new object in a heap h with room for it.                              *)
LEMMA NewObjectFits ==
    ASSUME NEW h \in Heaps, WellLaid(h), NEW words \in Seq(Nat), NEW n, n = Len(words), Fits(h, n),
           NEW x \in Nat, x = Len(gcShadow) + 1, NEW g, g = WithObject(h, words)
    PROVE  g \in Heaps /\ WellLaid(g) /\ OneMore(g, h, Born(h, x, words)) /\ Born(h, x, words) \in GcObjects
<1>1. PICK o : o = Born(h, x, words)
  OBVIOUS
<1>2. g \in Heaps /\ OneMore(g, h, o) /\ o \in GcObjects
  BY <1>1, WithObjectFacts
<1>3. o.at = h.used[h.from] /\ o.data = words
  BY <1>1 DEF Born
<1>4. h.used[h.from] + Size(o) <= GcSpace
  <2>1. PICK u \in Nat, l \in Nat : u = h.used[h.from] /\ l = Len(words)
    BY HeapParts
  <2>2. Size(o) = 1 + l /\ u + 1 + l <= GcSpace
    BY <1>3, <2>1 DEF Size, Fits
  <2> QED BY <2>1, <2>2
<1>5. WellLaid(g)
  BY <1>2, <1>3, <1>4, OneMoreLaid
<1> QED BY <1>1, <1>2, <1>5

(* gc_alloc keeps the invariant.                                           *)
LEMMA AllocKeeps ==
    ASSUME GcInv, NEW r \in GcSlots, NEW n \in GcFields, NEW srcs \in [1 .. n -> Sources], GcAlloc(r, srcs)
    PROVE  GcInv'
<1>1. PICK h, roots, held, shadow : h = TheHeap /\ roots = gcRoots /\ held = gcHeld /\ shadow = gcShadow
  OBVIOUS
<1>2. /\ h \in Heaps /\ WellLaid(h) /\ roots \in [GcSlots -> Nat] /\ held \in [GcSlots -> Nat] /\ shadow \in Seq(Seq(Int))
  BY <1>1 DEF GcInv, GcTyped
<1>3. PICK words, ms : words = [k \in DOMAIN srcs |-> Word(srcs[k])] /\ ms = [k \in DOMAIN srcs |-> Meaning(srcs[k])]
  OBVIOUS
<1>4. n \in Nat \ {0}
  BY GcAssumption
<1>5. words \in Seq(Nat) /\ ms \in Seq(Int) /\ Len(words) = n /\ Len(ms) = n /\ Len(srcs) = n
  BY <1>3, <1>4, WordSeqs DEF GcInv
<1>6. PICK x, g : x \in Nat /\ g = WithObject(h, words) /\ x = Len(gcShadow) + 1
  <2>1. Len(gcShadow) + 1 \in Nat
    BY <1>1, <1>2
  <2> QED BY <2>1
<1>7. g \in Heaps /\ WellLaid(g) /\ OneMore(g, h, Born(h, x, words)) /\ Born(h, x, words) \in GcObjects
  <2>1. Fits(h, n)
    BY <1>1, <1>5 DEF GcAlloc
  <2> QED BY <1>2, <1>5, <1>6, <2>1, NewObjectFits
<1>8. TheHeap' = g
  <2>1. BecomesHeap(g)
    BY <1>1, <1>3, <1>6 DEF GcAlloc
  <2> QED BY <1>7, <2>1, HeapBecomes
<1>9. /\ gcRoots' = [roots EXCEPT ![r] = NewAddr(h)] /\ gcHeld' = [held EXCEPT ![r] = x]
      /\ gcShadow' = Append(shadow, ms) /\ gcLayer' = gcLayer /\ gcTame' = gcTame
  BY <1>1, <1>3, <1>6 DEF GcAlloc
<1>10. GcTyped'
  <2>1. NewAddr(h) \in Nat
    BY <1>2, NewAddrType
  <2>2. gcRoots' \in [GcSlots -> Nat] /\ gcHeld' \in [GcSlots -> Nat]
    BY <1>2, <1>6, <1>9, <2>1
  <2>3. gcShadow' \in Seq(Seq(Int))
    <3>1. PICK S : S = Seq(Int)
      OBVIOUS
    <3>2. shadow \in Seq(S) /\ ms \in S
      BY <1>2, <1>5, <3>1
    <3>3. Append(shadow, ms) \in Seq(S)
      BY <3>2
    <3> QED BY <1>9, <3>1, <3>3
  <2> QED BY <1>7, <1>8, <2>2, <2>3 DEF GcTyped
<1>11. ASSUME gcLayer' = "heap", gcTame' PROVE \E L : Survival(g, gcRoots', gcHeld', gcShadow', L)
  <2>1. PICK L : Survival(h, roots, held, shadow, L)
    BY <1>1, <1>9, <1>11 DEF GcInv, GcKept
  <2>2. \A q \in 1 .. Len(words) : ms[q] \in L \cup {0, -1} /\ Says(h, words[q], ms[q])
    <3>1. Survival(TheHeap, gcRoots, gcHeld, gcShadow, L)
      BY <1>1, <2>1
    <3>2. GcTyped
      BY DEF GcInv
    <3>3. WordsTell(words, ms, n, L)
      BY <1>3, <1>4, <3>1, <3>2, WordsTold
    <3> QED BY <1>1, <1>5, <3>3 DEF WordsTell
  <2>3. Len(words) = Len(ms) /\ Len(words) # 0
    BY <1>4, <1>5
  <2>4. PICK rs, hd, sh : rs = [roots EXCEPT ![r] = NewAddr(h)] /\ hd = [held EXCEPT ![r] = x] /\ sh = Append(shadow, ms)
    OBVIOUS
  <2>5. x = Len(shadow) + 1
    BY <1>1, <1>6
  <2>6. Survival(g, rs, hd, sh, L \cup {x})
    BY <1>2, <1>5, <1>6, <1>7, <2>1, <2>2, <2>3, <2>4, <2>5, AllocSurvives
  <2> QED BY <1>9, <2>4, <2>6
<1> QED BY <1>8, <1>10, <1>11 DEF GcInv, GcKept

(* What a store does to the record of what was written.                    *)
LEMMA StoredShadow ==
    ASSUME NEW shadow \in Seq(Seq(Int)), NEW id \in Nat, NEW k, NEW m \in Int
    PROVE  [shadow EXCEPT ![id][k] = m] \in Seq(Seq(Int))
<1>1. CASE id \in 1 .. Len(shadow)
  <2>1. shadow[id] \in Seq(Int)
    BY <1>1
  <2>2. PICK e : e = [shadow[id] EXCEPT ![k] = m]
    OBVIOUS
  <2>3. e \in Seq(Int)
    <3>1. CASE k \in 1 .. Len(shadow[id])
      BY <2>1, <2>2, <3>1
    <3>2. CASE k \notin 1 .. Len(shadow[id])
      <4>1. e = shadow[id]
        BY <2>1, <2>2, <3>2
      <4> QED BY <2>1, <4>1
    <3> QED BY <3>1, <3>2
  <2>4. [shadow EXCEPT ![id][k] = m] = [shadow EXCEPT ![id] = e]
    BY <2>2
  <2>5. [shadow EXCEPT ![id] = e] \in Seq(Seq(Int))
    BY <1>1, <2>3
  <2> QED BY <2>4, <2>5
<1>2. CASE id \notin 1 .. Len(shadow)
  <2>1. [shadow EXCEPT ![id][k] = m] = shadow
    BY <1>2
  <2> QED BY <2>1
<1> QED BY <1>1, <1>2

(* A write to a field keeps the invariant.                                 *)
LEMMA StoreKeeps ==
    ASSUME GcInv, NEW r \in GcSlots, NEW k \in Nat, NEW src \in Sources, GcStore(r, k, src)
    PROVE  GcInv'
<1>1. PICK h, roots, held, shadow : h = TheHeap /\ roots = gcRoots /\ held = gcHeld /\ shadow = gcShadow
  OBVIOUS
<1>2. /\ h \in Heaps /\ WellLaid(h) /\ roots \in [GcSlots -> Nat] /\ held \in [GcSlots -> Nat] /\ shadow \in Seq(Seq(Int))
  BY <1>1 DEF GcInv, GcTyped
<1>3. h.from = gcFrom /\ h.table = gcTable /\ h.used = gcUsed /\ gcFrom \in 1 .. 2
  <2>1. h.from = gcFrom /\ h.table = gcTable /\ h.used = gcUsed
    BY <1>1 DEF TheHeap
  <2> QED BY <1>2, <2>1, HeapParts
<1>4. PICK p \in Headers(h, roots[r]) :
          /\ p[1] = gcFrom /\ k \in DOMAIN gcTable[gcFrom][p[2]].data
          /\ gcTable[gcFrom][p[2]].id = held[r]
          /\ gcTable' = [gcTable EXCEPT ![gcFrom][p[2]].data[k] = Word(src)]
  BY <1>1 DEF GcStore
<1>5. PICK i, w, m : i = p[2] /\ w = Word(src) /\ m = Meaning(src)
  OBVIOUS
<1>6. i \in 1 .. Len(Objs(h))
  <2>1. PICK s, a : s = p[1] /\ s \in 1 .. 2 /\ a = roots[r] /\ p = <<s, i>>
    BY <1>2, <1>4, <1>5, HeadersPairs
  <2>2. <<s, i>> \in Headers(h, a)
    BY <1>4, <2>1
  <2>3. i \in 1 .. Len(h.table[s])
    BY <1>2, <2>1, <2>2, HeadersLemma
  <2> QED BY <1>3, <1>4, <2>1, <2>3 DEF Objs
<1>7. Objs(h)[i].id = held[r] /\ k \in 1 .. Len(Objs(h)[i].data)
  <2>1. Objs(h)[i] = gcTable[gcFrom][p[2]]
    BY <1>3, <1>5 DEF Objs
  <2>2. Objs(h)[i] \in GcObjects
    BY <1>2, <1>6, HeapParts
  <2>3. Objs(h)[i].data \in Seq(Nat)
    BY <2>2, SizeType
  <2>4. DOMAIN Objs(h)[i].data = 1 .. Len(Objs(h)[i].data)
    BY <2>3
  <2> QED BY <1>4, <2>1, <2>4
<1>8. w \in Nat /\ m \in Int
  BY <1>5, WordsWritten DEF GcInv
<1>9. PICK g : g = WithWord(h, i, k, w)
  OBVIOUS
<1>10. g \in Heaps /\ SameLayout(g, h)
  BY <1>2, <1>6, <1>7, <1>8, <1>9, StoredFacts
<1>11. WellLaid(g)
  BY <1>2, <1>10, SameLaid
<1>12. TheHeap' = g
  <2>1. gcTable' = [h.table EXCEPT ![h.from][i].data[k] = w]
    BY <1>3, <1>4, <1>5
  <2>2. gcFrom' = h.from /\ gcUsed' = h.used
    BY <1>3 DEF GcStore
  <2> QED BY <1>9, <2>1, <2>2 DEF TheHeap, WithWord
<1>13. PICK sh : sh = [shadow EXCEPT ![held[r]][k] = m]
  OBVIOUS
<1>14. gcShadow' = sh /\ gcRoots' = roots /\ gcHeld' = held /\ gcLayer' = gcLayer /\ gcTame' = gcTame
  BY <1>1, <1>5, <1>13 DEF GcStore
<1>15. sh \in Seq(Seq(Int))
  <2>1. held[r] \in Nat
    BY <1>2
  <2> QED BY <1>2, <1>8, <1>13, <2>1, StoredShadow
<1>16. GcTyped'
  BY <1>2, <1>10, <1>11, <1>12, <1>14, <1>15 DEF GcTyped
<1>17. ASSUME gcLayer' = "heap", gcTame' PROVE \E L : Survival(g, roots, held, sh, L)
  <2>1. PICK L : Survival(h, roots, held, shadow, L)
    BY <1>1, <1>14, <1>17 DEF GcInv, GcKept
  <2>2. m \in L \cup {0, -1} /\ Says(h, w, m)
    BY <1>1, <1>5, <2>1, WordsWritten DEF GcInv
  <2>3. Objs(h)[i].id \in L
    <3>1. held[r] \in L \cup {0}
      BY <2>1 DEF Survival
    <3>2. Objs(h)[i].id \in 1 .. Len(shadow)
      BY <1>6, <2>1 DEF Survival
    <3> QED BY <1>7, <3>1, <3>2
  <2>4. sh = [shadow EXCEPT ![Objs(h)[i].id][k] = m]
    BY <1>7, <1>13
  <2>5. Survival(g, roots, held, sh, L)
    BY <1>2, <1>6, <1>7, <1>8, <1>9, <2>1, <2>2, <2>3, <2>4, StoreSurvives
  <2> QED BY <2>5
<1> QED BY <1>12, <1>14, <1>16, <1>17 DEF GcInv, GcKept

(* A root set to NULL keeps the invariant.                                 *)
LEMMA DropKeeps ==
    ASSUME GcInv, NEW r \in GcSlots, GcDrop(r)
    PROVE  GcInv'
<1>1. PICK h, roots, held, shadow : h = TheHeap /\ roots = gcRoots /\ held = gcHeld /\ shadow = gcShadow
  OBVIOUS
<1>2. /\ h \in Heaps /\ WellLaid(h) /\ roots \in [GcSlots -> Nat] /\ held \in [GcSlots -> Nat] /\ shadow \in Seq(Seq(Int))
  BY <1>1 DEF GcInv, GcTyped
<1>3. PICK rs, hd : rs = [roots EXCEPT ![r] = 0] /\ hd = [held EXCEPT ![r] = 0]
  OBVIOUS
<1>4. /\ TheHeap' = h /\ gcRoots' = rs /\ gcHeld' = hd /\ gcShadow' = shadow
      /\ gcLayer' = gcLayer /\ gcTame' = gcTame
  BY <1>1, <1>3 DEF GcDrop, TheHeap
<1>5. GcTyped'
  BY <1>2, <1>3, <1>4 DEF GcTyped
<1>6. ASSUME gcLayer' = "heap", gcTame' PROVE \E L : Survival(h, rs, hd, shadow, L)
  <2>1. PICK L : Survival(h, roots, held, shadow, L)
    BY <1>1, <1>4, <1>6 DEF GcInv, GcKept
  <2>2. Survival(h, rs, hd, shadow, L)
    BY <1>2, <1>3, <2>1, DropSurvives
  <2> QED BY <2>2
<1> QED BY <1>4, <1>5, <1>6 DEF GcInv, GcKept

(* gc_collect keeps the invariant.                                         *)
LEMMA CollectKeeps ==
    ASSUME GcInv, GcCollect
    PROVE  GcInv'
<1>1. PICK h, roots, held, shadow, c : h = TheHeap /\ roots = gcRoots /\ held = gcHeld /\ shadow = gcShadow /\ c = Collected(h, roots)
  OBVIOUS
<1>2. /\ h \in Heaps /\ WellLaid(h) /\ roots \in [GcSlots -> Nat] /\ held \in [GcSlots -> Nat] /\ shadow \in Seq(Seq(Int))
  BY <1>1 DEF GcInv, GcTyped
<1>3. c.heap \in Heaps /\ WellLaid(c.heap) /\ c.roots \in [GcSlots -> Nat]
  BY <1>1, <1>2, CollectedLaid
<1>4. TheHeap' = c.heap
  <2>1. BecomesHeap(c.heap)
    BY <1>1 DEF GcCollect
  <2> QED BY <1>3, <2>1, HeapBecomes
<1>5. /\ gcRoots' = c.roots /\ gcHeld' = held /\ gcShadow' = shadow /\ gcLayer' = gcLayer
      /\ gcTame' = (gcTame /\ Tame(h, roots))
  BY <1>1 DEF GcCollect
<1>6. GcTyped'
  BY <1>2, <1>3, <1>4, <1>5 DEF GcTyped
<1>7. ASSUME gcLayer' = "heap", gcTame' PROVE \E L : Survival(c.heap, c.roots, held, shadow, L)
  <2>1. PICK L : Survival(h, roots, held, shadow, L)
    BY <1>1, <1>5, <1>7 DEF GcInv, GcKept
  <2>2. Tame(h, roots)
    BY <1>5, <1>7
  <2>3. h.used[h.from] # 0
    <3>1. gcUsed[gcFrom] > 0
      BY DEF GcCollect
    <3>2. h.used[h.from] = gcUsed[gcFrom]
      BY <1>1 DEF TheHeap
    <3> QED BY <3>1, <3>2
  <2> QED BY <1>1, <1>2, <2>1, <2>2, <2>3, CollectSurvives
<1> QED BY <1>4, <1>5, <1>6, <1>7 DEF GcInv, GcKept

(* The heap of an actor stays laid out well, whatever becomes of its data. *)
LEMMA ActorCollectedLaid ==
    ASSUME GcTyped, NEW h \in Heaps, WellLaid(h)
    PROVE  ActorCollected(h) \in Heaps /\ WellLaid(ActorCollected(h))
<1>1. PICK roots : roots = [s \in {GcState} |-> gcRoots[s]]
  OBVIOUS
<1>2. roots \in [{GcState} -> Nat]
  <2>1. gcRoots[GcState] \in Nat
    BY GcAssumption DEF GcTyped
  <2> QED BY <1>1, <2>1
<1>3. PICK g : g = Collected(h, roots).heap
  OBVIOUS
<1>4. g \in Heaps /\ WellLaid(g)
  BY <1>2, <1>3, CollectedLaid
<1>5. Flipped(g) \in Heaps /\ WellLaid(Flipped(g))
  BY <1>4, FlippedLaid
<1> QED BY <1>1, <1>3, <1>5 DEF ActorCollected

(* An allocation in an actor's heap keeps the invariant.                   *)
LEMMA ActorAllocKeeps ==
    ASSUME GcInv, NEW r \in GcSlots, NEW n \in GcFields, NEW srcs \in [1 .. n -> Sources], ActorGcAlloc(r, srcs)
    PROVE  GcInv'
<1>1. PICK h, roots, held, shadow : h = TheHeap /\ roots = gcRoots /\ held = gcHeld /\ shadow = gcShadow
  OBVIOUS
<1>2. /\ h \in Heaps /\ WellLaid(h) /\ roots \in [GcSlots -> Nat] /\ held \in [GcSlots -> Nat] /\ shadow \in Seq(Seq(Int)) /\ GcTyped
  <2>1. GcTyped
    BY DEF GcInv
  <2> QED BY <1>1, <2>1 DEF GcTyped
<1>3. PICK words, ms : words = [k \in DOMAIN srcs |-> Word(srcs[k])] /\ ms = [k \in DOMAIN srcs |-> Meaning(srcs[k])]
  OBVIOUS
<1>4. n \in Nat \ {0}
  BY GcAssumption
<1>5. words \in Seq(Nat) /\ ms \in Seq(Int) /\ Len(words) = n /\ Len(ms) = n /\ Len(srcs) = n
  BY <1>3, <1>4, WordSeqs DEF GcInv
<1>6. PICK room : room = IF Fits(h, n) THEN h ELSE ActorCollected(h)
  OBVIOUS
<1>7. room \in Heaps /\ WellLaid(room)
  BY <1>2, <1>6, ActorCollectedLaid
<1>8. PICK x, g : x \in Nat /\ g = WithObject(room, words) /\ x = Len(gcShadow) + 1
  <2>1. Len(gcShadow) + 1 \in Nat
    BY <1>1, <1>2
  <2> QED BY <2>1
<1>9. g \in Heaps /\ WellLaid(g)
  <2>1. Fits(room, n)
    BY <1>1, <1>5, <1>6 DEF ActorGcAlloc
  <2> QED BY <1>5, <1>7, <1>8, <2>1, NewObjectFits
<1>10. PICK k : k = IF ShouldCollect(g) THEN ActorCollected(g) ELSE g
  OBVIOUS
<1>11. k \in Heaps /\ WellLaid(k)
  BY <1>2, <1>9, <1>10, ActorCollectedLaid
<1>12. TheHeap' = k
  <2>1. BecomesHeap(k)
    BY <1>1, <1>3, <1>5, <1>6, <1>8, <1>10 DEF ActorGcAlloc
  <2> QED BY <1>11, <2>1, HeapBecomes
<1>13. /\ gcRoots' = [roots EXCEPT ![r] = NewAddr(room)] /\ gcHeld' = [held EXCEPT ![r] = x]
       /\ gcShadow' = Append(shadow, ms) /\ gcLayer' = "actor"
  BY <1>1, <1>3, <1>5, <1>6, <1>8 DEF ActorGcAlloc
<1>14. GcTyped'
  <2>1. NewAddr(room) \in Nat
    BY <1>7, NewAddrType
  <2>2. gcRoots' \in [GcSlots -> Nat] /\ gcHeld' \in [GcSlots -> Nat] /\ gcShadow' \in Seq(Seq(Int))
    BY <1>2, <1>5, <1>8, <1>13, <2>1
  <2> QED BY <1>11, <1>12, <2>2 DEF GcTyped
<1> QED BY <1>13, <1>14 DEF GcInv, GcKept

(* A collection of an actor's heap keeps the invariant.                    *)
LEMMA ActorCollectKeeps ==
    ASSUME GcInv, ActorGcCollect
    PROVE  GcInv'
<1>1. PICK h, g : h = TheHeap /\ g = ActorCollected(h)
  OBVIOUS
<1>2. h \in Heaps /\ WellLaid(h) /\ GcTyped
  BY <1>1 DEF GcInv, GcTyped
<1>3. g \in Heaps /\ WellLaid(g)
  BY <1>1, <1>2, ActorCollectedLaid
<1>4. TheHeap' = g
  <2>1. BecomesHeap(g)
    BY <1>1 DEF ActorGcCollect
  <2> QED BY <1>3, <2>1, HeapBecomes
<1>5. gcRoots' = gcRoots /\ gcHeld' = gcHeld /\ gcShadow' = gcShadow /\ gcLayer' = "actor"
  BY DEF ActorGcCollect
<1> QED BY <1>2, <1>3, <1>4, <1>5 DEF GcInv, GcTyped, GcKept

(* So every step keeps it.                                                 *)
LEMMA GcSteps == GcInv /\ [HeapGcNext]_heapGcVars => GcInv'
<1> SUFFICES ASSUME GcInv, [HeapGcNext]_heapGcVars PROVE GcInv'
  OBVIOUS
<1>1. CASE GcCollect
  BY <1>1, CollectKeeps
<1>2. CASE ActorGcCollect
  BY <1>2, ActorCollectKeeps
<1>3. ASSUME NEW r \in GcSlots, GcDrop(r) PROVE GcInv'
  BY <1>3, DropKeeps
<1>4. ASSUME NEW r \in GcSlots, NEW n \in GcFields, NEW srcs \in [1 .. n -> Sources], GcAlloc(r, srcs) \/ ActorGcAlloc(r, srcs)
      PROVE  GcInv'
  <2>1. CASE GcAlloc(r, srcs)
    BY <2>1, AllocKeeps
  <2>2. CASE ActorGcAlloc(r, srcs)
    BY <2>2, ActorAllocKeeps
  <2> QED BY <1>4, <2>1, <2>2
<1>5. ASSUME NEW r \in GcSlots, NEW n \in GcFields, NEW k \in 1 .. n, NEW src \in Sources, GcStore(r, k, src)
      PROVE  GcInv'
  <2>1. k \in Nat
    BY GcAssumption
  <2> QED BY <1>5, <2>1, StoreKeeps
<1>6. CASE UNCHANGED heapGcVars
  BY <1>6 DEF heapGcVars, GcInv, GcTyped, GcKept, TheHeap
<1> QED BY <1>1, <1>2, <1>3, <1>4, <1>5, <1>6 DEF HeapGcNext

-----------------------------------------------------------------------------
(* What the invariant says is what the runs check.                         *)

(* What the program can reach is in every closed set with what it holds.   *)
LEMMA LiveIn ==
    ASSUME gcHeld \in [GcSlots -> Nat], gcShadow \in Seq(Seq(Int)), NEW L, L \subseteq 1 .. Len(gcShadow),
           \A r \in GcSlots : gcHeld[r] \in L \cup {0},
           \A id \in L : \A k \in 1 .. Len(gcShadow[id]) : gcShadow[id][k] \in L \cup {0, -1}
    PROVE  LiveIds \subseteq L
<1>0. PICK N \in Nat : N = Len(gcShadow)
  OBVIOUS
<1> DEFINE Base == {gcHeld[r] : r \in GcSlots} \ {0}
           More(S) == UNION {{gcShadow[i][k] : k \in DOMAIN gcShadow[i]} \ {0, -1} : i \in S}
           Def(F) == F = [n \in 0 .. N |-> IF n = 0 THEN Base ELSE F[n - 1] \cup More(F[n - 1])]
<1>1. Base \subseteq L
  OBVIOUS
<1>2. ASSUME NEW S \in SUBSET L PROVE S \cup More(S) \in SUBSET L
  <2>1. ASSUME NEW i \in S, NEW k \in DOMAIN gcShadow[i], gcShadow[i][k] \notin {0, -1} PROVE gcShadow[i][k] \in L
    <3>1. i \in L /\ gcShadow[i] \in Seq(Int)
      OBVIOUS
    <3>2. k \in 1 .. Len(gcShadow[i])
      BY <3>1
    <3> QED BY <2>1, <3>1, <3>2
  <2>2. ASSUME NEW z \in More(S) PROVE z \in L
    <3>1. PICK i \in S : z \in {gcShadow[i][k] : k \in DOMAIN gcShadow[i]} \ {0, -1}
      OBVIOUS
    <3>2. PICK k \in DOMAIN gcShadow[i] : z = gcShadow[i][k] /\ z \notin {0, -1}
      BY <3>1
    <3> QED BY <2>1, <3>2
  <2> HIDE DEF More
  <2> QED BY <2>2
<1>3. PICK next : next = [n \in 1 .. N |-> [x \in SUBSET L |-> x \cup More(x)]]
  OBVIOUS
<1>4. PICK F : Steps(N, SUBSET L, Base, next, F)
  <2>1. next \in [1 .. N -> [SUBSET L -> SUBSET L]]
    <3> HIDE DEF More
    <3> QED BY <1>2, <1>3
  <2>2. Base \in SUBSET L
    BY <1>1
  <2> HIDE DEF Base
  <2> QED BY <2>1, <2>2, StepByStep
<1> HIDE DEF More, Base
<1>5. F \in [0 .. N -> SUBSET L] /\ F[0] = Base /\ \A n \in 1 .. N : F[n] = next[n][F[n - 1]]
  BY <1>4 DEF Steps
<1>6. ASSUME NEW n \in 1 .. N PROVE F[n] = F[n - 1] \cup More(F[n - 1])
  <2>1. n - 1 \in 0 .. N
    OBVIOUS
  <2>2. F[n - 1] \in SUBSET L
    BY <1>5, <2>1
  <2>3. next[n][F[n - 1]] = F[n - 1] \cup More(F[n - 1])
    BY <1>3, <2>2
  <2> QED BY <1>5, <2>3
<1>7. Def(F)
  <2>1. \A n \in 0 .. N : F[n] = IF n = 0 THEN Base ELSE F[n - 1] \cup More(F[n - 1])
    <3>1. \A n \in 0 .. N : n = 0 \/ n \in 1 .. N
      OBVIOUS
    <3> QED BY <1>5, <1>6, <3>1
  <2>2. F = [n \in 0 .. N |-> F[n]]
    BY <1>5
  <2> QED BY <2>1, <2>2
<1>8. PICK G : G = CHOOSE H : Def(H)
  OBVIOUS
<1>9. Def(G)
  <2> HIDE DEF Def
  <2> QED BY <1>7, <1>8
<1>10. LiveIds = G[N]
  BY <1>0, <1>8 DEF LiveIds, Base, More
<1>11. G[0] = Base /\ \A n \in 1 .. N : G[n] = G[n - 1] \cup More(G[n - 1])
  <2>1. \A n \in 0 .. N : G[n] = IF n = 0 THEN Base ELSE G[n - 1] \cup More(G[n - 1])
    BY <1>9
  <2>2. 0 \in 0 .. N /\ \A n \in 1 .. N : n \in 0 .. N /\ n # 0
    OBVIOUS
  <2> QED BY <2>1, <2>2
<1>12. \A n \in 0 .. N : G[n] \in SUBSET L
  <2> DEFINE S == {n \in 0 .. N : G[n] \in SUBSET L}
  <2>1. 0 \in S /\ \A n \in 1 .. N : n - 1 \in S => n \in S
    <3>1. 0 \in S
      <4>1. G[0] \in SUBSET L /\ 0 \in 0 .. N
        BY <1>1, <1>11
      <4> QED BY <4>1
    <3>2. ASSUME NEW n \in 1 .. N, n - 1 \in S PROVE n \in S
      <4>1. G[n] = G[n - 1] \cup More(G[n - 1]) /\ G[n - 1] \in SUBSET L
        BY <1>11, <3>2
      <4>2. PICK x \in SUBSET L : x = G[n - 1]
        BY <4>1
      <4>3. x \cup More(x) \in SUBSET L
        BY <1>2
      <4> QED BY <4>1, <4>2, <4>3
    <3> QED BY <3>1, <3>2
  <2>2. \A n \in 0 .. N : n \in S
    <3> HIDE DEF S
    <3> QED BY <2>1, Upwards
  <2> QED BY <2>2
<1>13. N \in 0 .. N
  OBVIOUS
<1> QED BY <1>10, <1>12, <1>13

(* The invariant gives what the runs check.                                *)
LEMMA GcHolds == GcInv => GcSurvival
<1> SUFFICES ASSUME GcInv PROVE GcSurvival
  OBVIOUS
<1>1. PICK h, roots, held, shadow : h = TheHeap /\ roots = gcRoots /\ held = gcHeld /\ shadow = gcShadow
  OBVIOUS
<1>2. /\ h \in Heaps /\ WellLaid(h) /\ held \in [GcSlots -> Nat] /\ shadow \in Seq(Seq(Int))
  BY <1>1 DEF GcInv, GcTyped
<1>3. h.from = gcFrom /\ h.table = gcTable /\ h.used = gcUsed
  BY <1>1 DEF TheHeap
<1>4. PICK N \in Nat : N = Len(Objs(h)) /\ \A i \in 1 .. N : Objs(h)[i] \in GcObjects
  BY <1>2, HeapParts
<1>5. Objs(h) = gcTable[gcFrom] /\ DOMAIN gcTable[gcFrom] = 1 .. N
  <2>1. Objs(h) = gcTable[gcFrom]
    BY <1>3 DEF Objs
  <2>2. Objs(h) \in Seq(GcObjects)
    BY <1>2, HeapParts
  <2> QED BY <1>4, <2>1, <2>2
<1>6. \A i \in 1 .. N : DataAddr(gcFrom, gcTable[gcFrom][i]) = Addr(h, i)
  BY <1>3, <1>5 DEF Addr
<1>7. /\ \A i \in DOMAIN gcTable[gcFrom] :
            LET o == gcTable[gcFrom][i]
            IN o.at + Size(o) = IF i = Len(gcTable[gcFrom]) THEN gcUsed[gcFrom] ELSE gcTable[gcFrom][i + 1].at
      /\ gcUsed[gcFrom] <= GcSpace
  BY <1>2, <1>3, <1>4, <1>5 DEF WellLaid, SideBySide
<1>8. \A a, id : Named(h, a, id) => Denotes(a, id)
  BY <1>4, <1>5, <1>6 DEF Named, Denotes
<1>9. ASSUME gcLayer = "heap", gcTame PROVE SurvivalNow
  <2>1. PICK L : Survival(h, roots, held, shadow, L)
    BY <1>1, <1>9 DEF GcInv, GcKept
  <2>2. LiveIds \subseteq L
    <3>1. /\ L \subseteq 1 .. Len(shadow) /\ \A r \in GcSlots : held[r] \in L \cup {0}
          /\ \A id \in L : \A k \in 1 .. Len(shadow[id]) : shadow[id][k] \in L \cup {0, -1}
      BY <2>1 DEF Survival
    <3> QED BY <1>1, <1>2, <3>1, LiveIn
  <2>3. \A r \in GcSlots : Denotes(gcRoots[r], gcHeld[r])
    BY <1>1, <1>8, <2>1 DEF Survival
  <2>4. ASSUME NEW i \in 1 .. N, Objs(h)[i].id \in LiveIds, NEW k \in DOMAIN Objs(h)[i].data
        PROVE  IF shadow[Objs(h)[i].id][k] = -1 THEN Objs(h)[i].data[k] = 1
               ELSE Denotes(Objs(h)[i].data[k], shadow[Objs(h)[i].id][k])
    <3>1. k \in 1 .. Len(Objs(h)[i].data)
      <4>1. Objs(h)[i].data \in Seq(Nat)
        BY <1>4, SizeType
      <4> QED BY <4>1
    <3>2. Says(h, Objs(h)[i].data[k], shadow[Objs(h)[i].id][k])
      BY <1>4, <2>1, <2>2, <2>4, <3>1 DEF Survival
    <3> QED BY <1>8, <3>2 DEF Says
  <2> QED BY <1>1, <1>5, <2>3, <2>4 DEF SurvivalNow
<1> QED BY <1>7, <1>9 DEF GcSurvival

(* A collection moves every object the program can reach, and every root   *)
(* and field follows, as long as each collection could do right (Tame);    *)
(* whatever happened, the objects lie side by side.                        *)
THEOREM GarbageIsCollected == HeapGcSpec => []GcSurvival
<1>1. HeapGcInit => GcInv
  BY GcStarts
<1>2. GcInv /\ [HeapGcNext]_heapGcVars => GcInv'
  BY GcSteps
<1>3. GcInv => GcSurvival
  BY GcHolds
<1> QED BY <1>1, <1>2, <1>3, PTL DEF HeapGcSpec

-----------------------------------------------------------------------------
(* The heap of the WebAssembly runtime.                                    *)

Kinds == {"i32", "i64", "f64", "ref"}
Layouts == Seq([kind : Kinds, mut : BOOLEAN])
HandleRecords == [type : {"struct", "array", "i31", "extern"}, ptr : Nat, count : Nat,
                  null : BOOLEAN, freed : BOOLEAN]
Made == 1 .. Len(wgcObjs)

(* What an object is made of, and the fields of one in the history.        *)
Objects == UNION {[layout : {l}, mem : [0 .. 2 * Len(l) - 1 -> Nat]] : l \in Layouts}
Contents == UNION {[0 .. n - 1 -> WgcValues \cup {0}] : n \in Nat}

(* An object's memory has two halves for each field of its layout.         *)
LEMMA ObjectsLemma ==
    /\ \A x \in Objects : x.layout \in Layouts /\ x.mem \in [0 .. 2 * Len(x.layout) - 1 -> Nat]
                          /\ Len(x.layout) \in Nat
    /\ \A l \in Layouts : \A m \in [0 .. 2 * Len(l) - 1 -> Nat] : [layout |-> l, mem |-> m] \in Objects
<1>1. \A l \in Layouts : Len(l) \in Nat
  BY DEF Layouts
<1> QED BY <1>1 DEF Objects

WgcType ==
    /\ wgcObjs \in Seq(Objects)
    /\ wgcList \in Seq(Nat) /\ \A i \in 1 .. Len(wgcList) : wgcList[i] \in Made
    /\ wgcHandles \in Seq(HandleRecords)
    /\ wgcRoots \in Seq(Nat) /\ \A i \in 1 .. Len(wgcRoots) : wgcRoots[i] \in 1 .. Len(wgcHandles)
    /\ wgcStats \in [count : Int, alloc : Int, freed : Int, collections : Int]
    /\ wgcRooted \in Seq(Int) /\ Len(wgcRooted) = Len(wgcHandles)

(* A handle to an object names one that was made, and knows its length; a  *)
(* handle is null exactly when it is a host pointer of 0.                  *)
HandlesRight ==
    \A h \in 1 .. Len(wgcHandles) :
        /\ HasObject(h) => /\ wgcHandles[h].ptr \in Made
                           /\ wgcHandles[h].count = Len(wgcObjs[wgcHandles[h].ptr].layout)
        /\ wgcHandles[h].null <=> wgcHandles[h].type = "extern" /\ wgcHandles[h].ptr = 0

(* What the halves of a field's bytes hold when v was stored in it last.   *)
Holds(mem, kind, i, v) ==
    \/ v = 0 /\ \A k \in Halves(kind, i) : mem[k] = 0
    \/ v \in WgcValues /\ \A k \in Halves(kind, i) : mem[k] = HalfOf(kind, v, k)

Apart(layout, i) == \A j \in 0 .. Len(layout) - 1 : j # i => ~Overlapping(layout, i, j)

(* Every object ever made, collected or not.                               *)
FieldsRight ==
    /\ Len(wgcLast) = Len(wgcObjs) /\ wgcLast \in Seq(Contents)
    /\ \A o \in Made :
        /\ wgcLast[o] \in [0 .. Len(wgcObjs[o].layout) - 1 -> WgcValues \cup {0}]
        /\ \A i \in 0 .. Len(wgcObjs[o].layout) - 1 :
            Apart(wgcObjs[o].layout, i) =>
                Holds(wgcObjs[o].mem, wgcObjs[o].layout[i + 1].kind, i, wgcLast[o][i])

RootedRight ==
    \A h \in 1 .. Len(wgcHandles) :
        /\ Cardinality(Places(wgcRoots, h)) = wgcRooted[h]
        /\ wgcRooted[h] > 0 /\ HasObject(h) => Alive(wgcHandles[h].ptr)

CountsRight ==
    /\ \A i, j \in 1 .. Len(wgcList) : wgcList[i] = wgcList[j] => i = j
    /\ wgcStats.count = Len(wgcList)
    /\ wgcStats.count + wgcStats.freed = Len(wgcObjs)
    /\ wgcStats.alloc = Len(wgcHandles)

WgcInv == WgcType /\ HandlesRight /\ FieldsRight /\ RootedRight /\ CountsRight

(* An empty heap satisfies the invariant.                                  *)
LEMMA WgcStart == ASSUME WasmGcInit PROVE WgcInv
<1>1. /\ <<>> \in Seq(Nat) /\ <<>> \in Seq(HandleRecords) /\ <<>> \in Seq(Int) /\ Len(<<>>) = 0 /\ 1 .. 0 = {}
      /\ DOMAIN <<>> = {} /\ <<>> \in Seq(Objects) /\ <<>> \in Seq(Contents)
  OBVIOUS
<1> USE DEF WasmGcInit
<1>2. WgcType
  BY <1>1 DEF WgcType, Made
<1>3. HandlesRight /\ FieldsRight /\ RootedRight /\ CountsRight
  BY <1>1 DEF HandlesRight, FieldsRight, RootedRight, CountsRight, Made
<1> QED BY <1>2, <1>3 DEF WgcInv

(* Parity is 0 or 1, and what is stored tells what was stored.             *)
LEMMA HalfOfLemma ==
    ASSUME NEW kind, NEW k \in Nat, NEW v \in WgcValues
    PROVE  /\ HalfOf(kind, v, k) \in Nat /\ HalfOf(kind, v, k) # 0
           /\ \A w \in WgcValues : HalfOf(kind, w, k) = HalfOf(kind, v, k) => w = v
<1>1. k % 2 \in Nat
  OBVIOUS
<1>2. v \in Nat \ {0} /\ \A w \in WgcValues : w \in Nat \ {0}
  BY WgcAssumption
<1>3. PICK r \in Nat : r = k % 2
  BY <1>1
<1>4. \A w \in WgcValues : HalfOf(kind, w, k) = IF kind = "i32" THEN 100 + w ELSE 2 * w + r
  BY <1>3 DEF HalfOf
<1> QED BY <1>2, <1>4

(* A field occupies some halves, all inside the object.                    *)
LEMMA HalvesLemma ==
    ASSUME NEW kind, NEW i \in Nat
    PROVE  /\ Halves(kind, i) \subseteq Nat /\ Halves(kind, i) # {}
           /\ \A L \in Nat : i < L => Halves(kind, i) \subseteq 0 .. 2 * L - 1
BY DEF Halves

(* A field whose bytes are as they were left reads as what was stored.     *)
LEMMA LoadedHolds ==
    ASSUME NEW mem, NEW kind, NEW i \in Nat, NEW v, Holds(mem, kind, i, v)
    PROVE  Loaded(mem, kind, i) = v
<1>0. PICK H : H = Halves(kind, i)
  OBVIOUS
<1>1. H \subseteq Nat /\ H # {}
  BY <1>0, HalvesLemma
<1>2. PICK k \in H : TRUE
  BY <1>1
<1> DEFINE P(w) == \A l \in H : mem[l] = HalfOf(kind, w, l)
<1>3. Loaded(mem, kind, i) = IF \E w \in WgcValues : P(w) THEN CHOOSE w \in WgcValues : P(w) ELSE 0
  BY <1>0 DEF Loaded
<1>4. CASE v = 0 /\ \A l \in H : mem[l] = 0
  <2>1. \A w \in WgcValues : ~P(w)
    BY <1>1, <1>2, <1>4, HalfOfLemma
  <2> HIDE DEF P
  <2> QED BY <1>3, <1>4, <2>1
<1>5. CASE v \in WgcValues /\ P(v)
  <2>1. \A w \in WgcValues : P(w) => w = v
    <3> SUFFICES ASSUME NEW w \in WgcValues, P(w) PROVE w = v
      OBVIOUS
    <3>1. HalfOf(kind, w, k) = HalfOf(kind, v, k)
      BY <1>2, <1>5
    <3> QED BY <1>1, <1>5, <3>1, HalfOfLemma
  <2> HIDE DEF P
  <2> QED BY <1>3, <1>5, <2>1
<1> QED BY <1>0, <1>4, <1>5 DEF Holds
-----------------------------------------------------------------------------
(* What the invariant says is what the runs check.                         *)

(* The invariant gives the three things WasmGcSafety says of the heap.     *)
LEMMA FieldsAreRight == ASSUME WgcInv PROVE FieldsHold
<1> SUFFICES ASSUME NEW o \in Range(wgcList), NEW i \in 0 .. Len(wgcObjs[o].layout) - 1,
                    Apart(wgcObjs[o].layout, i)
             PROVE  Loaded(wgcObjs[o].mem, wgcObjs[o].layout[i + 1].kind, i) = wgcLast[o][i]
  BY DEF FieldsHold, Apart
<1>1. o \in Made
  <2>1. wgcList \in Seq(Nat)
    BY DEF WgcInv, WgcType
  <2>2. DOMAIN wgcList = 1 .. Len(wgcList)
    BY <2>1
  <2> QED BY <2>2 DEF WgcInv, WgcType, Range
<1>2. i \in Nat
  <2>1. Len(wgcObjs[o].layout) \in Nat
    BY <1>1, ObjectsLemma, ElementOfSeq DEF WgcInv, WgcType, Made
  <2> QED BY <2>1
<1>3. Holds(wgcObjs[o].mem, wgcObjs[o].layout[i + 1].kind, i, wgcLast[o][i])
  BY <1>1 DEF WgcInv, FieldsRight
<1> QED BY <1>2, <1>3, LoadedHolds

LEMMA RootsAreRight == ASSUME WgcInv PROVE RootsHold
<1>0. DOMAIN wgcHandles = 1 .. Len(wgcHandles) /\ DOMAIN wgcRoots = 1 .. Len(wgcRoots) /\ Len(wgcHandles) \in Nat
  BY DEF WgcInv, WgcType
<1>1. \A h \in DOMAIN wgcHandles :
        /\ wgcRooted[h] > 0 /\ HasObject(h) => Alive(wgcHandles[h].ptr)
        /\ Cardinality({i \in DOMAIN wgcRoots : wgcRoots[i] = h}) = wgcRooted[h]
  BY <1>0 DEF WgcInv, RootedRight, Places
<1> DEFINE Same(a, b) == /\ wgcHandles[a].type = wgcHandles[b].type
                         /\ wgcHandles[a].ptr = wgcHandles[b].ptr
<1>2. \A a, b \in 1 .. Len(wgcHandles) : RefEq(a, b) <=> Same(a, b)
  <2> SUFFICES ASSUME NEW a \in 1 .. Len(wgcHandles), NEW b \in 1 .. Len(wgcHandles)
               PROVE  RefEq(a, b) <=> Same(a, b)
    OBVIOUS
  <2>1. /\ wgcHandles[a].null <=> wgcHandles[a].type = "extern" /\ wgcHandles[a].ptr = 0
        /\ wgcHandles[b].null <=> wgcHandles[b].type = "extern" /\ wgcHandles[b].ptr = 0
    BY DEF WgcInv, HandlesRight
  <2>2. a # 0 /\ b # 0
    BY <1>0
  <2> QED BY <2>1, <2>2 DEF RefEq
<1>3. \A a \in 0 .. Len(wgcHandles) : a = 0 \/ a \in 1 .. Len(wgcHandles)
  BY <1>0
<1>4. \A b : (RefEq(0, b) <=> b = 0) /\ (RefEq(b, 0) <=> b = 0)
  BY DEF RefEq
<1>5. ASSUME NEW a \in 0 .. Len(wgcHandles), NEW b \in 0 .. Len(wgcHandles), NEW c \in 0 .. Len(wgcHandles)
      PROVE  /\ RefEq(a, b) => RefEq(b, a)
             /\ RefEq(a, b) /\ RefEq(b, c) => RefEq(a, c)
  BY <1>2, <1>3, <1>4
<1> QED BY <1>1, <1>5 DEF RootsHold

LEMMA CountsAreRight == ASSUME WgcInv PROVE CountsHold
<1>1. DOMAIN wgcList = 1 .. Len(wgcList)
  BY DEF WgcInv, WgcType
<1>2. IsInjective(wgcList)
  BY <1>1 DEF WgcInv, CountsRight, IsInjective
<1> QED BY <1>2 DEF WgcInv, CountsRight, CountsHold

-----------------------------------------------------------------------------
(* Putting a root in and taking one out.                                   *)

(* How often an object is on a list changes with the list:                 *)
LEMMA PlacesAppended ==
    ASSUME NEW S, NEW s \in Seq(S), NEW e \in S, NEW x
    PROVE  Cardinality(Places(Append(s, e), x)) = Cardinality(Places(s, x)) + (IF e = x THEN 1 ELSE 0)
<1>1. PICK l \in Nat : l = Len(s)
  OBVIOUS
<1>2. PICK t : t = Append(s, e)
  OBVIOUS
<1>3. Len(t) = l + 1 /\ t[l + 1] = e /\ \A i \in 1 .. l : t[i] = s[i]
  BY <1>1, <1>2, AppendProperties
<1>4. \A i \in 1 .. l + 1 : i \in 1 .. l \/ i = l + 1
  OBVIOUS
<1>5. Places(t, x) = IF e = x THEN Places(s, x) \cup {l + 1} ELSE Places(s, x)
  BY <1>1, <1>3, <1>4 DEF Places
<1>6. l + 1 \notin Places(s, x)
  BY <1>1 DEF Places
<1>7. PICK A : A = Places(s, x) /\ IsFiniteSet(A) /\ Cardinality(A) \in Nat
  BY PlacesFinite
<1>8. Cardinality(A \cup {l + 1}) = Cardinality(A) + 1
  BY <1>6, <1>7, FS_AddElement
<1> QED BY <1>2, <1>5, <1>7, <1>8

(* The last element takes the place of one that is dropped.                *)
LastMoved(s, k) == SubSeq([s EXCEPT ![k] = s[Len(s)]], 1, Len(s) - 1)

(* The list with its last element moved into the hole at k.                *)
LEMMA LastMovedLemma ==
    ASSUME NEW S, NEW s \in Seq(S), NEW k \in 1 .. Len(s)
    PROVE  /\ LastMoved(s, k) \in Seq(S) /\ Len(LastMoved(s, k)) = Len(s) - 1
           /\ \A i \in 1 .. Len(s) - 1 : LastMoved(s, k)[i] = IF i = k THEN s[Len(s)] ELSE s[i]
<1>1. PICK l \in Nat : l = Len(s) /\ l >= 1
  OBVIOUS
<1>2. PICK m : m = [s EXCEPT ![k] = s[l]]
  OBVIOUS
<1>3. m \in Seq(S) /\ Len(m) = l /\ \A i \in 1 .. l : m[i] = IF i = k THEN s[l] ELSE s[i]
  <2>1. s[l] \in S
    BY <1>1, ElementOfSeq
  <2> QED BY <1>1, <1>2, <2>1
<1>4. /\ SubSeq(m, 1, l - 1) \in Seq(S) /\ Len(SubSeq(m, 1, l - 1)) = l - 1
      /\ \A i \in 1 .. l - 1 : SubSeq(m, 1, l - 1)[i] = m[i]
  BY <1>1, <1>3, SubSeqProperties
<1>5. LastMoved(s, k) = SubSeq(m, 1, l - 1)
  BY <1>1, <1>2 DEF LastMoved
<1>6. \A i \in 1 .. l - 1 : i \in 1 .. l
  OBVIOUS
<1> QED BY <1>1, <1>3, <1>4, <1>5, <1>6

(* It has one place fewer for the element that was at k, and as many for   *)
(* the others.                                                             *)
LEMMA PlacesMoved ==
    ASSUME NEW S, NEW s \in Seq(S), NEW k \in 1 .. Len(s), NEW x
    PROVE  Cardinality(Places(LastMoved(s, k), x)) = Cardinality(Places(s, x)) - (IF s[k] = x THEN 1 ELSE 0)
<1> DEFINE n == Len(s)
           t == LastMoved(s, k)
           A == Places(s, x) \ {k}
           f == [i \in A |-> IF i = n THEN k ELSE i]
           B == {f[i] : i \in A}
<1>1. n \in Nat /\ IsFiniteSet(A) /\ A \subseteq 1 .. n /\ \A i \in A : i # k
  <2>1. IsFiniteSet(Places(s, x))
    BY PlacesFinite
  <2>2. IsFiniteSet(A)
    BY <2>1, FS_RemoveElement
  <2>3. n \in Nat /\ A \subseteq 1 .. n /\ \A i \in A : i # k
    BY DEF Places
  <2> QED BY <2>2, <2>3
<1>2. IsFiniteSet(B) /\ Cardinality(B) = Cardinality(A)
  <2>1. \A i, j \in A : f[i] = f[j] => i = j
    BY <1>1
  <2>2. f \in [A -> B]
    OBVIOUS
  <2>3. \A y \in B : \E i \in A : y = f[i]
    OBVIOUS
  <2>4. IsFiniteSet(A)
    BY <1>1
  <2> HIDE DEF A, f, B
  <2> QED BY <2>1, <2>2, <2>3, <2>4, ImageCount
<1>3. Places(t, x) = B
  <2>0. Len(t) = n - 1 /\ \A i \in 1 .. n - 1 : t[i] = IF i = k THEN s[n] ELSE s[i]
    BY LastMovedLemma
  <2>1. ASSUME NEW j \in B PROVE j \in Places(t, x)
    <3>1. PICK i \in A : j = IF i = n THEN k ELSE i
      BY <2>1
    <3>2. i \in 1 .. n /\ i # k /\ s[i] = x
      BY <1>1, <3>1 DEF Places
    <3>3. j \in 1 .. n - 1 /\ (IF j = k THEN s[n] ELSE s[j]) = x
      BY <1>1, <3>1, <3>2
    <3> HIDE DEF t
    <3> QED BY <2>0, <3>3 DEF Places
  <2>2. ASSUME NEW j \in Places(t, x) PROVE j \in B
    <3>1. j \in 1 .. n - 1 /\ (IF j = k THEN s[n] ELSE s[j]) = x
      <4> HIDE DEF t
      <4> QED BY <2>0, <2>2 DEF Places
    <3>2. CASE j = k
      <4>1. n \in A /\ f[n] = j
        BY <1>1, <3>1, <3>2 DEF Places
      <4> QED BY <4>1
    <3>3. CASE j # k
      <4>1. j \in A /\ f[j] = j
        BY <1>1, <3>1, <3>3 DEF Places
      <4> QED BY <4>1
    <3> QED BY <3>2, <3>3
  <2> QED BY <2>1, <2>2
<1>4. Cardinality(A) = Cardinality(Places(s, x)) - (IF s[k] = x THEN 1 ELSE 0)
  <2>1. k \in Places(s, x) <=> s[k] = x
    BY DEF Places
  <2>2. IsFiniteSet(Places(s, x)) /\ Cardinality(Places(s, x)) \in Nat
    BY PlacesFinite
  <2>3. Cardinality(A) = IF k \in Places(s, x) THEN Cardinality(Places(s, x)) - 1 ELSE Cardinality(Places(s, x))
    BY <2>2, FS_RemoveElement
  <2> QED BY <2>1, <2>2, <2>3
<1> QED BY <1>2, <1>3, <1>4

(* Removing a root moves the last one into the place of one that equals    *)
(* it.                                                                     *)
LEMMA WithoutRootLemma ==
    ASSUME wgcRoots \in Seq(Nat), NEW h \in Range(wgcRoots)
    PROVE  \E k \in 1 .. Len(wgcRoots) : wgcRoots[k] = h /\ WithoutRoot(h) = LastMoved(wgcRoots, k)
<1> DEFINE I == {i \in DOMAIN wgcRoots : wgcRoots[i] = h}
<1>0. DOMAIN wgcRoots = 1 .. Len(wgcRoots)
  OBVIOUS
<1>1. I \in SUBSET Nat /\ I # {}
  BY <1>0 DEF Range
<1>2. Min(I) \in I
  <2> HIDE DEF I
  <2>1. \E m \in I : \A n \in I : m <= n
    BY <1>1, LeastNat
  <2> QED BY <2>1 DEF Min
<1>3. WithoutRoot(h) = LastMoved(wgcRoots, Min(I))
  BY DEF WithoutRoot, LastMoved
<1> QED BY <1>0, <1>2, <1>3
-----------------------------------------------------------------------------
(* Steps that make a handle.  Nothing refers to it yet.                    *)

(* What the leaves below need to know of the lists and their domains.      *)
LEMMA WgcFacts ==
    ASSUME WgcInv
    PROVE  /\ Len(wgcObjs) \in Nat /\ \A o \in Made : wgcObjs[o] \in Objects
           /\ Len(wgcHandles) \in Nat /\ \A h \in 1 .. Len(wgcHandles) : wgcHandles[h] \in HandleRecords
           /\ Len(wgcList) \in Nat /\ Len(wgcRoots) \in Nat
           /\ DOMAIN wgcHandles = 1 .. Len(wgcHandles) /\ DOMAIN wgcRoots = 1 .. Len(wgcRoots)
           /\ DOMAIN wgcList = 1 .. Len(wgcList)
BY ElementOfSeq DEF WgcInv, WgcType, Made

(* An object is alive when it is at some place of the list.                *)
LEMMA AliveLemma ==
    ASSUME WgcInv, NEW o
    PROVE  Alive(o) <=> \E i \in 1 .. Len(wgcList) : wgcList[i] = o
BY WgcFacts DEF Alive, Range

(* What a new handle must be, and what the lists of handles become.        *)
HandleMade(hd) ==
    /\ hd \in HandleRecords
    /\ hd.null <=> hd.type = "extern" /\ hd.ptr = 0
    /\ wgcHandles' = Append(wgcHandles, hd)
    /\ wgcRooted' = Append(wgcRooted, 0)
    /\ wgcRoots' = wgcRoots

(* A new reference takes the next number and leaves the others as they     *)
(* were.                                                                   *)
LEMMA HandleMadeLemma ==
    ASSUME WgcInv, NEW hd, HandleMade(hd)
    PROVE  /\ wgcHandles' \in Seq(HandleRecords) /\ Len(wgcHandles') = Len(wgcHandles) + 1
           /\ wgcRooted' \in Seq(Int) /\ Len(wgcRooted') = Len(wgcHandles')
           /\ wgcHandles'[Len(wgcHandles) + 1] = hd
           /\ \A h \in 1 .. Len(wgcHandles) : wgcHandles'[h] = wgcHandles[h]
           /\ \A i \in 1 .. Len(wgcRoots') : wgcRoots'[i] \in 1 .. Len(wgcHandles')
           /\ \A h \in 1 .. Len(wgcHandles) : wgcRooted'[h] = wgcRooted[h]
           /\ \A h \in 1 .. Len(wgcHandles') : Cardinality(Places(wgcRoots', h)) = wgcRooted'[h]
           /\ wgcRooted'[Len(wgcHandles) + 1] = 0
           /\ \A h \in 1 .. Len(wgcHandles') : h \in 1 .. Len(wgcHandles) \/ h = Len(wgcHandles) + 1
<1>0. PICK n \in Nat : n = Len(wgcHandles)
  BY WgcFacts
<1>1. wgcHandles \in Seq(HandleRecords) /\ wgcRooted \in Seq(Int) /\ Len(wgcRooted) = n /\ 0 \in Int
  BY <1>0 DEF WgcInv, WgcType
<1>2. /\ wgcHandles' \in Seq(HandleRecords) /\ Len(wgcHandles') = n + 1 /\ wgcHandles'[n + 1] = hd
      /\ \A h \in 1 .. n : wgcHandles'[h] = wgcHandles[h]
  <2>1. hd \in HandleRecords /\ wgcHandles' = Append(wgcHandles, hd)
    BY DEF HandleMade
  <2> QED BY <1>0, <1>1, <2>1, AppendProperties
<1>3. /\ wgcRooted' \in Seq(Int) /\ Len(wgcRooted') = n + 1 /\ wgcRooted'[n + 1] = 0
      /\ \A h \in 1 .. n : wgcRooted'[h] = wgcRooted[h]
  BY <1>1, AppendProperties DEF HandleMade
<1>4. \A h \in 1 .. n + 1 : h \in 1 .. n \/ h = n + 1
  OBVIOUS
<1>5. \A i \in 1 .. Len(wgcRoots) : wgcRoots[i] \in 1 .. n
  BY <1>0 DEF WgcInv, WgcType
<1>6. ASSUME NEW h \in 1 .. n + 1 PROVE Cardinality(Places(wgcRoots, h)) = wgcRooted'[h]
  <2>1. CASE h \in 1 .. n
    BY <1>0, <1>3, <2>1 DEF WgcInv, RootedRight
  <2>2. CASE h = n + 1
    <3>1. Places(wgcRoots, h) = {}
      BY <1>5, <2>2 DEF Places
    <3> QED BY <1>3, <2>2, <3>1, FS_EmptySet
  <2> QED BY <1>4, <2>1, <2>2
<1>7. \A i \in 1 .. Len(wgcRoots) : wgcRoots[i] \in 1 .. n + 1
  BY <1>5
<1> QED BY <1>0, <1>2, <1>3, <1>4, <1>6, <1>7 DEF HandleMade

(* Each operation of the heap preserves the invariant.                     *)
LEMMA NewImmediateStep ==
    ASSUME WgcInv, NEW type \in {"i31", "extern"}, NEW v \in Nat, NEW null \in BOOLEAN,
           null <=> (type = "extern" /\ v = 0), NewImmediate(type, v, null)
    PROVE  WgcInv'
<1> DEFINE hd == [type |-> type, ptr |-> v, count |-> 0, null |-> null, freed |-> FALSE]
<1>0. hd \in HandleRecords /\ hd.type = type /\ hd.ptr = v /\ hd.null = null
  BY DEF HandleRecords
<1>1. HandleMade(hd)
  BY <1>0 DEF HandleMade, NewImmediate
<1> HIDE DEF hd
<1>2. /\ wgcHandles' \in Seq(HandleRecords) /\ Len(wgcHandles') = Len(wgcHandles) + 1
      /\ wgcRooted' \in Seq(Int) /\ Len(wgcRooted') = Len(wgcHandles')
      /\ wgcHandles'[Len(wgcHandles) + 1] = hd
      /\ \A h \in 1 .. Len(wgcHandles) : wgcHandles'[h] = wgcHandles[h]
      /\ \A i \in 1 .. Len(wgcRoots') : wgcRoots'[i] \in 1 .. Len(wgcHandles')
      /\ \A h \in 1 .. Len(wgcHandles) : wgcRooted'[h] = wgcRooted[h]
      /\ \A h \in 1 .. Len(wgcHandles') : Cardinality(Places(wgcRoots', h)) = wgcRooted'[h]
      /\ wgcRooted'[Len(wgcHandles) + 1] = 0
      /\ \A h \in 1 .. Len(wgcHandles') : h \in 1 .. Len(wgcHandles) \/ h = Len(wgcHandles) + 1
  BY <1>1, HandleMadeLemma
<1>3. /\ wgcList' = wgcList /\ wgcObjs' = wgcObjs /\ wgcRoots' = wgcRoots /\ wgcLast' = wgcLast
      /\ wgcStats' = [wgcStats EXCEPT !.alloc = @ + 1]
  BY DEF NewImmediate
<1>4. WgcType'
  <2>1. wgcStats' \in [count : Int, alloc : Int, freed : Int, collections : Int]
    <3>1. wgcStats \in [count : Int, alloc : Int, freed : Int, collections : Int]
      BY DEF WgcInv, WgcType
    <3>2. wgcStats.alloc + 1 \in Int
      BY <3>1
    <3> QED BY <1>3, <3>1, <3>2
  <2>2. /\ wgcObjs' \in Seq(Objects) /\ wgcList' \in Seq(Nat) /\ wgcRoots' \in Seq(Nat)
        /\ \A i \in 1 .. Len(wgcList') : wgcList'[i] \in Made'
    BY <1>3 DEF WgcInv, WgcType, Made
  <2> QED BY <1>2, <2>1, <2>2 DEF WgcType
<1>5. HandlesRight'
  <2>1. type # "struct" /\ type # "array"
    OBVIOUS
  <2> QED BY <1>0, <1>2, <1>3, <2>1 DEF WgcInv, HandlesRight, HasObject, Made
<1>6. FieldsRight'
  BY <1>3 DEF WgcInv, FieldsRight, Made
<1>7. RootedRight'
  BY <1>2, <1>3 DEF WgcInv, RootedRight, HasObject, Alive
<1>8. CountsRight'
  BY <1>2, <1>3, WgcFacts DEF WgcInv, CountsRight, WgcType
<1> QED BY <1>4, <1>5, <1>6, <1>7, <1>8 DEF WgcInv

LEMMA NewObjectStep ==
    ASSUME WgcInv, NEW type \in {"struct", "array"}, NEW layout \in Layouts, NewObject(type, layout)
    PROVE  WgcInv'
<1>0. PICK L \in Nat : L = Len(layout)
  BY DEF Layouts
<1>00. PICK n \in Nat : n = Len(wgcObjs)
  BY WgcFacts
<1> DEFINE hd == ObjHandle(type, n + 1, L)
           zeros == [k \in 0 .. 2 * L - 1 |-> 0]
           obj == [layout |-> layout, mem |-> zeros]
           last == [i \in 0 .. L - 1 |-> 0]
<1>1. /\ hd \in HandleRecords /\ hd.type = type /\ hd.ptr = n + 1 /\ hd.count = L /\ ~hd.null
  BY DEF HandleRecords, ObjHandle
<1>2. /\ wgcObjs' = Append(wgcObjs, obj) /\ wgcList' = <<n + 1>> \o wgcList
      /\ wgcLast' = Append(wgcLast, last) /\ wgcRoots' = wgcRoots
      /\ wgcStats' = [wgcStats EXCEPT !.count = @ + 1, !.alloc = @ + 1]
  BY <1>0, <1>00 DEF NewObject
<1>3. HandleMade(hd)
  BY <1>0, <1>00, <1>1 DEF HandleMade, NewObject
<1>4. obj \in Objects /\ last \in Contents
  <2>1. zeros \in [0 .. 2 * L - 1 -> Nat] /\ last \in [0 .. L - 1 -> WgcValues \cup {0}]
    OBVIOUS
  <2>2. obj \in Objects
    BY <1>0, <2>1, ObjectsLemma
  <2> HIDE DEF last
  <2> QED BY <2>1, <2>2 DEF Contents
<1>5. obj.layout = layout /\ obj.mem = zeros
  OBVIOUS
<1>6. \A k \in 0 .. 2 * L - 1 : zeros[k] = 0
  OBVIOUS
<1>7. last \in [0 .. L - 1 -> WgcValues \cup {0}] /\ \A i \in 0 .. L - 1 : last[i] = 0
  OBVIOUS
<1> HIDE DEF hd, zeros, obj, last
<1>8. /\ wgcHandles' \in Seq(HandleRecords) /\ Len(wgcHandles') = Len(wgcHandles) + 1
      /\ wgcRooted' \in Seq(Int) /\ Len(wgcRooted') = Len(wgcHandles')
      /\ wgcHandles'[Len(wgcHandles) + 1] = hd
      /\ \A h \in 1 .. Len(wgcHandles) : wgcHandles'[h] = wgcHandles[h]
      /\ \A i \in 1 .. Len(wgcRoots') : wgcRoots'[i] \in 1 .. Len(wgcHandles')
      /\ \A h \in 1 .. Len(wgcHandles) : wgcRooted'[h] = wgcRooted[h]
      /\ \A h \in 1 .. Len(wgcHandles') : Cardinality(Places(wgcRoots', h)) = wgcRooted'[h]
      /\ wgcRooted'[Len(wgcHandles) + 1] = 0
      /\ \A h \in 1 .. Len(wgcHandles') : h \in 1 .. Len(wgcHandles) \/ h = Len(wgcHandles) + 1
  BY <1>3, HandleMadeLemma
<1>9. /\ wgcObjs' \in Seq(Objects) /\ Len(wgcObjs') = n + 1 /\ wgcObjs'[n + 1] = obj
      /\ \A o \in 1 .. n : wgcObjs'[o] = wgcObjs[o]
  BY <1>00, <1>2, <1>4, AppendProperties DEF WgcInv, WgcType
<1>10. /\ wgcLast' \in Seq(Contents) /\ Len(wgcLast') = n + 1 /\ wgcLast'[n + 1] = last
       /\ \A o \in 1 .. n : wgcLast'[o] = wgcLast[o]
  BY <1>00, <1>2, <1>4, AppendProperties DEF WgcInv, FieldsRight
<1>11. PICK l \in Nat : l = Len(wgcList)
  BY WgcFacts
<1>12. /\ wgcList' \in Seq(Nat) /\ Len(wgcList') = l + 1
       /\ \A i \in 1 .. l + 1 : wgcList'[i] = IF i = 1 THEN n + 1 ELSE wgcList[i - 1]
  <2>1. n + 1 \in Nat
    OBVIOUS
  <2> QED BY <1>2, <1>11, <2>1, PrependProperties DEF WgcInv, WgcType
<1>13. \A o \in 1 .. n + 1 : o \in 1 .. n \/ o = n + 1
  OBVIOUS
<1>14. \A i \in 1 .. l + 1 : i = 1 \/ i - 1 \in 1 .. l
  OBVIOUS
<1>15. \A i \in 1 .. l : wgcList[i] \in 1 .. n /\ i + 1 \in 1 .. l + 1 /\ wgcList'[i + 1] = wgcList[i]
  <2>1. \A i \in 1 .. l : i + 1 \in 1 .. l + 1 /\ i + 1 # 1 /\ (i + 1) - 1 = i
    OBVIOUS
  <2> QED BY <1>00, <1>11, <1>12, <2>1 DEF WgcInv, WgcType, Made
<1>16. WgcType'
  <2>1. ASSUME NEW i \in 1 .. l + 1 PROVE wgcList'[i] \in 1 .. n + 1
    <3>1. CASE i = 1
      <4>1. wgcList'[i] = n + 1
        BY <1>12, <3>1
      <4> QED BY <4>1
    <3>2. CASE i # 1
      <4>1. i - 1 \in 1 .. l /\ wgcList'[i] = wgcList[i - 1]
        BY <1>12, <1>14, <3>2
      <4>2. wgcList[i - 1] \in 1 .. n
        BY <1>15, <4>1
      <4> QED BY <4>1, <4>2
    <3> QED BY <3>1, <3>2
  <2>2. wgcStats' \in [count : Int, alloc : Int, freed : Int, collections : Int]
    <3>1. wgcStats \in [count : Int, alloc : Int, freed : Int, collections : Int]
      BY DEF WgcInv, WgcType
    <3>2. wgcStats.count + 1 \in Int /\ wgcStats.alloc + 1 \in Int
      BY <3>1
    <3> QED BY <1>2, <3>1, <3>2
  <2>3. wgcRoots' \in Seq(Nat)
    BY <1>2 DEF WgcInv, WgcType
  <2>4. \A i \in 1 .. Len(wgcList') : wgcList'[i] \in Made'
    BY <1>9, <1>12, <2>1 DEF Made
  <2> QED BY <1>8, <1>9, <1>12, <2>2, <2>3, <2>4 DEF WgcType
<1>17. HandlesRight'
  <2> SUFFICES ASSUME NEW h \in 1 .. Len(wgcHandles')
               PROVE  /\ HasObject(h)' => /\ wgcHandles'[h].ptr \in 1 .. n + 1
                                          /\ wgcHandles'[h].count = Len(wgcObjs'[wgcHandles'[h].ptr].layout)
                      /\ wgcHandles'[h].null <=> wgcHandles'[h].type = "extern" /\ wgcHandles'[h].ptr = 0
    BY <1>9 DEF HandlesRight, Made
  <2>1. CASE h = Len(wgcHandles) + 1
    <3>1. n + 1 \in 1 .. n + 1 /\ n + 1 # 0 /\ type # "extern"
      OBVIOUS
    <3> QED BY <1>0, <1>1, <1>5, <1>8, <1>9, <2>1, <3>1
  <2>2. CASE h \in 1 .. Len(wgcHandles)
    <3>1. wgcHandles'[h] = wgcHandles[h] /\ (HasObject(h)' <=> HasObject(h))
      BY <1>8, <2>2 DEF HasObject
    <3>2. /\ HasObject(h) => /\ wgcHandles[h].ptr \in 1 .. n
                             /\ wgcHandles[h].count = Len(wgcObjs[wgcHandles[h].ptr].layout)
          /\ wgcHandles[h].null <=> wgcHandles[h].type = "extern" /\ wgcHandles[h].ptr = 0
      BY <1>00, <2>2 DEF WgcInv, HandlesRight, Made
    <3>3. \A o \in 1 .. n : o \in 1 .. n + 1
      OBVIOUS
    <3> QED BY <1>9, <3>1, <3>2, <3>3
  <2> QED BY <1>8, <2>1, <2>2
<1>18. FieldsRight'
  <2> SUFFICES ASSUME NEW o \in 1 .. n + 1
               PROVE  /\ wgcLast'[o] \in [0 .. Len(wgcObjs'[o].layout) - 1 -> WgcValues \cup {0}]
                      /\ \A i \in 0 .. Len(wgcObjs'[o].layout) - 1 :
                          Apart(wgcObjs'[o].layout, i) =>
                              Holds(wgcObjs'[o].mem, wgcObjs'[o].layout[i + 1].kind, i, wgcLast'[o][i])
    BY <1>9, <1>10 DEF FieldsRight, Made
  <2>1. CASE o \in 1 .. n
    BY <1>00, <1>9, <1>10, <2>1 DEF WgcInv, FieldsRight, Made
  <2>2. CASE o = n + 1
    <3>1. wgcObjs'[o].layout = layout /\ wgcObjs'[o].mem = zeros /\ wgcLast'[o] = last
      BY <1>5, <1>9, <1>10, <2>2
    <3>2. ASSUME NEW i \in 0 .. L - 1, NEW kind PROVE Holds(zeros, kind, i, last[i])
      <4>1. Halves(kind, i) \subseteq 0 .. 2 * L - 1
        BY HalvesLemma
      <4> QED BY <1>6, <1>7, <4>1 DEF Holds
    <3> QED BY <1>0, <1>7, <3>1, <3>2
  <2> QED BY <1>13, <2>1, <2>2
<1>19. RootedRight'
  <2> SUFFICES ASSUME NEW h \in 1 .. Len(wgcHandles'), wgcRooted'[h] > 0, HasObject(h)'
               PROVE  wgcHandles'[h].ptr \in Range(wgcList')
    BY <1>8 DEF RootedRight, Alive
  <2>1. h \in 1 .. Len(wgcHandles) /\ wgcHandles'[h] = wgcHandles[h] /\ wgcRooted'[h] = wgcRooted[h]
    BY <1>8
  <2>2. HasObject(h)
    BY <2>1 DEF HasObject
  <2>3. Alive(wgcHandles[h].ptr)
    BY <2>1, <2>2 DEF WgcInv, RootedRight
  <2>4. PICK i \in 1 .. l : wgcList[i] = wgcHandles[h].ptr
    BY <1>11, <2>3, AliveLemma
  <2>5. i + 1 \in 1 .. l + 1 /\ wgcList'[i + 1] = wgcHandles'[h].ptr
    BY <1>15, <2>1, <2>4
  <2>6. DOMAIN wgcList' = 1 .. l + 1
    BY <1>12
  <2> QED BY <2>5, <2>6 DEF Range
<1>20. CountsRight'
  <2>1. ASSUME NEW i \in 1 .. l + 1, NEW j \in 1 .. l + 1, wgcList'[i] = wgcList'[j] PROVE i = j
    <3>0. \A k \in 1 .. l : wgcList[k] # n + 1
      BY <1>15
    <3>1. CASE i = 1 /\ j = 1
      BY <3>1
    <3>2. CASE i # 1 /\ j # 1
      <4>1. i - 1 \in 1 .. l /\ j - 1 \in 1 .. l /\ wgcList[i - 1] = wgcList[j - 1]
        BY <1>12, <1>14, <2>1, <3>2
      <4>2. i - 1 = j - 1
        BY <1>11, <4>1 DEF WgcInv, CountsRight
      <4> QED BY <4>2
    <3>3. CASE i = 1 /\ j # 1
      BY <1>12, <1>14, <2>1, <3>0, <3>3
    <3>4. CASE i # 1 /\ j = 1
      BY <1>12, <1>14, <2>1, <3>0, <3>4
    <3> QED BY <3>1, <3>2, <3>3, <3>4
  <2>2. wgcStats'.count = wgcStats.count + 1 /\ wgcStats'.alloc = wgcStats.alloc + 1 /\ wgcStats'.freed = wgcStats.freed
    BY <1>2 DEF WgcInv, WgcType
  <2>3. wgcStats.count = l /\ wgcStats.count + wgcStats.freed = n /\ wgcStats.alloc = Len(wgcHandles)
        /\ wgcStats.freed \in Int /\ wgcStats.count \in Int
    BY <1>00, <1>11 DEF WgcInv, CountsRight, WgcType
  <2>4. wgcStats'.count + wgcStats'.freed = n + 1
    BY <2>2, <2>3
  <2> QED BY <1>8, <1>9, <1>12, <2>1, <2>2, <2>3, <2>4 DEF CountsRight
<1> QED BY <1>16, <1>17, <1>18, <1>19, <1>20 DEF WgcInv
-----------------------------------------------------------------------------
(* Steps that change an object, the roots, or what is freed.               *)

(* A store leaves the fields that share no byte with the one written.      *)
LEMMA StoredHolds ==
    ASSUME NEW layout \in Layouts, NEW mem \in [0 .. 2 * Len(layout) - 1 -> Nat],
           NEW i \in 0 .. Len(layout) - 1, NEW v \in WgcValues
    PROVE  /\ Stored(mem, layout[i + 1].kind, i, v) \in [0 .. 2 * Len(layout) - 1 -> Nat]
           /\ Holds(Stored(mem, layout[i + 1].kind, i, v), layout[i + 1].kind, i, v)
           /\ \A w : \A j \in 0 .. Len(layout) - 1 : j # i /\ Apart(layout, j) /\ Holds(mem, layout[j + 1].kind, j, w)
                => Holds(Stored(mem, layout[i + 1].kind, i, v), layout[j + 1].kind, j, w)
<1>0. PICK L \in Nat : L = Len(layout)
  BY DEF Layouts
<1> DEFINE kind == layout[i + 1].kind
           after == Stored(mem, kind, i, v)
<1>1. after = [k \in 0 .. 2 * L - 1 |-> IF k \in Halves(kind, i) THEN HalfOf(kind, v, k) ELSE mem[k]]
  BY <1>0 DEF Stored
<1>2. Halves(kind, i) \subseteq 0 .. 2 * L - 1
  BY <1>0, HalvesLemma
<1>3. after \in [0 .. 2 * L - 1 -> Nat]
  <2>1. ASSUME NEW k \in 0 .. 2 * L - 1
        PROVE  (IF k \in Halves(kind, i) THEN HalfOf(kind, v, k) ELSE mem[k]) \in Nat
    <3>1. k \in Nat /\ mem[k] \in Nat
      BY <1>0
    <3>2. HalfOf(kind, v, k) \in Nat
      BY <3>1, HalfOfLemma
    <3> QED BY <3>1, <3>2
  <2> QED BY <1>1, <2>1
<1> HIDE DEF kind, after
<1>4. Holds(after, kind, i, v)
  BY <1>1, <1>2 DEF Holds
<1>5. ASSUME NEW j \in 0 .. L - 1, NEW w, j # i, Apart(layout, j), Holds(mem, layout[j + 1].kind, j, w)
      PROVE  Holds(after, layout[j + 1].kind, j, w)
  <2>1. Halves(layout[j + 1].kind, j) \subseteq 0 .. 2 * L - 1
    BY HalvesLemma
  <2>2. Halves(layout[j + 1].kind, j) \cap Halves(kind, i) = {}
    BY <1>0, <1>5 DEF Apart, Overlapping, kind
  <2>3. \A k \in Halves(layout[j + 1].kind, j) : after[k] = mem[k]
    BY <1>1, <2>1, <2>2
  <2> QED BY <1>5, <2>3 DEF Holds
<1> QED BY <1>0, <1>3, <1>4, <1>5 DEF kind, after

LEMMA FieldSetStep ==
    ASSUME WgcInv, NEW h \in 1 .. Len(wgcHandles), NEW i \in Nat, NEW kind, NEW v \in WgcValues,
           FieldSet(h, i, kind, v)
    PROVE  WgcInv'
<1>1. PICK o : o = wgcHandles[h].ptr
  OBVIOUS
<1>2. o \in Made /\ wgcHandles[h].count = Len(wgcObjs[o].layout) /\ i < Len(wgcObjs[o].layout)
      /\ wgcObjs[o].layout[i + 1].kind = kind
  BY <1>1 DEF WgcInv, HandlesRight, FieldSet, Usable
<1>3. /\ wgcObjs' = [wgcObjs EXCEPT ![o].mem = Stored(@, kind, i, v)]
      /\ wgcLast' = [wgcLast EXCEPT ![o][i] = v]
      /\ wgcList' = wgcList /\ wgcHandles' = wgcHandles /\ wgcRoots' = wgcRoots
      /\ wgcStats' = wgcStats /\ wgcRooted' = wgcRooted
  BY <1>1 DEF FieldSet
<1>4. PICK n \in Nat : n = Len(wgcObjs) /\ DOMAIN wgcObjs = 1 .. n /\ Made = 1 .. n
  BY WgcFacts DEF WgcInv, WgcType, Made
<1>5. PICK layout, mem : layout = wgcObjs[o].layout /\ mem = wgcObjs[o].mem
  OBVIOUS
<1>6. /\ layout \in Layouts /\ mem \in [0 .. 2 * Len(layout) - 1 -> Nat] /\ Len(layout) \in Nat
      /\ wgcObjs[o] \in Objects
  BY <1>2, <1>5, WgcFacts, ObjectsLemma
<1>7. PICK after : after = Stored(mem, kind, i, v)
  OBVIOUS
<1>8. i \in 0 .. Len(layout) - 1 /\ kind = layout[i + 1].kind
  BY <1>2, <1>5, <1>6
<1>9. /\ after \in [0 .. 2 * Len(layout) - 1 -> Nat]
      /\ Holds(after, kind, i, v)
      /\ \A w : \A j \in 0 .. Len(layout) - 1 : j # i /\ Apart(layout, j) /\ Holds(mem, layout[j + 1].kind, j, w)
           => Holds(after, layout[j + 1].kind, j, w)
  BY <1>6, <1>7, <1>8, StoredHolds
<1>10. wgcObjs[o] = [layout |-> layout, mem |-> mem]
  BY <1>5, <1>6 DEF Objects
<1>11. PICK changed : changed = [layout |-> layout, mem |-> after]
  OBVIOUS
<1>12. changed \in Objects /\ changed.layout = layout /\ changed.mem = after
  BY <1>6, <1>9, <1>11, ObjectsLemma
<1>13. wgcObjs' = [wgcObjs EXCEPT ![o] = changed]
  <2>1. [wgcObjs[o] EXCEPT !.mem = after] = changed
    BY <1>10, <1>11
  <2> QED BY <1>3, <1>5, <1>7, <2>1
<1>14. /\ wgcObjs' \in Seq(Objects) /\ Len(wgcObjs') = n
       /\ \A p \in 1 .. n : wgcObjs'[p] = IF p = o THEN changed ELSE wgcObjs[p]
  <2>1. wgcObjs \in Seq(Objects)
    BY DEF WgcInv, WgcType
  <2> QED BY <1>2, <1>4, <1>12, <1>13, <2>1
<1>15. \A p \in 1 .. n : wgcObjs'[p].layout = wgcObjs[p].layout
  BY <1>5, <1>12, <1>14
<1>16. PICK last : last = [wgcLast[o] EXCEPT ![i] = v]
  OBVIOUS
<1>17. wgcLast[o] \in [0 .. Len(layout) - 1 -> WgcValues \cup {0}]
  BY <1>2, <1>5 DEF WgcInv, FieldsRight
<1>18. /\ last \in [0 .. Len(layout) - 1 -> WgcValues \cup {0}]
       /\ \A j \in 0 .. Len(layout) - 1 : last[j] = IF j = i THEN v ELSE wgcLast[o][j]
  BY <1>8, <1>16, <1>17
<1>19. /\ wgcLast' \in Seq(Contents) /\ Len(wgcLast') = n
       /\ \A p \in 1 .. n : wgcLast'[p] = IF p = o THEN last ELSE wgcLast[p]
  <2>1. wgcLast \in Seq(Contents) /\ Len(wgcLast) = n
    BY <1>4 DEF WgcInv, FieldsRight
  <2>2. wgcLast' = [wgcLast EXCEPT ![o] = last]
    BY <1>3, <1>16
  <2>3. last \in Contents
    BY <1>6, <1>18 DEF Contents
  <2> QED BY <1>2, <1>4, <2>1, <2>2, <2>3
<1>20. WgcType'
  BY <1>3, <1>4, <1>14 DEF WgcInv, WgcType, Made
<1>21. HandlesRight'
  <2>1. Made' = Made
    BY <1>4, <1>14 DEF Made
  <2>2. \A g \in 1 .. Len(wgcHandles) : HasObject(g)' <=> HasObject(g)
    BY <1>3 DEF HasObject
  <2> QED BY <1>3, <1>4, <1>15, <2>1, <2>2 DEF WgcInv, HandlesRight
<1>22. FieldsRight'
  <2> SUFFICES ASSUME NEW p \in 1 .. n
               PROVE  /\ wgcLast'[p] \in [0 .. Len(wgcObjs'[p].layout) - 1 -> WgcValues \cup {0}]
                      /\ \A j \in 0 .. Len(wgcObjs'[p].layout) - 1 :
                          Apart(wgcObjs'[p].layout, j) =>
                              Holds(wgcObjs'[p].mem, wgcObjs'[p].layout[j + 1].kind, j, wgcLast'[p][j])
    BY <1>4, <1>14, <1>19 DEF FieldsRight, Made
  <2>1. CASE p # o
    BY <1>4, <1>14, <1>19, <2>1 DEF WgcInv, FieldsRight
  <2>2. CASE p = o
    <3>1. wgcObjs'[p].layout = layout /\ wgcObjs'[p].mem = after /\ wgcLast'[p] = last
      BY <1>12, <1>14, <1>19, <2>2
    <3>2. \A j \in 0 .. Len(layout) - 1 : Apart(layout, j) => Holds(mem, layout[j + 1].kind, j, wgcLast[o][j])
      BY <1>2, <1>5 DEF WgcInv, FieldsRight
    <3>3. ASSUME NEW j \in 0 .. Len(layout) - 1, Apart(layout, j)
          PROVE  Holds(after, layout[j + 1].kind, j, last[j])
      <4>1. CASE j = i
        BY <1>8, <1>9, <1>18, <4>1
      <4>2. CASE j # i
        BY <1>9, <1>18, <3>2, <3>3, <4>2
      <4> QED BY <4>1, <4>2
    <3> QED BY <1>18, <3>1, <3>3
  <2> QED BY <2>1, <2>2
<1>23. RootedRight' /\ CountsRight'
  BY <1>3, <1>4, <1>14 DEF WgcInv, RootedRight, CountsRight, HasObject, Alive
<1> QED BY <1>20, <1>21, <1>22, <1>23 DEF WgcInv

LEMMA AddRootStep ==
    ASSUME WgcInv, NEW h \in 1 .. Len(wgcHandles), AddRoot(h)
    PROVE  WgcInv'
<1>1. /\ wgcRoots' = Append(wgcRoots, h) /\ wgcRooted' = [wgcRooted EXCEPT ![h] = @ + 1]
      /\ HasObject(h) => Alive(wgcHandles[h].ptr)
      /\ UNCHANGED <<wgcList, wgcObjs, wgcHandles, wgcStats, wgcLast>>
  BY DEF AddRoot
<1>2. PICK n \in Nat : n = Len(wgcHandles) /\ h \in 1 .. n /\ h \in Nat
  <2>1. Len(wgcHandles) \in Nat /\ h \in Nat
    BY WgcFacts
  <2> QED BY <2>1
<1>3. wgcRoots \in Seq(Nat) /\ wgcRooted \in Seq(Int) /\ Len(wgcRooted) = n
  BY <1>2 DEF WgcInv, WgcType
<1>4. /\ wgcRooted' \in Seq(Int) /\ Len(wgcRooted') = n
      /\ \A g \in 1 .. n : wgcRooted'[g] = (IF g = h THEN wgcRooted[g] + 1 ELSE wgcRooted[g]) /\ wgcRooted[g] \in Int
  <2>1. wgcRooted[h] + 1 \in Int /\ \A g \in 1 .. n : wgcRooted[g] \in Int
    BY <1>2, <1>3
  <2> QED BY <1>1, <1>2, <1>3, <2>1
<1>5. PICK l \in Nat : l = Len(wgcRoots)
  BY WgcFacts
<1>6. /\ wgcRoots' \in Seq(Nat) /\ Len(wgcRoots') = l + 1 /\ wgcRoots'[l + 1] = h
      /\ \A i \in 1 .. l : wgcRoots'[i] = wgcRoots[i]
  BY <1>1, <1>2, <1>3, <1>5, AppendProperties
<1>7. \A i \in 1 .. l + 1 : wgcRoots'[i] \in 1 .. n
  <2>1. \A i \in 1 .. l : wgcRoots[i] \in 1 .. n
    BY <1>2, <1>5 DEF WgcInv, WgcType
  <2>2. \A i \in 1 .. l + 1 : i \in 1 .. l \/ i = l + 1
    OBVIOUS
  <2> QED BY <1>2, <1>6, <2>1, <2>2
<1>8. WgcType'
  BY <1>1, <1>2, <1>4, <1>6, <1>7 DEF WgcInv, WgcType, Made
<1>9. RootedRight'
  <2> SUFFICES ASSUME NEW g \in 1 .. n
               PROVE  /\ Cardinality(Places(wgcRoots', g)) = wgcRooted'[g]
                      /\ wgcRooted'[g] > 0 /\ HasObject(g) => Alive(wgcHandles[g].ptr)
    BY <1>1, <1>2 DEF RootedRight, HasObject, Alive
  <2>1. Cardinality(Places(wgcRoots', g)) = Cardinality(Places(wgcRoots, g)) + (IF h = g THEN 1 ELSE 0)
    <3>1. wgcRoots \in Seq(Nat) /\ h \in Nat
      BY <1>2, <1>3
    <3>2. Cardinality(Places(Append(wgcRoots, h), g)) = Cardinality(Places(wgcRoots, g)) + (IF h = g THEN 1 ELSE 0)
      BY <3>1, PlacesAppended
    <3> QED BY <1>1, <3>2
  <2>2. /\ Cardinality(Places(wgcRoots, g)) = wgcRooted[g]
        /\ wgcRooted[g] > 0 /\ HasObject(g) => Alive(wgcHandles[g].ptr)
    BY <1>2 DEF WgcInv, RootedRight
  <2> QED BY <1>1, <1>4, <2>1, <2>2
<1>10. HandlesRight' /\ FieldsRight' /\ CountsRight'
  BY <1>1 DEF WgcInv, HandlesRight, FieldsRight, CountsRight, HasObject, Made
<1> QED BY <1>8, <1>9, <1>10 DEF WgcInv

LEMMA RemoveRootStep ==
    ASSUME WgcInv, NEW h \in 1 .. Len(wgcHandles), RemoveRoot(h)
    PROVE  WgcInv'
<1>1. /\ h \in Range(wgcRoots)
      /\ wgcRoots' = WithoutRoot(h) /\ wgcRooted' = [wgcRooted EXCEPT ![h] = @ - 1]
      /\ UNCHANGED <<wgcList, wgcObjs, wgcHandles, wgcStats, wgcLast>>
  BY DEF RemoveRoot
<1>2. PICK n \in Nat : n = Len(wgcHandles) /\ h \in 1 .. n
  BY WgcFacts
<1>3. wgcRoots \in Seq(Nat) /\ wgcRooted \in Seq(Int) /\ Len(wgcRooted) = n
  BY <1>2 DEF WgcInv, WgcType
<1>4. /\ wgcRooted' \in Seq(Int) /\ Len(wgcRooted') = n
      /\ \A g \in 1 .. n : wgcRooted'[g] = (IF g = h THEN wgcRooted[g] - 1 ELSE wgcRooted[g]) /\ wgcRooted[g] \in Int
  <2>1. wgcRooted[h] - 1 \in Int /\ \A g \in 1 .. n : wgcRooted[g] \in Int
    BY <1>2, <1>3
  <2> QED BY <1>1, <1>2, <1>3, <2>1
<1>5. PICK l \in Nat : l = Len(wgcRoots)
  BY WgcFacts
<1>6. PICK k \in 1 .. l : wgcRoots[k] = h /\ wgcRoots' = LastMoved(wgcRoots, k)
  BY <1>1, <1>3, <1>5, WithoutRootLemma
<1>7. /\ wgcRoots' \in Seq(Nat) /\ Len(wgcRoots') = l - 1
      /\ \A i \in 1 .. l - 1 : wgcRoots'[i] = IF i = k THEN wgcRoots[l] ELSE wgcRoots[i]
  BY <1>3, <1>5, <1>6, LastMovedLemma
<1>8. \A i \in 1 .. l - 1 : wgcRoots'[i] \in 1 .. n
  <2>1. \A i \in 1 .. l : wgcRoots[i] \in 1 .. n
    BY <1>2, <1>5 DEF WgcInv, WgcType
  <2>2. l \in 1 .. l /\ \A i \in 1 .. l - 1 : i \in 1 .. l
    BY <1>6
  <2> QED BY <1>7, <2>1, <2>2
<1>9. WgcType'
  BY <1>1, <1>2, <1>4, <1>7, <1>8 DEF WgcInv, WgcType, Made
<1>10. RootedRight'
  <2> SUFFICES ASSUME NEW g \in 1 .. n
               PROVE  /\ Cardinality(Places(wgcRoots', g)) = wgcRooted'[g]
                      /\ wgcRooted'[g] > 0 /\ HasObject(g) => Alive(wgcHandles[g].ptr)
    BY <1>1, <1>2 DEF RootedRight, HasObject, Alive
  <2>1. Cardinality(Places(wgcRoots', g)) = Cardinality(Places(wgcRoots, g)) - (IF wgcRoots[k] = g THEN 1 ELSE 0)
    BY <1>3, <1>5, <1>6, PlacesMoved
  <2>2. /\ Cardinality(Places(wgcRoots, g)) = wgcRooted[g]
        /\ wgcRooted[g] > 0 /\ HasObject(g) => Alive(wgcHandles[g].ptr)
    BY <1>2 DEF WgcInv, RootedRight
  <2> QED BY <1>4, <1>6, <2>1, <2>2
<1>11. HandlesRight' /\ FieldsRight' /\ CountsRight'
  BY <1>1 DEF WgcInv, HandlesRight, FieldsRight, CountsRight, HasObject, Made
<1> QED BY <1>9, <1>10, <1>11 DEF WgcInv

LEMMA RefFreeStep ==
    ASSUME WgcInv, NEW h \in 1 .. Len(wgcHandles), RefFree(h)
    PROVE  WgcInv'
<1>1. /\ wgcHandles' = [wgcHandles EXCEPT ![h].freed = TRUE]
      /\ UNCHANGED <<wgcList, wgcObjs, wgcRoots, wgcStats, wgcLast, wgcRooted>>
  BY DEF RefFree
<1>2. PICK n \in Nat : n = Len(wgcHandles) /\ h \in 1 .. n
  BY WgcFacts
<1>3. wgcHandles \in Seq(HandleRecords) /\ \A g \in 1 .. n : wgcHandles[g] \in HandleRecords
  BY <1>2, WgcFacts DEF WgcInv, WgcType
<1>4. PICK hd : hd = [wgcHandles[h] EXCEPT !.freed = TRUE]
  OBVIOUS
<1>5. hd \in HandleRecords /\ hd.type = wgcHandles[h].type /\ hd.ptr = wgcHandles[h].ptr
      /\ hd.count = wgcHandles[h].count /\ hd.null = wgcHandles[h].null
  BY <1>2, <1>3, <1>4 DEF HandleRecords
<1>6. /\ wgcHandles' \in Seq(HandleRecords) /\ Len(wgcHandles') = n
      /\ \A g \in 1 .. n : wgcHandles'[g] = IF g = h THEN hd ELSE wgcHandles[g]
  <2>1. wgcHandles' = [wgcHandles EXCEPT ![h] = hd]
    BY <1>1, <1>4
  <2> QED BY <1>2, <1>3, <1>5, <2>1
<1>7. \A g \in 1 .. n : /\ wgcHandles'[g].type = wgcHandles[g].type /\ wgcHandles'[g].ptr = wgcHandles[g].ptr
                        /\ wgcHandles'[g].count = wgcHandles[g].count /\ wgcHandles'[g].null = wgcHandles[g].null
                        /\ HasObject(g)' <=> HasObject(g)
  BY <1>5, <1>6 DEF HasObject
<1>8. WgcType'
  BY <1>1, <1>2, <1>6 DEF WgcInv, WgcType, Made
<1>9. HandlesRight'
  BY <1>1, <1>2, <1>6, <1>7 DEF WgcInv, HandlesRight, Made
<1>10. RootedRight'
  BY <1>1, <1>2, <1>6, <1>7 DEF WgcInv, RootedRight, Alive
<1>11. FieldsRight' /\ CountsRight'
  BY <1>1, <1>2, <1>6 DEF WgcInv, FieldsRight, CountsRight, Made
<1> QED BY <1>8, <1>9, <1>10, <1>11 DEF WgcInv

(* A collection keeps the list's order, and every object a root points to. *)
LEMMA CollectStep == ASSUME WgcInv, WgcCollect PROVE WgcInv'
<1> DEFINE M == {i \in DOMAIN wgcList : wgcList[i] \in MarkedObjects}
<1>0. PICK kept : kept = Kept(wgcList, M)
  OBVIOUS
<1>1. /\ wgcList' = kept
      /\ wgcStats' = [wgcStats EXCEPT !.count = @ - (Len(wgcList) - Len(kept)),
                                      !.freed = @ + (Len(wgcList) - Len(kept)),
                                      !.collections = @ + 1]
      /\ UNCHANGED <<wgcObjs, wgcHandles, wgcRoots, wgcLast, wgcRooted>>
  BY <1>0 DEF WgcCollect
<1>2. PICK l \in Nat : l = Len(wgcList)
  BY WgcFacts
<1>3. wgcList \in Seq(Nat)
  BY DEF WgcInv, WgcType
<1>4. kept \in Seq(Nat) /\ \E g : Selects(kept, wgcList, M, l, g)
  <2> HIDE DEF M
  <2> QED BY <1>0, <1>2, <1>3, KeptSelects
<1>5. PICK g : Selects(kept, wgcList, M, l, g)
  BY <1>4
<1>6. PICK m \in Nat : m = Len(kept)
  BY <1>4
<1>7. /\ \A i \in 1 .. m : g[i] \in 1 .. l /\ g[i] \in M /\ kept[i] = wgcList[g[i]]
      /\ \A i, j \in 1 .. m : i < j => g[i] < g[j]
      /\ \A k \in M : k \in 1 .. l => \E i \in 1 .. m : g[i] = k
  BY <1>5, <1>6 DEF Selects
<1>8. \A i, j \in 1 .. m : g[i] = g[j] => i = j
  <2> SUFFICES ASSUME NEW i \in 1 .. m, NEW j \in 1 .. m, i # j PROVE g[i] # g[j]
    OBVIOUS
  <2>1. g[i] \in Int /\ g[j] \in Int
    BY <1>7
  <2>2. i < j \/ j < i
    OBVIOUS
  <2>3. g[i] < g[j] \/ g[j] < g[i]
    BY <1>7, <2>2
  <2> QED BY <2>1, <2>3
<1>9. wgcStats \in [count : Int, alloc : Int, freed : Int, collections : Int]
      /\ wgcStats.count = l /\ wgcStats.count + wgcStats.freed = Len(wgcObjs) /\ wgcStats.alloc = Len(wgcHandles)
  BY <1>2 DEF WgcInv, WgcType, CountsRight
<1>10. PICK d \in Int : d = l - m
  OBVIOUS
<1>11. /\ wgcStats' \in [count : Int, alloc : Int, freed : Int, collections : Int]
       /\ wgcStats'.count = wgcStats.count - d /\ wgcStats'.freed = wgcStats.freed + d
       /\ wgcStats'.alloc = wgcStats.alloc
  <2>1. wgcStats' = [wgcStats EXCEPT !.count = @ - d, !.freed = @ + d, !.collections = @ + 1]
    BY <1>1, <1>2, <1>6, <1>10
  <2>2. wgcStats.count - d \in Int /\ wgcStats.freed + d \in Int /\ wgcStats.collections + 1 \in Int
    BY <1>9
  <2> QED BY <1>9, <2>1, <2>2
<1>12. WgcType'
  <2>1. \A i \in 1 .. m : kept[i] \in Made
    BY <1>2, <1>7 DEF WgcInv, WgcType
  <2> QED BY <1>1, <1>4, <1>6, <1>11, <2>1 DEF WgcInv, WgcType, Made
<1>13. HandlesRight' /\ FieldsRight'
  BY <1>1 DEF WgcInv, HandlesRight, FieldsRight, HasObject, Made
<1>14. RootedRight'
  <2> SUFFICES ASSUME NEW h \in 1 .. Len(wgcHandles), wgcRooted[h] > 0, HasObject(h)
               PROVE  wgcHandles[h].ptr \in Range(kept)
    BY <1>1 DEF WgcInv, RootedRight, HasObject, Alive
  <2>1. Alive(wgcHandles[h].ptr) /\ Cardinality(Places(wgcRoots, h)) = wgcRooted[h]
    BY DEF WgcInv, RootedRight
  <2>2. PICK k \in 1 .. l : wgcList[k] = wgcHandles[h].ptr
    BY <1>2, <2>1, AliveLemma
  <2>3. Places(wgcRoots, h) # {}
    <3>1. CASE Places(wgcRoots, h) = {}
      <4>1. wgcRooted[h] = 0
        BY <2>1, <3>1, FS_EmptySet
      <4> QED BY <4>1
    <3> QED BY <3>1
  <2>4. h \in Range(wgcRoots)
    BY <2>3, WgcFacts DEF Places, Range
  <2>5. k \in M
    BY <2>2, <2>4, WgcFacts, <1>2 DEF MarkedObjects
  <2>6. PICK i \in 1 .. m : g[i] = k
    <3> HIDE DEF M
    <3> QED BY <1>7, <2>5
  <2>7. i \in DOMAIN kept /\ kept[i] = wgcHandles[h].ptr
    <3>1. DOMAIN kept = 1 .. m
      BY <1>4, <1>6
    <3> HIDE DEF M
    <3> QED BY <1>7, <2>2, <2>6, <3>1
  <2> QED BY <2>7 DEF Range
<1>15. CountsRight'
  <2>1. \A i, j \in 1 .. m : kept[i] = kept[j] => i = j
    <3> SUFFICES ASSUME NEW i \in 1 .. m, NEW j \in 1 .. m, kept[i] = kept[j] PROVE i = j
      OBVIOUS
    <3>1. g[i] \in 1 .. l /\ g[j] \in 1 .. l /\ wgcList[g[i]] = wgcList[g[j]]
      <4> HIDE DEF M
      <4> QED BY <1>7
    <3>2. g[i] = g[j]
      BY <1>2, <3>1 DEF WgcInv, CountsRight
    <3> QED BY <1>8, <3>2
  <2>2. wgcStats'.count = m /\ wgcStats'.count + wgcStats'.freed = Len(wgcObjs)
    BY <1>9, <1>10, <1>11
  <2> QED BY <1>1, <1>6, <1>9, <1>11, <2>1, <2>2 DEF CountsRight
<1> QED BY <1>12, <1>13, <1>14, <1>15 DEF WgcInv

LEMMA WgcStutter == ASSUME WgcInv, UNCHANGED wasmGcVars PROVE WgcInv'
<1> USE DEF wasmGcVars
<1>1. WgcType' /\ HandlesRight' /\ FieldsRight'
  BY DEF WgcInv, WgcType, HandlesRight, FieldsRight, HasObject, Made
<1>2. RootedRight' /\ CountsRight'
  BY DEF WgcInv, RootedRight, CountsRight, HasObject, Alive
<1> QED BY <1>1, <1>2 DEF WgcInv

LEMMA WgcKeeps == WgcInv /\ [WasmGcNext]_wasmGcVars => WgcInv'
<1> SUFFICES ASSUME WgcInv, [WasmGcNext]_wasmGcVars PROVE WgcInv'
  OBVIOUS
<1>1. CASE UNCHANGED wasmGcVars
  BY <1>1, WgcStutter
<1>2. CASE WgcCollect
  BY <1>2, CollectStep
<1>3. ASSUME NEW l \in WgcLayouts, StructNew(l) PROVE WgcInv'
  <2>1. l \in Layouts
    BY WgcAssumption DEF Layouts, Kinds
  <2> QED BY <1>3, <2>1, NewObjectStep DEF StructNew
<1>4. ASSUME NEW n \in WgcLengths, ArrayNew(n) PROVE WgcInv'
  <2>1. [i \in 1 .. n |-> [kind |-> "i32", mut |-> TRUE]] \in Layouts
    <3>1. n \in Nat /\ [kind |-> "i32", mut |-> TRUE] \in [kind : Kinds, mut : BOOLEAN]
      BY WgcAssumption DEF Kinds
    <3> QED BY <3>1 DEF Layouts
  <2> QED BY <1>4, <2>1, NewObjectStep DEF ArrayNew
<1>5. ASSUME NEW v \in WgcValues, I31New(v) PROVE WgcInv'
  <2>1. v \in Nat
    BY WgcAssumption
  <2> QED BY <1>5, <2>1, NewImmediateStep DEF I31New
<1>6. ASSUME NEW v \in WgcValues \cup {0}, ExternNew(v) PROVE WgcInv'
  <2>1. v \in Nat
    BY WgcAssumption
  <2> QED BY <1>6, <2>1, NewImmediateStep DEF ExternNew
<1>7. ASSUME NEW h \in DOMAIN wgcHandles, AddRoot(h) \/ RemoveRoot(h) \/ RefFree(h) PROVE WgcInv'
  BY <1>7, WgcFacts, AddRootStep, RemoveRootStep, RefFreeStep
<1>8. ASSUME NEW h \in DOMAIN wgcHandles, NEW i \in 0 .. 2, NEW kind, NEW v \in WgcValues, FieldSet(h, i, kind, v)
      PROVE  WgcInv'
  <2>1. i \in Nat /\ h \in 1 .. Len(wgcHandles)
    BY WgcFacts
  <2> QED BY <1>8, <2>1, FieldSetStep
<1> QED BY <1>1, <1>2, <1>3, <1>4, <1>5, <1>6, <1>7, <1>8 DEF WasmGcNext

(* Fields read as they were stored, roots keep their objects, references   *)
(* compare like equals and nothing is freed twice (wasm_gc.c).             *)
THEOREM WasmHeapIsSafe == WasmGcSpec => []WasmGcSafety
<1>1. WasmGcInit => WgcInv
  BY WgcStart
<1>2. WgcInv /\ [WasmGcNext]_wasmGcVars => WgcInv'
  BY WgcKeeps
<1>3. WgcInv => WasmGcSafety
  BY FieldsAreRight, RootsAreRight, CountsAreRight DEF WasmGcSafety
<1> QED BY <1>1, <1>2, <1>3, PTL DEF WasmGcSpec
-----------------------------------------------------------------------------
(* What each of the two collectors keeps, in the sense of HeapsSafe,       *)
(* whatever the two programs do (gc.c, runtime.c, wasm_gc.c).              *)
THEOREM HeapsAreSafe == HeapGcSpec /\ WasmGcSpec => []HeapsSafe
<1>1. GcSurvival /\ WasmGcSafety => HeapsSafe
  BY DEF HeapsSafe
<1> QED BY <1>1, GarbageIsCollected, WasmHeapIsSafe, PTL
=============================================================================
