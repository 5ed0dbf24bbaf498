-------------------------- MODULE SupervisionProofs --------------------------
(***************************************************************************)
(* Proofs about Supervision: typing, the scheduler's list against the      *)
(* actors that exist, the agreement of the two directions of a tree, and   *)
(* the restart budget; that a start reaches every actor, and a crash only  *)
(* the group of the crashed one.                                           *)
(***************************************************************************)
EXTENDS Supervision, ListFacts, SequenceTheorems, FiniteSetTheorems, TLAPS

(* Unlinking one node of a list without repetitions removes that actor and *)
(* keeps the others, each once: what pny_actor_destroy does to the list.   *)
LEMMA UnlinkLemma ==
    ASSUME NEW S, NEW s \in Seq(S), NEW i \in DOMAIN s,
           \A j, k \in DOMAIN s : s[j] = s[k] => j = k
    PROVE  /\ RemoveAt(s, i) \in Seq(S)
           /\ Range(RemoveAt(s, i)) = Range(s) \ {s[i]}
           /\ \A j, k \in DOMAIN RemoveAt(s, i) :
                  RemoveAt(s, i)[j] = RemoveAt(s, i)[k] => j = k
<1> DEFINE r == RemoveAt(s, i)
<1>1. /\ r \in Seq(S)
      /\ Len(r) = Len(s) - 1
      /\ \A j \in 1 .. Len(s) - 1 : r[j] = IF j < i THEN s[j] ELSE s[j + 1]
  <2>1. i \in 1 .. Len(s)
    OBVIOUS
  <2> QED BY <2>1, RemoveAtProperties
<1>2. DOMAIN r = 1 .. Len(s) - 1 /\ DOMAIN s = 1 .. Len(s) /\ i \in 1 .. Len(s)
  BY <1>1
<1> HIDE DEF r
<1>3. ASSUME NEW j \in DOMAIN r, NEW k \in DOMAIN r, r[j] = r[k] PROVE j = k
  <2>1. j \in 1 .. Len(s) - 1 /\ k \in 1 .. Len(s) - 1
    BY <1>2
  <2> DEFINE at(n) == IF n < i THEN n ELSE n + 1
  <2>2. at(j) \in DOMAIN s /\ at(k) \in DOMAIN s /\ s[at(j)] = s[at(k)]
    BY <2>1, <1>1, <1>2, <1>3
  <2>3. at(j) = at(k)
    BY <2>2
  <2> QED BY <2>1, <2>3, <1>2
<1>4. Range(r) = Range(s) \ {s[i]}
  <2>1. ASSUME NEW x \in Range(r) PROVE x \in Range(s) \ {s[i]}
    BY <1>1, <1>2 DEF Range
  <2>2. ASSUME NEW x \in Range(s) \ {s[i]} PROVE x \in Range(r)
    <3>1. PICK k \in 1 .. Len(s) : s[k] = x /\ k # i
      BY <1>2 DEF Range
    <3>2. CASE k < i
      BY <3>1, <3>2, <1>1, <1>2 DEF Range
    <3>3. CASE k > i
      <4>1. k - 1 \in 1 .. Len(s) - 1 /\ r[k - 1] = s[k]
        BY <3>1, <3>3, <1>1, <1>2
      <4> QED BY <4>1, <3>1, <1>2 DEF Range
    <3> QED BY <3>1, <3>2, <3>3, <1>2
  <2> QED BY <2>1, <2>2
<1> QED BY <1>1, <1>3, <1>4 DEF r

(* Prepending a new actor adds it and keeps the others, each once: what    *)
(* pny_actor_new does to the list.                                         *)
LEMMA PrependLemma ==
    ASSUME NEW S, NEW s \in Seq(S), NEW a \in S, a \notin Range(s),
           \A j, k \in DOMAIN s : s[j] = s[k] => j = k
    PROVE  /\ <<a>> \o s \in Seq(S)
           /\ Range(<<a>> \o s) = Range(s) \cup {a}
           /\ \A j, k \in DOMAIN (<<a>> \o s) :
                  (<<a>> \o s)[j] = (<<a>> \o s)[k] => j = k
<1> DEFINE r == <<a>> \o s
<1>1. Len(s) \in Nat /\ DOMAIN s = 1 .. Len(s)
  OBVIOUS
<1>2. /\ r \in Seq(S)
      /\ Len(r) = Len(s) + 1
      /\ r[1] = a
      /\ \A k \in 2 .. Len(s) + 1 : r[k] = s[k - 1]
  OBVIOUS
<1> HIDE DEF r
<1>3. DOMAIN r = 1 .. Len(s) + 1
  BY <1>2
<1>4. Range(r) = Range(s) \cup {a}
  <2>1. ASSUME NEW k \in DOMAIN r PROVE r[k] \in Range(s) \cup {a}
    <3>1. CASE k = 1
      BY <3>1, <1>2
    <3>2. CASE k # 1
      <4>1. k \in 2 .. Len(s) + 1 /\ k - 1 \in DOMAIN s
        BY <3>2, <1>1, <1>3
      <4> QED BY <4>1, <1>2 DEF Range
    <3> QED BY <3>1, <3>2
  <2>2. a \in Range(r)
    <3>1. 1 \in DOMAIN r
      BY <1>1, <1>3
    <3> QED BY <3>1, <1>2 DEF Range
  <2>3. ASSUME NEW k \in DOMAIN s PROVE s[k] \in Range(r)
    <3>1. k + 1 \in DOMAIN r /\ r[k + 1] = s[k]
      BY <1>1, <1>2, <1>3
    <3> QED BY <3>1 DEF Range
  <2> QED BY <2>1, <2>2, <2>3 DEF Range
<1>5. ASSUME NEW j \in DOMAIN r, NEW k \in DOMAIN r, r[j] = r[k] PROVE j = k
  <2>1. \A n \in DOMAIN r : n = 1 \/ (n \in 2 .. Len(s) + 1 /\ n - 1 \in DOMAIN s
                                      /\ r[n] = s[n - 1] /\ r[n] # a)
    BY <1>1, <1>2, <1>3 DEF Range
  <2>2. CASE j = 1 \/ k = 1
    BY <2>1, <2>2, <1>2, <1>5
  <2>3. CASE j # 1 /\ k # 1
    <3>1. j - 1 = k - 1
      BY <2>1, <2>3, <1>5
    <3> QED BY <3>1, <1>3
  <2> QED BY <2>2, <2>3
<1> QED BY <1>2, <1>4, <1>5 DEF r

(* The variables keep their types: states, metadata and arrays are well    *)
(* formed whatever the host does, and the alive counter wraps.             *)
LEMMA TypeInit == Init => TypeOK
<1> SUFFICES ASSUME Init PROVE TypeOK
  OBVIOUS
<1>1. <<>> \in Seq(Actors) /\ 0 \in 0 .. SizeMod - 1
  BY SupervisionAssumption
<1>2. [a \in Actors |-> <<>>] \in [Actors -> Seq(Actors)]
  BY <1>1
<1> QED BY <1>1, <1>2 DEF Init, TypeOK

LEMMA ChargeType == TypeOK => \A a \in Actors : Charge(a) \in Nat
  BY DEF TypeOK, Charge, Supervised, Meta

LEMMA TypeStep == TypeOK /\ [Next]_treeVars => TypeOK'
<1> SUFFICES ASSUME TypeOK, [Next]_treeVars PROVE TypeOK'
  OBVIOUS
<1>0. \A a \in Actors : wiped + Charge(a) \in Nat
  BY ChargeType DEF TypeOK
<1> USE SupervisionAssumption DEF TypeOK
<1>1. ASSUME NEW a \in Actors, New(a) PROVE TypeOK'
  BY <1>1 DEF New, States
<1>2. ASSUME NEW a \in Actors, Destroy(a) PROVE TypeOK'
  <2>1. PICK i \in DOMAIN actors : actors' = RemoveAt(actors, i)
    BY <1>2 DEF Destroy
  <2>2. actors' \in Seq(Actors)
    <3>1. i \in 1 .. Len(actors) /\ Len(actors) \in Nat
      OBVIOUS
    <3>2. SubSeq(actors, 1, i - 1) \in Seq(Actors)
          /\ SubSeq(actors, i + 1, Len(actors)) \in Seq(Actors)
      BY <3>1, SubSeqProperties
    <3> QED BY <2>1, <3>2, ConcatProperties DEF RemoveAt
  <2>3. (actors_alive - 1 + SizeMod) % SizeMod \in 0 .. SizeMod - 1
    OBVIOUS
  <2>4. wiped' \in Nat
    BY <1>0, <1>2 DEF Destroy
  <2>5. supervise' \in [Actors -> Meta \cup {NoMeta}]
    BY <1>2 DEF Destroy
  <2>6. children' \in [Actors -> Seq(Actors)]
    <3>1. <<>> \in Seq(Actors)
      OBVIOUS
    <3> QED BY <1>2, <3>1 DEF Destroy
  <2> QED BY <1>2, <2>2, <2>3, <2>4, <2>5, <2>6 DEF Destroy
<1>3. CASE Start
  <2>1. StartTotal \in Nat
    <3> DEFINE listed(n) == {i \in DOMAIN actors : StartCount(actors[i]) >= n}
    <3>1. \A n : IsFiniteSet(listed(n))
      BY FS_Interval, FS_Subset
    <3>2. Cardinality(listed(1)) \in Nat /\ Cardinality(listed(2)) \in Nat
      BY <3>1, FS_CardinalityType
    <3>3. StartTotal = Cardinality(listed(1)) + Cardinality(listed(2))
      BY DEF StartTotal
    <3> HIDE DEF listed
    <3> QED BY <3>2, <3>3
  <2>2. (actors_alive + StartTotal) % SizeMod \in 0 .. SizeMod - 1
    BY <2>1
  <2> QED BY <1>3, <2>2 DEF Start, States
<1>4. CASE Stop
  BY <1>4 DEF Stop, States
<1>5. ASSUME NEW p \in Actors, NEW c \in Actors, NEW s \in Strategies,
             NEW m \in RestartArgs, SuperviseRegister(p, c, s, m)
      PROVE  TypeOK'
  <2>1. [supervisor |-> p, strategy |-> s,
         max_restarts |-> IF m > 0 THEN m ELSE 3, restart_count |-> 0] \in Meta
    BY DEF Meta
  <2> QED BY <1>0, <1>5, <2>1 DEF SuperviseRegister
<1>6. ASSUME NEW a \in Actors, MarkCrashed(a) PROVE TypeOK'
  BY <1>6 DEF MarkCrashed, States
<1>7. ASSUME NEW a \in Actors, HandleCrashExhausted(a) PROVE TypeOK'
  BY <1>7 DEF HandleCrashExhausted, States
<1>8. ASSUME NEW a \in Actors, HandleCrashRestart(a) PROVE TypeOK'
  <2>1. supervise[a] \in Meta
    BY <1>8 DEF HandleCrashRestart, Supervised
  <2>2. [supervise[a] EXCEPT !.restart_count = @ + 1] \in Meta
    <3>1. \A r \in Meta : [r EXCEPT !.restart_count = r.restart_count + 1] \in Meta
      <4> SUFFICES ASSUME NEW r \in Meta
                   PROVE  [r EXCEPT !.restart_count = r.restart_count + 1] \in Meta
        OBVIOUS
      <4>1. r.restart_count + 1 \in Nat
        BY DEF Meta
      <4> QED BY <4>1 DEF Meta
    <3> QED BY <2>1, <3>1
  <2>3. supervise' = [supervise EXCEPT ![a] =
            [supervise[a] EXCEPT !.restart_count = @ + 1]]
    BY <1>8 DEF HandleCrashRestart
  <2>4. supervise' \in [Actors -> Meta \cup {NoMeta}]
    BY <2>2, <2>3
  <2> QED BY <1>8, <2>4 DEF HandleCrashRestart, States
<1>9. CASE UNCHANGED treeVars
  BY <1>9 DEF treeVars
<1> QED
  BY <1>1, <1>2, <1>3, <1>4, <1>5, <1>6, <1>7, <1>8, <1>9 DEF Next, HandleCrash

(* Appending to an array adds exactly one member.                          *)
LEMMA RangeOfAppend ==
    ASSUME NEW S, NEW s \in Seq(S), NEW e
    PROVE  Range(Append(s, e)) = Range(s) \cup {e}
<1>1. /\ Len(s) \in Nat /\ DOMAIN s = 1 .. Len(s)
      /\ DOMAIN Append(s, e) = 1 .. Len(s) + 1
      /\ Append(s, e)[Len(s) + 1] = e
      /\ \A i \in 1 .. Len(s) : Append(s, e)[i] = s[i]
  OBVIOUS
<1> DEFINE t == Append(s, e)
<1> HIDE DEF t
<1>2. Range(t) \subseteq Range(s) \cup {e}
  <2> SUFFICES ASSUME NEW i \in 1 .. Len(s) + 1 PROVE t[i] \in Range(s) \cup {e}
    BY <1>1 DEF Range, t
  <2>1. i = Len(s) + 1 \/ i \in 1 .. Len(s)
    BY <1>1
  <2> QED BY <1>1, <2>1 DEF Range, t
<1>3. Range(s) \cup {e} \subseteq Range(t)
  <2>1. Len(s) + 1 \in DOMAIN t /\ \A i \in DOMAIN s : i \in DOMAIN t
    BY <1>1 DEF t
  <2> QED BY <1>1, <2>1 DEF Range, t
<1> QED BY <1>2, <1>3 DEF t

(* Handling a crash only ever restarts actors that exist.                  *)
LEMMA RestartSetIsLive ==
    ASSUME TypeOK, NEW a \in Actors, HandleCrashRestart(a)
    PROVE  RestartSet(a) \subseteq Live
<1>1. supervise[a] \in Meta /\ a \in Live /\ RefsLive(a)
  BY DEF HandleCrashRestart, Supervised, TypeOK
<1>2. supervise[a].strategy \in Strategies
  BY <1>1 DEF Meta
<1> QED BY <1>1, <1>2, SupervisionAssumption DEF RestartSet, RefsLive, Range

(* The list holds the actors that exist, each once.                        *)
LEMMA ListStep == TypeOK /\ ListIsLive /\ [Next]_treeVars => ListIsLive'
<1> SUFFICES ASSUME TypeOK, ListIsLive, [Next]_treeVars PROVE ListIsLive'
  OBVIOUS
<1> USE DEF TypeOK, ListIsLive
<1>1. ASSUME NEW a \in Actors, New(a) PROVE ListIsLive'
  <2>1. a \notin Range(actors)
    BY <1>1 DEF New, Live, States
  <2>2. actors' = <<a>> \o actors
    BY <1>1 DEF New
  <2>3. /\ Range(actors') = Range(actors) \cup {a}
        /\ \A j, k \in DOMAIN actors' : actors'[j] = actors'[k] => j = k
    BY <2>1, <2>2, PrependLemma
  <2>4. Live' = Live \cup {a}
    BY <1>1 DEF New, Live, States
  <2> QED BY <2>3, <2>4
<1>2. ASSUME NEW a \in Actors, Destroy(a) PROVE ListIsLive'
  <2>1. PICK i \in DOMAIN actors : actors[i] = a /\ actors' = RemoveAt(actors, i)
    BY <1>2 DEF Destroy
  <2>2. /\ Range(actors') = Range(actors) \ {a}
        /\ \A j, k \in DOMAIN actors' : actors'[j] = actors'[k] => j = k
    <3>1. /\ Range(RemoveAt(actors, i)) = Range(actors) \ {actors[i]}
          /\ \A j, k \in DOMAIN RemoveAt(actors, i) :
                 RemoveAt(actors, i)[j] = RemoveAt(actors, i)[k] => j = k
      <4>1. actors \in Seq(Actors) /\ i \in DOMAIN actors
            /\ \A j, k \in DOMAIN actors : actors[j] = actors[k] => j = k
        OBVIOUS
      <4> HIDE DEF TypeOK, ListIsLive
      <4> QED BY <4>1, UnlinkLemma
    <3> QED BY <2>1, <3>1
  <2>3. Live' = Live \ {a}
    BY <1>2 DEF Destroy, Live, States
  <2> QED BY <2>2, <2>3
<1>3. ASSUME UNCHANGED actors, Live' = Live PROVE ListIsLive'
  BY <1>3
<1>4. CASE Start
  BY <1>3, <1>4 DEF Start, Live, States
<1>5. CASE Stop
  BY <1>3, <1>5 DEF Stop, Live, States
<1>6. ASSUME NEW p \in Actors, NEW c \in Actors, NEW s \in Strategies,
             NEW m \in RestartArgs, SuperviseRegister(p, c, s, m)
      PROVE  ListIsLive'
  BY <1>3, <1>6 DEF SuperviseRegister, Live
<1>7. ASSUME NEW a \in Actors, MarkCrashed(a) PROVE ListIsLive'
  BY <1>3, <1>7 DEF MarkCrashed, Live, States
<1>8. ASSUME NEW a \in Actors, HandleCrashExhausted(a) PROVE ListIsLive'
  BY <1>3, <1>8 DEF HandleCrashExhausted, Live, States
<1>9. ASSUME NEW a \in Actors, HandleCrashRestart(a) PROVE ListIsLive'
  <2>1. RestartSet(a) \subseteq Live
    BY <1>9, RestartSetIsLive
  <2> QED BY <1>3, <1>9, <2>1 DEF HandleCrashRestart, Live, States
<1>10. CASE UNCHANGED treeVars
  BY <1>3, <1>10 DEF treeVars, Live
<1> QED
  BY <1>1, <1>2, <1>4, <1>5, <1>6, <1>7, <1>8, <1>9, <1>10 DEF Next, HandleCrash

(* A destroyed actor stays destroyed.                                      *)
LEMMA FreedForever ==
    TypeOK /\ ListIsLive /\ [Next]_treeVars
        => \A a \in Actors : actor_state[a] = "FREED" => actor_state'[a] = "FREED"
<1> SUFFICES ASSUME TypeOK, ListIsLive, [Next]_treeVars,
                    NEW b \in Actors, actor_state[b] = "FREED"
             PROVE  actor_state'[b] = "FREED"
  OBVIOUS
<1>0. b \notin Live /\ b \notin Range(actors)
  BY DEF Live, States, ListIsLive
<1> USE DEF TypeOK
<1>1. ASSUME NEW a \in Actors, New(a) \/ Destroy(a) \/ MarkCrashed(a)
                                  \/ HandleCrashExhausted(a)
      PROVE  actor_state'[b] = "FREED"
  BY <1>0, <1>1 DEF New, Destroy, MarkCrashed, HandleCrashExhausted
<1>2. ASSUME NEW a \in Actors, HandleCrashRestart(a)
      PROVE  actor_state'[b] = "FREED"
  <2>1. b \notin RestartSet(a)
    BY <1>0, <1>2, RestartSetIsLive
  <2>2. b # a
    BY <1>0, <1>2 DEF HandleCrashRestart
  <2> QED BY <1>2, <2>1, <2>2 DEF HandleCrashRestart
<1>3. CASE Start \/ Stop
  BY <1>0, <1>3 DEF Start, Stop
<1>4. ASSUME NEW p \in Actors, NEW c \in Actors, NEW s \in Strategies,
             NEW m \in RestartArgs, SuperviseRegister(p, c, s, m)
      PROVE  actor_state'[b] = "FREED"
  BY <1>4 DEF SuperviseRegister
<1>5. CASE UNCHANGED treeVars
  BY <1>5 DEF treeVars
<1> QED BY <1>1, <1>2, <1>3, <1>4, <1>5 DEF Next, HandleCrash

(* A supervised actor is listed by its supervisor while that one exists.   *)
LEMMA TreeStep == TypeOK /\ TreeAgrees /\ ListIsLive /\ [Next]_treeVars => TreeAgrees'
<1> SUFFICES ASSUME TypeOK, TreeAgrees, ListIsLive, [Next]_treeVars PROVE TreeAgrees'
  OBVIOUS
<1> USE DEF TypeOK, TreeAgrees, Supervised
<1>0. \A c \in Actors : Supervised(c) => supervise[c] \in Meta /\ supervise[c].supervisor \in Actors
  BY DEF Meta
<1>1. ASSUME UNCHANGED <<supervise, children>>, Live' = Live,
             \A a \in Actors : actor_state[a] # "ABSENT" => actor_state'[a] # "ABSENT"
      PROVE  TreeAgrees'
  BY <1>0, <1>1
<1>2. ASSUME NEW a \in Actors, New(a) PROVE TreeAgrees'
  <2>1. Live' = Live \cup {a}
    BY <1>2 DEF New, Live, States
  <2> QED BY <1>0, <1>2, <2>1 DEF New
<1>3. ASSUME NEW a \in Actors, Destroy(a) PROVE TreeAgrees'
  <2>1. Live' = Live \ {a}
    BY <1>3 DEF Destroy, Live, States
  <2> QED BY <1>0, <1>3, <2>1 DEF Destroy
<1>4. CASE Start
  BY <1>1, <1>4 DEF Start, ListIsLive, Live, States
<1>5. CASE Stop
  BY <1>1, <1>5 DEF Stop, ListIsLive, Live, States
<1>6. ASSUME NEW p \in Actors, NEW c \in Actors, NEW s \in Strategies,
             NEW m \in RestartArgs, SuperviseRegister(p, c, s, m)
      PROVE  TreeAgrees'
  <2>1. UNCHANGED actor_state /\ Live' = Live /\ p \in Live /\ c \in Live
    BY <1>6 DEF SuperviseRegister, Live
  <2>2. supervise'[c].supervisor = p /\ \A d \in Actors \ {c} : supervise'[d] = supervise[d]
    BY <1>6 DEF SuperviseRegister
  <2>3. /\ Range(children'[p]) = Range(children[p]) \cup {c}
        /\ \A q \in Actors \ {p} : children'[q] = children[q]
    <3>1. children' = [children EXCEPT ![p] = Append(@, c)]
      BY <1>6 DEF SuperviseRegister
    <3>2. Range(Append(children[p], c)) = Range(children[p]) \cup {c}
      BY RangeOfAppend
    <3> QED BY <3>1, <3>2
  <2>4. ASSUME NEW d \in Actors, Supervised(d)'
        PROVE  /\ d \in Live' /\ actor_state'[supervise'[d].supervisor] # "ABSENT"
               /\ supervise'[d].supervisor \in Live'
                      => d \in Range(children'[supervise'[d].supervisor])
    <3>1. CASE d = c
      BY <2>1, <2>2, <2>3, <3>1 DEF Live, States
    <3>2. CASE d # c
      BY <1>0, <2>1, <2>2, <2>3, <2>4, <3>2
    <3> QED BY <3>1, <3>2
  <2> QED BY <2>4
<1>7. ASSUME NEW a \in Actors, MarkCrashed(a) PROVE TreeAgrees'
  BY <1>1, <1>7 DEF MarkCrashed, Live, States
<1>8. ASSUME NEW a \in Actors, HandleCrashExhausted(a) PROVE TreeAgrees'
  BY <1>1, <1>8 DEF HandleCrashExhausted, Live, States
<1>9. ASSUME NEW a \in Actors, HandleCrashRestart(a) PROVE TreeAgrees'
  <2>1. Live' = Live /\ \A b \in Actors : actor_state[b] # "ABSENT" => actor_state'[b] # "ABSENT"
    BY <1>9, RestartSetIsLive DEF HandleCrashRestart, Live, States
  <2>2. supervise[a] \in Meta
    BY <1>9 DEF HandleCrashRestart
  <2>3. /\ UNCHANGED children
        /\ supervise'[a].supervisor = supervise[a].supervisor
        /\ \A d \in Actors \ {a} : supervise'[d] = supervise[d]
        /\ a \in Live /\ Supervised(a)
    BY <1>9, <2>2 DEF HandleCrashRestart, Meta
  <2>4. ASSUME NEW d \in Actors, Supervised(d)'
        PROVE  /\ d \in Live' /\ actor_state'[supervise'[d].supervisor] # "ABSENT"
               /\ supervise'[d].supervisor \in Live'
                      => d \in Range(children'[supervise'[d].supervisor])
    BY <1>0, <2>1, <2>3, <2>4
  <2> QED BY <2>4
<1>10. CASE UNCHANGED treeVars
  BY <1>1, <1>10 DEF treeVars, Live
<1> QED
  BY <1>2, <1>3, <1>4, <1>5, <1>6, <1>7, <1>8, <1>9, <1>10 DEF Next, HandleCrash

(* Weighing a list with other weights: one element is put before it, taken *)
(* out, or weighed anew; the others stand elsewhere and weigh the same.    *)
Agree(g, h, R) == \A x \in R : g[x] = h[x]
AgreeElse(g, h, S, x) == \A y \in S : y # x => g[y] = h[y]
CutOut(t, s, k) == t = RemoveAt(s, k)
Lighter(t, g, s, h, x) == Total(Weighed(t, g)) = Total(Weighed(s, h)) - h[x]
StandsAt(s, k, x) == k \in 1 .. Len(s) /\ s[k] = x
Distinct(s) == \A i, j \in DOMAIN s : s[i] = s[j] => i = j

LEMMA WeighSame ==
    ASSUME NEW S, NEW s \in Seq(S), NEW h \in [S -> Int], NEW g \in [S -> Int],
           Agree(g, h, Range(s))
    PROVE  Total(Weighed(s, g)) = Total(Weighed(s, h))
<1>1. \A i \in 1 .. Len(s) : g[s[i]] = h[s[i]]
  BY ElementOfSeq DEF Range, Agree
<1> QED BY <1>1 DEF Weighed

LEMMA WeighPrepended ==
    ASSUME NEW S, NEW s \in Seq(S), NEW a \in S,
           NEW h \in [S -> Int], NEW g \in [S -> Int], Agree(g, h, Range(s))
    PROVE  Total(Weighed(<<a>> \o s, g)) = Total(Weighed(s, h)) + g[a]
<1>1. PICK t : t = <<a>> \o s
  OBVIOUS
<1>2. /\ t \in Seq(S) /\ Len(t) = Len(s) + 1 /\ Len(s) \in Nat
      /\ \A i \in 1 .. Len(s) + 1 : t[i] = IF i = 1 THEN a ELSE s[i - 1]
  BY <1>1, PrependProperties
<1>3. /\ Weighed(t, g) \in Seq(Int) /\ Len(Weighed(t, g)) = Len(t)
      /\ \A i \in 1 .. Len(t) : Weighed(t, g)[i] = g[t[i]]
  BY <1>2, WeighedType
<1>4. /\ Weighed(s, g) \in Seq(Int) /\ Len(Weighed(s, g)) = Len(s)
      /\ \A i \in 1 .. Len(s) : Weighed(s, g)[i] = g[s[i]]
  BY WeighedType
<1>5. Weighed(t, g)[1] = g[a]
  BY <1>2, <1>3
<1>6. ASSUME NEW i \in 1 .. Len(s) PROVE Weighed(t, g)[i + 1] = Weighed(s, g)[i]
  <2>1. i + 1 \in 1 .. Len(s) + 1 /\ i + 1 # 1 /\ (i + 1) - 1 = i
    BY <1>2
  <2>2. t[i + 1] = s[i]
    BY <1>2, <2>1
  <2> QED BY <1>2, <1>3, <1>4, <2>1, <2>2
<1>7. Total(Weighed(t, g)) = Total(Weighed(s, g)) + g[a]
  <2>1. PICK u : u = Weighed(t, g)
    OBVIOUS
  <2>2. PICK v : v = Weighed(s, g)
    OBVIOUS
  <2>3. v \in Seq(Int) /\ u \in Seq(Int) /\ Len(u) = Len(v) + 1 /\ Len(v) = Len(s)
    BY <1>2, <1>3, <1>4, <2>1, <2>2
  <2>4. u[1] = g[a] /\ g[a] \in Int /\ \A i \in 1 .. Len(v) : u[i + 1] = v[i]
    BY <1>4, <1>5, <1>6, <2>1, <2>2
  <2>5. Total(u) = Total(v) + g[a]
    BY <2>3, <2>4, TotalPrepended
  <2> QED BY <2>1, <2>2, <2>5
<1> QED BY <1>1, <1>7, WeighSame

LEMMA WeighRemoved ==
    ASSUME NEW S, NEW s \in Seq(S), NEW k, NEW x \in S, StandsAt(s, k, x),
           NEW h \in [S -> Int], NEW g \in [S -> Int],
           Distinct(s), AgreeElse(g, h, S, x), NEW u, CutOut(u, s, k)
    PROVE  Lighter(u, g, s, h, x)
<1>0. k \in 1 .. Len(s) /\ s[k] = x
  BY DEF StandsAt
<1>1. PICK t : t = RemoveAt(s, k)
  OBVIOUS
<1>2. /\ t \in Seq(S) /\ Len(t) = Len(s) - 1 /\ Len(s) \in Nat /\ DOMAIN s = 1 .. Len(s)
      /\ \A i \in 1 .. Len(s) - 1 : t[i] = IF i < k THEN s[i] ELSE s[i + 1]
  <2>1. Len(s) \in Nat /\ DOMAIN s = 1 .. Len(s)
    OBVIOUS
  <2>2. /\ RemoveAt(s, k) \in Seq(S) /\ Len(RemoveAt(s, k)) = Len(s) - 1
        /\ \A i \in 1 .. Len(s) - 1 : RemoveAt(s, k)[i] = IF i < k THEN s[i] ELSE s[i + 1]
    BY <1>0, RemoveAtProperties, Zenon
  <2> QED BY <1>1, <2>1, <2>2
<1>3. /\ Weighed(t, g) \in Seq(Int) /\ Len(Weighed(t, g)) = Len(t)
      /\ \A i \in 1 .. Len(t) : Weighed(t, g)[i] = g[t[i]]
  <2>1. t \in Seq(S) /\ g \in [S -> Int]
    BY <1>2
  <2> QED BY <2>1, WeighedType
<1>4. /\ Weighed(s, h) \in Seq(Int) /\ Len(Weighed(s, h)) = Len(s)
      /\ \A i \in 1 .. Len(s) : Weighed(s, h)[i] = h[s[i]]
  BY WeighedType
<1>5. \A i \in 1 .. Len(s) : s[i] \in S /\ (i # k => g[s[i]] = h[s[i]])
  BY <1>0, <1>2, ElementOfSeq DEF AgreeElse, Distinct
<1>6. ASSUME NEW i \in 1 .. Len(s) - 1
      PROVE  Weighed(t, g)[i] = IF i < k THEN Weighed(s, h)[i] ELSE Weighed(s, h)[i + 1]
  <2>0. Len(s) \in Nat /\ Len(t) = Len(s) - 1
    BY <1>2
  <2>1. i \in 1 .. Len(s) /\ i + 1 \in 1 .. Len(s) /\ i \in 1 .. Len(t)
    BY <2>0
  <2>2. CASE i < k
    <3>1. t[i] = s[i] /\ i # k
      <4>1. t[i] = s[i]
        BY <1>2, <2>2
      <4>2. i # k
        BY <1>0, <2>2
      <4> QED BY <4>1, <4>2
    <3> QED BY <1>3, <1>4, <1>5, <2>1, <2>2, <3>1
  <2>3. CASE ~(i < k)
    <3>1. t[i] = s[i + 1] /\ i + 1 # k
      <4>1. t[i] = s[i + 1]
        BY <1>2, <2>3
      <4>2. i + 1 # k
        BY <1>0, <1>2, <2>3
      <4> QED BY <4>1, <4>2
    <3> QED BY <1>3, <1>4, <1>5, <2>1, <2>3, <3>1
  <2> QED BY <2>2, <2>3
<1>7. Total(Weighed(t, g)) = Total(Weighed(s, h)) - Weighed(s, h)[k]
  BY <1>0, <1>2, <1>3, <1>4, <1>6, TotalRemoved
<1> QED BY <1>0, <1>1, <1>4, <1>7 DEF CutOut, Lighter

LEMMA WeighChanged ==
    ASSUME NEW S, NEW s \in Seq(S), NEW k, NEW x \in S, StandsAt(s, k, x),
           NEW h \in [S -> Int], NEW g \in [S -> Int],
           Distinct(s), AgreeElse(g, h, S, x)
    PROVE  Total(Weighed(s, g)) = Total(Weighed(s, h)) + (g[x] - h[x])
<1>0. k \in 1 .. Len(s) /\ s[k] = x
  BY DEF StandsAt
<1>1. Len(s) \in Nat /\ DOMAIN s = 1 .. Len(s) /\ \A i \in 1 .. Len(s) : s[i] \in S
  BY ElementOfSeq
<1>2. /\ Weighed(s, g) \in Seq(Int) /\ Len(Weighed(s, g)) = Len(s)
      /\ \A i \in 1 .. Len(s) : Weighed(s, g)[i] = g[s[i]]
  BY WeighedType
<1>3. /\ Weighed(s, h) \in Seq(Int) /\ Len(Weighed(s, h)) = Len(s)
      /\ \A i \in 1 .. Len(s) : Weighed(s, h)[i] = h[s[i]]
  BY WeighedType
<1>4. ASSUME NEW i \in 1 .. Len(s), i # k PROVE Weighed(s, g)[i] = Weighed(s, h)[i]
  <2>1. s[i] \in S /\ s[i] # s[k]
    BY <1>0, <1>1, <1>4 DEF Distinct
  <2>2. g[s[i]] = h[s[i]]
    BY <1>0, <2>1 DEF AgreeElse
  <2> QED BY <1>2, <1>3, <2>2
<1>5. Total(Weighed(s, g)) = Total(Weighed(s, h)) + (Weighed(s, g)[k] - Weighed(s, h)[k])
  BY <1>0, <1>2, <1>3, <1>4, TotalChanged
<1> QED BY <1>0, <1>2, <1>3, <1>5

(* What each actor is charged with, as a function; Charges weighs the list *)
(* with it, before and after a step.                                       *)
Booked == [b \in Actors |-> Charge(b)]

LEMMA BookedIs ==
    ASSUME TypeOK
    PROVE  /\ Booked \in [Actors -> Nat] /\ Booked \in [Actors -> Int]
           /\ Charges = Total(Weighed(actors, Booked))
<1>1. \A b \in Actors : Charge(b) \in Nat
  BY DEF Charge, Supervised, TypeOK, Meta
<1>2. actors \in Seq(Actors) /\ DOMAIN actors = 1 .. Len(actors)
      /\ \A i \in 1 .. Len(actors) : actors[i] \in Actors
  BY ElementOfSeq DEF TypeOK
<1>3. [i \in DOMAIN actors |-> Charge(actors[i])] = Weighed(actors, Booked)
  BY <1>2 DEF Weighed, Booked
<1> QED BY <1>1, <1>3 DEF Charges, Booked

LEMMA BookedNext ==
    ASSUME TypeOK'
    PROVE  /\ Booked' \in [Actors -> Nat] /\ Booked' \in [Actors -> Int]
           /\ Charges' = Total(Weighed(actors', Booked'))
<1>1. \A b \in Actors : Charge(b)' \in Nat
  BY DEF Charge, Supervised, TypeOK, Meta, NoMeta
<1>2. actors' \in Seq(Actors) /\ DOMAIN actors' = 1 .. Len(actors')
      /\ \A i \in 1 .. Len(actors') : actors'[i] \in Actors
  BY ElementOfSeq DEF TypeOK
<1>3. [i \in DOMAIN actors' |-> Charge(actors[i])'] = Weighed(actors', Booked')
  BY <1>2 DEF Weighed, Booked, Charge, Supervised, NoMeta
<1> QED BY <1>1, <1>3 DEF Charges, Booked

(* No child is restarted more often than its budget allows.                *)
WithinBudget == \A a \in Actors : Supervised(a) => supervise[a].restart_count <= supervise[a].max_restarts

LEMMA WithinStep == TypeOK /\ WithinBudget /\ [Next]_treeVars => WithinBudget'
<1> SUFFICES ASSUME TypeOK, WithinBudget, [Next]_treeVars PROVE WithinBudget'
  OBVIOUS
<1> USE DEF TypeOK, WithinBudget, Supervised
<1>1. ASSUME UNCHANGED supervise PROVE WithinBudget'
  BY <1>1
<1>2. ASSUME NEW a \in Actors, Destroy(a) PROVE WithinBudget'
  BY <1>2 DEF Destroy
<1>3. ASSUME NEW p \in Actors, NEW c \in Actors, NEW s \in Strategies,
             NEW m \in RestartArgs, SuperviseRegister(p, c, s, m)
      PROVE  WithinBudget'
  <2>1. (IF m > 0 THEN m ELSE 3) \in Nat
    BY SupervisionAssumption
  <2> QED BY <1>3, <2>1 DEF SuperviseRegister
<1>4. ASSUME NEW a \in Actors, HandleCrashRestart(a) PROVE WithinBudget'
  <2>1. supervise[a] \in Meta
    BY <1>4 DEF HandleCrashRestart
  <2>2. supervise[a].restart_count < supervise[a].max_restarts
    BY <1>4, <2>1 DEF HandleCrashRestart, Exhausted, Meta
  <2>3. /\ supervise'[a].restart_count = supervise[a].restart_count + 1
        /\ supervise'[a].max_restarts = supervise[a].max_restarts
        /\ \A d \in Actors \ {a} : supervise'[d] = supervise[d]
    BY <1>4, <2>1 DEF HandleCrashRestart, Meta
  <2>4. supervise[a].restart_count \in Nat /\ supervise[a].max_restarts \in Nat
    BY <2>1 DEF Meta
  <2>5. ASSUME NEW d \in Actors, Supervised(d)'
        PROVE  supervise'[d].restart_count <= supervise'[d].max_restarts
    <3>1. CASE d = a
      BY <2>2, <2>3, <2>4, <3>1
    <3>2. CASE d # a
      <4>1. supervise'[d] = supervise[d]
        BY <2>3, <3>2
      <4> QED BY <2>5, <4>1
    <3> QED BY <3>1, <3>2
  <2> QED BY <2>5
<1>5. ASSUME NEW a \in Actors, New(a) \/ MarkCrashed(a) \/ HandleCrashExhausted(a)
      PROVE  WithinBudget'
  BY <1>1, <1>5 DEF New, MarkCrashed, HandleCrashExhausted
<1>6. CASE Start \/ Stop \/ UNCHANGED treeVars
  BY <1>1, <1>6 DEF Start, Stop, treeVars
<1> QED
  BY <1>2, <1>3, <1>4, <1>5, <1>6 DEF Next, HandleCrash

(* Counted restarts are charged to one child each, or were wiped.          *)
Balanced == restarts = Charges + wiped

LEMMA BalancedStep ==
    TypeOK /\ TypeOK' /\ ListIsLive /\ TreeAgrees /\ Balanced /\ [Next]_treeVars => Balanced'
<1> SUFFICES ASSUME TypeOK, TypeOK', ListIsLive, TreeAgrees, Balanced, [Next]_treeVars
             PROVE  Balanced'
  OBVIOUS
<1>0. /\ Booked \in [Actors -> Nat] /\ Booked \in [Actors -> Int]
      /\ Charges = Total(Weighed(actors, Booked))
      /\ Booked' \in [Actors -> Nat] /\ Booked' \in [Actors -> Int]
      /\ Charges' = Total(Weighed(actors', Booked'))
      /\ actors \in Seq(Actors) /\ DOMAIN actors = 1 .. Len(actors)
      /\ restarts \in Nat /\ wiped \in Nat
      /\ \A b \in Actors : Booked[b] = Charge(b) /\ Booked'[b] = Charge(b)'
  BY BookedIs, BookedNext DEF Booked, TypeOK
<1>1. Total(Weighed(actors, Booked)) \in Int
  BY <1>0, WeighedType, TotalType
<1>2. \A i, j \in DOMAIN actors : actors[i] = actors[j] => i = j
  BY DEF ListIsLive
<1>3. \A b \in Live : \E k \in 1 .. Len(actors) : actors[k] = b
  BY <1>0 DEF ListIsLive, Range
<1>4. \A b \in Actors : supervise'[b] = supervise[b] => Booked'[b] = Booked[b]
  BY <1>0 DEF Charge, Supervised, NoMeta
<1>5. \A b \in Actors \ Live : supervise[b] = NoMeta
  BY DEF TreeAgrees, Supervised
<1>6. ASSUME UNCHANGED <<supervise, restarts, wiped, actors>> PROVE Balanced'
  <2>1. Booked' = Booked
    BY <1>6 DEF Booked, Charge, Supervised, NoMeta
  <2> QED BY <1>0, <1>6, <2>1 DEF Balanced
<1>7. ASSUME NEW a \in Actors, New(a) PROVE Balanced'
  <2>1. actors' = <<a>> \o actors /\ UNCHANGED <<supervise, restarts, wiped>> /\ a \notin Live
    BY <1>7 DEF New, Live, States
  <2>2. \A b \in Actors : Booked'[b] = Booked[b]
    BY <1>4, <2>1
  <2>3. Booked'[a] = 0
    BY <1>0, <1>5, <2>1, <2>2 DEF Charge, Supervised
  <2>4. \A b \in Range(actors) : Booked'[b] = Booked[b]
    BY <1>0, <2>2 DEF Range
  <2>5. Charges' = Charges + Booked'[a]
    <3>1. PICK h \in [Actors -> Int], g \in [Actors -> Int] : h = Booked /\ g = Booked'
      BY <1>0
    <3>2. actors \in Seq(Actors) /\ Agree(g, h, Range(actors))
      BY <1>0, <2>4, <3>1 DEF Agree
    <3>3. Total(Weighed(<<a>> \o actors, g)) = Total(Weighed(actors, h)) + g[a]
      BY <3>2, WeighPrepended
    <3> QED BY <1>0, <2>1, <3>1, <3>3
  <2> QED BY <1>0, <1>1, <2>1, <2>3, <2>5 DEF Balanced
<1>8. ASSUME NEW a \in Actors, Destroy(a) PROVE Balanced'
  <2>1. PICK i \in 1 .. Len(actors) : actors[i] = a /\ actors' = RemoveAt(actors, i)
    BY <1>0, <1>8 DEF Destroy
  <2>2. /\ supervise' = [supervise EXCEPT ![a] = NoMeta] /\ UNCHANGED restarts
        /\ wiped' = wiped + Booked[a]
    BY <1>0, <1>8 DEF Destroy
  <2>3. \A b \in Actors : b # actors[i] => Booked'[b] = Booked[b]
    BY <1>4, <2>1, <2>2 DEF TypeOK
  <2>4. Charges' = Charges - Booked[a]
    <3>1. PICK h \in [Actors -> Int], g \in [Actors -> Int] : h = Booked /\ g = Booked'
      BY <1>0
    <3>2. actors \in Seq(Actors) /\ Distinct(actors) /\ AgreeElse(g, h, Actors, a)
      BY <1>0, <1>2, <2>1, <2>3, <3>1 DEF AgreeElse, Distinct
    <3>4. StandsAt(actors, i, a)
      BY <2>1 DEF StandsAt
    <3>5. CutOut(actors', actors, i)
      BY <2>1 DEF CutOut
    <3>6. Lighter(actors', g, actors, h, a)
      BY <3>2, <3>4, <3>5, WeighRemoved
    <3> QED BY <1>0, <3>1, <3>6 DEF Lighter
  <2> QED BY <1>0, <1>1, <2>2, <2>4 DEF Balanced
<1>9. ASSUME NEW a \in Actors, a \in Live, UNCHANGED actors,
             \A b \in Actors \ {a} : supervise'[b] = supervise[b]
      PROVE  Charges' = Charges + (Booked'[a] - Booked[a])
  <2>1. PICK k \in 1 .. Len(actors) : actors[k] = a
    BY <1>3, <1>9
  <2>2. \A b \in Actors : b # a => Booked'[b] = Booked[b]
    BY <1>4, <1>9
  <2>3. PICK h \in [Actors -> Int], g \in [Actors -> Int] : h = Booked /\ g = Booked'
    BY <1>0
  <2>4. actors \in Seq(Actors) /\ Distinct(actors) /\ AgreeElse(g, h, Actors, a)
    <3>1. AgreeElse(g, h, Actors, a)
      BY <2>2, <2>3 DEF AgreeElse
    <3> QED BY <1>0, <1>2, <3>1 DEF Distinct
  <2>5. Total(Weighed(actors, g)) = Total(Weighed(actors, h)) + (g[a] - h[a])
    <3>1. StandsAt(actors, k, a)
      BY <2>1 DEF StandsAt
    <3> QED BY <2>4, <3>1, WeighChanged
  <2>6. Charges' = Total(Weighed(actors, g)) /\ Charges = Total(Weighed(actors, h))
    BY <1>0, <1>9, <2>3
  <2> QED BY <2>3, <2>5, <2>6
<1>10. ASSUME NEW p \in Actors, NEW c \in Actors, NEW s \in Strategies,
             NEW m \in RestartArgs, SuperviseRegister(p, c, s, m)
       PROVE  Balanced'
  <2>1. c \in Live /\ UNCHANGED <<actors, restarts>> /\ wiped' = wiped + Booked[c]
        /\ \A b \in Actors \ {c} : supervise'[b] = supervise[b]
    BY <1>0, <1>10 DEF SuperviseRegister, TypeOK
  <2>2. supervise'[c].restart_count = 0
    BY <1>10 DEF SuperviseRegister, TypeOK
  <2>3. Booked'[c] = 0
    BY <1>0, <2>2 DEF Charge
  <2>4. Charges' = Charges + (Booked'[c] - Booked[c])
    BY <1>9, <2>1
  <2> QED BY <1>0, <1>1, <2>1, <2>3, <2>4 DEF Balanced
<1>11. ASSUME NEW a \in Actors, HandleCrashRestart(a) PROVE Balanced'
  <2>1. a \in Live /\ UNCHANGED <<actors, wiped>> /\ restarts' = restarts + 1
        /\ \A b \in Actors \ {a} : supervise'[b] = supervise[b]
    BY <1>11 DEF HandleCrashRestart, TypeOK
  <2>2. supervise[a] \in Meta /\ Supervised(a)
    BY <1>11 DEF HandleCrashRestart, TypeOK, Supervised
  <2>3. supervise'[a] = [supervise[a] EXCEPT !.restart_count = @ + 1]
    BY <1>11 DEF HandleCrashRestart, TypeOK
  <2>4. supervise'[a].restart_count = supervise[a].restart_count + 1
        /\ supervise'[a].supervisor = supervise[a].supervisor /\ supervise[a].supervisor \in Actors
    BY <2>2, <2>3 DEF Meta
  <2>5. Supervised(a)'
    BY <2>4, SupervisionAssumption DEF Supervised, NoMeta
  <2>6. Booked'[a] = Booked[a] + 1
    BY <1>0, <2>2, <2>4, <2>5 DEF Charge
  <2>7. Charges' = Charges + (Booked'[a] - Booked[a])
    BY <1>9, <2>1
  <2> QED BY <1>0, <1>1, <2>1, <2>6, <2>7 DEF Balanced
<1>12. ASSUME NEW a \in Actors, MarkCrashed(a) \/ HandleCrashExhausted(a) PROVE Balanced'
  BY <1>6, <1>12 DEF MarkCrashed, HandleCrashExhausted
<1>13. CASE Start \/ Stop \/ UNCHANGED treeVars
  BY <1>6, <1>13 DEF Start, Stop, treeVars
<1> QED
  BY <1>7, <1>8, <1>10, <1>11, <1>12, <1>13 DEF Next, HandleCrash

LEMMA BudgetStep ==
    TypeOK /\ TypeOK' /\ ListIsLive /\ TreeAgrees /\ RestartBudget /\ [Next]_treeVars
        => RestartBudget'
<1>1. RestartBudget <=> WithinBudget /\ Balanced
  BY DEF RestartBudget, WithinBudget, Balanced
<1>2. RestartBudget' <=> WithinBudget' /\ Balanced'
  BY DEF RestartBudget, WithinBudget, Balanced
<1> QED BY <1>1, <1>2, WithinStep, BalancedStep

-----------------------------------------------------------------------------
(* What a reader of Supervision may rely on, for any actors, strategies    *)
(* and restart budgets.                                                    *)

SafetyInv == TypeOK /\ ListIsLive /\ TreeAgrees /\ RestartBudget

LEMMA SafetyInit == Init => SafetyInv
<1> SUFFICES ASSUME Init PROVE SafetyInv
  OBVIOUS
<1>1. Live = {} /\ Range(actors) = {}
  BY DEF Init, Live, States, Range
<1>2. ListIsLive
  BY <1>1 DEF Init, ListIsLive
<1>3. Charges = 0
  <2>1. [i \in DOMAIN actors |-> Charge(actors[i])] = <<>>
    BY DEF Init
  <2> QED BY <2>1, TotalEmpty DEF Charges
<1> QED
  BY <1>2, <1>3, TypeInit DEF Init, SafetyInv, TreeAgrees, RestartBudget, Supervised

LEMMA SafetyStep == SafetyInv /\ [Next]_treeVars => SafetyInv'
  BY TypeStep, ListStep, TreeStep, BudgetStep DEF SafetyInv

(* The type invariant, for every value of the constants.                   *)
THEOREM TypeCorrect == Spec => []TypeOK
  BY TypeInit, TypeStep, PTL DEF Spec

LEMMA Safety == Spec => []SafetyInv
  BY SafetyInit, SafetyStep, PTL DEF Spec

(* The scheduler's list and the actors that exist always agree.            *)
THEOREM ListCorrect == Spec => []ListIsLive
<1>1. SafetyInv => ListIsLive
  BY DEF SafetyInv
<1> QED BY <1>1, Safety, PTL

(* The two directions of every supervision tree always agree.              *)
THEOREM TreeCorrect == Spec => []TreeAgrees
<1>1. SafetyInv => TreeAgrees
  BY DEF SafetyInv
<1> QED BY <1>1, Safety, PTL

(* No child exceeds its restart budget, and the restarts that are counted  *)
(* are those charged to the children of the list and those wiped.          *)
THEOREM BudgetCorrect == Spec => []RestartBudget
<1>1. SafetyInv => RestartBudget
  BY DEF SafetyInv
<1> QED BY <1>1, Safety, PTL

(* Only a start sets running, and it starts every actor of the list, which *)
(* is every actor there is: supervisors and children by its first two      *)
(* passes, the others by the third unless they run already.                *)
THEOREM StartIsComplete == Spec => StartReachesEveryActor
<1>1. ASSUME SafetyInv, [Next]_treeVars, ~running, running', NEW a \in Live
      PROVE  actor_state'[a] = "RUNNING"
  <2>1. Start
    BY <1>1 DEF Next, New, Destroy, Stop, SuperviseRegister, MarkCrashed, HandleCrash,
       HandleCrashExhausted, HandleCrashRestart, treeVars
  <2>2. a \in Actors /\ a \in Range(actors)
    BY <1>1 DEF SafetyInv, ListIsLive, Live
  <2>3. actor_state'[a] = IF Started(a) THEN "RUNNING" ELSE actor_state[a]
    BY <2>1, <2>2 DEF Start
  <2>4. ~Started(a) => actor_state[a] = "RUNNING"
    BY DEF Started, StartCount
  <2> QED BY <2>3, <2>4
<1>2. SafetyInv /\ [Next]_treeVars
      => (~running /\ running' => \A a \in Live : actor_state'[a] = "RUNNING")
  BY <1>1
<1> QED BY <1>2, Safety, PTL DEF Spec, StartReachesEveryActor

(* A strategy's restart set is the crashed child and children of its       *)
(* supervisor, whatever the strategy and however often they are listed.    *)
THEOREM CrashesStayInGroups == Spec => CrashStaysInGroup
<1>1. ASSUME TypeOK, NEW a \in Actors, NEW b \in Actors,
             HandleCrashRestart(a), actor_state'[b] # actor_state[b]
      PROVE  b = a \/ b \in Range(children[supervise[a].supervisor])
  <2>1. supervise[a] \in Meta
    BY <1>1 DEF TypeOK, HandleCrashRestart, Supervised
  <2>2. supervise[a].strategy \in Strategies
    BY <2>1 DEF Meta
  <2>3. supervise[a].strategy \in {"ONE_FOR_ONE", "ONE_FOR_ALL", "REST_FOR_ONE",
                                   "SIMPLE_ONE_FOR_ONE", "RESTART", "NONE"}
    BY <2>2, SupervisionAssumption DEF SupervisionAssumption
  <2>4. b = a \/ b \in RestartSet(a)
    BY <1>1 DEF HandleCrashRestart, TypeOK
  <2>5. RestartSet(a) \subseteq {a} \cup Range(children[supervise[a].supervisor])
    BY <2>3 DEF RestartSet, Range
  <2> QED BY <2>4, <2>5
<1>2. TypeOK /\ [Next]_treeVars
      => \A a, b \in Actors :
            HandleCrashRestart(a) /\ actor_state'[b] # actor_state[b]
                => b = a \/ b \in Range(children[supervise[a].supervisor])
  BY <1>1
<1> QED BY <1>2, TypeCorrect, PTL DEF Spec, CrashStaysInGroup
=============================================================================
