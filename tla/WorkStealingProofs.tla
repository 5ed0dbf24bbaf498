-------------------------- MODULE WorkStealingProofs --------------------------
(***************************************************************************)
(* Proofs about WorkStealing, for any number of workers and messages and   *)
(* any size of the deques: typing, the shape of the deques, what holds     *)
(* when the host has stopped the threads, and that the scheduler           *)
(* implements TaskPool.                                                    *)
(***************************************************************************)
EXTENDS WorkStealing, FiniteSetTheorems, TLAPS

-----------------------------------------------------------------------------
(* The inductive invariant, part by part.                                  *)

WorkerPlaces == {"none", "loop", "local", "steal", "global", "find", "test", "assign",
                 "clear", "call", "handling", "spill", "exited"}
HostPlaces == {"host", "ticking", "starting", "stopping", "joining", "destroyed", "find",
               "call", "handling", "spill"}
Busy == {"find", "test", "assign", "clear", "call", "handling"}
Active(w) == pc[w] \notin {"none", "exited"}

(* Where a thread can be, and what it has in hand there.                   *)
Local(t) ==
    /\ t # Host => /\ pc[t] \in WorkerPlaces
                   /\ t \notin Workers => pc[t] = "none"
                   /\ pc[t] = "spill" => hand[t] # Null
    /\ t = Host => pc[t] \in HostPlaces
    /\ pc[t] \in Busy => hand[t] # Null
    /\ pc[t] \notin Busy \cup {"spill"} => hand[t] = Null
    /\ pc[t] = "spill" <=> spilling[t] # Null
    /\ pc[t] = "find" => next[t] >= 1
    /\ pc[t] \in {"test", "assign", "clear", "call"} => target[t] # 0

(* What the host's place says about the threads: none runs unless it was   *)
(* started; while it stops them, none below round; and a thread that runs  *)
(* has its flag set, or is being joined.                                   *)
HostOK ==
    /\ round \in 0 .. worker_count
    /\ (hand[Host] # Null \/ pc[Host] = "joining") => round \in Workers
    /\ (hand[Host] # Null \/ pc[Host] = "ticking") => ~Started
    /\ pc[Host] = "starting" => Started /\ \A w \in Workers : w >= round => ~Active(w)
    /\ pc[Host] \in {"stopping", "joining"} =>
           ~mn_running /\ \A w \in Workers : w < round => ~Active(w)
    /\ (~Started /\ pc[Host] \notin {"stopping", "joining"}) => \A w \in Workers : ~Active(w)
    /\ pc[Host] = "destroyed" => ~mn_running
    /\ \A w \in Workers : Active(w) => (running[w] \/ (pc[Host] = "joining" /\ round = w))

(* TypeOK but for the deques and the sets of messages.                     *)
ControlType ==
    /\ worker_count \in Counts
    /\ mn_running \in BOOLEAN /\ running \in [Threads -> BOOLEAN]
    /\ behavior \in [DOMAIN Listed -> Behaviors \cup {Null}]
    /\ new_behavior \in [DOMAIN Listed -> Behaviors \cup {Null}]
    /\ pc \in [Threads -> WorkerPlaces \cup HostPlaces]
    /\ hand \in [Threads -> Messages \cup {Null}]
    /\ next \in [Threads -> Nat]
    /\ target \in [Threads -> {0} \cup DOMAIN Listed]
    /\ cached \in [Threads -> Behaviors \cup {Null}]
    /\ spilling \in [Threads -> Messages \cup {Null}]
    /\ starts \in Nat /\ crashed \in BOOLEAN

ControlInv == ControlType /\ (\A t \in Threads : Local(t)) /\ HostOK

(* Every message is in one place: no two slots, hands or spills hold the   *)
(* same one, and none that was freed or is fresh.                          *)
InDeque(m) == \E q \in Threads, i \in Slots : deque[q].items[i] = m
SlotsApart ==
    \A q, r \in Threads : \A i, j \in Slots :
        (deque[q].items[i] = deque[r].items[j] /\ deque[q].items[i] # Null) => (q = r /\ i = j)
HandsApart == \A t, u \in Threads : (hand[t] = hand[u] /\ hand[t] # Null) => t = u
SpillsApart == \A t, u \in Threads : (spilling[t] = spilling[u] /\ spilling[t] # Null) => t = u
HandsAlone ==
    \A t \in Threads : hand[t] # Null =>
        /\ hand[t] \notin fresh \cup freed /\ ~InDeque(hand[t])
        /\ \A u \in Threads : spilling[u] # hand[t]
SpillsAlone ==
    \A t \in Threads : spilling[t] # Null =>
        spilling[t] \notin fresh \cup freed /\ ~InDeque(spilling[t])
SetsApart == fresh \cap freed = {} /\ \A m \in fresh \cup freed : ~InDeque(m)
SpareDeques == \A q \in Threads \ (Workers \cup {Global}) : deque[q] = Empty
OnePlace ==
    /\ SlotsApart /\ HandsApart /\ SpillsApart /\ HandsAlone /\ SpillsAlone /\ SetsApart
    /\ SpareDeques

DequeSet == [items : [Slots -> Messages \cup {Null}], head : Slots, tail : Slots,
             count : 0 .. DequeSize]
Window(d) ==
    /\ d.tail = (d.head + d.count) % DequeSize
    /\ \A i \in Slots : (d.items[i] # Null) <=> (i - d.head) % DequeSize < d.count
DequesOK ==
    /\ deque \in [Threads -> DequeSet] /\ \A q \in Threads : Window(deque[q])
    /\ fresh \subseteq Messages /\ freed \subseteq Messages

StealingInv == ControlInv /\ DequesOK /\ OnePlace

-----------------------------------------------------------------------------
(* Numbers.                                                                *)

LEMMA MaxLemma ==
    /\ MaxWorkers \in Counts /\ MaxWorkers \in 1 .. 16
    /\ \A k \in Counts : k <= MaxWorkers
<1>0. Counts # {} /\ \A n \in Counts : n \in Int /\ 1 <= n /\ n <= 16
  BY StealingAssumption
<1>1. \E n \in Counts : \A k \in Counts : k <= n
  <2>1. SUFFICES ASSUME \A n \in Counts : \E k \in Counts : k > n PROVE FALSE
    BY <1>0
  <2>2. PICK a \in Counts : a >= 1
    BY <1>0
  <2>3. PICK b \in Counts : b >= 5
    <3>1. PICK c \in Counts : c >= 2
      BY <2>1, <2>2, <1>0
    <3>2. PICK e \in Counts : e >= 3
      BY <2>1, <3>1, <1>0
    <3>3. PICK f \in Counts : f >= 4
      BY <2>1, <3>2, <1>0
    <3> QED BY <2>1, <3>3, <1>0
  <2>4. PICK c \in Counts : c >= 9
    <3>1. PICK e \in Counts : e >= 6
      BY <2>1, <2>3, <1>0
    <3>2. PICK f \in Counts : f >= 7
      BY <2>1, <3>1, <1>0
    <3>3. PICK g \in Counts : g >= 8
      BY <2>1, <3>2, <1>0
    <3> QED BY <2>1, <3>3, <1>0
  <2>5. PICK e \in Counts : e >= 13
    <3>1. PICK f \in Counts : f >= 10
      BY <2>1, <2>4, <1>0
    <3>2. PICK g \in Counts : g >= 11
      BY <2>1, <3>1, <1>0
    <3>3. PICK h \in Counts : h >= 12
      BY <2>1, <3>2, <1>0
    <3> QED BY <2>1, <3>3, <1>0
  <2>6. PICK f \in Counts : f >= 16
    <3>1. PICK g \in Counts : g >= 14
      BY <2>1, <2>5, <1>0
    <3>2. PICK h \in Counts : h >= 15
      BY <2>1, <3>1, <1>0
    <3> QED BY <2>1, <3>2, <1>0
  <2> QED BY <2>1, <2>6, <1>0
<1> QED BY <1>0, <1>1, StealingAssumption DEF MaxWorkers

LEMMA ThreadSets ==
    ASSUME worker_count \in Counts
    PROVE  /\ worker_count \in 1 .. MaxWorkers
           /\ Workers \subseteq Threads \ {Host}
           /\ Host \in Threads /\ Global = Host /\ Host \notin Workers
  BY MaxLemma, StealingAssumption DEF Workers, Threads, Host, Global

LEMMA ModLemma ==
    ASSUME NEW x \in -DequeSize .. 2 * DequeSize - 1
    PROVE  x % DequeSize = IF x < 0 THEN x + DequeSize
                           ELSE IF x < DequeSize THEN x ELSE x - DequeSize
<1>1. DequeSize \in Nat /\ DequeSize > 0 /\ x \in Int
  BY StealingAssumption
<1> DEFINE q == x \div DequeSize
           r == x % DequeSize
<1>2. q \in Int /\ r \in 0 .. DequeSize - 1 /\ x = DequeSize * q + r
  BY <1>1
<1> HIDE DEF q, r
<1>3. ~(q <= -2)
  <2>1. q <= -2 => DequeSize * q <= -(2 * DequeSize)
    BY <1>1, <1>2
  <2> QED BY <1>1, <1>2, <2>1
<1>4. ~(q >= 2)
  <2>1. q >= 2 => DequeSize * q >= 2 * DequeSize
    BY <1>1, <1>2
  <2> QED BY <1>1, <1>2, <2>1
<1>5. q = -1 \/ q = 0 \/ q = 1
  BY <1>2, <1>3, <1>4
<1>6. r = IF x < 0 THEN x + DequeSize ELSE IF x < DequeSize THEN x ELSE x - DequeSize
  BY <1>1, <1>2, <1>5
<1> QED BY <1>6 DEF r

-----------------------------------------------------------------------------
(* One deque.                                                              *)

LEMMA EmptyLemma == Empty \in DequeSet /\ Window(Empty) /\ \A i \in Slots : Empty.items[i] = Null
<1>1. 0 \in Slots /\ 0 + 0 \in -DequeSize .. 2 * DequeSize - 1
  BY StealingAssumption DEF Slots
<1>2. (0 + 0) % DequeSize = 0
  BY <1>1, ModLemma, StealingAssumption
<1>3. \A i \in Slots : (i - 0) % DequeSize \in Nat
  BY StealingAssumption DEF Slots
<1> QED BY <1>1, <1>2, <1>3, StealingAssumption DEF Empty, DequeSet, Window

(* Positions in a deque of which c slots from h on are filled.             *)
LEMMA Positions ==
    ASSUME NEW h \in Slots, NEW c \in 0 .. DequeSize
    PROVE  /\ (h + c) % DequeSize = IF h + c < DequeSize THEN h + c ELSE h + c - DequeSize
           /\ \A i \in Slots : (i - h) % DequeSize = IF i < h THEN i - h + DequeSize ELSE i - h
           /\ (h + 1) % DequeSize = IF h + 1 < DequeSize THEN h + 1 ELSE 0
           /\ (h - 1 + DequeSize) % DequeSize = IF h = 0 THEN DequeSize - 1 ELSE h - 1
<1> USE StealingAssumption DEF Slots
<1>1. h + c \in -DequeSize .. 2 * DequeSize - 1 /\ ~(h + c < 0)
  OBVIOUS
<1>2. h + 1 \in -DequeSize .. 2 * DequeSize - 1 /\ ~(h + 1 < 0) /\ h + 1 <= DequeSize
  OBVIOUS
<1>3. h - 1 + DequeSize \in -DequeSize .. 2 * DequeSize - 1 /\ ~(h - 1 + DequeSize < 0)
  OBVIOUS
<1>4. ASSUME NEW i \in Slots
      PROVE  (i - h) % DequeSize = IF i < h THEN i - h + DequeSize ELSE i - h
  <2>1. i - h \in -DequeSize .. 2 * DequeSize - 1 /\ i - h < DequeSize /\ (i - h < 0 <=> i < h)
    OBVIOUS
  <2> QED BY <2>1, ModLemma
<1>5. (h + c) % DequeSize = IF h + c < DequeSize THEN h + c ELSE h + c - DequeSize
  <2> DEFINE x == h + c
  <2>1. x \in -DequeSize .. 2 * DequeSize - 1 /\ ~(x < 0)
    BY <1>1
  <2> HIDE DEF x
  <2>2. x % DequeSize = IF x < DequeSize THEN x ELSE x - DequeSize
    BY <2>1, ModLemma
  <2> QED BY <2>2 DEF x
<1>6. (h + 1) % DequeSize = IF h + 1 < DequeSize THEN h + 1 ELSE 0
  <2>1. (h + 1) % DequeSize = IF h + 1 < DequeSize THEN h + 1 ELSE h + 1 - DequeSize
    BY <1>2, ModLemma
  <2> QED BY <1>2, <2>1
<1>7. (h - 1 + DequeSize) % DequeSize = IF h = 0 THEN DequeSize - 1 ELSE h - 1
  <2> DEFINE x == h - 1 + DequeSize
  <2>1. x \in -DequeSize .. 2 * DequeSize - 1 /\ ~(x < 0)
    BY <1>3
  <2>2. (IF x < DequeSize THEN x ELSE x - DequeSize) = (IF h = 0 THEN DequeSize - 1 ELSE h - 1)
    OBVIOUS
  <2> HIDE DEF x
  <2>3. x % DequeSize = IF x < DequeSize THEN x ELSE x - DequeSize
    BY <2>1, ModLemma
  <2> QED BY <2>2, <2>3 DEF x
<1> QED BY <1>4, <1>5, <1>6, <1>7

(* What pushing, popping the newest and popping the oldest do to them.     *)
LEMMA PushPositions ==
    ASSUME NEW h \in Slots, NEW c \in 0 .. DequeSize - 1, NEW t \in Slots, t = (h + c) % DequeSize
    PROVE  /\ (t + 1) % DequeSize \in Slots /\ (t + 1) % DequeSize = (h + (c + 1)) % DequeSize
           /\ \A i \in Slots : (i - h) % DequeSize < c + 1 <=> (i = t \/ (i - h) % DequeSize < c)
           /\ ~((t - h) % DequeSize < c)
<1>1. c + 1 \in 0 .. DequeSize /\ c \in 0 .. DequeSize /\ DequeSize \in Nat \ {0}
  BY StealingAssumption
<1>2. /\ (h + (c + 1)) % DequeSize = (IF h + (c + 1) < DequeSize THEN h + (c + 1) ELSE h + (c + 1) - DequeSize)
      /\ t = (IF h + c < DequeSize THEN h + c ELSE h + c - DequeSize)
      /\ (t + 1) % DequeSize = (IF t + 1 < DequeSize THEN t + 1 ELSE 0)
  BY <1>1, Positions
<1>3. \A i \in Slots : (i - h) % DequeSize = IF i < h THEN i - h + DequeSize ELSE i - h
  BY <1>1, Positions
<1>4. (t + 1) % DequeSize \in Slots /\ (t + 1) % DequeSize = (h + (c + 1)) % DequeSize
  BY <1>1, <1>2 DEF Slots
<1>5. ASSUME NEW i \in Slots
      PROVE  (i - h) % DequeSize < c + 1 <=> (i = t \/ (i - h) % DequeSize < c)
  <2>1. (IF i < h THEN i - h + DequeSize ELSE i - h) < c + 1
        <=> (i = t \/ (IF i < h THEN i - h + DequeSize ELSE i - h) < c)
    BY <1>1, <1>2 DEF Slots
  <2> QED BY <1>3, <2>1
<1>6. ~((t - h) % DequeSize < c)
  <2>1. ~((IF t < h THEN t - h + DequeSize ELSE t - h) < c)
    BY <1>1, <1>2 DEF Slots
  <2> QED BY <1>3, <2>1
<1> QED BY <1>4, <1>5, <1>6

LEMMA TopPositions ==
    ASSUME NEW h \in Slots, NEW c \in 1 .. DequeSize, NEW t \in Slots, t = (h + c) % DequeSize
    PROVE  LET p == (t - 1 + DequeSize) % DequeSize IN
           /\ p \in Slots /\ p = (h + (c - 1)) % DequeSize
           /\ \A i \in Slots : (i - h) % DequeSize < c <=> (i = p \/ (i - h) % DequeSize < c - 1)
           /\ ~((p - h) % DequeSize < c - 1)
<1>1. c - 1 \in 0 .. DequeSize - 1 /\ c \in 0 .. DequeSize /\ c - 1 \in 0 .. DequeSize /\ DequeSize \in Nat \ {0} /\ c - 1 + 1 = c
  BY StealingAssumption
<1> DEFINE p == (t - 1 + DequeSize) % DequeSize
<1>2. /\ (h + (c - 1)) % DequeSize = (IF h + (c - 1) < DequeSize THEN h + (c - 1) ELSE h + (c - 1) - DequeSize)
      /\ t = (IF h + c < DequeSize THEN h + c ELSE h + c - DequeSize)
      /\ p = (IF t = 0 THEN DequeSize - 1 ELSE t - 1)
  BY <1>1, Positions
<1> HIDE DEF p
<1>3. p \in Slots /\ p = (h + (c - 1)) % DequeSize
  BY <1>1, <1>2 DEF Slots
<1> DEFINE k == c - 1
<1>4. k \in 0 .. DequeSize - 1 /\ p \in Slots /\ p = (h + k) % DequeSize /\ k + 1 = c
  BY <1>1, <1>3
<1> HIDE DEF k
<1>5. /\ \A i \in Slots : (i - h) % DequeSize < k + 1 <=> (i = p \/ (i - h) % DequeSize < k)
      /\ ~((p - h) % DequeSize < k)
  BY <1>4, PushPositions
<1> QED BY <1>3, <1>4, <1>5 DEF p, k

LEMMA BottomPositions ==
    ASSUME NEW h \in Slots, NEW c \in 1 .. DequeSize, NEW t \in Slots, t = (h + c) % DequeSize
    PROVE  LET n == (h + 1) % DequeSize IN
           /\ n \in Slots /\ t = (n + (c - 1)) % DequeSize
           /\ \A i \in Slots : (i - h) % DequeSize < c <=> (i = h \/ (i - n) % DequeSize < c - 1)
           /\ ~((h - n) % DequeSize < c - 1)
<1>1. c - 1 \in 0 .. DequeSize /\ c \in 0 .. DequeSize /\ DequeSize \in Nat \ {0}
  BY StealingAssumption
<1> DEFINE n == (h + 1) % DequeSize
<1>2. /\ t = (IF h + c < DequeSize THEN h + c ELSE h + c - DequeSize)
      /\ n = (IF h + 1 < DequeSize THEN h + 1 ELSE 0)
      /\ \A i \in Slots : (i - h) % DequeSize = IF i < h THEN i - h + DequeSize ELSE i - h
  BY <1>1, Positions
<1> HIDE DEF n
<1>3. n \in Slots
  BY <1>1, <1>2 DEF Slots
<1>4. /\ (n + (c - 1)) % DequeSize = (IF n + (c - 1) < DequeSize THEN n + (c - 1) ELSE n + (c - 1) - DequeSize)
      /\ \A i \in Slots : (i - n) % DequeSize = IF i < n THEN i - n + DequeSize ELSE i - n
  BY <1>1, <1>3, Positions
<1>5. t = (n + (c - 1)) % DequeSize
  BY <1>1, <1>2, <1>4 DEF Slots
<1>6. ASSUME NEW i \in Slots
      PROVE  (i - h) % DequeSize < c <=> (i = h \/ (i - n) % DequeSize < c - 1)
  <2>1. (IF i < h THEN i - h + DequeSize ELSE i - h) < c
        <=> (i = h \/ (IF i < n THEN i - n + DequeSize ELSE i - n) < c - 1)
    BY <1>1, <1>2, <1>3 DEF Slots
  <2> QED BY <1>2, <1>4, <2>1
<1>7. ~((h - n) % DequeSize < c - 1)
  <2>1. ~((IF h < n THEN h - n + DequeSize ELSE h - n) < c - 1)
    BY <1>1, <1>2, <1>3 DEF Slots
  <2> QED BY <1>4, <2>1
<1> QED BY <1>3, <1>5, <1>6, <1>7 DEF n

(* A deque by its fields.                                                  *)
LEMMA Fields ==
    ASSUME NEW d \in DequeSet
    PROVE  /\ d.items \in [Slots -> Messages \cup {Null}] /\ d.head \in Slots
           /\ d.tail \in Slots /\ d.count \in 0 .. DequeSize
           /\ d = [items |-> d.items, head |-> d.head, tail |-> d.tail, count |-> d.count]
  BY DEF DequeSet

LEMMA PushLemma ==
    ASSUME NEW d \in DequeSet, Window(d), ~Full(d), NEW m \in Messages
    PROVE  /\ Push(d, m) \in DequeSet /\ Window(Push(d, m))
           /\ d.tail \in Slots /\ d.items[d.tail] = Null
           /\ Push(d, m).items = [d.items EXCEPT ![d.tail] = m]
<1> DEFINE e == Push(d, m)
<1>1. /\ e.items = [d.items EXCEPT ![d.tail] = m] /\ e.head = d.head
      /\ e.tail = (d.tail + 1) % DequeSize /\ e.count = d.count + 1
  BY DEF Push, DequeSet
<1>2. /\ d.items \in [Slots -> Messages \cup {Null}] /\ d.head \in Slots /\ d.tail \in Slots
      /\ d.count \in 0 .. DequeSize - 1 /\ d.tail = (d.head + d.count) % DequeSize
      /\ m # Null
  BY Fields, StealingAssumption DEF Full, Window
<1>3. /\ (d.tail + 1) % DequeSize \in Slots
      /\ (d.tail + 1) % DequeSize = (d.head + (d.count + 1)) % DequeSize
      /\ \A i \in Slots : (i - d.head) % DequeSize < d.count + 1
                          <=> (i = d.tail \/ (i - d.head) % DequeSize < d.count)
      /\ ~((d.tail - d.head) % DequeSize < d.count)
  BY <1>2, PushPositions
<1>4. d.items[d.tail] = Null
  BY <1>2, <1>3 DEF Window
<1>5. e \in DequeSet
  <2>1. d.count + 1 \in 0 .. DequeSize
    BY <1>2, StealingAssumption
  <2>2. [d EXCEPT !.items = [d.items EXCEPT ![d.tail] = m]] \in DequeSet
    BY <1>2 DEF DequeSet
  <2> QED BY <1>3, <2>1, <2>2 DEF Push, DequeSet
<1> HIDE DEF e
<1>6. Window(e)
  <2>1. ASSUME NEW i \in Slots PROVE (e.items[i] # Null) <=> (i - e.head) % DequeSize < e.count
    <3>1. e.items[i] # Null <=> (i = d.tail \/ d.items[i] # Null)
      BY <1>1, <1>2
    <3>2. d.items[i] # Null <=> (i - d.head) % DequeSize < d.count
      BY DEF Window
    <3> QED BY <1>1, <1>3, <3>1, <3>2
  <2> QED BY <1>1, <1>3, <2>1 DEF Window
<1> QED BY <1>1, <1>2, <1>4, <1>5, <1>6 DEF e

(* Either end gives a message, and a deque without it.                     *)
LEMMA PopTopLemma ==
    ASSUME NEW d \in DequeSet, Window(d), d.count > 0
    PROVE  /\ PopTop(d) \in DequeSet /\ Window(PopTop(d))
           /\ \E i \in Slots : /\ Top(d) = d.items[i] /\ d.items[i] # Null
                               /\ PopTop(d).items = [d.items EXCEPT ![i] = Null]
<1> DEFINE p == (d.tail - 1 + DequeSize) % DequeSize
           e == PopTop(d)
<1>1. /\ e.items = [d.items EXCEPT ![p] = Null] /\ e.head = d.head
      /\ e.tail = p /\ e.count = d.count - 1
  BY DEF PopTop, DequeSet
<1>2. /\ d.items \in [Slots -> Messages \cup {Null}] /\ d.head \in Slots /\ d.tail \in Slots
      /\ d.count \in 1 .. DequeSize /\ d.tail = (d.head + d.count) % DequeSize
  BY Fields, StealingAssumption DEF Window
<1>3. /\ p \in Slots /\ p = (d.head + (d.count - 1)) % DequeSize
      /\ \A i \in Slots : (i - d.head) % DequeSize < d.count
                          <=> (i = p \/ (i - d.head) % DequeSize < d.count - 1)
      /\ ~((p - d.head) % DequeSize < d.count - 1)
  BY <1>2, TopPositions
<1>4. Top(d) = d.items[p] /\ d.items[p] # Null
  BY <1>2, <1>3 DEF Window, Top
<1>5. e \in DequeSet
  <2>1. d.count - 1 \in 0 .. DequeSize
    BY <1>2, StealingAssumption
  <2>2. [d EXCEPT !.items = [d.items EXCEPT ![p] = Null]] \in DequeSet
    BY <1>2, <1>3 DEF DequeSet
  <2> QED BY <1>3, <2>1, <2>2 DEF PopTop, DequeSet
<1> HIDE DEF e, p
<1>6. Window(e)
  <2>1. ASSUME NEW i \in Slots PROVE (e.items[i] # Null) <=> (i - e.head) % DequeSize < e.count
    <3>1. e.items[i] # Null <=> (i # p /\ d.items[i] # Null)
      BY <1>1, <1>2
    <3>2. d.items[i] # Null <=> (i - d.head) % DequeSize < d.count
      BY DEF Window
    <3> QED BY <1>1, <1>3, <3>1, <3>2
  <2> QED BY <1>1, <1>3, <2>1 DEF Window
<1> QED BY <1>1, <1>3, <1>4, <1>5, <1>6 DEF e

LEMMA PopBottomLemma ==
    ASSUME NEW d \in DequeSet, Window(d), d.count > 0
    PROVE  /\ PopBottom(d) \in DequeSet /\ Window(PopBottom(d))
           /\ \E i \in Slots : /\ Bottom(d) = d.items[i] /\ d.items[i] # Null
                               /\ PopBottom(d).items = [d.items EXCEPT ![i] = Null]
<1> DEFINE n == (d.head + 1) % DequeSize
           e == PopBottom(d)
<1>1. /\ e.items = [d.items EXCEPT ![d.head] = Null] /\ e.head = n
      /\ e.tail = d.tail /\ e.count = d.count - 1
  BY DEF PopBottom, DequeSet
<1>2. /\ d.items \in [Slots -> Messages \cup {Null}] /\ d.head \in Slots /\ d.tail \in Slots
      /\ d.count \in 1 .. DequeSize /\ d.tail = (d.head + d.count) % DequeSize
  BY Fields, StealingAssumption DEF Window
<1>3. /\ n \in Slots /\ d.tail = (n + (d.count - 1)) % DequeSize
      /\ \A i \in Slots : (i - d.head) % DequeSize < d.count
                          <=> (i = d.head \/ (i - n) % DequeSize < d.count - 1)
      /\ ~((d.head - n) % DequeSize < d.count - 1)
  BY <1>2, BottomPositions
<1>4. Bottom(d) = d.items[d.head] /\ d.items[d.head] # Null
  BY <1>2, <1>3 DEF Window, Bottom
<1>5. e \in DequeSet
  <2>1. d.count - 1 \in 0 .. DequeSize
    BY <1>2, StealingAssumption
  <2>2. [d EXCEPT !.items = [d.items EXCEPT ![d.head] = Null]] \in DequeSet
    BY <1>2 DEF DequeSet
  <2> QED BY <1>3, <2>1, <2>2 DEF PopBottom, DequeSet
<1> HIDE DEF e, n
<1>6. Window(e)
  <2>1. ASSUME NEW i \in Slots PROVE (e.items[i] # Null) <=> (i - e.head) % DequeSize < e.count
    <3>1. e.items[i] # Null <=> (i # d.head /\ d.items[i] # Null)
      BY <1>1, <1>2
    <3>2. d.items[i] # Null <=> (i - d.head) % DequeSize < d.count
      BY DEF Window
    <3> QED BY <1>1, <1>3, <3>1, <3>2
  <2> QED BY <1>1, <1>3, <2>1 DEF Window
<1> QED BY <1>1, <1>2, <1>4, <1>5, <1>6 DEF e

-----------------------------------------------------------------------------
(* Control: where the threads are.                                         *)

LEMMA ControlInit == Init => ControlInv
<1> SUFFICES ASSUME Init PROVE ControlInv
  OBVIOUS
<1>1. worker_count \in Counts /\ Host \in Threads /\ 0 \in 0 .. worker_count
  BY ThreadSets, StealingAssumption DEF Init
<1>2. ControlType
  <2>1. DOMAIN Listed = 1 .. Len(Listed)
    BY StealingAssumption
  <2> QED BY <1>1, <2>1, StealingAssumption DEF Init, ControlType, WorkerPlaces, HostPlaces
<1>3. \A t \in Threads : Local(t)
  BY <1>1 DEF Init, Local, WorkerPlaces, HostPlaces, Busy
<1>4. HostOK
  <2>1. \A w \in Workers : pc[w] = "none"
    BY <1>1, ThreadSets DEF Init
  <2>2. pc[Host] = "host" /\ hand[Host] = Null /\ round = 0
    BY <1>1 DEF Init
  <2> QED BY <1>1, <2>1, <2>2 DEF HostOK, Active
<1> QED BY <1>2, <1>3, <1>4 DEF ControlInv

(* A step of one thread concerns no other.                                 *)
LEMMA OneThread ==
    ASSUME \A u \in Threads : Local(u), NEW t \in Threads, Local(t)', worker_count' = worker_count,
           \A u \in Threads \ {t} : /\ pc'[u] = pc[u] /\ hand'[u] = hand[u] /\ next'[u] = next[u]
                                    /\ spilling'[u] = spilling[u] /\ target'[u] = target[u]
    PROVE  (\A u \in Threads : Local(u))'
<1> SUFFICES ASSUME NEW u \in Threads PROVE Local(u)'
  BY DEF Threads
<1>1. CASE u = t
  BY <1>1
<1>2. CASE u # t
  BY <1>2 DEF Local, Workers
<1> QED BY <1>1, <1>2

(* A step of a worker's thread leaves what the host knows of it.           *)
LEMMA HostKept ==
    ASSUME ControlInv, NEW w \in Workers, Active(w), NEW p, pc' = [pc EXCEPT ![w] = p],
           hand'[Host] = hand[Host], UNCHANGED <<worker_count, round, mn_running, running, starts>>
    PROVE  HostOK'
<1>1. /\ w \in Threads /\ w # Host /\ Host \in Threads /\ Workers \subseteq Threads
      /\ pc \in [Threads -> WorkerPlaces \cup HostPlaces]
  BY ThreadSets DEF ControlInv, ControlType
<1>2. pc'[Host] = pc[Host] /\ \A u \in Workers : Active(u)' => Active(u)
  BY <1>1 DEF Active
<1>3. Workers' = Workers /\ Started' = Started
  BY DEF Workers, Started
<1> QED BY <1>2, <1>3 DEF ControlInv, HostOK

(* What a thread takes out of a deque.                                     *)
Taken(t) ==
    \E q \in Workers \cup {Global}, i \in Slots, d \in DequeSet :
        /\ Window(d) /\ deque[q].items[i] # Null
        /\ d.items = [deque[q].items EXCEPT ![i] = Null]
        /\ Took(t, deque[q].items[i], [deque EXCEPT ![q] = d])

LEMMA TakeTopLemma ==
    ASSUME ControlInv, DequesOK, NEW t \in Threads, NEW q \in Workers \cup {Global}, TakeTop(t, q)
    PROVE  Taken(t)
<1>1. q \in Threads
  BY ThreadSets DEF ControlInv, ControlType
<1>2. deque[q] \in DequeSet /\ Window(deque[q]) /\ deque[q].count > 0
  BY <1>1 DEF DequesOK, TakeTop
<1>3. /\ PopTop(deque[q]) \in DequeSet /\ Window(PopTop(deque[q]))
      /\ \E i \in Slots : /\ Top(deque[q]) = deque[q].items[i] /\ deque[q].items[i] # Null
                          /\ PopTop(deque[q]).items = [deque[q].items EXCEPT ![i] = Null]
  BY <1>2, PopTopLemma
<1>4. Took(t, Top(deque[q]), [deque EXCEPT ![q] = PopTop(deque[q])])
  BY DEF TakeTop
<1> QED BY <1>3, <1>4 DEF Taken

LEMMA TakeBottomLemma ==
    ASSUME ControlInv, DequesOK, NEW t \in Threads, NEW q \in Workers, deque[q].count > 0,
           Took(t, Bottom(deque[q]), [deque EXCEPT ![q] = PopBottom(@)])
    PROVE  Taken(t)
<1>1. q \in Threads
  BY ThreadSets DEF ControlInv, ControlType
<1>2. deque[q] \in DequeSet /\ Window(deque[q])
  BY <1>1 DEF DequesOK
<1>3. /\ PopBottom(deque[q]) \in DequeSet /\ Window(PopBottom(deque[q]))
      /\ \E i \in Slots : /\ Bottom(deque[q]) = deque[q].items[i] /\ deque[q].items[i] # Null
                          /\ PopBottom(deque[q]).items = [deque[q].items EXCEPT ![i] = Null]
  BY <1>2, PopBottomLemma
<1>4. Took(t, Bottom(deque[q]), [deque EXCEPT ![q] = PopBottom(deque[q])])
  OBVIOUS
<1>5. PICK i \in Slots : /\ Bottom(deque[q]) = deque[q].items[i] /\ deque[q].items[i] # Null
                         /\ PopBottom(deque[q]).items = [deque[q].items EXCEPT ![i] = Null]
  BY <1>3
<1>6. Took(t, deque[q].items[i], [deque EXCEPT ![q] = PopBottom(deque[q])])
  BY <1>4, <1>5
<1> QED BY <1>3, <1>5, <1>6 DEF Taken

LEMMA VictimLemma ==
    ASSUME worker_count \in Counts, NEW w \in Nat, NEW i \in Nat
    PROVE  Victim(w, i) \in Workers
<1>1. worker_count \in Nat \ {0} /\ w + 1 + i \in Int
  BY ThreadSets, MaxLemma
<1> QED BY <1>1 DEF Victim, Workers

(* The worker the host's tick steals from.                                 *)
LEMMA FirstVictim ==
    ASSUME ControlInv, AtWorker("ticking"), Robbed # {}
    PROVE  LET v == Victim(round, CHOOSE i \in Robbed : \A j \in Robbed : i <= j)
           IN  v \in Workers /\ deque[v].count > 0
<1> DEFINE i == CHOOSE i \in Robbed : \A j \in Robbed : i <= j
<1>1. i \in Robbed
  <2>1. \E k \in Robbed : \A j \in Robbed : k <= j
    <3>1. PICK k \in Robbed : TRUE
      OBVIOUS
    <3>2. Robbed \subseteq 0 .. 14
      <4>1. worker_count \in 1 .. 16
        BY StealingAssumption DEF ControlInv, ControlType
      <4> QED BY <4>1 DEF Robbed
    <3>3. SUFFICES ASSUME \A n \in Robbed : \E j \in Robbed : j < n PROVE FALSE
      BY <3>2
    <3> QED BY <3>1, <3>2, <3>3
  <2> QED BY <2>1
<1> HIDE DEF i
<1>2. i \in Nat /\ round \in Nat /\ deque[Victim(round, i)].count > 0
  BY <1>1, ThreadSets, MaxLemma DEF Robbed, AtWorker, Workers, ControlInv, ControlType
<1> QED BY <1>2, VictimLemma DEF ControlInv, ControlType, i

(* To take a message a thread that has none goes to look for its receiver. *)
LEMMA TakenControl ==
    ASSUME ControlInv, DequesOK, NEW t \in Threads, Taken(t), pc[t] # "spill", t # Host => t \in Workers
    PROVE  ControlType' /\ (\A u \in Threads : Local(u))'
<1>1. PICK q \in Workers \cup {Global}, i \in Slots :
          /\ deque[q].items[i] # Null /\ hand' = [hand EXCEPT ![t] = deque[q].items[i]]
          /\ next' = [next EXCEPT ![t] = 1] /\ pc' = [pc EXCEPT ![t] = "find"]
          /\ UNCHANGED <<fresh, freed, actorVars, controlVars, spilling>>
  BY DEF Taken, Took, Goto
<1>2. deque[q].items[i] \in Messages \cup {Null}
  <2>1. q \in Threads
    BY ThreadSets DEF ControlInv, ControlType
  <2> QED BY <2>1, Fields DEF DequesOK
<1>3. ControlType'
  BY <1>1, <1>2 DEF ControlInv, ControlType, actorVars, controlVars, WorkerPlaces
<1>4. \A u \in Threads \ {t} : /\ pc'[u] = pc[u] /\ hand'[u] = hand[u] /\ next'[u] = next[u]
                              /\ spilling'[u] = spilling[u] /\ target'[u] = target[u]
  BY <1>1 DEF ControlInv, ControlType, actorVars
<1>5. Local(t)'
  <2>1. pc'[t] = "find" /\ next'[t] = 1 /\ hand'[t] # Null /\ spilling'[t] = Null /\ Workers' = Workers
    BY <1>1 DEF ControlInv, ControlType, Local, controlVars, Workers
  <2> QED BY <2>1 DEF Local, WorkerPlaces, HostPlaces, Busy
<1> QED BY <1>1, <1>3, <1>4, <1>5, OneThread DEF ControlInv, controlVars

(* A worker's step that only changes its place and its loop index.         *)
LEMMA MoveControl ==
    ASSUME ControlInv, NEW w \in Workers, Active(w), NEW p \in WorkerPlaces, NEW i \in Nat, Move(w, p, i),
           p \notin {"none", "spill", "test", "assign", "clear", "call"}, pc[w] # "spill",
           p \in Busy <=> pc[w] \in Busy, p = "find" => i >= 1
    PROVE  ControlInv'
<1>1. w \in Threads /\ w # Host /\ Host \in Threads
  BY ThreadSets DEF ControlInv, ControlType
<1>2. ControlType'
  BY <1>1 DEF ControlInv, ControlType, Move, Goto, dequeVars, actorVars, controlVars
<1>3. \A u \in Threads \ {w} : /\ pc'[u] = pc[u] /\ hand'[u] = hand[u] /\ next'[u] = next[u]
                              /\ spilling'[u] = spilling[u] /\ target'[u] = target[u]
  BY <1>1 DEF ControlInv, ControlType, Move, Goto, dequeVars, actorVars
<1>4. Local(w)'
  <2>1. pc'[w] = p /\ next'[w] = i /\ hand' = hand /\ spilling' = spilling /\ Workers' = Workers
    BY <1>1 DEF ControlInv, ControlType, Move, Goto, dequeVars, controlVars, Workers
  <2> QED BY <1>1, <2>1 DEF ControlInv, Local, Busy
<1>5. HostOK'
  BY <1>1, HostKept DEF Move, Goto, dequeVars, controlVars
<1> QED BY <1>1, <1>2, <1>3, <1>4, <1>5, OneThread DEF ControlInv, Move, controlVars

LEMMA TakenByWorker ==
    ASSUME ControlInv, DequesOK, NEW w \in Workers, Taken(w), Active(w), pc[w] # "spill"
    PROVE  ControlInv'
<1>1. w \in Threads /\ w # Host /\ Host \in Threads
  BY ThreadSets DEF ControlInv, ControlType
<1>2. HostOK'
  <2>1. pc' = [pc EXCEPT ![w] = "find"] /\ hand'[Host] = hand[Host]
        /\ UNCHANGED <<worker_count, round, mn_running, running, starts>>
    BY <1>1 DEF Taken, Took, Goto, controlVars, ControlInv, ControlType
  <2> QED BY <2>1, HostKept
<1> QED BY <1>1, <1>2, TakenControl DEF ControlInv

(* mn_worker_fn until it has a message.                                    *)
LEMMA WorkerLooks ==
    ASSUME ControlInv, DequesOK, NEW w \in Workers,
           Loop(w) \/ PopLocal(w) \/ Steal(w) \/ PopGlobal(w)
    PROVE  ControlInv'
<1>1. /\ w \in Threads /\ w \in Nat /\ worker_count \in Counts /\ next[w] \in Nat
      /\ worker_count \in Nat /\ Global \in Workers \cup {Global} /\ next[w] + 1 \in Nat
  BY ThreadSets, MaxLemma DEF ControlInv, ControlType, Workers
<1>2. CASE Loop(w)
  BY <1>2, MoveControl DEF Loop, At, Active, WorkerPlaces, Busy
<1>3. CASE PopLocal(w)
  <2>1. CASE TakeTop(w, w)
    BY <1>1, <1>3, <2>1, TakeTopLemma, TakenByWorker DEF PopLocal, At, Active
  <2>2. CASE Move(w, IF worker_count > 1 THEN "steal" ELSE "global", 0)
    BY <1>3, <2>2, MoveControl DEF PopLocal, At, Active, WorkerPlaces, Busy
  <2> QED BY <1>3, <2>1, <2>2 DEF PopLocal
<1>4. CASE Steal(w)
  <2> DEFINE v == Victim(w, next[w])
  <2>1. v \in Workers
    BY <1>1, VictimLemma
  <2> HIDE DEF v
  <2>2. CASE deque[v].count > 0 /\ Took(w, Bottom(deque[v]), [deque EXCEPT ![v] = PopBottom(@)])
    BY <1>1, <1>4, <2>1, <2>2, TakeBottomLemma, TakenByWorker DEF Steal, At, Active
  <2>3. CASE Move(w, "steal", next[w] + 1)
    BY <1>1, <1>4, <2>3, MoveControl DEF Steal, At, Active, WorkerPlaces, Busy
  <2>4. CASE Move(w, "global", 0)
    BY <1>1, <1>4, <2>4, MoveControl DEF Steal, At, Active, WorkerPlaces, Busy
  <2> QED BY <1>4, <2>2, <2>3, <2>4 DEF Steal, v
<1>5. CASE PopGlobal(w)
  <2>1. CASE TakeTop(w, Global)
    BY <1>1, <1>5, <2>1, TakeTopLemma, TakenByWorker DEF PopGlobal, At, Active
  <2>2. CASE Move(w, "loop", 0)
    BY <1>5, <2>2, MoveControl DEF PopGlobal, At, Active, WorkerPlaces, Busy
  <2> QED BY <1>5, <2>1, <2>2 DEF PopGlobal
<1> QED BY <1>2, <1>3, <1>4, <1>5

(* Any other step of a worker's thread.                                    *)
LEMMA WorkerStep ==
    ASSUME ControlInv, NEW w \in Workers, Active(w), NEW p, pc' = [pc EXCEPT ![w] = p],
           ControlType', Local(w)',
           \A u \in Threads \ {w} : /\ hand'[u] = hand[u] /\ next'[u] = next[u]
                                    /\ spilling'[u] = spilling[u] /\ target'[u] = target[u],
           UNCHANGED <<worker_count, round, mn_running, running, starts>>
    PROVE  ControlInv'
<1>1. w \in Threads /\ w # Host /\ Host \in Threads
  BY ThreadSets DEF ControlInv, ControlType
<1>2. \A u \in Threads \ {w} : pc'[u] = pc[u]
  BY DEF ControlInv, ControlType
<1>3. HostOK'
  BY <1>1, HostKept
<1> QED BY <1>1, <1>2, <1>3, OneThread DEF ControlInv

(* The hot upgrade of the actor a message is for.                          *)
LEMMA UpgradeControl ==
    ASSUME ControlInv, NEW w \in Workers, TestUpgrade(w) \/ AssignBehavior(w) \/ ClearUpgrade(w)
    PROVE  ControlInv'
<1>1. /\ w \in Threads /\ w # Host /\ Host \in Threads /\ target[w] \in DOMAIN Listed
      /\ Active(w) /\ Workers' = Workers
  BY ThreadSets DEF ControlInv, ControlType, Local, TestUpgrade, AssignBehavior, ClearUpgrade, At,
                    Active, controlVars, Workers
<1>2. CASE TestUpgrade(w)
  <2>1. ControlType'
    BY <1>1, <1>2 DEF ControlInv, ControlType, TestUpgrade, Goto, dequeVars, controlVars, WorkerPlaces
  <2>2. Local(w)'
    BY <1>1, <1>2 DEF ControlInv, ControlType, Local, TestUpgrade, At, Goto, dequeVars, controlVars,
                      WorkerPlaces, Busy
  <2> QED BY <1>1, <1>2, <2>1, <2>2, WorkerStep DEF TestUpgrade, Goto, dequeVars, controlVars
<1>3. CASE AssignBehavior(w)
  <2>1. PICK b \in {cached[w], new_behavior[target[w]]} : behavior' = [behavior EXCEPT ![target[w]] = b]
    BY <1>3 DEF AssignBehavior
  <2>2. b \in Behaviors \cup {Null}
    BY <1>1, <2>1 DEF ControlInv, ControlType
  <2>3. ControlType'
    BY <1>1, <1>3, <2>1, <2>2 DEF ControlInv, ControlType, AssignBehavior, Goto, dequeVars, controlVars,
                                  WorkerPlaces
  <2>4. Local(w)'
    BY <1>1, <1>3 DEF ControlInv, ControlType, Local, AssignBehavior, At, Goto, dequeVars, controlVars,
                      WorkerPlaces, Busy
  <2> QED BY <1>1, <1>3, <2>3, <2>4, WorkerStep DEF AssignBehavior, Goto, dequeVars, controlVars
<1>4. CASE ClearUpgrade(w)
  <2>1. ControlType'
    BY <1>1, <1>4 DEF ControlInv, ControlType, ClearUpgrade, Goto, dequeVars, controlVars, WorkerPlaces
  <2>2. Local(w)'
    BY <1>1, <1>4 DEF ControlInv, ControlType, Local, ClearUpgrade, At, Goto, dequeVars, controlVars,
                      WorkerPlaces, Busy
  <2> QED BY <1>1, <1>4, <2>1, <2>2, WorkerStep DEF ClearUpgrade, Goto, dequeVars, controlVars
<1> QED BY <1>2, <1>3, <1>4

(* The end of a delivery.                                                  *)
LEMMA FreeControl ==
    ASSUME ControlInv, NEW t \in Workers \cup {Host}, Active(t), pc[t] \in Busy, Free(t)
    PROVE  ControlInv'
<1>1. t \in Threads /\ Host \in Threads /\ hand[t] # Null /\ Workers \subseteq Threads \ {Host}
  BY ThreadSets DEF ControlInv, ControlType, Local
<1>2. ControlType'
  BY <1>1 DEF ControlInv, ControlType, Free, Goto, actorVars, WorkerPlaces, HostPlaces
<1>3. Local(t)'
  BY <1>1 DEF ControlInv, ControlType, Local, Free, Goto, actorVars, WorkerPlaces, HostPlaces, Busy, Workers
<1>4. CASE t # Host
  BY <1>1, <1>2, <1>3, <1>4, WorkerStep DEF Free, Goto, actorVars, ControlInv, ControlType
<1>5. CASE t = Host
  <2>1. \A u \in Threads \ {t} : /\ pc'[u] = pc[u] /\ hand'[u] = hand[u] /\ next'[u] = next[u]
                                /\ spilling'[u] = spilling[u] /\ target'[u] = target[u]
    BY <1>5 DEF Free, Goto, actorVars, ControlInv, ControlType
  <2>2. /\ round' = round + 1 /\ pc'[Host] = "ticking" /\ hand'[Host] = Null
        /\ UNCHANGED <<worker_count, running, mn_running, starts>>
    BY <1>1, <1>5 DEF Free, Goto, ControlInv, ControlType
  <2>3. round \in Workers /\ ~Started /\ pc[Host] \in Busy /\ Workers' = Workers
    BY <1>1, <1>5, <2>2 DEF ControlInv, HostOK, Workers
  <2>4. \A w \in Workers : ~Active(w)
    BY <2>3 DEF ControlInv, HostOK, Busy
  <2>5. \A w \in Workers : ~Active(w)'
    BY <1>1, <1>5, <2>1, <2>4 DEF Active
  <2>6. round' \in 0 .. worker_count' /\ ~Started'
    BY <2>2, <2>3, ThreadSets, MaxLemma DEF ControlInv, ControlType, Workers, Started
  <2>7. HostOK'
    BY <2>2, <2>3, <2>5, <2>6 DEF HostOK
  <2> QED BY <1>1, <1>2, <1>3, <1>5, <2>1, <2>2, <2>7, OneThread DEF ControlInv
<1> QED BY <1>4, <1>5

(* Any other step of the host's thread.                                    *)
LEMMA HostStep ==
    ASSUME ControlInv, NEW p, pc' = [pc EXCEPT ![Host] = p], ControlType', Local(Host)', HostOK',
           \A u \in Threads \ {Host} : /\ hand'[u] = hand[u] /\ next'[u] = next[u]
                                       /\ spilling'[u] = spilling[u] /\ target'[u] = target[u],
           worker_count' = worker_count
    PROVE  ControlInv'
<1>1. Host \in Threads
  BY ThreadSets DEF ControlInv, ControlType
<1>2. \A u \in Threads \ {Host} : pc'[u] = pc[u]
  BY DEF ControlInv, ControlType
<1> QED BY <1>1, <1>2, OneThread DEF ControlInv

(* Between a delivery's steps the host is as much at its worker as before. *)
LEMMA HostOKKept ==
    ASSUME ControlInv, NEW p, pc' = [pc EXCEPT ![Host] = p],
           p \in {"find", "call", "handling", "spill", "host"},
           p = "spill" => pc[Host] \in {"handling", "host"},
           pc[Host] \in {"find", "call", "handling", "spill", "host"},
           hand'[Host] = hand[Host], UNCHANGED <<worker_count, round, mn_running, running, starts>>
    PROVE  HostOK'
<1>1. Host \in Threads /\ Workers \subseteq Threads \ {Host}
  BY ThreadSets DEF ControlInv, ControlType
<1>2. Workers' = Workers /\ Started' = Started
  BY DEF Workers, Started
<1>3. pc'[Host] = p /\ \A w \in Workers : Active(w)' <=> Active(w)
  BY <1>1 DEF Active, ControlInv, ControlType
<1> QED BY <1>2, <1>3 DEF ControlInv, HostOK

(* Delivery, by a worker or by the host's tick.                            *)
LEMMA DeliverControl ==
    ASSUME ControlInv, NEW t \in Workers \cup {Host}, Deliver(t)
    PROVE  ControlInv'
<1>1. /\ t \in Threads /\ Host \in Threads /\ Workers \subseteq Threads \ {Host}
      /\ Active(t) /\ DOMAIN Listed = 1 .. Len(Listed) /\ Len(Listed) \in Nat
  BY ThreadSets, StealingAssumption DEF ControlInv, ControlType, Deliver, FindActor, CallBehavior,
     BehaviorReturn, EnqueueGlobal, At, Active
<1>2. CASE FindActor(t)
  <2>1. CASE Free(t)
    BY <1>1, <1>2, <2>1, FreeControl DEF FindActor, At, Busy
  <2>2. CASE Move(t, "find", next[t] + 1)
    <3>1. next[t] + 1 \in Nat /\ next[t] + 1 >= 1
      BY <1>1 DEF ControlInv, ControlType
    <3>2. CASE t # Host
      BY <1>1, <1>2, <2>2, <3>1, <3>2, MoveControl DEF FindActor, At, WorkerPlaces, Busy
    <3>3. CASE t = Host
      <4>1. ControlType'
        BY <1>1, <2>2, <3>1 DEF ControlInv, ControlType, Move, Goto, dequeVars, actorVars, controlVars,
                                WorkerPlaces
      <4>2. Local(t)'
        BY <1>1, <1>2, <2>2, <3>1, <3>3 DEF ControlInv, ControlType, Local, FindActor, At, Move, Goto,
           dequeVars, actorVars, controlVars, HostPlaces, Busy
      <4>3. HostOK'
        BY <1>2, <2>2, <3>3, HostOKKept DEF FindActor, At, Move, Goto, dequeVars, controlVars
      <4> QED BY <1>1, <2>2, <3>3, <4>1, <4>2, <4>3, HostStep
              DEF Move, Goto, dequeVars, actorVars, controlVars, ControlInv, ControlType
    <3> QED BY <3>2, <3>3
  <2>3. ASSUME ~(next[t] > Len(Listed)), target' = [target EXCEPT ![t] = next[t]],
               Goto(t, IF t = Host THEN "call" ELSE "test"),
               UNCHANGED <<dequeVars, behavior, new_behavior, cached, controlVars, next, spilling>>
        PROVE  ControlInv'
    <3>1. next[t] \in DOMAIN Listed /\ next[t] # 0
      BY <1>1, <1>2, <2>3 DEF ControlInv, ControlType, Local, FindActor, At
    <3>2. ControlType'
      BY <1>1, <2>3, <3>1 DEF ControlInv, ControlType, Goto, dequeVars, controlVars, WorkerPlaces
    <3>3. Local(t)'
      BY <1>1, <1>2, <2>3, <3>1 DEF ControlInv, ControlType, Local, FindActor, At, Goto, dequeVars,
         controlVars, WorkerPlaces, HostPlaces, Busy, Workers
    <3>4. CASE t # Host
      BY <1>1, <2>3, <3>2, <3>3, <3>4, WorkerStep DEF Goto, dequeVars, controlVars, ControlInv, ControlType
    <3>5. CASE t = Host
      <4>1. HostOK'
        BY <1>2, <2>3, <3>5, HostOKKept DEF FindActor, At, Goto, dequeVars, controlVars
      <4> QED BY <1>1, <2>3, <3>2, <3>3, <3>5, <4>1, HostStep
              DEF Goto, dequeVars, controlVars, ControlInv, ControlType
    <3> QED BY <3>4, <3>5
  <2> QED BY <1>2, <2>1, <2>2, <2>3 DEF FindActor
<1>3. CASE CallBehavior(t)
  <2> DEFINE p == IF behavior[target[t]] = Null THEN "call" ELSE "handling"
  <2>1. /\ pc[t] = "call" /\ pc' = [pc EXCEPT ![t] = p] /\ crashed' \in BOOLEAN
        /\ target' = target \/ (target' = [target EXCEPT ![t] = 0] /\ p = "handling")
        /\ UNCHANGED <<dequeVars, behavior, new_behavior, cached, worker_count, mn_running,
                       running, round, starts, next, spilling>>
    BY <1>1, <1>3 DEF CallBehavior, At, Goto, ControlInv, ControlType
  <2>2. p \in {"call", "handling"}
    OBVIOUS
  <2> HIDE DEF p
  <2>3. ControlType'
    BY <1>1, <2>1, <2>2 DEF ControlInv, ControlType, dequeVars, WorkerPlaces
  <2>4. Local(t)'
    BY <1>1, <2>1, <2>2 DEF ControlInv, ControlType, Local, dequeVars, WorkerPlaces, HostPlaces, Busy, Workers
  <2>5. CASE t # Host
    BY <1>1, <2>1, <2>3, <2>4, <2>5, WorkerStep DEF dequeVars, ControlInv, ControlType
  <2>6. CASE t = Host
    <3>1. HostOK'
      BY <2>1, <2>2, <2>6, HostOKKept DEF dequeVars
    <3> QED BY <1>1, <2>1, <2>3, <2>4, <2>6, <3>1, HostStep DEF dequeVars, ControlInv, ControlType
  <2> QED BY <2>5, <2>6
<1>4. CASE BehaviorReturn(t)
  BY <1>1, <1>4, FreeControl DEF BehaviorReturn, At, Busy
<1>5. CASE EnqueueGlobal(t)
  <2> DEFINE p == IF hand[t] # Null THEN "handling" ELSE "host"
  <2>1. /\ pc[t] = "spill" /\ pc' = [pc EXCEPT ![t] = p] /\ spilling' = [spilling EXCEPT ![t] = Null]
        /\ UNCHANGED <<hand, actorVars, controlVars, next>>
    BY <1>5 DEF EnqueueGlobal, At, Goto
  <2>2. /\ p \in {"host", "handling"} /\ (p = "handling") = (hand[t] # Null)
        /\ t # Host => p = "handling"
    BY <1>1, <2>1 DEF ControlInv, Local
  <2> HIDE DEF p
  <2>3. ControlType'
    BY <1>1, <2>1, <2>2 DEF ControlInv, ControlType, actorVars, controlVars, WorkerPlaces, HostPlaces
  <2>4. Local(t)'
    BY <1>1, <2>1, <2>2 DEF ControlInv, ControlType, Local, actorVars, controlVars, WorkerPlaces, HostPlaces,
                            Busy, Workers
  <2>5. CASE t # Host
    BY <1>1, <2>1, <2>3, <2>4, <2>5, WorkerStep DEF actorVars, controlVars, ControlInv, ControlType
  <2>6. CASE t = Host
    <3>1. HostOK'
      BY <2>1, <2>2, <2>6, HostOKKept DEF controlVars
    <3> QED BY <1>1, <2>1, <2>3, <2>4, <2>6, <3>1, HostStep DEF actorVars, controlVars, ControlInv, ControlType
  <2> QED BY <2>5, <2>6
<1> QED BY <1>2, <1>3, <1>4, <1>5 DEF Deliver

(* pny_mn_enqueue and pny_hot_upgrade.                                     *)
LEMMA EnqueueControl ==
    ASSUME ControlInv, NEW t \in Threads, NEW m \in Messages,
           EnqueueOverflow(t, m) \/ \E w \in Workers : EnqueueLocal(t, m, w)
    PROVE  ControlInv'
<1>1. /\ Host \in Threads /\ Workers \subseteq Threads \ {Host} /\ pc[t] \in {"handling", "host"}
      /\ Active(t) /\ t \in Workers \cup {Host} /\ m # Null
      /\ t # Host => pc[t] = "handling"
  BY ThreadSets, StealingAssumption DEF ControlInv, ControlType, EnqueueOverflow, EnqueueLocal, InControl,
     At, Active, Local, WorkerPlaces
<1>2. CASE EnqueueOverflow(t, m)
  <2>1. ControlType'
    BY <1>2 DEF ControlInv, ControlType, EnqueueOverflow, Goto, actorVars, controlVars, WorkerPlaces
  <2>0. /\ pc' = [pc EXCEPT ![t] = "spill"] /\ spilling' = [spilling EXCEPT ![t] = m]
        /\ UNCHANGED <<hand, next, target, worker_count, round, mn_running, running, starts>>
    BY <1>2 DEF EnqueueOverflow, Goto, actorVars, controlVars
  <2>5. pc'[t] = "spill" /\ spilling'[t] = m /\ hand'[t] = hand[t] /\ Workers' = Workers
    BY <2>0 DEF ControlInv, ControlType, Workers
  <2>6. t # Host => hand[t] # Null
    <3>1. Local(t)
      BY DEF ControlInv
    <3> QED BY <1>1, <3>1 DEF Local, Busy
  <2>2. Local(t)'
    BY <1>1, <2>5, <2>6 DEF Local, WorkerPlaces, HostPlaces, Busy
  <2>3. CASE t # Host
    BY <1>1, <2>0, <2>1, <2>2, <2>3, WorkerStep DEF ControlInv, ControlType
  <2>4. CASE t = Host
    <3>1. HostOK'
      BY <1>1, <1>2, <2>4, HostOKKept DEF EnqueueOverflow, Goto, controlVars
    <3> QED BY <1>1, <1>2, <2>1, <2>2, <2>4, <3>1, HostStep
            DEF EnqueueOverflow, Goto, actorVars, controlVars, ControlInv, ControlType
  <2> QED BY <2>3, <2>4
<1>3. CASE \E w \in Workers : EnqueueLocal(t, m, w)
  BY <1>3 DEF EnqueueLocal, ControlInv, ControlType, Local, HostOK, Started, Workers, Active, actorVars,
              controlVars
<1> QED BY <1>2, <1>3

LEMMA HotUpgradeControl ==
    ASSUME ControlInv, NEW a \in DOMAIN Listed, NEW b \in Upgrades, HotUpgrade(a, b)
    PROVE  ControlInv'
<1>1. b \in Behaviors \cup {Null}
  BY StealingAssumption
<1> QED BY <1>1 DEF HotUpgrade, ControlInv, ControlType, Local, HostOK, Started, Workers, Active, dequeVars,
                    controlVars

(* The host's calls.                                                       *)
LEMMA TickControl ==
    ASSUME ControlInv, DequesOK, TickStart \/ TickLocal \/ TickSteal \/ TickOther
    PROVE  ControlInv'
<1>1. /\ Host \in Threads /\ Workers \subseteq Threads \ {Host} /\ Global \in Workers \cup {Global}
      /\ worker_count \in Nat \ {0} /\ 0 \in 0 .. worker_count /\ Host = Global
  BY ThreadSets, MaxLemma DEF ControlInv, ControlType
<1>2. ASSUME Taken(Host), pc[Host] = "ticking", round \in Workers PROVE ControlInv'
  <2>1. /\ pc' = [pc EXCEPT ![Host] = "find"] /\ controlVars' = controlVars
        /\ \A u \in Threads \ {Host} : /\ hand'[u] = hand[u] /\ next'[u] = next[u]
                                        /\ spilling'[u] = spilling[u] /\ target'[u] = target[u]
    BY <1>2 DEF Taken, Took, Goto, actorVars, ControlInv, ControlType
  <2>2. ControlType' /\ Local(Host)'
    BY <1>1, <1>2, TakenControl
  <2>3. Workers' = Workers /\ Started' = Started /\ ~Started /\ round' = round /\ pc'[Host] = "find"
        /\ worker_count' = worker_count
    BY <1>1, <1>2, <2>1 DEF controlVars, Workers, Started, ControlInv, HostOK, ControlType
  <2>4. \A w \in Workers : ~Active(w)
    BY <1>2, <2>3 DEF ControlInv, HostOK
  <2>5. \A w \in Workers : ~Active(w)'
    BY <1>1, <2>1, <2>4 DEF Active, ControlInv, ControlType
  <2>6. HostOK'
    BY <1>2, <2>3, <2>5 DEF HostOK, ControlInv
  <2> QED BY <2>1, <2>2, <2>3, <2>6, HostStep
<1>3. CASE TickStart
  <2>1. ControlType'
    BY <1>3 DEF ControlInv, ControlType, TickStart, Begin, Goto, dequeVars, actorVars, HostPlaces
  <2>2. Local(Host)'
    BY <1>1, <1>3 DEF ControlInv, ControlType, Local, TickStart, At, Begin, Goto, dequeVars, actorVars,
                      HostPlaces, Busy
  <2>3. HostOK'
    BY <1>1, <1>3 DEF ControlInv, ControlType, Local, HostOK, TickStart, At, Begin, Goto, dequeVars, Started,
                      Workers, Active, Busy
  <2> QED BY <1>3, <2>1, <2>2, <2>3, HostStep DEF TickStart, Begin, Goto, dequeVars, actorVars
<1>4. CASE TickLocal
  BY <1>1, <1>2, <1>4, TakeTopLemma DEF TickLocal, AtWorker, At
<1>5. CASE TickSteal
  <2>1. PICK v \in Workers : deque[v].count > 0
                             /\ Took(Host, Bottom(deque[v]), [deque EXCEPT ![v] = PopBottom(@)])
    BY <1>5, FirstVictim DEF TickSteal
  <2> QED BY <1>1, <1>2, <1>5, <2>1, TakeBottomLemma DEF TickSteal, AtWorker, At
<1>6. CASE TickOther
  <2>1. CASE TakeTop(Host, Global)
    BY <1>1, <1>2, <1>6, <2>1, TakeTopLemma DEF TickOther, AtWorker, At
  <2>2. CASE Advance("ticking") /\ UNCHANGED <<dequeVars, actorVars, worker_count, mn_running, running, starts,
                                              crashed, next, spilling>>
    <3>1. pc[Host] = "ticking" /\ round \in Workers
      BY <1>6 DEF TickOther, AtWorker, At
    <3>2. ControlType'
      BY <2>2 DEF ControlInv, ControlType, Advance, Goto, dequeVars, actorVars, HostPlaces
    <3>3. Local(Host)'
      BY <1>1, <2>2, <3>1 DEF ControlInv, ControlType, Local, Advance, Goto, dequeVars, actorVars,
                              HostPlaces, Busy
    <3>4. /\ round' = round + 1 /\ pc'[Host] = "ticking" /\ hand'[Host] = Null /\ Workers' = Workers
          /\ Started' = Started /\ worker_count' = worker_count
      BY <1>1, <2>2, <3>1 DEF ControlInv, ControlType, Local, Advance, Goto, dequeVars, Started, Workers, Busy
    <3>5. ~Started /\ \A w \in Workers : ~Active(w)
      BY <3>1 DEF ControlInv, HostOK
    <3>6. round + 1 \in 0 .. worker_count
      BY <1>1, <3>1 DEF Workers
    <3>7. \A w \in Workers : ~Active(w)'
      BY <1>1, <2>2, <3>5 DEF Active, Advance, Goto, ControlInv, ControlType
    <3>8. HostOK'
      BY <3>4, <3>5, <3>6, <3>7 DEF HostOK
    <3> QED BY <2>2, <3>2, <3>3, <3>8, HostStep DEF Advance, Goto, dequeVars, actorVars
  <2> QED BY <1>6, <2>1, <2>2 DEF TickOther
<1> QED BY <1>3, <1>4, <1>5, <1>6

LEMMA StartControl ==
    ASSUME ControlInv, StartCall \/ StartWorker
    PROVE  ControlInv'
<1>1. /\ Host \in Threads /\ Workers \subseteq Threads \ {Host} /\ worker_count \in Nat \ {0}
      /\ 0 \in 0 .. worker_count
  BY ThreadSets, MaxLemma DEF ControlInv, ControlType
<1>2. CASE StartCall
  <2>1. ControlType'
    <3>1. /\ mn_running' = TRUE /\ starts' = starts + 1 /\ pc' = [pc EXCEPT ![Host] = "starting"]
          /\ UNCHANGED <<hand, actorVars, worker_count, running, crashed, next, spilling>>
      BY <1>2 DEF StartCall, Begin, Goto, dequeVars
    <3>2. starts' \in Nat /\ mn_running' \in BOOLEAN
      BY <3>1 DEF ControlInv, ControlType
    <3>3. pc' \in [Threads -> WorkerPlaces \cup HostPlaces]
      BY <3>1 DEF ControlInv, ControlType, HostPlaces
    <3> QED BY <3>1, <3>2, <3>3 DEF ControlInv, ControlType, actorVars
  <2>2. /\ pc[Host] = "host" /\ pc' = [pc EXCEPT ![Host] = "starting"] /\ hand' = hand
        /\ starts' = starts + 1 /\ mn_running' /\ round' = 0 /\ Workers' = Workers
        /\ UNCHANGED <<spilling, next, target, worker_count, running>>
    BY <1>2 DEF StartCall, At, Begin, Goto, dequeVars, actorVars, Workers
  <2>3. pc'[Host] = "starting" /\ hand[Host] = Null /\ spilling[Host] = Null
    BY <1>1, <2>2 DEF ControlInv, ControlType, Local, Busy
  <2>4. Local(Host)'
    BY <2>2, <2>3 DEF Local, HostPlaces, Busy
  <2>5. \A w \in Workers : ~Active(w)'
    BY <1>1, <1>2, <2>2 DEF StartCall, NoThreads, Active, ControlInv, ControlType
  <2>6. Started'
    BY <2>2 DEF Started, ControlInv, ControlType
  <2>7. HostOK'
    BY <1>1, <2>2, <2>3, <2>5, <2>6 DEF HostOK
  <2> QED BY <2>1, <2>2, <2>4, <2>7, HostStep
<1>3. CASE StartWorker
  <2>1. PICK created \in BOOLEAN :
            /\ running' = [running EXCEPT ![round] = created]
            /\ pc' = [pc EXCEPT ![round] = IF created THEN "loop" ELSE "none"]
    BY <1>3 DEF StartWorker
  <2>2. /\ pc[Host] = "starting" /\ round \in Workers /\ round' = round + 1 /\ Workers' = Workers
        /\ Started' = Started
        /\ UNCHANGED <<hand, spilling, next, target, worker_count, mn_running, starts>>
    BY <1>3 DEF StartWorker, AtWorker, At, dequeVars, actorVars, Workers, Started
  <2>3. /\ round \in Threads /\ round # Host
        /\ pc'[round] = (IF created THEN "loop" ELSE "none") /\ running'[round] = created
        /\ \A u \in Threads \ {round} : pc'[u] = pc[u] /\ running'[u] = running[u]
    BY <1>1, <2>1, <2>2 DEF ControlInv, ControlType
  <2>4. ControlType'
    BY <1>3, <2>1, <2>2 DEF ControlInv, ControlType, StartWorker, dequeVars, actorVars, WorkerPlaces
  <2>5. ~Active(round) /\ Started /\ \A w \in Workers : w >= round => ~Active(w)
    BY <1>1, <2>2 DEF ControlInv, HostOK, Workers
  <2>13. PICK t \in Threads : t = round
    BY <2>3
  <2>6. Local(t)'
    <3>1. Local(t) /\ pc[t] \in {"none", "exited"} /\ t \in Workers' /\ t # Host
      BY <2>2, <2>3, <2>5, <2>13 DEF ControlInv, Active
    <3>2. hand[t] = Null /\ spilling[t] = Null
      BY <3>1 DEF Local, Busy
    <3>3. pc'[t] \in {"loop", "none"} /\ hand'[t] = Null /\ spilling'[t] = Null
      BY <2>2, <2>3, <2>13, <3>2
    <3> QED BY <3>1, <3>3 DEF Local, WorkerPlaces, Busy
  <2>7. (\A u \in Threads : Local(u))'
    <3>1. \A u \in Threads : Local(u)
      BY DEF ControlInv
    <3>2. t \in Threads /\ worker_count' = worker_count
      BY <2>2, <2>3, <2>13
    <3>3. \A u \in Threads \ {t} : /\ pc'[u] = pc[u] /\ hand'[u] = hand[u] /\ next'[u] = next[u]
                                  /\ spilling'[u] = spilling[u] /\ target'[u] = target[u]
      BY <2>2, <2>3, <2>13
    <3> QED BY <2>6, <3>1, <3>2, <3>3, OneThread
  <2>8. pc'[Host] = "starting" /\ hand'[Host] = Null
    BY <1>1, <2>2, <2>3 DEF ControlInv, Local, Busy
  <2>9. round' \in 0 .. worker_count
    BY <1>1, <2>2 DEF Workers
  <2>10. \A w \in Workers : Active(w)' => running'[w]
    <3> SUFFICES ASSUME NEW w \in Workers, Active(w)' PROVE running'[w]
      OBVIOUS
    <3>1. CASE w = round
      BY <2>3, <3>1 DEF Active, WorkerPlaces
    <3>2. CASE w # round
      BY <1>1, <2>2, <2>3, <3>2 DEF Active, ControlInv, HostOK
    <3> QED BY <3>1, <3>2
  <2>11. \A w \in Workers : w >= round' => ~Active(w)'
    <3>1. \A w \in Workers : w >= round + 1 => w >= round /\ w # round
      BY <2>2 DEF Workers
    <3> QED BY <1>1, <2>2, <2>3, <2>5, <3>1 DEF Active
  <2>12. HostOK'
    BY <2>2, <2>5, <2>8, <2>9, <2>10, <2>11 DEF HostOK
  <2> QED BY <2>4, <2>7, <2>12 DEF ControlInv
<1> QED BY <1>2, <1>3

LEMMA StopControl ==
    ASSUME ControlInv, StopCall \/ StopWorker \/ Join
    PROVE  ControlInv'
<1>1. /\ Host \in Threads /\ Workers \subseteq Threads \ {Host} /\ worker_count \in Nat \ {0}
      /\ 0 \in 0 .. worker_count
  BY ThreadSets, MaxLemma DEF ControlInv, ControlType
<1>2. CASE StopCall
  <2>1. ControlType'
    BY <1>2 DEF ControlInv, ControlType, StopCall, Begin, Goto, dequeVars, actorVars, HostPlaces
  <2>2. /\ pc[Host] = "host" /\ pc' = [pc EXCEPT ![Host] = "stopping"] /\ hand' = hand
        /\ mn_running' = FALSE /\ round' = 0 /\ Workers' = Workers /\ ~Started'
        /\ UNCHANGED <<spilling, next, target, worker_count, running, starts>>
    BY <1>2 DEF StopCall, At, Begin, Goto, dequeVars, actorVars, Workers, Started
  <2>3. pc'[Host] = "stopping" /\ hand[Host] = Null /\ spilling[Host] = Null
    BY <1>1, <2>2 DEF ControlInv, ControlType, Local, Busy
  <2>4. Local(Host)'
    BY <2>2, <2>3 DEF Local, HostPlaces, Busy
  <2>5. \A w \in Workers : (Active(w)' <=> Active(w)) /\ (Active(w) => running[w]) /\ ~(w < 0)
    BY <1>1, <2>2 DEF Active, ControlInv, ControlType, HostOK, Workers
  <2>6. HostOK'
    BY <1>1, <2>2, <2>3, <2>5 DEF HostOK
  <2> QED BY <2>1, <2>2, <2>4, <2>6, HostStep
<1>3. CASE StopWorker
  <2> DEFINE p == IF running[round] THEN "joining" ELSE "stopping"
  <2>1. /\ pc[Host] = "stopping" /\ round \in Workers /\ Workers' = Workers /\ Started' = Started
        /\ running' = [running EXCEPT ![round] = FALSE]
        /\ pc' = [pc EXCEPT ![Host] = p] /\ round' = (IF running[round] THEN round ELSE round + 1)
        /\ UNCHANGED <<hand, spilling, next, target, worker_count, mn_running, starts>>
    BY <1>3 DEF StopWorker, AtWorker, At, Goto, Advance, dequeVars, actorVars, Workers, Started
  <2>2. /\ hand[Host] = Null /\ spilling[Host] = Null /\ ~mn_running /\ pc'[Host] = p
        /\ \A w \in Workers : w < round => ~Active(w)
    BY <1>1, <2>1 DEF ControlInv, ControlType, Local, HostOK, Busy
  <2>3. ControlType'
    BY <1>1, <1>3, <2>1 DEF ControlInv, ControlType, StopWorker, dequeVars, actorVars, HostPlaces
  <2>4. Local(Host)'
    BY <2>1, <2>2 DEF Local, HostPlaces, Busy
  <2>5. \A w \in Workers : (Active(w)' <=> Active(w)) /\ (Active(w) => running[w])
    BY <1>1, <2>1 DEF Active, ControlInv, ControlType, HostOK
  <2>6. round' \in 0 .. worker_count
    BY <1>1, <2>1 DEF Workers
  <2>7. \A w \in Workers : Active(w) => (running'[w] \/ (p = "joining" /\ round' = w))
    <3> SUFFICES ASSUME NEW w \in Workers, Active(w) PROVE running'[w] \/ (p = "joining" /\ round' = w)
      OBVIOUS
    <3>1. CASE w = round
      BY <2>1, <2>5, <3>1
    <3>2. CASE w # round
      BY <1>1, <2>1, <2>5, <3>2 DEF ControlInv, ControlType
    <3> QED BY <3>1, <3>2
  <2>8. \A w \in Workers : w < round' => ~Active(w)
    <3>1. ~running[round] => ~Active(round)
      BY <2>1, <2>5
    <3>2. \A w \in Workers : w < round + 1 => w < round \/ w = round
      BY <2>1 DEF Workers
    <3> QED BY <2>1, <2>2, <3>1, <3>2
  <2>9. p = "joining" => round' \in Workers
    BY <2>1
  <2>10. p \in {"joining", "stopping"}
    OBVIOUS
  <2> HIDE DEF p
  <2>11. HostOK'
    BY <2>1, <2>2, <2>5, <2>6, <2>7, <2>8, <2>9, <2>10 DEF HostOK
  <2> QED BY <2>1, <2>3, <2>4, <2>11, HostStep
<1>4. CASE Join
  <2>1. /\ pc[Host] = "joining" /\ round \in Workers /\ pc[round] = "exited" /\ Workers' = Workers
        /\ Started' = Started /\ pc' = [pc EXCEPT ![Host] = "stopping"] /\ round' = round + 1
        /\ UNCHANGED <<hand, spilling, next, target, worker_count, mn_running, running, starts>>
    BY <1>4 DEF Join, AtWorker, At, Goto, Advance, dequeVars, actorVars, Workers, Started
  <2>2. /\ hand[Host] = Null /\ spilling[Host] = Null /\ ~mn_running /\ pc'[Host] = "stopping"
        /\ ~Active(round) /\ \A w \in Workers : w < round => ~Active(w)
    BY <1>1, <2>1 DEF ControlInv, ControlType, Local, HostOK, Busy, Active
  <2>3. ControlType'
    BY <1>4 DEF ControlInv, ControlType, Join, Advance, Goto, dequeVars, actorVars, HostPlaces
  <2>4. Local(Host)'
    BY <2>1, <2>2 DEF Local, HostPlaces, Busy
  <2>5. \A w \in Workers : (Active(w)' <=> Active(w)) /\ (Active(w) => running[w])
    BY <1>1, <2>1, <2>2 DEF Active, ControlInv, ControlType, HostOK
  <2>6. round' \in 0 .. worker_count
    BY <1>1, <2>1 DEF Workers
  <2>7. \A w \in Workers : w < round' => ~Active(w)
    <3>1. \A w \in Workers : w < round + 1 => w < round \/ w = round
      BY <2>1 DEF Workers
    <3> QED BY <2>1, <2>2, <3>1
  <2>8. HostOK'
    BY <2>1, <2>2, <2>5, <2>6, <2>7 DEF HostOK
  <2> QED BY <2>1, <2>3, <2>4, <2>8, HostStep
<1> QED BY <1>2, <1>3, <1>4

LEMMA ReturnControl ==
    ASSUME ControlInv, HostReturn \/ Destroy
    PROVE  ControlInv'
<1>1. /\ Host \in Threads /\ Workers \subseteq Threads \ {Host} /\ worker_count \in Nat \ {0}
      /\ 0 \in 0 .. worker_count
  BY ThreadSets, MaxLemma DEF ControlInv, ControlType
<1>2. CASE HostReturn
  <2>1. /\ pc[Host] \in {"ticking", "starting", "stopping"} /\ round = worker_count
        /\ pc' = [pc EXCEPT ![Host] = "host"] /\ round' = 0 /\ Workers' = Workers /\ Started' = Started
        /\ UNCHANGED <<hand, spilling, next, target, worker_count, mn_running, running, starts>>
    BY <1>2 DEF HostReturn, Done, At, Begin, Goto, dequeVars, actorVars, Workers, Started
  <2>2. hand[Host] = Null /\ spilling[Host] = Null /\ pc'[Host] = "host"
    BY <1>1, <2>1 DEF ControlInv, ControlType, Local, Busy
  <2>3. ControlType'
    BY <1>2 DEF ControlInv, ControlType, HostReturn, Begin, Goto, dequeVars, actorVars, HostPlaces
  <2>4. Local(Host)'
    BY <2>1, <2>2 DEF Local, HostPlaces, Busy
  <2>5. \A w \in Workers : (Active(w)' <=> Active(w)) /\ (Active(w) => running[w]) /\ w < worker_count
    BY <1>1, <2>1 DEF Active, ControlInv, ControlType, HostOK, Workers
  <2>6. ~Started => \A w \in Workers : ~Active(w)
    BY <2>1, <2>5 DEF ControlInv, HostOK
  <2>7. HostOK'
    BY <1>1, <2>1, <2>2, <2>5, <2>6 DEF HostOK
  <2> QED BY <2>1, <2>3, <2>4, <2>7, HostStep
<1>3. CASE Destroy
  <2>1. /\ pc[Host] = "host" /\ ~Started /\ pc' = [pc EXCEPT ![Host] = "destroyed"] /\ ~Started'
        /\ mn_running' = FALSE /\ Workers' = Workers
        /\ UNCHANGED <<hand, spilling, next, target, worker_count, round, running, starts>>
    BY <1>3 DEF Destroy, At, Goto, actorVars, Workers, Started
  <2>2. hand[Host] = Null /\ spilling[Host] = Null /\ pc'[Host] = "destroyed"
    BY <1>1, <2>1 DEF ControlInv, ControlType, Local, Busy
  <2>3. ControlType'
    BY <1>3 DEF ControlInv, ControlType, Destroy, Goto, actorVars, HostPlaces
  <2>4. Local(Host)'
    BY <2>1, <2>2 DEF Local, HostPlaces, Busy
  <2>5. \A w \in Workers : ~Active(w)'
    BY <1>1, <2>1 DEF Active, ControlInv, ControlType, HostOK
  <2>6. round \in 0 .. worker_count
    BY DEF ControlInv, HostOK
  <2>7. HostOK'
    BY <1>1, <2>1, <2>2, <2>5, <2>6 DEF HostOK
  <2> QED BY <2>1, <2>3, <2>4, <2>7, HostStep
<1> QED BY <1>2, <1>3

(* The control invariant, through any step.                                *)
LEMMA ControlNext ==
    ASSUME ControlInv, DequesOK, [Next]_vars
    PROVE  ControlInv'
<1>1. CASE Request
  BY <1>1, EnqueueControl, HotUpgradeControl, TickControl, StartControl, StopControl, ReturnControl
     DEF Request
<1>2. CASE HostLoop
  BY <1>2, TickControl, StartControl, StopControl, ReturnControl, DeliverControl DEF HostLoop
<1>3. CASE \E w \in Workers : Worker(w) \/ Deliver(w)
  BY <1>3, WorkerLooks, UpgradeControl, DeliverControl DEF Worker
<1>4. CASE UNCHANGED vars
  BY <1>4 DEF vars, ControlInv, ControlType, Local, HostOK, Started, Workers, Active
<1> QED BY <1>1, <1>2, <1>3, <1>4 DEF Next

-----------------------------------------------------------------------------
(* Messages: what a step does with them, whoever takes it.                 *)

Put(q, m) ==
    \E i \in Slots, d \in DequeSet :
        /\ Window(d) /\ deque[q].items[i] = Null
        /\ d.items = [deque[q].items EXCEPT ![i] = m]
        /\ deque' = [deque EXCEPT ![q] = d]
TakeStep == \E t \in Workers \cup {Host} : Taken(t) /\ hand[t] = Null
PutStep ==
    \E q \in Workers, m \in fresh :
        Put(q, m) /\ fresh' = fresh \ {m} /\ UNCHANGED <<freed, hand, spilling>>
SpillStep ==
    \E t \in Threads, m \in fresh :
        /\ spilling[t] = Null /\ spilling' = [spilling EXCEPT ![t] = m] /\ fresh' = fresh \ {m}
        /\ UNCHANGED <<deque, freed, hand>>
RefuseStep ==
    \E t \in Threads :
        /\ spilling[t] # Null /\ spilling' = [spilling EXCEPT ![t] = Null]
        /\ fresh' = fresh \cup {spilling[t]} /\ UNCHANGED <<deque, freed, hand>>
AdmitStep ==
    \E t \in Threads :
        /\ spilling[t] # Null /\ spilling' = [spilling EXCEPT ![t] = Null]
        /\ Put(Global, spilling[t]) /\ UNCHANGED <<fresh, freed, hand>>
FreeStep ==
    \E t \in Threads :
        /\ hand[t] # Null /\ freed' = freed \cup {hand[t]} /\ hand' = [hand EXCEPT ![t] = Null]
        /\ UNCHANGED <<deque, fresh, spilling>>
DropStep ==
    /\ \A t \in Threads : hand[t] = Null
    /\ freed' = freed \cup Queued /\ deque' = [q \in Threads |-> Empty]
    /\ UNCHANGED <<fresh, hand, spilling>>
QuietStep == UNCHANGED <<deque, fresh, freed, hand, spilling>>
PoolStep ==
    \/ TakeStep \/ PutStep \/ SpillStep \/ RefuseStep \/ AdmitStep \/ FreeStep \/ DropStep
    \/ QuietStep

LEMMA PutLemma ==
    ASSUME ControlInv, DequesOK, NEW q \in Workers \cup {Global}, NEW m \in Messages, ~Full(deque[q]),
           deque' = [deque EXCEPT ![q] = Push(@, m)]
    PROVE  Put(q, m)
<1>1. q \in Threads
  BY ThreadSets DEF ControlInv, ControlType
<1>2. deque[q] \in DequeSet /\ Window(deque[q])
  BY <1>1 DEF DequesOK
<1>3. /\ Push(deque[q], m) \in DequeSet /\ Window(Push(deque[q], m))
      /\ deque[q].tail \in Slots /\ deque[q].items[deque[q].tail] = Null
      /\ Push(deque[q], m).items = [deque[q].items EXCEPT ![deque[q].tail] = m]
  BY <1>2, PushLemma
<1> QED BY <1>3 DEF Put

LEMMA TakeSteps ==
    ASSUME ControlInv, DequesOK, NEW t \in Workers \cup {Host},
           \/ (t # Host /\ (PopLocal(t) \/ Steal(t) \/ PopGlobal(t)))
           \/ (t = Host /\ (TickLocal \/ TickSteal \/ TickOther))
    PROVE  TakeStep \/ QuietStep
<1>1. /\ t \in Threads /\ Host \in Threads /\ Workers \subseteq Threads \ {Host} /\ Global = Host
      /\ worker_count \in Nat \ {0}
  BY ThreadSets, MaxLemma DEF ControlInv, ControlType
<1>2. hand[t] = Null
  <2>1. pc[t] \in {"local", "steal", "global", "ticking"}
    BY DEF PopLocal, Steal, PopGlobal, TickLocal, TickSteal, TickOther, AtWorker, At
  <2> QED BY <1>1, <2>1 DEF ControlInv, Local, Busy
<1>3. (Taken(t) \/ QuietStep) => (TakeStep \/ QuietStep)
  BY <1>2 DEF TakeStep
<1>4. CASE t # Host /\ PopLocal(t)
  BY <1>1, <1>3, <1>4, TakeTopLemma DEF PopLocal, Move, dequeVars, QuietStep
<1>5. CASE t # Host /\ PopGlobal(t)
  BY <1>1, <1>3, <1>5, TakeTopLemma DEF PopGlobal, Move, dequeVars, QuietStep
<1>6. CASE t # Host /\ Steal(t)
  <2> DEFINE v == Victim(t, next[t])
  <2>1. v \in Workers
    BY <1>1, <1>6, VictimLemma DEF ControlInv, ControlType, Workers
  <2> HIDE DEF v
  <2>2. \/ deque[v].count > 0 /\ Took(t, Bottom(deque[v]), [deque EXCEPT ![v] = PopBottom(@)])
        \/ QuietStep
    BY <1>6 DEF Steal, v, Move, dequeVars, QuietStep
  <2> QED BY <1>1, <1>3, <2>1, <2>2, TakeBottomLemma
<1>7. CASE t = Host /\ TickLocal
  BY <1>1, <1>3, <1>7, TakeTopLemma DEF TickLocal, AtWorker
<1>8. CASE t = Host /\ TickOther
  BY <1>1, <1>3, <1>8, TakeTopLemma DEF TickOther, dequeVars, QuietStep
<1>9. CASE t = Host /\ TickSteal
  <2>1. PICK v \in Workers : deque[v].count > 0
                             /\ Took(Host, Bottom(deque[v]), [deque EXCEPT ![v] = PopBottom(@)])
    BY <1>1, <1>9, FirstVictim DEF TickSteal
  <2> QED BY <1>1, <1>3, <1>9, <2>1, TakeBottomLemma
<1> QED BY <1>4, <1>5, <1>6, <1>7, <1>8, <1>9

LEMMA DeliverSteps ==
    ASSUME ControlInv, DequesOK, NEW t \in Workers \cup {Host}, Deliver(t)
    PROVE  PoolStep
<1>1. t \in Threads /\ Global \in Workers \cup {Global} /\ Local(t) /\ ControlType
  BY ThreadSets DEF ControlInv, ControlType
<1>2. ASSUME Free(t), pc[t] \in Busy PROVE PoolStep
  BY <1>1, <1>2 DEF Free, Local, FreeStep, PoolStep
<1>3. CASE FindActor(t)
  BY <1>1, <1>2, <1>3 DEF FindActor, At, Busy, Move, dequeVars, QuietStep, PoolStep
<1>4. CASE CallBehavior(t)
  BY <1>4 DEF CallBehavior, dequeVars, QuietStep, PoolStep
<1>5. CASE BehaviorReturn(t)
  BY <1>2, <1>5 DEF BehaviorReturn, At, Busy
<1>6. CASE EnqueueGlobal(t)
  <2>1. /\ spilling[t] # Null /\ spilling[t] \in Messages /\ UNCHANGED <<freed, hand>>
        /\ spilling' = [spilling EXCEPT ![t] = Null]
    BY <1>1, <1>6 DEF EnqueueGlobal, At, Local, ControlType
  <2>2. CASE Full(deque[Global])
    BY <1>1, <1>6, <2>1, <2>2 DEF EnqueueGlobal, RefuseStep, PoolStep
  <2>3. CASE ~Full(deque[Global])
    <3>1. Put(Global, spilling[t]) /\ UNCHANGED fresh
      BY <1>1, <1>6, <2>1, <2>3, PutLemma DEF EnqueueGlobal
    <3> QED BY <1>1, <2>1, <3>1 DEF AdmitStep, PoolStep
  <2> QED BY <2>2, <2>3
<1> QED BY <1>3, <1>4, <1>5, <1>6 DEF Deliver

LEMMA RequestSteps ==
    ASSUME ControlInv, DequesOK, Request
    PROVE  PoolStep
<1>1. Host \in Threads /\ Workers \subseteq Threads /\ Host \in Workers \cup {Host}
  BY ThreadSets DEF ControlInv, ControlType
<1>2. ASSUME NEW t \in Threads, NEW m \in Messages, EnqueueOverflow(t, m) PROVE PoolStep
  <2>1. Local(t) /\ pc[t] \in {"handling", "host"}
    BY <1>2 DEF ControlInv, EnqueueOverflow, InControl, At
  <2>2. spilling[t] = Null
    BY <2>1 DEF Local
  <2> QED BY <1>2, <2>2 DEF EnqueueOverflow, SpillStep, PoolStep
<1>3. ASSUME NEW t \in Threads, NEW m \in Messages, NEW w \in Workers, EnqueueLocal(t, m, w)
      PROVE  PoolStep
  <2>1. Put(w, m)
    BY <1>3, PutLemma DEF EnqueueLocal
  <2> QED BY <1>3, <2>1 DEF EnqueueLocal, PutStep, PoolStep
<1>4. CASE Destroy
  <2>1. \A t \in Threads : hand[t] = Null
    <3> SUFFICES ASSUME NEW t \in Threads PROVE hand[t] = Null
      OBVIOUS
    <3>1. Local(t) /\ pc[Host] = "host" /\ ~Started
      BY <1>4 DEF ControlInv, Destroy, At
    <3>2. CASE t = Host
      BY <3>1, <3>2 DEF Local, Busy
    <3>3. CASE t \in Workers
      <4>1. ~Active(t)
        BY <3>1, <3>3 DEF ControlInv, HostOK
      <4> QED BY <3>1, <4>1 DEF Active, Local, Busy
    <3>4. CASE t # Host /\ t \notin Workers
      BY <3>1, <3>4 DEF Local, Busy
    <3> QED BY <3>2, <3>3, <3>4
  <2> QED BY <1>4, <2>1 DEF Destroy, DropStep, PoolStep
<1>5. CASE \E a \in DOMAIN Listed, b \in Upgrades : HotUpgrade(a, b)
  BY <1>5 DEF HotUpgrade, dequeVars, QuietStep, PoolStep
<1>6. CASE TickStart \/ StartCall \/ StopCall
  BY <1>6 DEF TickStart, StartCall, StopCall, dequeVars, QuietStep, PoolStep
<1> QED BY <1>2, <1>3, <1>4, <1>5, <1>6 DEF Request

LEMMA PoolSteps ==
    ASSUME ControlInv, DequesOK, [Next]_vars
    PROVE  PoolStep /\ worker_count' = worker_count
<1>1. Host \in Workers \cup {Host} /\ Workers \subseteq Threads \ {Host}
  BY ThreadSets DEF ControlInv, ControlType
<1>2. PoolStep
  <2>1. CASE Request
    BY <2>1, RequestSteps
  <2>2. CASE HostLoop
    <3>1. CASE TickLocal \/ TickSteal \/ TickOther
      BY <1>1, <3>1, TakeSteps DEF PoolStep
    <3>2. CASE StartWorker \/ StopWorker \/ Join \/ HostReturn
      BY <3>2 DEF StartWorker, StopWorker, Join, HostReturn, dequeVars, QuietStep, PoolStep
    <3> QED BY <1>1, <2>2, <3>1, <3>2, DeliverSteps DEF HostLoop
  <2>3. ASSUME NEW w \in Workers, Worker(w) \/ Deliver(w) PROVE PoolStep
    <3>1. CASE PopLocal(w) \/ Steal(w) \/ PopGlobal(w)
      BY <1>1, <3>1, TakeSteps DEF PoolStep
    <3>2. CASE Loop(w) \/ TestUpgrade(w) \/ AssignBehavior(w) \/ ClearUpgrade(w)
      BY <3>2 DEF Loop, Move, TestUpgrade, AssignBehavior, ClearUpgrade, dequeVars, QuietStep, PoolStep
    <3> QED BY <2>3, <3>1, <3>2, DeliverSteps DEF Worker
  <2>4. CASE UNCHANGED vars
    BY <2>4 DEF vars, QuietStep, PoolStep
  <2> QED BY <2>1, <2>2, <2>3, <2>4 DEF Next
<1>3. worker_count' = worker_count
  <2>2. CASE Request
    BY <2>2 DEF Request, EnqueueOverflow, EnqueueLocal, HotUpgrade, TickStart, StartCall, StopCall, Destroy,
                controlVars
  <2>3. ASSUME NEW t, Deliver(t) PROVE worker_count' = worker_count
    BY <2>3 DEF Deliver, FindActor, Free, Move, CallBehavior, BehaviorReturn, EnqueueGlobal, controlVars
  <2>4. ASSUME NEW w, Worker(w) PROVE worker_count' = worker_count
    BY <2>4 DEF Worker, Loop, PopLocal, Steal, PopGlobal, TakeTop, Took, Move, TestUpgrade, AssignBehavior,
                ClearUpgrade, controlVars
  <2>5. CASE HostLoop
    BY <2>3, <2>5 DEF HostLoop, TickLocal, TickSteal, TickOther, TakeTop, Took, StartWorker, StopWorker, Join,
                      HostReturn, controlVars
  <2>6. CASE UNCHANGED vars
    BY <2>6 DEF vars
  <2> QED BY <2>2, <2>3, <2>4, <2>5, <2>6 DEF Next
<1> QED BY <1>2, <1>3

(* The deques keep their shape.                                            *)
LEMMA DequesNext ==
    ASSUME ControlInv, DequesOK, PoolStep
    PROVE  DequesOK'
<1>1. /\ Host \in Threads /\ Workers \subseteq Threads \ {Host} /\ Global \in Threads
      /\ ControlType
  BY ThreadSets DEF ControlInv, ControlType
<1>2. ASSUME NEW q \in Threads, NEW d \in DequeSet, Window(d), deque' = [deque EXCEPT ![q] = d],
             fresh' \subseteq Messages, freed' \subseteq Messages
      PROVE  DequesOK'
  BY <1>2 DEF DequesOK, Window
<1>3. CASE TakeStep
  BY <1>1, <1>2, <1>3 DEF TakeStep, Taken, Took, DequesOK
<1>4. CASE PutStep
  BY <1>1, <1>2, <1>4 DEF PutStep, Put, DequesOK
<1>5. CASE SpillStep \/ RefuseStep \/ FreeStep \/ QuietStep
  <2>1. deque' = deque /\ fresh' \subseteq Messages /\ freed' \subseteq Messages
    BY <1>1, <1>5 DEF SpillStep, RefuseStep, FreeStep, QuietStep, DequesOK, ControlType
  <2> QED BY <2>1 DEF DequesOK, Window
<1>6. CASE AdmitStep
  BY <1>1, <1>2, <1>6 DEF AdmitStep, Put, DequesOK
<1>7. CASE DropStep
  <2>1. Queued \subseteq Messages
    <3>1. ASSUME NEW q \in Workers \cup {Global}, NEW i \in Slots PROVE deque[q].items[i] \in Messages \cup {Null}
      BY <1>1, Fields DEF DequesOK
    <3> QED BY <3>1 DEF Queued, Held
  <2>2. deque' \in [Threads -> DequeSet] /\ \A q \in Threads : deque'[q] = Empty
    BY <1>7, EmptyLemma DEF DropStep
  <2>3. \A q \in Threads : Window(deque'[q])
    BY <2>2, EmptyLemma
  <2>4. fresh' \subseteq Messages /\ freed' \subseteq Messages
    BY <1>7, <2>1 DEF DropStep, DequesOK
  <2> QED BY <2>2, <2>3, <2>4 DEF DequesOK, Window
<1> QED BY <1>3, <1>4, <1>5, <1>6, <1>7 DEF PoolStep

-----------------------------------------------------------------------------
(* Every message is in one place.                                          *)

LEMMA OnePlaceInit == Init => DequesOK /\ OnePlace
<1> SUFFICES ASSUME Init PROVE DequesOK /\ OnePlace
  OBVIOUS
<1>1. \A q \in Threads : deque[q] = Empty
  BY DEF Init
<1>2. DequesOK
  BY <1>1, EmptyLemma DEF Init, DequesOK, Window
<1>3. \A q \in Threads, i \in Slots : deque[q].items[i] = Null
  BY <1>1, EmptyLemma
<1>4. /\ \A t \in Threads : hand[t] = Null /\ spilling[t] = Null
      /\ fresh = Messages /\ freed = {} /\ Null \notin Messages
  BY StealingAssumption DEF Init
<1>5. OnePlace
  BY <1>1, <1>3, <1>4 DEF OnePlace, InDeque, SlotsApart, HandsApart, SpillsApart, HandsAlone, SpillsAlone,
                          SetsApart, SpareDeques
<1> QED BY <1>2, <1>5

(* What taking a message out of a slot and putting one into a free slot do *)
(* to the slots.                                                           *)
LEMMA TakenSlots ==
    ASSUME DequesOK, OnePlace, NEW q \in Threads, NEW i \in Slots, NEW d, deque[q].items[i] # Null,
           d.items = [deque[q].items EXCEPT ![i] = Null], deque' = [deque EXCEPT ![q] = d]
    PROVE  /\ \A r \in Threads, j \in Slots :
                  deque'[r].items[j] = IF r = q /\ j = i THEN Null ELSE deque[r].items[j]
           /\ \A m : m # Null => (InDeque(m)' <=> (InDeque(m) /\ m # deque[q].items[i]))
           /\ SlotsApart'
<1>1. deque[q].items \in [Slots -> Messages \cup {Null}]
  BY Fields DEF DequesOK
<1>2. \A r \in Threads, j \in Slots :
          deque'[r].items[j] = IF r = q /\ j = i THEN Null ELSE deque[r].items[j]
  BY <1>1 DEF DequesOK
<1>3. SlotsApart
  BY DEF OnePlace
<1>4. \A m : m # Null => (InDeque(m)' <=> (InDeque(m) /\ m # deque[q].items[i]))
  BY <1>2, <1>3 DEF InDeque, SlotsApart
<1>5. SlotsApart'
  BY <1>2, <1>3 DEF SlotsApart
<1> QED BY <1>2, <1>4, <1>5

LEMMA PutSlots ==
    ASSUME DequesOK, OnePlace, NEW q \in Threads, NEW i \in Slots, NEW d, NEW m \in Messages,
           deque[q].items[i] = Null, ~InDeque(m),
           d.items = [deque[q].items EXCEPT ![i] = m], deque' = [deque EXCEPT ![q] = d]
    PROVE  /\ \A r \in Threads, j \in Slots :
                  deque'[r].items[j] = IF r = q /\ j = i THEN m ELSE deque[r].items[j]
           /\ \A k : k # Null => (InDeque(k)' <=> (InDeque(k) \/ k = m))
           /\ SlotsApart'
<1>1. deque[q].items \in [Slots -> Messages \cup {Null}] /\ m # Null
  BY Fields, StealingAssumption DEF DequesOK
<1>2. \A r \in Threads, j \in Slots :
          deque'[r].items[j] = IF r = q /\ j = i THEN m ELSE deque[r].items[j]
  BY <1>1 DEF DequesOK
<1>3. SlotsApart /\ \A r \in Threads, j \in Slots : deque[r].items[j] # m
  BY DEF OnePlace, InDeque
<1>4. \A k : k # Null => (InDeque(k)' <=> (InDeque(k) \/ k = m))
  BY <1>2 DEF InDeque
<1>5. SlotsApart'
  BY <1>2, <1>3 DEF SlotsApart
<1> QED BY <1>2, <1>4, <1>5

LEMMA SpareKept ==
    ASSUME OnePlace, DequesOK, NEW q \in Workers \cup {Global}, NEW d, deque' = [deque EXCEPT ![q] = d],
           worker_count' = worker_count
    PROVE  SpareDeques'
  BY DEF OnePlace, SpareDeques, DequesOK, Workers

LEMMA OnePlaceNext ==
    ASSUME ControlInv, DequesOK, OnePlace, PoolStep, worker_count' = worker_count
    PROVE  OnePlace'
<1>0. /\ Workers \subseteq Threads /\ Global \in Threads /\ Host \in Threads
      /\ hand \in [Threads -> Messages \cup {Null}] /\ spilling \in [Threads -> Messages \cup {Null}]
      /\ fresh \subseteq Messages /\ freed \subseteq Messages /\ Null \notin Messages
  BY ThreadSets, StealingAssumption DEF ControlInv, ControlType, DequesOK
<1>1. /\ SlotsApart /\ HandsApart /\ SpillsApart /\ HandsAlone /\ SpillsAlone /\ SetsApart
      /\ SpareDeques
  BY DEF OnePlace
<1>2. CASE TakeStep
  <2>0. PICK t \in Workers \cup {Host} : Taken(t)
    BY <1>2 DEF TakeStep
  <2>1. PICK q \in Workers \cup {Global}, i \in Slots, d \in DequeSet :
            /\ deque[q].items[i] # Null
            /\ d.items = [deque[q].items EXCEPT ![i] = Null] /\ deque' = [deque EXCEPT ![q] = d]
            /\ hand' = [hand EXCEPT ![t] = deque[q].items[i]] /\ UNCHANGED <<fresh, freed, spilling>>
    BY <2>0 DEF Taken, Took
  <2>2. q \in Threads /\ t \in Threads
    BY <1>0
  <2>3. /\ \A m : m # Null => (InDeque(m)' <=> (InDeque(m) /\ m # deque[q].items[i]))
        /\ SlotsApart'
    BY <2>1, <2>2, TakenSlots
  <2>4. SpareDeques'
    BY <2>1, SpareKept
  <2>12. PICK m : m = deque[q].items[i]
    OBVIOUS
  <2>5. m # Null /\ InDeque(m) /\ ~InDeque(m)'
    BY <2>1, <2>2, <2>3, <2>12 DEF InDeque
  <2>6. \A u \in Threads : hand'[u] = IF u = t THEN m ELSE hand[u]
    BY <1>0, <2>1, <2>12
  <2>7. \A u \in Threads : hand[u] # m /\ spilling[u] # m
    BY <1>0, <1>1, <2>5 DEF HandsAlone, SpillsAlone
  <2>8. m \notin fresh \cup freed
    BY <1>1, <2>5 DEF SetsApart
  <2>9. HandsApart' /\ SpillsApart'
    BY <1>1, <2>1, <2>6, <2>7 DEF HandsApart, SpillsApart
  <2>10. HandsAlone'
    BY <1>1, <2>1, <2>3, <2>5, <2>6, <2>7, <2>8 DEF HandsAlone
  <2>11. SpillsAlone' /\ SetsApart'
    BY <1>0, <1>1, <2>1, <2>3 DEF SpillsAlone, SetsApart
  <2> QED BY <2>3, <2>4, <2>9, <2>10, <2>11 DEF OnePlace
<1>3. CASE PutStep
  <2>1. PICK q \in Workers, m \in fresh, i \in Slots, d \in DequeSet :
            /\ deque[q].items[i] = Null /\ d.items = [deque[q].items EXCEPT ![i] = m]
            /\ deque' = [deque EXCEPT ![q] = d] /\ fresh' = fresh \ {m}
            /\ UNCHANGED <<freed, hand, spilling>>
    BY <1>3 DEF PutStep, Put
  <2>2. q \in Threads /\ m \in Messages /\ ~InDeque(m)
    BY <1>0, <1>1 DEF SetsApart
  <2>3. (\A k : k # Null => (InDeque(k)' <=> (InDeque(k) \/ k = m))) /\ SlotsApart'
    BY <2>1, <2>2, PutSlots
  <2>4. SpareDeques'
    BY <2>1, SpareKept
  <2>5. HandsApart' /\ SpillsApart'
    BY <1>1, <2>1 DEF HandsApart, SpillsApart
  <2>6. HandsAlone' /\ SpillsAlone' /\ SetsApart'
    BY <1>0, <1>1, <2>1, <2>3 DEF HandsAlone, SpillsAlone, SetsApart
  <2> QED BY <2>3, <2>4, <2>5, <2>6 DEF OnePlace
<1>4. CASE SpillStep \/ RefuseStep \/ FreeStep \/ QuietStep
  <2>1. deque' = deque
    BY <1>4 DEF SpillStep, RefuseStep, FreeStep, QuietStep
  <2>2. SlotsApart' /\ SpareDeques' /\ \A m : InDeque(m)' <=> InDeque(m)
    BY <1>1, <2>1 DEF SlotsApart, SpareDeques, InDeque, Workers
  <2>3. CASE SpillStep
    <3>1. PICK t \in Threads, m \in fresh :
              /\ spilling[t] = Null /\ spilling' = [spilling EXCEPT ![t] = m]
              /\ fresh' = fresh \ {m} /\ UNCHANGED <<freed, hand>>
      BY <2>3 DEF SpillStep
    <3>2. m # Null /\ ~InDeque(m) /\ m \notin freed /\ \A u \in Threads : hand[u] # m /\ spilling[u] # m
      BY <1>0, <1>1 DEF SetsApart, HandsAlone, SpillsAlone
    <3>3. \A u \in Threads : spilling'[u] = IF u = t THEN m ELSE spilling[u]
      BY <1>0, <3>1
    <3>4. HandsApart' /\ SpillsApart'
      BY <1>1, <3>1, <3>2, <3>3 DEF HandsApart, SpillsApart
    <3>5. HandsAlone' /\ SpillsAlone' /\ SetsApart'
      BY <1>0, <1>1, <2>2, <3>1, <3>2, <3>3 DEF HandsAlone, SpillsAlone, SetsApart
    <3> QED BY <2>2, <3>4, <3>5 DEF OnePlace
  <2>4. CASE RefuseStep
    <3>1. PICK t \in Threads :
              /\ spilling[t] # Null /\ spilling' = [spilling EXCEPT ![t] = Null]
              /\ fresh' = fresh \cup {spilling[t]} /\ UNCHANGED <<freed, hand>>
      BY <2>4 DEF RefuseStep
    <3>2. \A u \in Threads : spilling'[u] = IF u = t THEN Null ELSE spilling[u]
      BY <1>0, <3>1
    <3>3. HandsApart' /\ SpillsApart'
      BY <1>1, <3>1, <3>2 DEF HandsApart, SpillsApart
    <3>4. HandsAlone' /\ SpillsAlone' /\ SetsApart'
      BY <1>0, <1>1, <2>2, <3>1, <3>2 DEF HandsAlone, SpillsAlone, SetsApart, SpillsApart
    <3> QED BY <2>2, <3>3, <3>4 DEF OnePlace
  <2>5. CASE FreeStep
    <3>1. PICK t \in Threads :
              /\ hand[t] # Null /\ freed' = freed \cup {hand[t]} /\ hand' = [hand EXCEPT ![t] = Null]
              /\ UNCHANGED <<fresh, spilling>>
      BY <2>5 DEF FreeStep
    <3>2. \A u \in Threads : hand'[u] = IF u = t THEN Null ELSE hand[u]
      BY <1>0, <3>1
    <3>3. HandsApart' /\ SpillsApart'
      BY <1>1, <3>1, <3>2 DEF HandsApart, SpillsApart
    <3>4. HandsAlone' /\ SpillsAlone' /\ SetsApart'
      BY <1>0, <1>1, <2>2, <3>1, <3>2 DEF HandsAlone, SpillsAlone, SetsApart, HandsApart
    <3> QED BY <2>2, <3>3, <3>4 DEF OnePlace
  <2>6. CASE QuietStep
    <3>1. HandsApart' /\ SpillsApart' /\ HandsAlone' /\ SpillsAlone' /\ SetsApart'
      BY <1>1, <2>2, <2>6 DEF QuietStep, HandsApart, SpillsApart, HandsAlone, SpillsAlone, SetsApart
    <3> QED BY <2>2, <3>1 DEF OnePlace
  <2> QED BY <1>4, <2>3, <2>4, <2>5, <2>6
<1>5. CASE AdmitStep
  <2>1. PICK t \in Threads, i \in Slots, d \in DequeSet :
            /\ spilling[t] # Null /\ spilling' = [spilling EXCEPT ![t] = Null]
            /\ deque[Global].items[i] = Null /\ d.items = [deque[Global].items EXCEPT ![i] = spilling[t]]
            /\ deque' = [deque EXCEPT ![Global] = d] /\ UNCHANGED <<fresh, freed, hand>>
    BY <1>5 DEF AdmitStep, Put
  <2>2. spilling[t] \in Messages /\ ~InDeque(spilling[t]) /\ spilling[t] \notin fresh \cup freed
    BY <1>0, <1>1, <2>1 DEF SpillsAlone
  <2>3. (\A k : k # Null => (InDeque(k)' <=> (InDeque(k) \/ k = spilling[t]))) /\ SlotsApart'
    BY <1>0, <2>1, <2>2, PutSlots
  <2>4. SpareDeques'
    BY <2>1, SpareKept
  <2>5. \A u \in Threads : spilling'[u] = IF u = t THEN Null ELSE spilling[u]
    BY <1>0, <2>1
  <2>6. HandsApart' /\ SpillsApart'
    BY <1>1, <2>1, <2>5 DEF HandsApart, SpillsApart
  <2>7. HandsAlone' /\ SpillsAlone' /\ SetsApart'
    BY <1>0, <1>1, <2>1, <2>2, <2>3, <2>5 DEF HandsAlone, SpillsAlone, SetsApart, SpillsApart
  <2> QED BY <2>3, <2>4, <2>6, <2>7 DEF OnePlace
<1>6. CASE DropStep
  <2>1. /\ \A t \in Threads : hand[t] = Null
        /\ freed' = freed \cup Queued /\ \A q \in Threads : deque'[q] = Empty
        /\ UNCHANGED <<fresh, hand, spilling>>
    BY <1>6 DEF DropStep
  <2>2. \A q \in Threads, i \in Slots : deque'[q].items[i] = Null
    BY <2>1, EmptyLemma
  <2>3. \A m \in Queued : InDeque(m) /\ m # Null
    BY <1>0 DEF Queued, Held, InDeque
  <2>4. SlotsApart' /\ SpareDeques' /\ \A m : m # Null => ~InDeque(m)'
    BY <2>1, <2>2 DEF SlotsApart, SpareDeques, InDeque, Workers
  <2>5. HandsApart' /\ SpillsApart' /\ HandsAlone'
    BY <1>1, <2>1 DEF HandsApart, SpillsApart, HandsAlone
  <2>6. SpillsAlone'
    BY <1>1, <2>1, <2>3, <2>4 DEF SpillsAlone
  <2>7. SetsApart'
    BY <1>0, <1>1, <2>1, <2>3, <2>4 DEF SetsApart
  <2> QED BY <2>4, <2>5, <2>6, <2>7 DEF OnePlace
<1> QED BY <1>2, <1>3, <1>4, <1>5, <1>6 DEF PoolStep

-----------------------------------------------------------------------------
(* The pool of tasks.                                                      *)

LEMMA QueuedLemma ==
    ASSUME ControlInv, OnePlace
    PROVE  \A m : m \in Queued <=> (m # Null /\ InDeque(m))
<1>1. Workers \cup {Global} \subseteq Threads
  BY ThreadSets DEF ControlInv, ControlType
<1>2. \A q \in Threads \ (Workers \cup {Global}), i \in Slots : deque[q].items[i] = Null
  BY EmptyLemma DEF OnePlace, SpareDeques
<1> QED BY <1>1, <1>2 DEF Queued, Held, InDeque

(* While a slot is free, the pool is below its capacity.                   *)
LEMMA CapacityLemma ==
    ASSUME ControlInv, OnePlace, NEW q \in Threads, NEW i \in Slots, deque[q].items[i] = Null
    PROVE  Cardinality(Queued) < (MaxWorkers + 1) * DequeSize
<1> DEFINE All == Threads \X Slots
           Others == All \ {<<q, i>>}
           f == [m \in Queued |-> CHOOSE p \in Others : deque[p[1]].items[p[2]] = m]
<1>1. /\ IsFiniteSet(Threads) /\ Cardinality(Threads) = MaxWorkers + 1
      /\ IsFiniteSet(Slots) /\ Cardinality(Slots) = DequeSize
  BY FS_Interval, MaxLemma, StealingAssumption DEF Threads, Slots
<1>2. IsFiniteSet(All) /\ Cardinality(All) = (MaxWorkers + 1) * DequeSize
  BY <1>1, FS_Product
<1>3. IsFiniteSet(Others) /\ Cardinality(Others) = (MaxWorkers + 1) * DequeSize - 1
  <2>1. <<q, i>> \in All
    OBVIOUS
  <2> HIDE DEF All
  <2> QED BY <1>2, <2>1, FS_RemoveElement
<1>4. \A m \in Queued : f[m] \in Others /\ deque[f[m][1]].items[f[m][2]] = m
  <2> SUFFICES ASSUME NEW m \in Queued
               PROVE  f[m] \in Others /\ deque[f[m][1]].items[f[m][2]] = m
    OBVIOUS
  <2>1. m # Null /\ InDeque(m)
    BY QueuedLemma
  <2>2. PICK r \in Threads, j \in Slots : deque[r].items[j] = m
    BY <2>1 DEF InDeque
  <2>3. <<r, j>> \in Others /\ deque[<<r, j>>[1]].items[<<r, j>>[2]] = m
    BY <2>1, <2>2
  <2> HIDE DEF Others
  <2> QED BY <2>3
<1> HIDE DEF Others
<1>5. f \in Injection(Queued, Others)
  <2>1. f \in [Queued -> Others]
    BY <1>4
  <2>2. \A m, k \in Queued : f[m] = f[k] => m = k
    BY <1>4
  <2> HIDE DEF f
  <2> QED BY <2>1, <2>2 DEF Injection, IsInjective
<1>6. IsFiniteSet(Queued) /\ Cardinality(Queued) <= Cardinality(Others)
  BY <1>3, <1>5, FS_Injection
<1>7. Cardinality(Queued) \in Nat /\ (MaxWorkers + 1) * DequeSize \in Int
  BY <1>6, FS_CardinalityType, MaxLemma, StealingAssumption
<1> QED BY <1>3, <1>6, <1>7

(* Every step is one of the pool's, or does not concern it.                *)
LEMMA PoolRefines ==
    ASSUME StealingInv, StealingInv', PoolStep, worker_count' = worker_count
    PROVE  [Pool!Next]_(Pool!poolVars)
<1>0. /\ Workers \subseteq Threads /\ Global \in Threads /\ Host \in Threads /\ Null \notin Messages
      /\ hand \in [Threads -> Messages \cup {Null}] /\ spilling \in [Threads -> Messages \cup {Null}]
      /\ fresh \subseteq Messages /\ ControlInv /\ DequesOK /\ OnePlace
      /\ SetsApart /\ HandsAlone /\ SpillsAlone
  BY ThreadSets, StealingAssumption DEF StealingInv, ControlInv, ControlType, DequesOK, OnePlace
<1>1. /\ \A m : m \in Queued <=> (m # Null /\ InDeque(m))
      /\ \A m : m \in Queued' <=> (m # Null /\ InDeque(m)')
  <2>1. \A m : m \in Queued <=> (m # Null /\ InDeque(m))
    BY <1>0, QueuedLemma
  <2>2. ControlInv' /\ OnePlace'
    BY DEF StealingInv
  <2>3. \A q \in Threads, i \in Slots : q \notin (Workers \cup {Global})' => deque'[q].items[i] = Null
    BY <2>2, EmptyLemma DEF OnePlace, SpareDeques
  <2>4. \A m : m \in Queued' <=> (m # Null /\ InDeque(m)')
    BY <1>0, <2>3 DEF Queued, Held, InDeque, Workers
  <2> QED BY <2>1, <2>4
<1>2. ASSUME NEW q \in Threads, NEW m \in Messages, Put(q, m), ~InDeque(m), m \notin freed,
             \A t \in Threads : hand[t] # m, UNCHANGED <<hand, freed>>
      PROVE  Pool!Accept(m)
  <2>1. PICK i \in Slots, d \in DequeSet :
            /\ deque[q].items[i] = Null /\ d.items = [deque[q].items EXCEPT ![i] = m]
            /\ deque' = [deque EXCEPT ![q] = d]
    BY <1>2 DEF Put
  <2>2. \A k : k # Null => (InDeque(k)' <=> (InDeque(k) \/ k = m))
    BY <1>0, <1>2, <2>1, PutSlots
  <2>3. Queued' = Queued \cup {m}
    BY <1>0, <1>1, <2>2
  <2>4. Pool!Cardinality(Queued) < (MaxWorkers + 1) * DequeSize
    <3>1. Cardinality(Queued) < (MaxWorkers + 1) * DequeSize
      BY <1>0, <2>1, CapacityLemma
    <3>2. Pool!Cardinality(Queued) = Cardinality(Queued)
      BY DEF Cardinality, Pool!Cardinality
    <3> QED BY <3>1, <3>2
  <2>5. m \notin Pool!Known
    <3>1. m \notin Queued
      BY <1>1, <1>2
    <3> QED BY <1>2, <3>1 DEF Pool!Known
  <2>6. UNCHANGED <<hand, freed>>
    BY <1>2
  <2> QED BY <2>3, <2>4, <2>5, <2>6 DEF Pool!Accept
<1>3. CASE TakeStep
  <2>1. PICK t \in Workers \cup {Host} : Taken(t) /\ hand[t] = Null
    BY <1>3 DEF TakeStep
  <2>2. PICK q \in Workers \cup {Global}, i \in Slots, d \in DequeSet :
            /\ deque[q].items[i] # Null
            /\ d.items = [deque[q].items EXCEPT ![i] = Null] /\ deque' = [deque EXCEPT ![q] = d]
            /\ hand' = [hand EXCEPT ![t] = deque[q].items[i]] /\ UNCHANGED freed
    <3>1. PICK q \in Workers \cup {Global}, i \in Slots, d \in DequeSet :
              /\ deque[q].items[i] # Null /\ d.items = [deque[q].items EXCEPT ![i] = Null]
              /\ Took(t, deque[q].items[i], [deque EXCEPT ![q] = d])
      BY <2>1 DEF Taken
    <3>2. /\ deque' = [deque EXCEPT ![q] = d] /\ hand' = [hand EXCEPT ![t] = deque[q].items[i]]
          /\ UNCHANGED freed
      BY <3>1 DEF Took
    <3> QED BY <3>1, <3>2
  <2>3. PICK m : m = deque[q].items[i]
    OBVIOUS
  <2>4. q \in Threads /\ t \in Threads /\ m # Null /\ InDeque(m)
    BY <1>0, <2>2, <2>3 DEF InDeque
  <2>5. \A k : k # Null => (InDeque(k)' <=> (InDeque(k) /\ k # m))
    BY <1>0, <2>2, <2>3, <2>4, TakenSlots
  <2>6. Queued' = Queued \ {m} /\ m \in Queued /\ m \in Messages
    <3>1. deque[q].items[i] \in Messages \cup {Null}
      BY <1>0, <2>4, Fields DEF DequesOK
    <3> QED BY <1>1, <2>3, <2>4, <2>5, <3>1
  <2>7. Pool!Take(t, m)
    BY <2>1, <2>2, <2>3, <2>6 DEF Pool!Take
  <2> QED BY <2>4, <2>6, <2>7 DEF Pool!Next
<1>4. CASE PutStep
  <2>1. PICK q \in Workers, m \in fresh : Put(q, m) /\ UNCHANGED <<freed, hand>>
    BY <1>4 DEF PutStep
  <2>2. m \in Messages /\ ~InDeque(m) /\ m \notin freed /\ \A t \in Threads : hand[t] # m
    BY <1>0 DEF SetsApart, HandsAlone
  <2>3. Pool!Accept(m)
    BY <1>0, <1>2, <2>1, <2>2
  <2> QED BY <2>2, <2>3 DEF Pool!Next
<1>5. CASE AdmitStep
  <2>1. PICK t \in Threads : spilling[t] # Null /\ Put(Global, spilling[t]) /\ UNCHANGED <<freed, hand>>
    BY <1>5 DEF AdmitStep
  <2>2. PICK m : m = spilling[t]
    OBVIOUS
  <2>3. m \in Messages /\ ~InDeque(m) /\ m \notin freed /\ \A u \in Threads : hand[u] # m
    BY <1>0, <2>1, <2>2 DEF SpillsAlone, HandsAlone
  <2>4. Pool!Accept(m)
    BY <1>0, <1>2, <2>1, <2>2, <2>3
  <2> QED BY <2>3, <2>4 DEF Pool!Next
<1>6. CASE FreeStep
  <2>1. PICK t \in Threads :
            /\ hand[t] # Null /\ freed' = freed \cup {hand[t]} /\ hand' = [hand EXCEPT ![t] = Null]
            /\ UNCHANGED deque
    BY <1>6 DEF FreeStep
  <2>2. Queued' = Queued
    BY <2>1 DEF Queued, Workers
  <2>3. Pool!Finish(t)
    BY <2>1, <2>2 DEF Pool!Finish
  <2> QED BY <2>3 DEF Pool!Next
<1>7. CASE DropStep
  <2>1. \A m : m # Null => ~InDeque(m)'
    <3>1. \A q \in Threads, i \in Slots : deque'[q].items[i] = Null
      BY <1>7, EmptyLemma DEF DropStep
    <3> QED BY <3>1 DEF InDeque
  <2>2. Queued' = {}
    BY <1>1, <2>1
  <2>3. Pool!TakeDown
    BY <1>7, <2>2 DEF DropStep, Pool!TakeDown
  <2> QED BY <2>3 DEF Pool!Next
<1>8. CASE SpillStep \/ RefuseStep \/ QuietStep
  <2>1. UNCHANGED <<deque, hand, freed>>
    BY <1>8 DEF SpillStep, RefuseStep, QuietStep
  <2>2. Queued' = Queued
    BY <2>1 DEF Queued, Workers
  <2> QED BY <2>1, <2>2 DEF Pool!poolVars
<1> QED BY <1>3, <1>4, <1>5, <1>6, <1>7, <1>8 DEF PoolStep

-----------------------------------------------------------------------------
LEMMA StealingInit == Init => StealingInv
  BY ControlInit, OnePlaceInit DEF StealingInv

LEMMA StealingNext ==
    ASSUME StealingInv, [Next]_vars
    PROVE  StealingInv' /\ PoolStep /\ worker_count' = worker_count
<1>1. ControlInv /\ DequesOK /\ OnePlace
  BY DEF StealingInv
<1>2. PoolStep /\ worker_count' = worker_count
  BY <1>1, PoolSteps
<1>3. ControlInv' /\ DequesOK' /\ OnePlace'
  BY <1>1, <1>2, ControlNext, DequesNext, OnePlaceNext
<1> QED BY <1>2, <1>3 DEF StealingInv

THEOREM StealingInvariant == Spec => []StealingInv
<1>1. StealingInv /\ [Next]_vars => StealingInv'
  BY StealingNext
<1> QED BY <1>1, StealingInit, PTL DEF Spec

(* Type correctness of the scheduler (mn_worker_fn and the calls the host  *)
(* makes, runtime.c:693-1062): the indices stay inside the deques, and a   *)
(* thread that looks for a receiver stays inside the list.                 *)
THEOREM StealingTypeCorrect == Spec => []TypeOK
<1>1. StealingInv => TypeOK
  <2> SUFFICES ASSUME StealingInv PROVE TypeOK
    OBVIOUS
  <2>1. round \in 0 .. MaxWorkers
    BY ThreadSets, MaxLemma DEF StealingInv, ControlInv, ControlType, HostOK
  <2> QED BY <2>1 DEF StealingInv, ControlInv, ControlType, DequesOK, DequeSet, TypeOK, WorkerPlaces,
                      HostPlaces
<1> QED BY <1>1, StealingInvariant, PTL

(* The deques of any size keep their shape under the owner's pops, thefts  *)
(* and overflow (push_work_deque, pop_local, steal_from).                  *)
THEOREM StealingDequesCorrect == Spec => []DequesAreWindows
<1>1. StealingInv => DequesAreWindows
  BY DEF StealingInv, DequesOK, Window, DequesAreWindows
<1> QED BY <1>1, StealingInvariant, PTL

(* When pny_mn_stop has returned, and when the scheduler is destroyed, no  *)
(* worker thread runs and none holds a message.                            *)
THEOREM StealingStopCorrect == Spec => []StoppedMeansStopped
<1>1. StealingInv => StoppedMeansStopped
  <2> SUFFICES ASSUME StealingInv, At(Host, "destroyed") \/ (At(Host, "host") /\ ~Started),
                      NEW w \in Workers
               PROVE  pc[w] \in {"none", "exited"} /\ hand[w] = Null
    BY DEF StoppedMeansStopped
  <2>1. w \in Threads /\ Local(w)
    BY ThreadSets DEF StealingInv, ControlInv, ControlType
  <2>2. ~Active(w)
    BY DEF StealingInv, ControlInv, HostOK, At, Started
  <2> QED BY <2>1, <2>2 DEF Active, Local, Busy
<1> QED BY <1>1, StealingInvariant, PTL

(* The scheduler implements the pool of tasks: an accepted message waits   *)
(* in one deque, is in the hands of one thread, is freed once, through     *)
(* overflow, refusal, theft, a tick of the host, stop and destruction.     *)
THEOREM StealingImplementsPool == Spec => ImplementsPool
<1>1. Init => Pool!Init
  <2> SUFFICES ASSUME Init PROVE Pool!Init
    OBVIOUS
  <2>1. \A q \in Threads, i \in Slots : deque[q].items[i] = Null
    BY EmptyLemma DEF Init
  <2>2. ControlInv /\ OnePlace
    BY StealingInit DEF StealingInv
  <2>3. Queued = {}
    BY <2>1, <2>2, QueuedLemma DEF InDeque
  <2> QED BY <2>3 DEF Init, Pool!Init
<1>2. StealingInv /\ StealingInv' /\ [Next]_vars => [Pool!Next]_(Pool!poolVars)
  BY StealingNext, PoolRefines
<1> QED BY <1>1, <1>2, StealingInvariant, PTL DEF Spec, ImplementsPool, Pool!Spec
=============================================================================
