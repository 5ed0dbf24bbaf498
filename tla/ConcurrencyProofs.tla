------------------------- MODULE ConcurrencyProofs --------------------------
(***************************************************************************)
(* Proofs about what threads share beside the actors' ticks, and about the *)
(* containers they use.  Channels and promises: typing, first-in first-out,*)
(* that no wake up is lost, and that a callback runs once and with the     *)
(* value of its promise.  The extensions of the scheduler: the pool of I/O *)
(* threads implements TaskPool and leaves no accepted task behind, the     *)
(* queue by priority and the list of references keep order and count, and  *)
(* the links of the scheduler's list stay right.  The standard library:    *)
(* rings that grow and wrap are queues, chains and arrays are the sets and *)
(* sequences they stand for, and the linked list is its sequence in both   *)
(* directions, the bubble sort included.  All for any number of threads,   *)
(* slots, tasks, calls, messages, references, actors and elements.         *)
(***************************************************************************)
EXTENDS Concurrency, Scheduling, Containers, ListFacts


-----------------------------------------------------------------------------
(* Channels.                                                               *)

States == {"idle", "send", "recv", "not_full", "not_empty"}

(* The slot of the i-th item of a ring that begins at h, and the items.    *)
Place(h, i) == (h + i - 1) % ChanCap
Ring == [i \in 1 .. chLen |-> chBuf[Place(chHead, i)]]

(* A sender holds an item, and so does every slot of the ring: the pointer *)
(* that is handed out is never NULL.                                       *)
Loaded ==
    /\ \A t \in ChanThreads : chPc[t] \in {"send", "not_full"} => chItem[t] # 0
    /\ \A i \in 1 .. chLen : chBuf[Place(chHead, i)] # 0

ChannelInv == ChannelTypeOK /\ Loaded /\ ChannelFifo

(* Where a position of the ring lies, the ring once wrapped around.        *)
LEMMA WrapLemma ==
    ASSUME NEW x \in 0 .. 2 * ChanCap - 1
    PROVE  x % ChanCap = IF x < ChanCap THEN x ELSE x - ChanCap
<1>1. ChanCap \in Nat /\ ChanCap > 0 /\ x \in Nat
  BY ChanAssumption
<1> DEFINE q == x \div ChanCap
           r == x % ChanCap
<1>2. q \in Int /\ r \in 0 .. ChanCap - 1 /\ x = ChanCap * q + r
  BY <1>1
<1> HIDE DEF q, r
<1>3. ~(q <= -1)
  <2>1. q <= -1 => ChanCap * q <= -ChanCap
    BY <1>1, <1>2
  <2> QED BY <1>1, <1>2, <2>1
<1>4. ~(q >= 2)
  <2>1. q >= 2 => ChanCap * q >= 2 * ChanCap
    BY <1>1, <1>2
  <2> QED BY <1>1, <1>2, <2>1
<1>5. q = 0 \/ q = 1
  BY <1>2, <1>3, <1>4
<1>6. r = IF x < ChanCap THEN x ELSE x - ChanCap
  BY <1>1, <1>2, <1>5
<1> QED BY <1>6 DEF r

LEMMA PlaceLemma ==
    ASSUME NEW h \in ChanSlots, NEW i \in 1 .. ChanCap + 1
    PROVE  /\ Place(h, i) = IF h + i - 1 < ChanCap THEN h + i - 1 ELSE h + i - 1 - ChanCap
           /\ Place(h, i) \in ChanSlots
<1>1. h + i - 1 \in 0 .. 2 * ChanCap - 1
  BY ChanAssumption DEF ChanSlots
<1> QED BY <1>1, WrapLemma, ChanAssumption DEF Place, ChanSlots

(* The ring one further: the place after the i-th, and the i-th of a ring  *)
(* that begins later.                                                      *)
LEMMA NextPlace ==
    ASSUME NEW h \in ChanSlots
    PROVE  /\ (h + 1) % ChanCap = Place(h, 2)
           /\ \A i \in 1 .. ChanCap : Place(Place(h, 2), i) = Place(h, i + 1)
           /\ \A i \in 1 .. ChanCap : Place(Place(h, i), 2) = Place(h, i + 1)
           /\ \A i, j \in 1 .. ChanCap : Place(h, i) = Place(h, j) => i = j
<1> DEFINE P(k, i) == IF k + i - 1 < ChanCap THEN k + i - 1 ELSE k + i - 1 - ChanCap
<1>0. h \in 0 .. ChanCap - 1 /\ ChanCap \in Nat /\ ChanCap >= 1
  BY ChanAssumption DEF ChanSlots
<1>1. (h + 1) % ChanCap = Place(h, 2)
  BY <1>0 DEF Place
<1>2. \A k \in ChanSlots : \A i \in 1 .. ChanCap + 1 : Place(k, i) = P(k, i) /\ P(k, i) \in ChanSlots
  BY PlaceLemma
<1> HIDE DEF P
<1>r. 2 \in 1 .. ChanCap + 1 /\ \A i \in 1 .. ChanCap : i \in 1 .. ChanCap + 1 /\ i + 1 \in 1 .. ChanCap + 1
  BY <1>0
<1>3. ASSUME NEW i \in 1 .. ChanCap PROVE Place(Place(h, 2), i) = Place(h, i + 1)
  <2>1. Place(h, 2) = P(h, 2) /\ Place(h, i + 1) = P(h, i + 1) /\ Place(P(h, 2), i) = P(P(h, 2), i)
    BY <1>2, <1>r
  <2>2. P(P(h, 2), i) = P(h, i + 1)
    BY <1>0 DEF P
  <2> QED BY <2>1, <2>2
<1>4. ASSUME NEW i \in 1 .. ChanCap PROVE Place(Place(h, i), 2) = Place(h, i + 1)
  <2>1. Place(h, i) = P(h, i) /\ Place(h, i + 1) = P(h, i + 1) /\ Place(P(h, i), 2) = P(P(h, i), 2)
    BY <1>2, <1>r
  <2>2. P(P(h, i), 2) = P(h, i + 1)
    BY <1>0 DEF P
  <2> QED BY <2>1, <2>2
<1>5. ASSUME NEW i \in 1 .. ChanCap, NEW j \in 1 .. ChanCap, Place(h, i) = Place(h, j) PROVE i = j
  <2>1. P(h, i) = P(h, j)
    BY <1>2, <1>5, <1>r
  <2> QED BY <1>0, <2>1 DEF P
<1> QED BY <1>1, <1>3, <1>4, <1>5

LEMMA InvInit == ChannelInit => ChannelInv
<1> SUFFICES ASSUME ChannelInit PROVE ChannelInv
  OBVIOUS
<1>1. chLen = 0 /\ chSent = <<>> /\ chRecvd = <<>> /\ chHead = 0 /\ chTail = 0
  BY DEF ChannelInit
<1>2. ChannelTypeOK
  <2>1. chBuf \in [ChanSlots -> 0 .. ChanSends] /\ chItem \in [ChanThreads -> 0 .. ChanSends]
    BY ChanAssumption DEF ChannelInit
  <2>2. chHead \in ChanSlots /\ chTail \in ChanSlots /\ chLen \in 0 .. ChanCap
    BY <1>1, ChanAssumption DEF ChanSlots
  <2>3. chSent \in Seq(1 .. ChanSends) /\ chRecvd \in Seq(1 .. ChanSends)
    BY <1>1
  <2>4. chCalls \in [send : 0 .. ChanSends, recv : 0 .. ChanRecvs]
    BY ChanAssumption DEF ChannelInit
  <2>5. chClosed \in BOOLEAN /\ chPc \in [ChanThreads -> {"idle", "send", "recv", "not_full", "not_empty"}]
    BY DEF ChannelInit
  <2> QED BY <2>1, <2>2, <2>3, <2>4, <2>5 DEF ChannelTypeOK
<1>3. Loaded
  BY <1>1 DEF ChannelInit, Loaded
<1>4. chTail = (chHead + chLen) % ChanCap
  <2>1. 0 \in 0 .. 2 * ChanCap - 1 /\ 0 < ChanCap
    BY ChanAssumption
  <2> QED BY <1>1, <2>1, WrapLemma
<1>5. [i \in 1 .. chLen |-> chBuf[(chHead + i - 1) % ChanCap]] = <<>>
  BY <1>1
<1>6. ChannelFifo
  BY <1>1, <1>4, <1>5 DEF ChannelFifo
<1> QED BY <1>2, <1>3, <1>6 DEF ChannelInv

(* A signal lets one waiter go on, or changes nothing.                     *)
LEMMA SignalLemma ==
    ASSUME NEW pcs \in [ChanThreads -> States], NEW waiting \in SUBSET ChanThreads, NEW op \in States,
           NEW next \in Signalled(pcs, waiting, op)
    PROVE  /\ next \in [ChanThreads -> States]
           /\ waiting = {} => next = pcs
           /\ waiting # {} => \E w \in waiting : next = [pcs EXCEPT ![w] = op]
  BY DEF Signalled

-----------------------------------------------------------------------------
(* What the steps that move items do to the ring and the histories.        *)
LEMMA RingType ==
    ASSUME ChannelInv
    PROVE  /\ Ring \in Seq(1 .. ChanSends) /\ Len(Ring) = chLen
           /\ \A i \in 1 .. chLen : Ring[i] = chBuf[Place(chHead, i)] /\ Ring[i] \in 1 .. ChanSends
           /\ chSent = chRecvd \o Ring
           /\ chTail = Place(chHead, chLen + 1)
<1>0. /\ chHead \in ChanSlots /\ chLen \in 0 .. ChanCap /\ chBuf \in [ChanSlots -> 0 .. ChanSends]
      /\ ChanCap \in Nat
  BY ChanAssumption DEF ChannelInv, ChannelTypeOK
<1>1. ASSUME NEW i \in 1 .. chLen PROVE chBuf[Place(chHead, i)] \in 1 .. ChanSends
  <2>1. Place(chHead, i) \in ChanSlots
    BY <1>0, PlaceLemma
  <2>2. chBuf[Place(chHead, i)] \in 0 .. ChanSends /\ chBuf[Place(chHead, i)] # 0
    BY <1>0, <2>1 DEF ChannelInv, Loaded
  <2> QED BY <2>2, ChanAssumption
<1>2. chLen + 1 - 1 = chLen /\ chHead + (chLen + 1) - 1 = chHead + chLen
  BY <1>0, ChanAssumption DEF ChanSlots
<1>3. chTail = Place(chHead, chLen + 1)
  BY <1>2 DEF ChannelInv, ChannelFifo, Place
<1>4. chSent = chRecvd \o Ring
  BY DEF ChannelInv, ChannelFifo, Ring, Place
<1> QED BY <1>0, <1>1, <1>3, <1>4 DEF Ring

LEMMA PutLemma ==
    ASSUME ChannelInv, NEW t \in ChanThreads, SendPut(t)
    PROVE  /\ chBuf' \in [ChanSlots -> 0 .. ChanSends] /\ chTail' \in ChanSlots /\ chLen' \in 0 .. ChanCap
           /\ chSent' \in Seq(1 .. ChanSends)
           /\ \A i \in 1 .. chLen' : chBuf'[Place(chHead', i)] # 0
           /\ ChannelFifo'
<1>0. /\ chHead \in ChanSlots /\ chLen \in 0 .. ChanCap - 1 /\ chBuf \in [ChanSlots -> 0 .. ChanSends]
      /\ ChanCap \in Nat \ {0} /\ chItem[t] \in 1 .. ChanSends /\ chHead' = chHead /\ chLen' = chLen + 1
      /\ chSent \in Seq(1 .. ChanSends) /\ chRecvd \in Seq(1 .. ChanSends) /\ chRecvd' = chRecvd
      /\ chSent' = Append(chSent, chItem[t]) /\ chBuf' = [chBuf EXCEPT ![chTail] = chItem[t]]
      /\ chTail' = (chTail + 1) % ChanCap /\ chTail \in ChanSlots
  BY ChanAssumption DEF ChannelInv, ChannelTypeOK, Loaded, SendPut
<1>1. chTail = Place(chHead, chLen + 1)
  BY RingType
<1>2. chTail' = Place(chHead, chLen + 2) /\ chTail' \in ChanSlots
  <2>0. /\ chLen + 1 \in 1 .. ChanCap /\ chLen + 2 \in 1 .. ChanCap + 1
        /\ chTail \in ChanSlots /\ chHead \in ChanSlots /\ chTail' = (chTail + 1) % ChanCap
    BY <1>0
  <2>1. chTail' = Place(chTail, 2)
    BY <2>0, NextPlace
  <2>2. Place(chTail, 2) = Place(chHead, (chLen + 1) + 1)
    BY <1>1, <2>0, NextPlace
  <2>3. Place(chHead, chLen + 2) \in ChanSlots /\ (chLen + 1) + 1 = chLen + 2
    BY <1>0, <2>0, PlaceLemma
  <2> QED BY <2>1, <2>2, <2>3
<1>3. chBuf'[Place(chHead, chLen + 1)] = chItem[t]
  BY <1>0, <1>1
<1>4. ASSUME NEW i \in 1 .. chLen PROVE chBuf'[Place(chHead, i)] = chBuf[Place(chHead, i)]
  <2>0. i \in 1 .. ChanCap /\ i \in 1 .. ChanCap + 1 /\ chLen + 1 \in 1 .. ChanCap /\ i # chLen + 1
        /\ chHead \in ChanSlots
    BY <1>0
  <2>1. Place(chHead, i) # Place(chHead, chLen + 1) /\ Place(chHead, i) \in ChanSlots
    BY <2>0, NextPlace, PlaceLemma
  <2> QED BY <1>0, <1>1, <2>1
<1>5. \A i \in 1 .. chLen' : chBuf'[Place(chHead', i)] # 0
  <2> SUFFICES ASSUME NEW i \in 1 .. chLen + 1 PROVE chBuf'[Place(chHead, i)] # 0
    BY <1>0
  <2>1. CASE i = chLen + 1
    BY <1>0, <1>3, <2>1
  <2>2. CASE i \in 1 .. chLen
    BY <1>4, <2>2 DEF ChannelInv, Loaded
  <2> QED BY <1>0, <2>1, <2>2
<1>6. Ring' = Append(Ring, chItem[t])
  <2>1. Ring' = [i \in 1 .. chLen + 1 |-> chBuf'[Place(chHead, i)]]
    BY <1>0 DEF Ring
  <2>2. ASSUME NEW i \in 1 .. chLen PROVE Ring'[i] = Ring[i]
    <3>1. i \in 1 .. chLen + 1
      BY <1>0
    <3>2. Ring[i] = chBuf[Place(chHead, i)]
      BY RingType
    <3> QED BY <1>4, <2>1, <3>1, <3>2
  <2>3. Ring'[chLen + 1] = chItem[t]
    <3>1. chLen + 1 \in 1 .. chLen + 1
      BY <1>0
    <3> QED BY <1>3, <2>1, <3>1
  <2>4. PICK r : r = Ring
    OBVIOUS
  <2>5. PICK x \in 1 .. ChanSends : x = chItem[t]
    BY <1>0
  <2>6. PICK m \in Nat : m = chLen
    BY <1>0
  <2>7. r \in Seq(1 .. ChanSends) /\ Len(r) = m
    BY <2>4, <2>6, RingType
  <2>8. PICK u : u = Ring'
    OBVIOUS
  <2>9. u \in [1 .. m + 1 -> 1 .. ChanSends]
    <3>1. \A i \in 1 .. chLen + 1 : Ring'[i] \in 1 .. ChanSends
      <4>1. ASSUME NEW i \in 1 .. chLen + 1 PROVE Ring'[i] \in 1 .. ChanSends
        <5>1. CASE i \in 1 .. chLen
          BY <2>2, <5>1, RingType
        <5>2. CASE i = chLen + 1
          BY <1>0, <2>3, <5>2
        <5> QED BY <1>0, <5>1, <5>2
      <4> QED BY <4>1
    <3>2. DOMAIN Ring' = 1 .. chLen + 1 /\ Ring' = [i \in DOMAIN Ring' |-> Ring'[i]]
      BY <2>1
    <3> QED BY <2>6, <2>8, <3>1, <3>2
  <2>10. \A i \in 1 .. m : u[i] = r[i]
    BY <2>2, <2>4, <2>6, <2>8
  <2>11. u[m + 1] = x
    BY <2>3, <2>5, <2>6, <2>8
  <2>12. u = Append(r, x)
    BY <2>7, <2>9, <2>10, <2>11, AppendIs
  <2> QED BY <2>4, <2>5, <2>8, <2>12
<1>7. chSent' = chRecvd' \o Ring'
  <2>1. PICK r, x, c : r = Ring /\ x = chItem[t] /\ c = chRecvd
    OBVIOUS
  <2>2. x \in 1 .. ChanSends /\ r \in Seq(1 .. ChanSends) /\ c \in Seq(1 .. ChanSends)
    <3>1. Ring \in Seq(1 .. ChanSends)
      BY RingType
    <3> QED BY <1>0, <2>1, <3>1
  <2>3. chSent = c \o r
    BY <2>1, RingType
  <2>4. chSent' = Append(chSent, x) /\ chSent \in Seq(1 .. ChanSends) /\ chRecvd' = c
    BY <1>0, <2>1
  <2>5. chSent' = (c \o r) \o <<x>>
    BY <2>2, <2>3, <2>4, AppendIsConcat
  <2>6. Ring' = r \o <<x>>
    BY <1>6, <2>1, <2>2, AppendIsConcat
  <2>7. PICK S : S = 1 .. ChanSends
    OBVIOUS
  <2>8. c \in Seq(S) /\ r \in Seq(S) /\ <<x>> \in Seq(S)
    BY <2>2, <2>7
  <2>9. (c \o r) \o <<x>> = c \o (r \o <<x>>)
    BY <2>8, ConcatAssociative
  <2> HIDE DEF Ring
  <2> QED BY <2>4, <2>5, <2>6, <2>9
<1>8. chTail' = (chHead' + chLen') % ChanCap
  <2>1. chHead + (chLen + 2) - 1 = chHead + (chLen + 1)
    BY <1>0 DEF ChanSlots
  <2> QED BY <1>0, <1>2, <2>1 DEF Place
<1>9. ChannelFifo'
  BY <1>7, <1>8 DEF ChannelFifo, Ring, Place
<1>10. chBuf' \in [ChanSlots -> 0 .. ChanSends] /\ chLen' \in 0 .. ChanCap /\ chSent' \in Seq(1 .. ChanSends)
  BY <1>0
<1> QED BY <1>2, <1>5, <1>9, <1>10

LEMMA TakeLemma ==
    ASSUME ChannelInv, NEW t \in ChanThreads, RecvTake(t)
    PROVE  /\ chBuf' \in [ChanSlots -> 0 .. ChanSends] /\ chHead' \in ChanSlots /\ chLen' \in 0 .. ChanCap
           /\ chRecvd' \in Seq(1 .. ChanSends)
           /\ \A i \in 1 .. chLen' : chBuf'[Place(chHead', i)] # 0
           /\ ChannelFifo'
<1>0. /\ chHead \in ChanSlots /\ chLen \in 1 .. ChanCap /\ chBuf \in [ChanSlots -> 0 .. ChanSends]
      /\ ChanCap \in Nat \ {0} /\ chLen' = chLen - 1
      /\ chSent \in Seq(1 .. ChanSends) /\ chRecvd \in Seq(1 .. ChanSends) /\ chSent' = chSent
      /\ chRecvd' = Append(chRecvd, chBuf[chHead]) /\ chBuf' = [chBuf EXCEPT ![chHead] = 0]
      /\ chHead' = (chHead + 1) % ChanCap /\ chTail' = chTail
  BY ChanAssumption DEF ChannelInv, ChannelTypeOK, RecvTake
<1>1. chHead' = Place(chHead, 2) /\ chHead' \in ChanSlots
  <2>1. 2 \in 1 .. ChanCap + 1 /\ chHead \in ChanSlots
    BY <1>0
  <2>2. chHead' = Place(chHead, 2)
    BY <1>0, NextPlace
  <2> QED BY <2>1, <2>2, PlaceLemma
<1>2. Place(chHead, 1) = chHead
  <2>1. 1 \in 1 .. ChanCap + 1 /\ chHead + 1 - 1 = chHead /\ chHead < ChanCap
    BY <1>0 DEF ChanSlots
  <2> QED BY <1>0, <2>1, PlaceLemma
<1>3. chBuf[chHead] = Ring[1] /\ Ring[1] \in 1 .. ChanSends
  BY <1>0, <1>2, RingType
<1>4. ASSUME NEW i \in 1 .. chLen - 1
      PROVE  i + 1 \in 1 .. chLen /\ chBuf'[Place(chHead', i)] = Ring[i + 1]
  <2>0. /\ i \in 1 .. ChanCap /\ i + 1 \in 1 .. ChanCap /\ i + 1 \in 1 .. chLen /\ 1 \in 1 .. ChanCap
        /\ i + 1 # 1 /\ i + 1 \in 1 .. ChanCap + 1
    BY <1>0
  <2>1. Place(chHead', i) = Place(chHead, i + 1)
    BY <1>0, <1>1, <2>0, NextPlace
  <2>2. Place(chHead, i + 1) # chHead /\ Place(chHead, i + 1) \in ChanSlots
    <3>1. chHead \in ChanSlots
      BY <1>0
    <3>2. \A k, j \in 1 .. ChanCap : Place(chHead, k) = Place(chHead, j) => k = j
      BY <3>1, NextPlace
    <3>3. Place(chHead, i + 1) # Place(chHead, 1)
      BY <2>0, <3>2
    <3> QED BY <1>2, <2>0, <3>1, <3>3, PlaceLemma
  <2>3. chBuf'[Place(chHead, i + 1)] = chBuf[Place(chHead, i + 1)]
    BY <1>0, <2>2
  <2>4. chBuf[Place(chHead, i + 1)] = Ring[i + 1]
    BY <2>0, RingType
  <2> QED BY <2>0, <2>1, <2>3, <2>4
<1>5. \A i \in 1 .. chLen' : chBuf'[Place(chHead', i)] # 0
  BY <1>0, <1>4, RingType
<1>6. Ring' \in Seq(1 .. ChanSends) /\ Ring = <<Ring[1]>> \o Ring'
  <2>1. Ring' = [i \in 1 .. chLen - 1 |-> chBuf'[Place(chHead', i)]]
    BY <1>0 DEF Ring
  <2>2. \A i \in 1 .. chLen - 1 : Ring'[i] = Ring[i + 1] /\ Ring'[i] \in 1 .. ChanSends
    BY <1>4, <2>1, RingType
  <2>3. Ring' \in Seq(1 .. ChanSends) /\ Len(Ring') = chLen - 1
    BY <1>0, <2>1, <2>2
  <2>4. <<Ring[1]>> \in Seq(1 .. ChanSends) /\ Len(<<Ring[1]>>) = 1 /\ <<Ring[1]>>[1] = Ring[1]
    BY <1>3
  <2>5. /\ <<Ring[1]>> \o Ring' \in Seq(1 .. ChanSends)
        /\ Len(<<Ring[1]>> \o Ring') = chLen
        /\ \A i \in 1 .. chLen : (<<Ring[1]>> \o Ring')[i] = IF i <= 1 THEN Ring[1] ELSE Ring'[i - 1]
    BY <1>0, <2>3, <2>4, ConcatProperties
  <2>6. ASSUME NEW i \in 1 .. chLen PROVE Ring[i] = (<<Ring[1]>> \o Ring')[i]
    <3>1. CASE i = 1
      BY <2>5, <3>1
    <3>2. CASE i # 1
      <4>1. i - 1 \in 1 .. chLen - 1 /\ (i - 1) + 1 = i /\ ~(i <= 1)
        BY <1>0, <3>2
      <4>2. Ring'[i - 1] = Ring[(i - 1) + 1]
        BY <2>2, <4>1
      <4> QED BY <2>5, <4>1, <4>2
    <3> QED BY <3>1, <3>2
  <2> QED BY <2>3, <2>5, <2>6, RingType, SeqEqual
<1>7. chRecvd' \in Seq(1 .. ChanSends) /\ chSent' = chRecvd' \o Ring'
  <2>1. chRecvd' = chRecvd \o <<Ring[1]>> /\ chRecvd' \in Seq(1 .. ChanSends)
    <3>1. /\ chRecvd \in Seq(1 .. ChanSends) /\ Ring[1] \in 1 .. ChanSends
          /\ chRecvd' = Append(chRecvd, Ring[1])
      BY <1>0, <1>3
    <3>2. Append(chRecvd, Ring[1]) = chRecvd \o <<Ring[1]>>
      BY <3>1, AppendIsConcat
    <3>3. Append(chRecvd, Ring[1]) \in Seq(1 .. ChanSends)
      BY <3>1, AppendProperties
    <3> QED BY <3>1, <3>2, <3>3
  <2>2. chSent = chRecvd \o (<<Ring[1]>> \o Ring')
    BY <1>6, RingType
  <2>3. <<Ring[1]>> \in Seq(1 .. ChanSends)
    BY <1>3
  <2>4. chRecvd \in Seq(1 .. ChanSends) /\ Ring' \in Seq(1 .. ChanSends) /\ chSent' = chSent
    BY <1>0, <1>6
  <2>5. (chRecvd \o <<Ring[1]>>) \o Ring' = chRecvd \o (<<Ring[1]>> \o Ring')
    BY <2>3, <2>4, ConcatAssociative
  <2> QED BY <2>1, <2>2, <2>4, <2>5
<1>8. chTail' = (chHead' + chLen') % ChanCap
  <2>1. chTail' = Place(chHead', chLen)
    BY <1>0, <1>1, RingType, NextPlace
  <2>2. chHead' + chLen - 1 = chHead' + chLen'
    BY <1>0, <1>1 DEF ChanSlots
  <2> QED BY <2>1, <2>2 DEF Place
<1>9. ChannelFifo'
  BY <1>7, <1>8 DEF ChannelFifo, Ring, Place
<1>10. chBuf' \in [ChanSlots -> 0 .. ChanSends] /\ chLen' \in 0 .. ChanCap
  BY <1>0, ChanAssumption
<1> QED BY <1>1, <1>5, <1>7, <1>9, <1>10

-----------------------------------------------------------------------------
(* Steps that leave the ring and the histories alone keep the order.       *)
LEMMA FifoKept ==
    ASSUME ChannelInv, UNCHANGED <<chBuf, chHead, chTail, chLen, chSent, chRecvd>>
    PROVE  ChannelFifo' /\ \A i \in 1 .. chLen' : chBuf'[Place(chHead', i)] # 0
<1>1. Ring' = Ring
  BY DEF Ring
<1>2. chSent' = chRecvd' \o Ring'
  BY <1>1, RingType
<1>3. ChannelFifo'
  BY <1>2 DEF ChannelInv, ChannelFifo, Ring, Place
<1> QED BY <1>3 DEF ChannelInv, Loaded

LEMMA InvStep == ChannelInv /\ [ChannelNext]_channelVars => ChannelInv'
<1> SUFFICES ASSUME ChannelInv, [ChannelNext]_channelVars PROVE ChannelInv'
  OBVIOUS
<1>t. ChannelTypeOK
  BY DEF ChannelInv
<1>h. \A t \in ChanThreads : chPc[t] \in {"send", "not_full"} => chItem[t] # 0
  BY DEF ChannelInv, Loaded
<1> USE ChanAssumption DEF States
<1>1. CASE UNCHANGED channelVars
  <2>1. ChannelFifo' /\ \A i \in 1 .. chLen' : chBuf'[Place(chHead', i)] # 0
    BY <1>1, FifoKept DEF channelVars
  <2>2. ChannelTypeOK'
    BY <1>1, <1>t DEF channelVars, ChannelTypeOK
  <2> QED BY <1>1, <1>h, <2>1, <2>2 DEF channelVars, ChannelInv, Loaded
<1>2. ASSUME NEW t \in ChanThreads, CallSend(t) PROVE ChannelInv'
  <2>1. ChannelFifo' /\ \A i \in 1 .. chLen' : chBuf'[Place(chHead', i)] # 0
    BY <1>2, FifoKept DEF CallSend
  <2>2. ChannelTypeOK'
    <3>0. chCalls.send \in 0 .. ChanSends /\ chCalls.send < ChanSends
      BY <1>2, <1>t DEF CallSend, ChannelTypeOK
    <3>1. chCalls' \in [send : 0 .. ChanSends, recv : 0 .. ChanRecvs]
      <4>1. chCalls.send + 1 \in 0 .. ChanSends
        BY <3>0
      <4>2. chCalls' = [chCalls EXCEPT !.send = chCalls.send + 1] /\ chCalls \in [send : 0 .. ChanSends, recv : 0 .. ChanRecvs]
        BY <1>2, <1>t DEF CallSend, ChannelTypeOK
      <4> QED BY <4>1, <4>2
    <3>2. chItem' \in [ChanThreads -> 0 .. ChanSends]
      BY <1>2, <1>t, <3>0 DEF CallSend, ChannelTypeOK
    <3>3. chPc' \in [ChanThreads -> States]
      BY <1>2, <1>t DEF CallSend, ChannelTypeOK
    <3> QED BY <1>2, <1>t, <3>1, <3>2, <3>3 DEF CallSend, ChannelTypeOK
  <2>3. \A u \in ChanThreads : chPc'[u] \in {"send", "not_full"} => chItem'[u] # 0
    BY <1>2, <1>t, <1>h DEF CallSend, ChannelTypeOK
  <2> QED BY <2>1, <2>2, <2>3 DEF ChannelInv, Loaded
<1>3. ASSUME NEW t \in ChanThreads, CallRecv(t) PROVE ChannelInv'
  <2>1. ChannelFifo' /\ \A i \in 1 .. chLen' : chBuf'[Place(chHead', i)] # 0
    BY <1>3, FifoKept DEF CallRecv
  <2>2. ChannelTypeOK'
    <3>0. chCalls.recv \in 0 .. ChanRecvs /\ chCalls.recv < ChanRecvs
      BY <1>3, <1>t DEF CallRecv, ChannelTypeOK
    <3>1. chCalls' \in [send : 0 .. ChanSends, recv : 0 .. ChanRecvs]
      <4>1. chCalls.recv + 1 \in 0 .. ChanRecvs
        BY <3>0
      <4>2. chCalls' = [chCalls EXCEPT !.recv = chCalls.recv + 1] /\ chCalls \in [send : 0 .. ChanSends, recv : 0 .. ChanRecvs]
        BY <1>3, <1>t DEF CallRecv, ChannelTypeOK
      <4> QED BY <4>1, <4>2
    <3>2. chItem' \in [ChanThreads -> 0 .. ChanSends]
      BY <1>3, <1>t DEF CallRecv, ChannelTypeOK
    <3>3. chPc' \in [ChanThreads -> States]
      BY <1>3, <1>t DEF CallRecv, ChannelTypeOK
    <3> QED BY <1>3, <1>t, <3>1, <3>2, <3>3 DEF CallRecv, ChannelTypeOK
  <2>3. \A u \in ChanThreads : chPc'[u] \in {"send", "not_full"} => chItem'[u] # 0
    BY <1>3, <1>t, <1>h DEF CallRecv, ChannelTypeOK
  <2> QED BY <2>1, <2>2, <2>3 DEF ChannelInv, Loaded
<1>4. ASSUME NEW t \in ChanThreads, SendWait(t) PROVE ChannelInv'
  <2>1. ChannelFifo' /\ \A i \in 1 .. chLen' : chBuf'[Place(chHead', i)] # 0
    BY <1>4, FifoKept DEF SendWait
  <2>2. ChannelTypeOK'
    BY <1>4, <1>t DEF SendWait, ChannelTypeOK
  <2>3. \A u \in ChanThreads : chPc'[u] \in {"send", "not_full"} => chItem'[u] # 0
    BY <1>4, <1>t, <1>h DEF SendWait, ChannelTypeOK
  <2> QED BY <2>1, <2>2, <2>3 DEF ChannelInv, Loaded
<1>5. ASSUME NEW t \in ChanThreads, SendRefused(t) PROVE ChannelInv'
  <2>1. ChannelFifo' /\ \A i \in 1 .. chLen' : chBuf'[Place(chHead', i)] # 0
    BY <1>5, FifoKept DEF SendRefused
  <2>2. ChannelTypeOK'
    BY <1>5, <1>t DEF SendRefused, ChannelTypeOK
  <2>3. \A u \in ChanThreads : chPc'[u] \in {"send", "not_full"} => chItem'[u] # 0
    BY <1>5, <1>t, <1>h DEF SendRefused, ChannelTypeOK
  <2> QED BY <2>1, <2>2, <2>3 DEF ChannelInv, Loaded
<1>6. ASSUME NEW t \in ChanThreads, RecvWait(t) PROVE ChannelInv'
  <2>1. ChannelFifo' /\ \A i \in 1 .. chLen' : chBuf'[Place(chHead', i)] # 0
    BY <1>6, FifoKept DEF RecvWait
  <2>2. ChannelTypeOK'
    BY <1>6, <1>t DEF RecvWait, ChannelTypeOK
  <2>3. \A u \in ChanThreads : chPc'[u] \in {"send", "not_full"} => chItem'[u] # 0
    BY <1>6, <1>t, <1>h DEF RecvWait, ChannelTypeOK
  <2> QED BY <2>1, <2>2, <2>3 DEF ChannelInv, Loaded
<1>7. ASSUME NEW t \in ChanThreads, RecvClosed(t) PROVE ChannelInv'
  <2>1. ChannelFifo' /\ \A i \in 1 .. chLen' : chBuf'[Place(chHead', i)] # 0
    BY <1>7, FifoKept DEF RecvClosed
  <2>2. ChannelTypeOK'
    BY <1>7, <1>t DEF RecvClosed, ChannelTypeOK
  <2>3. \A u \in ChanThreads : chPc'[u] \in {"send", "not_full"} => chItem'[u] # 0
    BY <1>7, <1>t, <1>h DEF RecvClosed, ChannelTypeOK
  <2> QED BY <2>1, <2>2, <2>3 DEF ChannelInv, Loaded
<1>8. ASSUME NEW t \in ChanThreads, Close(t) PROVE ChannelInv'
  <2>1. ChannelFifo' /\ \A i \in 1 .. chLen' : chBuf'[Place(chHead', i)] # 0
    BY <1>8, FifoKept DEF Close
  <2>2. ChannelTypeOK'
    BY <1>8, <1>t DEF Close, ChannelTypeOK, WaitNotFull, WaitNotEmpty
  <2>3. \A u \in ChanThreads : chPc'[u] \in {"send", "not_full"} => chItem'[u] # 0
    BY <1>8, <1>t, <1>h DEF Close, ChannelTypeOK, WaitNotFull, WaitNotEmpty
  <2> QED BY <2>1, <2>2, <2>3 DEF ChannelInv, Loaded
<1>9. ASSUME NEW t \in ChanThreads, WakeUp(t) PROVE ChannelInv'
  <2>1. ChannelFifo' /\ \A i \in 1 .. chLen' : chBuf'[Place(chHead', i)] # 0
    BY <1>9, FifoKept DEF WakeUp
  <2>2. ChannelTypeOK'
    BY <1>9, <1>t DEF WakeUp, ChannelTypeOK, WaitNotFull, WaitNotEmpty
  <2>3. \A u \in ChanThreads : chPc'[u] \in {"send", "not_full"} => chItem'[u] # 0
    BY <1>9, <1>t, <1>h DEF WakeUp, ChannelTypeOK, WaitNotFull, WaitNotEmpty
  <2> QED BY <2>1, <2>2, <2>3 DEF ChannelInv, Loaded
<1>10. ASSUME NEW t \in ChanThreads, SendPut(t) PROVE ChannelInv'
  <2> DEFINE pcs == [chPc EXCEPT ![t] = "idle"]
  <2>1. pcs \in [ChanThreads -> States] /\ WaitNotEmpty \in SUBSET ChanThreads /\ chPc' \in Signalled(pcs, WaitNotEmpty, "recv")
    BY <1>10, <1>t DEF SendPut, ChannelTypeOK, WaitNotEmpty
  <2> HIDE DEF pcs
  <2>2. chPc' = pcs \/ \E w \in WaitNotEmpty : chPc' = [pcs EXCEPT ![w] = "recv"]
    BY <2>1, SignalLemma
  <2>3. chPc' \in [ChanThreads -> States]
    BY <2>1, SignalLemma
  <2>4. \A u \in ChanThreads : chPc'[u] \in {"send", "not_full"} => u # t /\ chPc[u] \in {"send", "not_full"}
    BY <1>t, <1>10, <2>1, <2>2 DEF SendPut, ChannelTypeOK, WaitNotEmpty, pcs
  <2>5. ChannelTypeOK'
    <3>1. chItem' \in [ChanThreads -> 0 .. ChanSends]
      BY <1>10, <1>t DEF SendPut, ChannelTypeOK
    <3>2. /\ chBuf' \in [ChanSlots -> 0 .. ChanSends] /\ chTail' \in ChanSlots
          /\ chLen' \in 0 .. ChanCap /\ chSent' \in Seq(1 .. ChanSends)
      BY <1>10, PutLemma
    <3>3. /\ chHead' \in ChanSlots /\ chClosed' \in BOOLEAN /\ chRecvd' \in Seq(1 .. ChanSends)
          /\ chCalls' \in [send : 0 .. ChanSends, recv : 0 .. ChanRecvs]
      BY <1>10, <1>t DEF SendPut, ChannelTypeOK
    <3> QED BY <2>3, <3>1, <3>2, <3>3 DEF ChannelTypeOK
  <2>6. \A u \in ChanThreads : chPc'[u] \in {"send", "not_full"} => chItem'[u] # 0
    BY <1>10, <1>t, <1>h, <2>4 DEF SendPut, ChannelTypeOK
  <2> QED BY <1>10, <2>5, <2>6, PutLemma DEF ChannelInv, Loaded
<1>11. ASSUME NEW t \in ChanThreads, RecvTake(t) PROVE ChannelInv'
  <2> DEFINE pcs == [chPc EXCEPT ![t] = "idle"]
  <2>1. pcs \in [ChanThreads -> States] /\ WaitNotFull \in SUBSET ChanThreads /\ chPc' \in Signalled(pcs, WaitNotFull, "send")
    BY <1>11, <1>t DEF RecvTake, ChannelTypeOK, WaitNotFull
  <2> HIDE DEF pcs
  <2>2. chPc' = pcs \/ \E w \in WaitNotFull : chPc' = [pcs EXCEPT ![w] = "send"]
    BY <2>1, SignalLemma
  <2>3. chPc' \in [ChanThreads -> States]
    BY <2>1, SignalLemma
  <2>4. \A u \in ChanThreads : chPc'[u] \in {"send", "not_full"} => u # t /\ chPc[u] \in {"send", "not_full"}
    BY <1>t, <1>11, <2>1, <2>2 DEF RecvTake, ChannelTypeOK, WaitNotFull, pcs
  <2>5. ChannelTypeOK'
    BY <1>11, <1>t, <2>3, TakeLemma DEF RecvTake, ChannelTypeOK
  <2>6. \A u \in ChanThreads : chPc'[u] \in {"send", "not_full"} => chItem'[u] # 0
    BY <1>11, <1>t, <1>h, <2>4 DEF RecvTake, ChannelTypeOK
  <2> QED BY <1>11, <2>5, <2>6, TakeLemma DEF ChannelInv, Loaded
<1> QED BY <1>1, <1>2, <1>3, <1>4, <1>5, <1>6, <1>7, <1>8, <1>9, <1>10, <1>11 DEF ChannelNext, Running

LEMMA InvCorrect == ChannelSpec => []ChannelInv
  BY InvInit, InvStep, PTL DEF ChannelSpec

(* The channel, its ring and its threads stay well typed: the ring never   *)
(* over- or underflows.                                                    *)
THEOREM ChannelTypeCorrect == ChannelSpec => []ChannelTypeOK
<1>1. ChannelInv => ChannelTypeOK
  BY DEF ChannelInv
<1> QED BY <1>1, InvCorrect, PTL

(* What was sent is what was received followed by what the ring holds      *)
(* (pny_chan_send, pny_chan_recv), however the threads interleave.         *)
THEOREM ChannelIsFifo == ChannelSpec => []ChannelFifo
<1>1. ChannelInv => ChannelFifo
  BY DEF ChannelInv
<1> QED BY <1>1, InvCorrect, PTL
-----------------------------------------------------------------------------
(* Counting threads that want the mutex: there are finitely many.          *)
LEMMA Counted ==
    /\ IsFiniteSet(Senders) /\ Cardinality(Senders) \in Nat
    /\ IsFiniteSet(Receivers) /\ Cardinality(Receivers) \in Nat
<1>1. Senders \subseteq ChanThreads /\ Receivers \subseteq ChanThreads
  BY DEF Senders, Receivers
<1>2. IsFiniteSet(Senders) /\ IsFiniteSet(Receivers)
  BY <1>1, ChanAssumption, FS_Subset
<1> QED BY <1>2, FS_CardinalityType

(* A step of one thread that signals nobody: where t goes, the sets go.    *)
LEMMA Moves ==
    ASSUME chPc \in [ChanThreads -> States], NEW t \in ChanThreads, NEW s \in States,
           chPc' = [chPc EXCEPT ![t] = s]
    PROVE  /\ Senders' = IF s = "send" THEN Senders \cup {t} ELSE Senders \ {t}
           /\ Receivers' = IF s = "recv" THEN Receivers \cup {t} ELSE Receivers \ {t}
           /\ WaitNotFull' = IF s = "not_full" THEN WaitNotFull \cup {t} ELSE WaitNotFull \ {t}
           /\ WaitNotEmpty' = IF s = "not_empty" THEN WaitNotEmpty \cup {t} ELSE WaitNotEmpty \ {t}
<1>1. \A u \in ChanThreads : chPc'[u] = IF u = t THEN s ELSE chPc[u]
  OBVIOUS
<1> QED BY <1>1 DEF Senders, Receivers, WaitNotFull, WaitNotEmpty

(* SendPut takes t out of the senders and, if one waits, moves a receiver. *)
LEMMA PutMoves ==
    ASSUME ChannelTypeOK, NEW t \in ChanThreads, SendPut(t)
    PROVE  /\ t \in Senders /\ Senders' = Senders \ {t} /\ WaitNotFull' = WaitNotFull
           /\ \/ WaitNotEmpty' = {}
              \/ \E w \in WaitNotEmpty : /\ w \notin Receivers
                                         /\ Receivers' = Receivers \cup {w}
<1> DEFINE pcs == [chPc EXCEPT ![t] = "idle"]
<1>1. /\ chPc \in [ChanThreads -> States] /\ chPc[t] = "send"
      /\ chPc' \in Signalled(pcs, WaitNotEmpty, "recv")
  BY DEF SendPut, ChannelTypeOK, States
<1>2. CASE WaitNotEmpty = {}
  <2>1. chPc' = pcs
    BY <1>1, <1>2 DEF Signalled
  <2>2. \A u \in ChanThreads : chPc'[u] = IF u = t THEN "idle" ELSE chPc[u]
    BY <1>1, <2>1
  <2> QED BY <1>1, <1>2, <2>2 DEF Senders, WaitNotFull, WaitNotEmpty
<1>3. CASE WaitNotEmpty # {}
  <2>1. PICK w \in WaitNotEmpty : chPc' = [pcs EXCEPT ![w] = "recv"]
    BY <1>1, <1>3 DEF Signalled
  <2>2. w \in ChanThreads /\ chPc[w] = "not_empty" /\ w # t
    BY <1>1 DEF WaitNotEmpty
  <2>3. \A u \in ChanThreads : chPc'[u] = IF u = w THEN "recv" ELSE IF u = t THEN "idle" ELSE chPc[u]
    BY <1>1, <2>1, <2>2
  <2>4. Receivers' = Receivers \cup {w} /\ w \notin Receivers
    BY <1>1, <2>2, <2>3 DEF Receivers
  <2>5. t \in Senders /\ Senders' = Senders \ {t} /\ WaitNotFull' = WaitNotFull
    BY <1>1, <2>2, <2>3 DEF Senders, WaitNotFull
  <2> QED BY <2>4, <2>5
<1> QED BY <1>2, <1>3

(* RecvTake takes t out of the receivers and, if one waits, moves a sender. *)
LEMMA TakeMoves ==
    ASSUME ChannelTypeOK, NEW t \in ChanThreads, RecvTake(t)
    PROVE  /\ t \in Receivers /\ Receivers' = Receivers \ {t} /\ WaitNotEmpty' = WaitNotEmpty
           /\ \/ WaitNotFull' = {}
              \/ \E w \in WaitNotFull : /\ w \notin Senders
                                        /\ Senders' = Senders \cup {w}
<1> DEFINE pcs == [chPc EXCEPT ![t] = "idle"]
<1>1. /\ chPc \in [ChanThreads -> States] /\ chPc[t] = "recv"
      /\ chPc' \in Signalled(pcs, WaitNotFull, "send")
  BY DEF RecvTake, ChannelTypeOK, States
<1>2. CASE WaitNotFull = {}
  <2>1. chPc' = pcs
    BY <1>1, <1>2 DEF Signalled
  <2>2. \A u \in ChanThreads : chPc'[u] = IF u = t THEN "idle" ELSE chPc[u]
    BY <1>1, <2>1
  <2> QED BY <1>1, <1>2, <2>2 DEF Receivers, WaitNotFull, WaitNotEmpty
<1>3. CASE WaitNotFull # {}
  <2>1. PICK w \in WaitNotFull : chPc' = [pcs EXCEPT ![w] = "send"]
    BY <1>1, <1>3 DEF Signalled
  <2>2. w \in ChanThreads /\ chPc[w] = "not_full" /\ w # t
    BY <1>1 DEF WaitNotFull
  <2>3. \A u \in ChanThreads : chPc'[u] = IF u = w THEN "send" ELSE IF u = t THEN "idle" ELSE chPc[u]
    BY <1>1, <2>1, <2>2
  <2>4. Senders' = Senders \cup {w} /\ w \notin Senders
    BY <1>1, <2>2, <2>3 DEF Senders
  <2>5. t \in Receivers /\ Receivers' = Receivers \ {t} /\ WaitNotEmpty' = WaitNotEmpty
    BY <1>1, <2>2, <2>3 DEF Receivers, WaitNotEmpty
  <2> QED BY <2>4, <2>5
<1> QED BY <1>2, <1>3

LEMMA WakeupStep ==
    ASSUME ChannelTypeOK, NoLostWakeup, [ChannelNext]_channelVars
    PROVE  NoLostWakeup'
<1>t. /\ chPc \in [ChanThreads -> States] /\ chLen \in 0 .. ChanCap /\ ChanCap \in Nat \ {0}
      /\ chClosed \in BOOLEAN
  BY ChanAssumption DEF ChannelTypeOK, States
<1>c. /\ IsFiniteSet(Senders) /\ Cardinality(Senders) \in Nat
      /\ IsFiniteSet(Receivers) /\ Cardinality(Receivers) \in Nat
  BY Counted
<1>d. Cardinality(Senders') \in Nat /\ Cardinality(Receivers') \in Nat
  <2>1. Senders' \subseteq ChanThreads /\ Receivers' \subseteq ChanThreads
    BY DEF Senders, Receivers
  <2> QED BY <2>1, ChanAssumption, FS_Subset, FS_CardinalityType
<1>n. /\ WaitNotEmpty # {} => (~chClosed /\ chLen <= Cardinality(Receivers))
      /\ WaitNotFull # {} => (~chClosed /\ ChanCap - chLen <= Cardinality(Senders))
  BY DEF NoLostWakeup
<1>1. CASE UNCHANGED channelVars
  BY <1>1 DEF channelVars, NoLostWakeup, WaitNotEmpty, WaitNotFull, Senders, Receivers
<1>2. ASSUME NEW t \in ChanThreads, CallSend(t) PROVE NoLostWakeup'
  <2>1. t \notin Senders /\ Senders' = Senders \cup {t} /\ Receivers' = Receivers
    BY <1>2, <1>t, Moves DEF CallSend, States, Senders, Receivers
  <2>2. WaitNotEmpty' = WaitNotEmpty /\ WaitNotFull' = WaitNotFull /\ chLen' = chLen /\ chClosed' = chClosed
    BY <1>2, <1>t, Moves DEF CallSend, States, WaitNotEmpty, WaitNotFull
  <2>3. Cardinality(Senders') = Cardinality(Senders) + 1
    BY <1>c, <2>1, FS_AddElement
  <2> QED BY <1>t, <1>c, <1>n, <2>1, <2>2, <2>3 DEF NoLostWakeup
<1>3. ASSUME NEW t \in ChanThreads, CallRecv(t) PROVE NoLostWakeup'
  <2>1. t \notin Receivers /\ Receivers' = Receivers \cup {t} /\ Senders' = Senders
    BY <1>3, <1>t, Moves DEF CallRecv, States, Senders, Receivers
  <2>2. WaitNotEmpty' = WaitNotEmpty /\ WaitNotFull' = WaitNotFull /\ chLen' = chLen /\ chClosed' = chClosed
    BY <1>3, <1>t, Moves DEF CallRecv, States, WaitNotEmpty, WaitNotFull
  <2>3. Cardinality(Receivers') = Cardinality(Receivers) + 1
    BY <1>c, <2>1, FS_AddElement
  <2> QED BY <1>t, <1>c, <1>n, <2>1, <2>2, <2>3 DEF NoLostWakeup
<1>4. ASSUME NEW t \in ChanThreads, SendWait(t) PROVE NoLostWakeup'
  <2>1. Receivers' = Receivers /\ WaitNotEmpty' = WaitNotEmpty
    BY <1>4, <1>t, Moves DEF SendWait, States, Receivers, WaitNotEmpty
  <2>2. chLen' = chLen /\ chLen = ChanCap /\ ~chClosed' /\ chClosed' = chClosed
    BY <1>4 DEF SendWait
  <2> QED BY <1>t, <1>c, <1>d, <1>n, <2>1, <2>2 DEF NoLostWakeup
<1>5. ASSUME NEW t \in ChanThreads, SendRefused(t) PROVE NoLostWakeup'
  <2>1. WaitNotEmpty' = WaitNotEmpty /\ WaitNotFull' = WaitNotFull /\ chClosed
    BY <1>5, <1>t, Moves DEF SendRefused, States, WaitNotEmpty, WaitNotFull
  <2> QED BY <1>n, <2>1 DEF NoLostWakeup
<1>6. ASSUME NEW t \in ChanThreads, RecvWait(t) PROVE NoLostWakeup'
  <2>1. Senders' = Senders /\ WaitNotFull' = WaitNotFull
    BY <1>6, <1>t, Moves DEF RecvWait, States, Senders, WaitNotFull
  <2>2. chLen' = chLen /\ chLen = 0 /\ ~chClosed' /\ chClosed' = chClosed
    BY <1>6 DEF RecvWait
  <2> QED BY <1>t, <1>c, <1>d, <1>n, <2>1, <2>2 DEF NoLostWakeup
<1>7. ASSUME NEW t \in ChanThreads, RecvClosed(t) PROVE NoLostWakeup'
  <2>1. WaitNotEmpty' = WaitNotEmpty /\ WaitNotFull' = WaitNotFull /\ chClosed
    BY <1>7, <1>t, Moves DEF RecvClosed, States, WaitNotEmpty, WaitNotFull
  <2> QED BY <1>n, <2>1 DEF NoLostWakeup
<1>8. ASSUME NEW t \in ChanThreads, Close(t) PROVE NoLostWakeup'
  <2>1. \A u \in ChanThreads : chPc'[u] # "not_full" /\ chPc'[u] # "not_empty"
    BY <1>8, <1>t DEF Close, WaitNotFull, WaitNotEmpty
  <2>2. WaitNotEmpty' = {} /\ WaitNotFull' = {}
    BY <2>1 DEF WaitNotEmpty, WaitNotFull
  <2> QED BY <2>2 DEF NoLostWakeup
<1>9. ASSUME NEW t \in ChanThreads, WakeUp(t) PROVE NoLostWakeup'
  <2>0. chLen' = chLen /\ chClosed' = chClosed
    BY <1>9 DEF WakeUp
  <2>1. CASE t \in WaitNotFull
    <3>1. chPc' = [chPc EXCEPT ![t] = "send"]
      BY <1>9, <2>1 DEF WakeUp
    <3>2. /\ t \notin Senders /\ Senders' = Senders \cup {t} /\ Receivers' = Receivers
          /\ WaitNotEmpty' = WaitNotEmpty /\ WaitNotFull' \subseteq WaitNotFull
      BY <1>t, <2>1, <3>1, Moves DEF States, Senders, Receivers, WaitNotFull, WaitNotEmpty
    <3>3. Cardinality(Senders') = Cardinality(Senders) + 1
      BY <1>c, <3>2, FS_AddElement
    <3> QED BY <1>t, <1>c, <1>n, <2>0, <3>2, <3>3 DEF NoLostWakeup
  <2>2. CASE t \notin WaitNotFull
    <3>1. chPc' = [chPc EXCEPT ![t] = "recv"] /\ t \in WaitNotEmpty
      BY <1>9, <2>2 DEF WakeUp
    <3>2. /\ t \notin Receivers /\ Receivers' = Receivers \cup {t} /\ Senders' = Senders
          /\ WaitNotFull' = WaitNotFull /\ WaitNotEmpty' \subseteq WaitNotEmpty
      BY <1>t, <3>1, Moves DEF States, Senders, Receivers, WaitNotFull, WaitNotEmpty
    <3>3. Cardinality(Receivers') = Cardinality(Receivers) + 1
      BY <1>c, <3>2, FS_AddElement
    <3> QED BY <1>t, <1>c, <1>n, <2>0, <3>2, <3>3 DEF NoLostWakeup
  <2> QED BY <2>1, <2>2
<1>10. ASSUME NEW t \in ChanThreads, SendPut(t) PROVE NoLostWakeup'
  <2>1. chLen' = chLen + 1 /\ chClosed' = chClosed
    BY <1>10 DEF SendPut
  <2>2. /\ t \in Senders /\ Senders' = Senders \ {t} /\ WaitNotFull' = WaitNotFull
        /\ \/ WaitNotEmpty' = {}
           \/ \E w \in WaitNotEmpty : w \notin Receivers /\ Receivers' = Receivers \cup {w}
    BY <1>10, PutMoves
  <2>3. Cardinality(Senders') = Cardinality(Senders) - 1
    BY <1>c, <2>2, FS_RemoveElement
  <2>4. WaitNotFull' # {} => (~chClosed' /\ ChanCap - chLen' <= Cardinality(Senders'))
    BY <1>t, <1>c, <1>n, <2>1, <2>2, <2>3
  <2>5. WaitNotEmpty' # {} => (~chClosed' /\ chLen' <= Cardinality(Receivers'))
    <3>1. SUFFICES ASSUME WaitNotEmpty' # {} PROVE ~chClosed' /\ chLen' <= Cardinality(Receivers')
      OBVIOUS
    <3>2. PICK w \in WaitNotEmpty : w \notin Receivers /\ Receivers' = Receivers \cup {w}
      BY <2>2, <3>1
    <3>3. Cardinality(Receivers') = Cardinality(Receivers) + 1
      BY <1>c, <3>2, FS_AddElement
    <3> QED BY <1>t, <1>c, <1>n, <2>1, <3>2, <3>3
  <2> QED BY <2>4, <2>5 DEF NoLostWakeup
<1>11. ASSUME NEW t \in ChanThreads, RecvTake(t) PROVE NoLostWakeup'
  <2>1. chLen' = chLen - 1 /\ chClosed' = chClosed
    BY <1>11 DEF RecvTake
  <2>2. /\ t \in Receivers /\ Receivers' = Receivers \ {t} /\ WaitNotEmpty' = WaitNotEmpty
        /\ \/ WaitNotFull' = {}
           \/ \E w \in WaitNotFull : w \notin Senders /\ Senders' = Senders \cup {w}
    BY <1>11, TakeMoves
  <2>3. Cardinality(Receivers') = Cardinality(Receivers) - 1
    BY <1>c, <2>2, FS_RemoveElement
  <2>4. WaitNotEmpty' # {} => (~chClosed' /\ chLen' <= Cardinality(Receivers'))
    BY <1>t, <1>c, <1>n, <2>1, <2>2, <2>3
  <2>5. WaitNotFull' # {} => (~chClosed' /\ ChanCap - chLen' <= Cardinality(Senders'))
    <3>1. SUFFICES ASSUME WaitNotFull' # {} PROVE ~chClosed' /\ ChanCap - chLen' <= Cardinality(Senders')
      OBVIOUS
    <3>2. PICK w \in WaitNotFull : w \notin Senders /\ Senders' = Senders \cup {w}
      BY <2>2, <3>1
    <3>3. Cardinality(Senders') = Cardinality(Senders) + 1
      BY <1>c, <3>2, FS_AddElement
    <3> QED BY <1>t, <1>c, <1>n, <2>1, <3>2, <3>3
  <2> QED BY <2>4, <2>5 DEF NoLostWakeup
<1> QED BY <1>1, <1>2, <1>3, <1>4, <1>5, <1>6, <1>7, <1>8, <1>9, <1>10, <1>11 DEF ChannelNext, Running

(* No wake up is lost, for any number of threads: each send signals one    *)
(* receiver, each receive one sender, and close wakes them all.            *)
THEOREM WakeupsAreKept == ChannelSpec => []NoLostWakeup
<1>1. ChannelInit => NoLostWakeup
  BY DEF ChannelInit, NoLostWakeup, WaitNotEmpty, WaitNotFull
<1>2. NoLostWakeup /\ ChannelTypeOK /\ [ChannelNext]_channelVars => NoLostWakeup'
  BY WakeupStep
<1> QED BY <1>1, <1>2, ChannelTypeCorrect, PTL DEF ChannelSpec

-----------------------------------------------------------------------------
(* Promises.                                                               *)

PromiseStates == {"idle", "fulfill", "callback", "then_now", "then_callback", "then_ctx_left",
                  "then_callback_left", "waiting", "woken"}
Registering == {"then_callback", "then_ctx_left", "then_callback_left"}

PromiseTyped ==
    /\ PromiseTypeOK
    /\ prPc \in [PromiseThreads -> PromiseStates]
    /\ prThen \subseteq PromiseThreads /\ IsFiniteSet(prFulfilling)

(* Who is inside an operation has begun it; nothing was run, and nobody is *)
(* about to run anything, before the promise was done.                     *)
Begun ==
    /\ \A t \in PromiseThreads : prPc[t] \in {"fulfill", "callback"} => t \in prFulfilling
    /\ \A t \in PromiseThreads : prPc[t] \in {"then_now"} \cup Registering => t \in prThen
    /\ ~prDone => prRan = {} /\ \A t \in PromiseThreads : prPc[t] \notin {"callback", "then_now"}
    /\ prDone => prValue \in prFulfilling

(* A callback that ran, or that is stored, is one that then was given, and *)
(* its thread is not about to run it itself.                               *)
Given ==
    /\ \A r \in prRan : r[3] \in prThen /\ prPc[r[3]] # "then_now" /\ r[4] \in prFulfilling
    /\ prCallback # 0 => prCallback \in prThen /\ prPc[prCallback] # "then_now"

(* One thread fulfills: until it has run the callback, what ran is neither *)
(* stored nor about to be.                                                 *)
NothingTwice ==
    /\ \A u \in PromiseThreads : prPc[u] = "fulfill" => ~prDone
    /\ (\E u \in PromiseThreads : prPc[u] = "callback") =>
           \A r \in prRan : r[3] # prCallback /\ prPc[r[3]] \notin Registering
    /\ \A r, s \in prRan : r[3] = s[3] => r = s
OneFulfiller == (\A u, v \in prFulfilling : u = v) => NothingTwice

(* The only registration there is stays in force, and is run by whoever    *)
(* made the promise done.                                                  *)
InForce(t) ==
    /\ prPc[t] = "then_ctx_left" => prCallback = t
    /\ prPc[t] = "then_callback_left" => prCtx = t
    /\ t \in prEarly =>
           /\ prCallback = t /\ prCtx = t /\ prPc[t] \notin Registering
           /\ prDone => \/ \E u \in PromiseThreads : prPc[u] = "callback"
                        \/ \E r \in prRan : r[3] = t /\ r[5] = t
OnlyRegistration == \A t \in PromiseThreads : prThen = {t} => InForce(t)

PromiseInv == PromiseTyped /\ Begun /\ Given /\ OneFulfiller /\ OnlyRegistration /\ NobodyWaitsForDone

LEMMA PromiseInvKept ==
    PromiseInv => PromiseKept
<1> SUFFICES ASSUME PromiseInv PROVE PromiseKept
  OBVIOUS
<1>1. ASSUME Cardinality(prFulfilling) = 1
      PROVE  /\ RunsOf(0) = {}
             /\ \A r \in prRan : r[4] \in prFulfilling
             /\ \A cb \in PromiseThreads : Cardinality(RunsOf(cb)) <= 1
  <2>1. \A u, v \in prFulfilling : u = v
    <3>1. IsFiniteSet(prFulfilling)
      BY DEF PromiseInv, PromiseTyped
    <3>2. \E x : prFulfilling = {x}
      BY <1>1, <3>1, FS_Singleton
    <3> QED BY <3>2
  <2>2. RunsOf(0) = {}
    BY PromiseAssumption DEF PromiseInv, PromiseTyped, Given, RunsOf
  <2>3. ASSUME NEW cb \in PromiseThreads PROVE Cardinality(RunsOf(cb)) <= 1
    <3>1. \A r, s \in RunsOf(cb) : r = s
      BY <2>1 DEF PromiseInv, OneFulfiller, NothingTwice, RunsOf
    <3>2. CASE RunsOf(cb) = {}
      BY <3>2, FS_EmptySet
    <3>3. CASE RunsOf(cb) # {}
      <4>1. PICK r : RunsOf(cb) = {r}
        BY <3>1, <3>3
      <4>2. Cardinality(RunsOf(cb)) = 1
        BY <4>1, FS_Singleton
      <4> QED BY <4>2
    <3> QED BY <3>2, <3>3
  <2> QED BY <2>2, <2>3 DEF PromiseInv, Given
<1>2. EarlyCallbackRuns
  <2> SUFFICES ASSUME NEW t \in prEarly, prThen = {t}, prDone,
                      \A u \in PromiseThreads : prPc[u] \notin {"fulfill", "callback"}
               PROVE  \E r \in RunsOf(t) : r[5] = t
    BY DEF EarlyCallbackRuns
  <2>1. t \in PromiseThreads
    BY DEF PromiseInv, PromiseTyped
  <2> QED BY <2>1 DEF PromiseInv, OnlyRegistration, InForce, RunsOf
<1> QED BY <1>1, <1>2 DEF PromiseKept, CallbackAtMostOnce, PromiseInv

LEMMA PromiseInvInit == PromiseInit => PromiseInv
<1> SUFFICES ASSUME PromiseInit PROVE PromiseInv
  OBVIOUS
<1>1. PromiseTyped
  <2>1. PromiseTypeOK
    <3>1. prOps \in 0 .. PromiseOps
      BY PromiseAssumption DEF PromiseInit
    <3>2. prDone \in BOOLEAN /\ prFulfilling \subseteq PromiseThreads /\ prEarly \subseteq prThen
      BY DEF PromiseInit
    <3>3. prValue = 0 /\ prCallback = 0 /\ prCtx = 0
      BY DEF PromiseInit
    <3> QED BY <3>1, <3>2, <3>3 DEF PromiseTypeOK
  <2>2. IsFiniteSet(prFulfilling)
    BY FS_EmptySet DEF PromiseInit
  <2>3. prPc \in [PromiseThreads -> PromiseStates] /\ prThen \subseteq PromiseThreads
    BY DEF PromiseInit, PromiseStates
  <2> QED BY <2>1, <2>2, <2>3 DEF PromiseTyped
<1>2. Begun /\ Given /\ OneFulfiller /\ OnlyRegistration /\ NobodyWaitsForDone
  BY DEF PromiseInit, Begun, Given, OneFulfiller, NothingTwice, OnlyRegistration, InForce, NobodyWaitsForDone, Registering
<1> QED BY <1>1, <1>2 DEF PromiseInv

LEMMA FulfillTestStep ==
    ASSUME PromiseInv, NEW t \in PromiseThreads, FulfillTest(t)
    PROVE  PromiseInv'
<1> USE DEF FulfillTest, Goto, Begin
<1>1. PromiseTyped'
  <2>1. IsFiniteSet(prFulfilling')
    BY FS_AddElement DEF PromiseInv, PromiseTyped
  <2>2. prPc' \in [PromiseThreads -> PromiseStates] /\ prThen' \subseteq PromiseThreads
    BY DEF PromiseInv, PromiseTyped, PromiseStates
  <2>3. PromiseTypeOK'
    BY PromiseAssumption DEF PromiseInv, PromiseTyped, PromiseTypeOK, Begun, Registering
  <2> QED BY <2>1, <2>2, <2>3 DEF PromiseTyped
<1>2. Begun'
  BY DEF PromiseInv, PromiseTyped, PromiseStates, Begun, Registering
<1>3. Given'
  BY PromiseAssumption DEF PromiseInv, PromiseTyped, Begun, Given, Registering
<1>4. OneFulfiller'
  BY DEF PromiseInv, PromiseTyped, Begun, Given, OneFulfiller, NothingTwice, Registering
<1>5. OnlyRegistration'
  BY PromiseAssumption DEF PromiseInv, PromiseTyped, PromiseTypeOK, Begun, Given, OnlyRegistration, InForce, Registering
<1>6. NobodyWaitsForDone'
  BY DEF PromiseInv, PromiseTyped, NobodyWaitsForDone
<1> QED BY <1>1, <1>2, <1>3, <1>4, <1>5, <1>6 DEF PromiseInv

LEMMA FulfillStoreStep ==
    ASSUME PromiseInv, NEW t \in PromiseThreads, FulfillStore(t)
    PROVE  PromiseInv'
<1> USE DEF FulfillStore, Woken
<1>1. PromiseTyped'
  BY PromiseAssumption, FS_AddElement DEF PromiseInv, PromiseTyped, PromiseTypeOK, PromiseStates
<1>2. Begun'
  BY DEF PromiseInv, PromiseTyped, PromiseStates, Begun, Registering
<1>3. Given'
  BY PromiseAssumption DEF PromiseInv, PromiseTyped, Begun, Given, Registering
<1>4. OneFulfiller'
  BY DEF PromiseInv, PromiseTyped, Begun, Given, OneFulfiller, NothingTwice, Registering
<1>5. OnlyRegistration'
  BY PromiseAssumption DEF PromiseInv, PromiseTyped, PromiseTypeOK, Begun, Given, OnlyRegistration, InForce, Registering
<1>6. NobodyWaitsForDone'
  BY DEF PromiseInv, PromiseTyped, NobodyWaitsForDone
<1> QED BY <1>1, <1>2, <1>3, <1>4, <1>5, <1>6 DEF PromiseInv

LEMMA FulfillCallbackStep ==
    ASSUME PromiseInv, NEW t \in PromiseThreads, FulfillCallback(t)
    PROVE  PromiseInv'
<1> USE DEF FulfillCallback, Goto, Ran
<1>1. PromiseTyped'
  BY PromiseAssumption, FS_AddElement DEF PromiseInv, PromiseTyped, PromiseTypeOK, PromiseStates
<1>2. Begun'
  BY DEF PromiseInv, PromiseTyped, PromiseStates, Begun, Registering
<1>3. Given'
  BY PromiseAssumption DEF PromiseInv, PromiseTyped, Begun, Given, Registering
<1>4. OneFulfiller'
  BY DEF PromiseInv, PromiseTyped, Begun, Given, OneFulfiller, NothingTwice, Registering
<1>5. OnlyRegistration'
  <2> SUFFICES ASSUME NEW u \in PromiseThreads, prThen = {u}
               PROVE  InForce(u)'
    BY DEF OnlyRegistration
  <2>0. u # 0 /\ prThen' = prThen /\ prEarly' = prEarly
    BY PromiseAssumption
  <2>1. u \in prEarly => prCallback = u /\ prCtx = u
    BY <2>0 DEF PromiseInv, OnlyRegistration, InForce
  <2>2. u \in prEarly => \E r \in prRan' : r[3] = u /\ r[5] = u
    <3> DEFINE x == <<Cardinality(prRan), t, prCallback, prValue, prCtx>>
    <3>1. prCallback # 0 => x \in prRan' /\ x[3] = prCallback /\ x[5] = prCtx
      OBVIOUS
    <3> HIDE DEF x
    <3> QED BY <2>0, <2>1, <3>1
  <2> QED BY <2>1, <2>2 DEF PromiseInv, PromiseTyped, Begun, OnlyRegistration, InForce, Registering
<1>6. NobodyWaitsForDone'
  BY DEF PromiseInv, PromiseTyped, NobodyWaitsForDone
<1> QED BY <1>1, <1>2, <1>3, <1>4, <1>5, <1>6 DEF PromiseInv

LEMMA ThenTestStep ==
    ASSUME PromiseInv, NEW t \in PromiseThreads, ThenTest(t)
    PROVE  PromiseInv'
<1> USE DEF ThenTest, Goto, Begin
<1>1. PromiseTyped'
  BY PromiseAssumption, FS_AddElement DEF PromiseInv, PromiseTyped, PromiseTypeOK, PromiseStates
<1>2. Begun'
  BY DEF PromiseInv, PromiseTyped, PromiseStates, Begun, Registering
<1>3. Given'
  BY PromiseAssumption DEF PromiseInv, PromiseTyped, Begun, Given, Registering
<1>4. OneFulfiller'
  BY DEF PromiseInv, PromiseTyped, Begun, Given, OneFulfiller, NothingTwice, Registering
<1>5. OnlyRegistration'
  BY PromiseAssumption DEF PromiseInv, PromiseTyped, PromiseTypeOK, Begun, Given, OnlyRegistration, InForce, Registering
<1>6. NobodyWaitsForDone'
  BY DEF PromiseInv, PromiseTyped, NobodyWaitsForDone
<1> QED BY <1>1, <1>2, <1>3, <1>4, <1>5, <1>6 DEF PromiseInv

LEMMA ThenNowStep ==
    ASSUME PromiseInv, NEW t \in PromiseThreads, ThenNow(t)
    PROVE  PromiseInv'
<1> USE DEF ThenNow, Goto, Ran
<1>1. PromiseTyped'
  BY PromiseAssumption, FS_AddElement DEF PromiseInv, PromiseTyped, PromiseTypeOK, PromiseStates
<1>2. Begun'
  BY DEF PromiseInv, PromiseTyped, PromiseStates, Begun, Registering
<1>3. Given'
  BY PromiseAssumption DEF PromiseInv, PromiseTyped, Begun, Given, Registering
<1>4. OneFulfiller'
  <2> SUFFICES ASSUME \A u, v \in prFulfilling : u = v PROVE NothingTwice'
    BY DEF OneFulfiller
  <2>1. \A u \in PromiseThreads : prPc'[u] = "fulfill" => ~prDone
    BY DEF PromiseInv, PromiseTyped, OneFulfiller, NothingTwice
  <2>2. PICK x : prRan' = prRan \cup {x} /\ x[3] = t
    <3> DEFINE x == <<Cardinality(prRan), t, t, prValue, t>>
    <3>1. prRan' = prRan \cup {x} /\ x[3] = t
      OBVIOUS
    <3> QED BY <3>1
  <2>3. \A r \in prRan : r[3] # t
    BY DEF PromiseInv, Given
  <2>4. \A r, s \in prRan' : r[3] = s[3] => r = s
    BY <2>2, <2>3 DEF PromiseInv, OneFulfiller, NothingTwice
  <2>5. prCallback # t
    BY PromiseAssumption DEF PromiseInv, Given
  <2> QED BY <2>1, <2>2, <2>4, <2>5 DEF PromiseInv, PromiseTyped, OneFulfiller, NothingTwice, Registering
<1>5. OnlyRegistration'
  BY PromiseAssumption DEF PromiseInv, PromiseTyped, PromiseTypeOK, Begun, Given, OnlyRegistration, InForce, Registering
<1>6. NobodyWaitsForDone'
  BY DEF PromiseInv, PromiseTyped, NobodyWaitsForDone
<1> QED BY <1>1, <1>2, <1>3, <1>4, <1>5, <1>6 DEF PromiseInv

LEMMA ThenStoreStep ==
    ASSUME PromiseInv, NEW t \in PromiseThreads, ThenStore(t)
    PROVE  PromiseInv'
<1> USE DEF ThenStore, Goto
<1>1. PromiseTyped'
  <2>1. IsFiniteSet(prFulfilling')
    BY FS_AddElement DEF PromiseInv, PromiseTyped
  <2>2. prPc' \in [PromiseThreads -> PromiseStates] /\ prThen' \subseteq PromiseThreads
    BY DEF PromiseInv, PromiseTyped, PromiseStates
  <2>3. PromiseTypeOK'
    BY PromiseAssumption DEF PromiseInv, PromiseTyped, PromiseTypeOK, Begun, Registering
  <2> QED BY <2>1, <2>2, <2>3 DEF PromiseTyped
<1>2. Begun'
  BY DEF PromiseInv, PromiseTyped, PromiseStates, Begun, Registering
<1>3. Given'
  BY PromiseAssumption DEF PromiseInv, PromiseTyped, Begun, Given, Registering
<1>4. OneFulfiller'
  BY DEF PromiseInv, PromiseTyped, Begun, Given, OneFulfiller, NothingTwice, Registering
<1>5. OnlyRegistration'
  BY PromiseAssumption DEF PromiseInv, PromiseTyped, PromiseTypeOK, Begun, Given, OnlyRegistration, InForce, Registering
<1>6. NobodyWaitsForDone'
  BY DEF PromiseInv, PromiseTyped, NobodyWaitsForDone
<1> QED BY <1>1, <1>2, <1>3, <1>4, <1>5, <1>6 DEF PromiseInv

LEMMA WaitBeginStep ==
    ASSUME PromiseInv, NEW t \in PromiseThreads, WaitBegin(t)
    PROVE  PromiseInv'
<1> USE DEF WaitBegin, Goto, Begin
<1>1. PromiseTyped'
  BY PromiseAssumption, FS_AddElement DEF PromiseInv, PromiseTyped, PromiseTypeOK, PromiseStates
<1>2. Begun'
  BY DEF PromiseInv, PromiseTyped, PromiseStates, Begun, Registering
<1>3. Given'
  BY PromiseAssumption DEF PromiseInv, PromiseTyped, Begun, Given, Registering
<1>4. OneFulfiller'
  BY DEF PromiseInv, PromiseTyped, Begun, Given, OneFulfiller, NothingTwice, Registering
<1>5. OnlyRegistration'
  BY PromiseAssumption DEF PromiseInv, PromiseTyped, PromiseTypeOK, Begun, Given, OnlyRegistration, InForce, Registering
<1>6. NobodyWaitsForDone'
  BY DEF PromiseInv, PromiseTyped, NobodyWaitsForDone
<1> QED BY <1>1, <1>2, <1>3, <1>4, <1>5, <1>6 DEF PromiseInv

LEMMA WaitEndStep ==
    ASSUME PromiseInv, NEW t \in PromiseThreads, WaitEnd(t)
    PROVE  PromiseInv'
<1> USE DEF WaitEnd, Goto
<1>1. PromiseTyped'
  BY PromiseAssumption, FS_AddElement DEF PromiseInv, PromiseTyped, PromiseTypeOK, PromiseStates
<1>2. Begun'
  BY DEF PromiseInv, PromiseTyped, PromiseStates, Begun, Registering
<1>3. Given'
  BY PromiseAssumption DEF PromiseInv, PromiseTyped, Begun, Given, Registering
<1>4. OneFulfiller'
  BY DEF PromiseInv, PromiseTyped, Begun, Given, OneFulfiller, NothingTwice, Registering
<1>5. OnlyRegistration'
  BY PromiseAssumption DEF PromiseInv, PromiseTyped, PromiseTypeOK, Begun, Given, OnlyRegistration, InForce, Registering
<1>6. NobodyWaitsForDone'
  BY DEF PromiseInv, PromiseTyped, NobodyWaitsForDone
<1> QED BY <1>1, <1>2, <1>3, <1>4, <1>5, <1>6 DEF PromiseInv

LEMMA PromiseStep == PromiseInv /\ [PromiseNext]_promiseVars => PromiseInv'
<1> SUFFICES ASSUME PromiseInv, [PromiseNext]_promiseVars PROVE PromiseInv'
  OBVIOUS
<1>1. CASE UNCHANGED promiseVars
  BY <1>1 DEF promiseVars, PromiseInv, PromiseTyped, PromiseTypeOK, Begun, Given, OneFulfiller, NothingTwice,
     OnlyRegistration, InForce, NobodyWaitsForDone
<1>2. CASE PromiseNext
  BY <1>2, FulfillTestStep, FulfillStoreStep, FulfillCallbackStep, ThenTestStep, ThenNowStep, ThenStoreStep,
     WaitBeginStep, WaitEndStep DEF PromiseNext
<1> QED BY <1>1, <1>2

(* A promise keeps its word: with one thread that fulfills it, a callback  *)
(* runs once at most and with the promise's value, a registration made in  *)
(* time is honoured, and nobody goes on waiting for a promise that is done *)
(* (pny_promise_fulfill, pny_promise_then, pny_future_wait), however the   *)
(* unlocked reads and writes of any number of threads interleave.          *)
THEOREM PromisesAreKept == PromiseSpec => []PromiseKept
<1> QED BY PromiseInvInit, PromiseStep, PromiseInvKept, PTL DEF PromiseSpec

(* Channels and promises together.                                         *)
THEOREM ConcurrencyIsSafe == ChannelSpec /\ PromiseSpec => []ConcurrencySafe
<1>1. ChannelFifo /\ NoLostWakeup /\ PromiseKept => ConcurrencySafe
  BY DEF ConcurrencySafe
<1> QED BY <1>1, ChannelIsFifo, WakeupsAreKept, PromisesAreKept, PTL
-----------------------------------------------------------------------------
(* The pool of I/O threads.                                                *)

IoType ==
    /\ ioQueue \in Seq(IoTasks)
    /\ ioShutdown \in BOOLEAN /\ ioUp \in BOOLEAN /\ ioThreads \in Nat
    /\ ioWorker \in [IoWorkers -> {"none", "test", "sleep", "run", "exit"}]
    /\ ioTask \in [IoWorkers -> IoTasks \cup {NoTask}]
    /\ ioHost \in {"idle", "join", "clean", "clear"}
    /\ ioDone \subseteq IoTasks /\ ioLate \subseteq IoTasks

(* A worker has a task in hand exactly while it runs it.                   *)
IoHands == \A w \in IoWorkers : ioTask[w] # NoTask <=> ioWorker[w] = "run"

(* A task stands in the list once.                                         *)
IoListed == \A i, j \in 1..Len(ioQueue) : ioQueue[i] = ioQueue[j] => i = j

(* When there are threads, and what a shutdown has told them.  A worker    *)
(* that has left saw an empty list after the flag was set.                 *)
IoPhases ==
    /\ ~ioUp => \A w \in IoWorkers : ioWorker[w] = "none"
    /\ ioThreads > 0 => \E w \in IoWorkers : ioWorker[w] # "none"
    /\ ioHost = "idle" /\ ioShutdown => \A w \in IoWorkers : ioWorker[w] = "none"
    /\ ioHost = "join" => ioShutdown
    /\ ioHost \in {"clean", "clear"} => ~ioUp
    /\ \A w \in IoWorkers : ioWorker[w] = "exit" =>
           ioHost = "join" /\ Range(ioQueue) \subseteq ioLate

(* Somebody is awake, or has left, while there is something to do.         *)
IoAwake ==
    ioQueue # <<>> /\ ioThreads > 0 =>
        \E w \in IoWorkers : ioWorker[w] \in {"test", "run", "exit"}

IoInv == IoType /\ IoHands /\ IoListed /\ IoPhases /\ IoAwake

LEMMA IoInvInit == SchedulerExtInit => IoInv
<1> SUFFICES ASSUME SchedulerExtInit PROVE IoInv
  OBVIOUS
<1>1. IoType
  <2>1. <<>> \in Seq(IoTasks)
    OBVIOUS
  <2>2. /\ ioQueue = <<>> /\ ioShutdown = FALSE /\ ioUp = FALSE /\ ioThreads = 0
        /\ ioWorker = [w \in IoWorkers |-> "none"] /\ ioTask = [w \in IoWorkers |-> NoTask]
        /\ ioHost = "idle" /\ ioDone = {} /\ ioLate = {}
    BY DEF SchedulerExtInit
  <2>3. ioQueue \in Seq(IoTasks)
    BY <2>1, <2>2
  <2> QED BY <2>2, <2>3 DEF IoType
<1>2. IoHands /\ IoListed /\ IoPhases /\ IoAwake
  BY DEF SchedulerExtInit, IoHands, IoListed, IoPhases, IoAwake
<1> QED BY <1>1, <1>2 DEF IoInv

(* A list with a new last element, and one without its first.              *)
LEMMA Appended ==
    ASSUME NEW s \in Seq(IoTasks), NEW k \in IoTasks
    PROVE  LET r == Append(s, k) IN
           /\ r \in Seq(IoTasks) /\ Range(r) = Range(s) \cup {k} /\ r # <<>>
           /\ (k \notin Range(s) /\ \A i, j \in 1..Len(s) : s[i] = s[j] => i = j)
                  => \A i, j \in 1..Len(r) : r[i] = r[j] => i = j
<1> DEFINE r == Append(s, k)
           n == Len(s)
<1>1. /\ n \in Nat /\ r \in Seq(IoTasks) /\ Len(r) = n + 1 /\ DOMAIN r = 1..n + 1 /\ DOMAIN s = 1..n
      /\ r[n + 1] = k /\ \A i \in 1..n : r[i] = s[i]
  OBVIOUS
<1> HIDE DEF r, n
<1>2. \A i \in 1..n + 1 : i = n + 1 \/ i \in 1..n
  BY <1>1
<1>3. 1..n \subseteq 1..n + 1 /\ n + 1 \in 1..n + 1
  BY <1>1
<1>4. Range(r) = Range(s) \cup {k}
  BY <1>1, <1>2, <1>3 DEF Range
<1>5. r # <<>>
  BY <1>1, <1>3
<1>6. ASSUME k \notin Range(s), \A i, j \in 1..n : s[i] = s[j] => i = j
      PROVE  \A i, j \in 1..n + 1 : r[i] = r[j] => i = j
  <2>1. \A i \in 1..n : s[i] # k
    BY <1>1, <1>6 DEF Range
  <2> QED BY <1>1, <1>2, <1>6, <2>1
<1> QED BY <1>1, <1>4, <1>5, <1>6 DEF r, n

LEMMA Shortened ==
    ASSUME NEW s \in Seq(IoTasks), s # <<>>
    PROVE  /\ Head(s) \in IoTasks /\ Tail(s) \in Seq(IoTasks) /\ Head(s) \in Range(s)
           /\ Range(Tail(s)) \subseteq Range(s)
           /\ (\A i, j \in 1..Len(s) : s[i] = s[j] => i = j)
                  => /\ \A i, j \in 1..Len(Tail(s)) : Tail(s)[i] = Tail(s)[j] => i = j
                     /\ Range(Tail(s)) = Range(s) \ {Head(s)}
<1> DEFINE n == Len(s)
           r == Tail(s)
<1>1. /\ n \in Nat \ {0} /\ r \in Seq(IoTasks) /\ Len(r) = n - 1 /\ DOMAIN r = 1..n - 1
      /\ DOMAIN s = 1..n /\ Head(s) = s[1] /\ \A i \in 1..n - 1 : r[i] = s[i + 1]
  OBVIOUS
<1>2. Head(s) \in IoTasks /\ Head(s) \in Range(s)
  BY <1>1 DEF Range
<1> HIDE DEF n, r
<1>3. \A i \in 1..n - 1 : i + 1 \in 1..n
  BY <1>1
<1>4. \A i \in 1..n : i = 1 \/ (i - 1 \in 1..n - 1 /\ (i - 1) + 1 = i)
  BY <1>1
<1>5. Range(r) \subseteq Range(s)
  BY <1>1, <1>3 DEF Range
<1>6. ASSUME \A i, j \in 1..n : s[i] = s[j] => i = j
      PROVE  /\ \A i, j \in 1..n - 1 : r[i] = r[j] => i = j
             /\ Range(r) = Range(s) \ {Head(s)}
  <2>1. ASSUME NEW i \in 1..n - 1, NEW j \in 1..n - 1, r[i] = r[j] PROVE i = j
    <3>1. i + 1 = j + 1
      BY <1>1, <1>3, <1>6, <2>1
    <3> QED BY <1>1, <3>1
  <2>2. ASSUME NEW i \in 1..n - 1 PROVE r[i] # Head(s)
    <3>1. 1 \in 1..n /\ i + 1 # 1
      BY <1>1
    <3> QED BY <1>1, <1>3, <1>6, <3>1
  <2>3. ASSUME NEW x \in Range(s), x # Head(s) PROVE x \in Range(r)
    <3>1. PICK i \in 1..n : s[i] = x
      BY <1>1 DEF Range
    <3>2. i - 1 \in 1..n - 1 /\ r[i - 1] = x
      BY <1>1, <1>4, <2>3, <3>1
    <3> QED BY <1>1, <3>2 DEF Range
  <2>4. \A x \in Range(r) : x # Head(s)
    BY <1>1, <2>2 DEF Range
  <2> QED BY <1>5, <2>1, <2>3, <2>4
<1> QED BY <1>1, <1>2, <1>5, <1>6 DEF n, r

(* A signal wakes at most one worker, and one if there is a sleeper.       *)
LEMMA WokenLemma ==
    ASSUME IoType, NEW next \in OneWoken
    PROVE  /\ next \in [IoWorkers -> {"none", "test", "sleep", "run", "exit"}]
           /\ \A w \in IoWorkers : \/ next[w] = ioWorker[w]
                                   \/ ioWorker[w] = "sleep" /\ next[w] = "test"
           /\ (\E w \in IoWorkers : ioWorker[w] = "sleep") => \E w \in IoWorkers : next[w] = "test"
<1> DEFINE asleep == {w \in IoWorkers : ioWorker[w] = "sleep"}
<1>1. CASE asleep = {}
  <2>1. next = ioWorker
    BY <1>1 DEF OneWoken
  <2> QED BY <1>1, <2>1 DEF IoType
<1>2. CASE asleep # {}
  <2>1. PICK w \in asleep : next = [ioWorker EXCEPT ![w] = "test"]
    BY <1>2 DEF OneWoken
  <2> QED BY <2>1 DEF IoType
<1> QED BY <1>1, <1>2

LEMMA SubmitStep ==
    ASSUME IoInv, NEW k \in IoTasks, IoSubmit(k)
    PROVE  IoInv'
<1> USE DEF IoInv
<1>0. /\ ioQueue' = Append(ioQueue, k) /\ ioWorker' \in OneWoken /\ k \notin Range(ioQueue)
      /\ ioLate' = IF ioShutdown THEN ioLate \cup {k} ELSE ioLate
      /\ UNCHANGED <<ioShutdown, ioThreads, ioUp, ioTask, ioHost, ioDone>>
  BY DEF IoSubmit, Known
<1>1. /\ ioWorker' \in [IoWorkers -> {"none", "test", "sleep", "run", "exit"}]
      /\ \A w \in IoWorkers : \/ ioWorker'[w] = ioWorker[w]
                              \/ ioWorker[w] = "sleep" /\ ioWorker'[w] = "test"
      /\ (\E w \in IoWorkers : ioWorker[w] = "sleep") => \E w \in IoWorkers : ioWorker'[w] = "test"
  BY <1>0, WokenLemma
<1>2. ioQueue \in Seq(IoTasks)
  BY DEF IoType
<1>3. /\ ioQueue' \in Seq(IoTasks) /\ Range(ioQueue') = Range(ioQueue) \cup {k} /\ ioQueue' # <<>>
      /\ \A i, j \in 1..Len(ioQueue') : ioQueue'[i] = ioQueue'[j] => i = j
  BY <1>0, <1>2, Appended DEF IoListed
<1>4. IoType'
  BY <1>0, <1>1, <1>3 DEF IoType
<1>5. IoHands' /\ IoListed'
  BY <1>0, <1>1, <1>3 DEF IoHands, IoListed
<1>6. IoPhases'
  <2>1. (\E w \in IoWorkers : ioWorker[w] # "none") => \E w \in IoWorkers : ioWorker'[w] # "none"
    BY <1>1
  <2>2. ASSUME NEW w \in IoWorkers, ioWorker'[w] = "exit"
        PROVE  ioHost' = "join" /\ Range(ioQueue') \subseteq ioLate'
    <3>1. ioWorker[w] = "exit"
      BY <1>1, <2>2
    <3>2. ioHost = "join" /\ ioShutdown /\ Range(ioQueue) \subseteq ioLate
      BY <3>1 DEF IoPhases
    <3> QED BY <1>0, <1>3, <3>2
  <2> QED BY <1>0, <1>1, <2>1, <2>2 DEF IoPhases, IoType
<1>7. IoAwake'
  <2> SUFFICES ASSUME ioThreads > 0
               PROVE  \E w \in IoWorkers : ioWorker'[w] \in {"test", "run", "exit"}
    BY <1>0 DEF IoAwake
  <2>1. PICK w \in IoWorkers : ioWorker[w] # "none"
    BY DEF IoPhases
  <2>2. CASE ioWorker[w] = "sleep"
    BY <1>1, <2>2
  <2>3. CASE ioWorker[w] # "sleep"
    BY <1>1, <2>1, <2>3 DEF IoType
  <2> QED BY <2>2, <2>3
<1> QED BY <1>4, <1>5, <1>6, <1>7

LEMMA WorkerStep ==
    ASSUME IoInv, NEW w \in IoWorkers, IoTest(w) \/ IoSpurious(w) \/ IoRun(w)
    PROVE  IoInv'
<1> USE DEF IoInv
<1>1. CASE IoTest(w) /\ ioQueue # <<>>
  <2>1. /\ ioWorker[w] = "test" /\ ioTask' = [ioTask EXCEPT ![w] = Head(ioQueue)]
        /\ ioQueue' = Tail(ioQueue) /\ ioWorker' = [ioWorker EXCEPT ![w] = "run"]
        /\ UNCHANGED <<ioShutdown, ioThreads, ioUp, ioHost, ioDone, ioLate>>
    BY <1>1 DEF IoTest
  <2>2. /\ Head(ioQueue) \in IoTasks /\ Tail(ioQueue) \in Seq(IoTasks)
        /\ Range(Tail(ioQueue)) \subseteq Range(ioQueue)
        /\ \A i, j \in 1..Len(Tail(ioQueue)) : Tail(ioQueue)[i] = Tail(ioQueue)[j] => i = j
    BY <1>1, Shortened DEF IoType, IoListed
  <2>3. IoType'
    BY <2>1, <2>2 DEF IoType
  <2>4. IoHands' /\ IoListed'
    BY <2>1, <2>2, SchedulerExtAssumption DEF IoHands, IoListed, IoType
  <2>5. IoPhases'
    BY <2>1, <2>2 DEF IoPhases, IoType
  <2>6. IoAwake'
    BY <2>1 DEF IoAwake, IoType
  <2> QED BY <2>3, <2>4, <2>5, <2>6
<1>2. CASE IoTest(w) /\ ioQueue = <<>>
  <2>1. /\ ioWorker[w] = "test" /\ ioWorker' = [ioWorker EXCEPT ![w] = IF ioShutdown THEN "exit" ELSE "sleep"]
        /\ UNCHANGED <<ioQueue, ioTask, ioShutdown, ioThreads, ioUp, ioHost, ioDone, ioLate>>
    BY <1>2 DEF IoTest
  <2>2. Range(ioQueue) = {}
    BY <1>2 DEF Range
  <2>3. IoType' /\ IoHands' /\ IoListed'
    BY <2>1 DEF IoType, IoHands, IoListed
  <2>4. IoPhases'
    BY <2>1, <2>2 DEF IoPhases, IoType
  <2> QED BY <1>2, <2>1, <2>3, <2>4 DEF IoAwake
<1>3. CASE IoSpurious(w)
  <2>1. /\ ioWorker[w] = "sleep" /\ ioWorker' = [ioWorker EXCEPT ![w] = "test"]
        /\ UNCHANGED <<ioQueue, ioTask, ioShutdown, ioThreads, ioUp, ioHost, ioDone, ioLate>>
    BY <1>3 DEF IoSpurious
  <2>2. IoType' /\ IoHands' /\ IoListed'
    BY <2>1 DEF IoType, IoHands, IoListed
  <2>3. IoPhases'
    BY <2>1 DEF IoPhases, IoType
  <2>4. IoAwake'
    BY <2>1 DEF IoAwake, IoType
  <2> QED BY <2>2, <2>3, <2>4
<1>4. CASE IoRun(w)
  <2>1. /\ ioWorker[w] = "run" /\ ioWorker' = [ioWorker EXCEPT ![w] = "test"]
        /\ ioTask' = [ioTask EXCEPT ![w] = NoTask] /\ ioDone' = ioDone \cup {ioTask[w]}
        /\ UNCHANGED <<ioQueue, ioShutdown, ioThreads, ioUp, ioHost, ioLate>>
    BY <1>4 DEF IoRun
  <2>2. ioTask[w] \in IoTasks
    BY <2>1 DEF IoType, IoHands
  <2>3. IoType' /\ IoHands' /\ IoListed'
    BY <2>1, <2>2 DEF IoType, IoHands, IoListed
  <2>4. IoPhases'
    BY <2>1 DEF IoPhases, IoType
  <2>5. IoAwake'
    BY <2>1 DEF IoAwake, IoType
  <2> QED BY <2>3, <2>4, <2>5
<1> QED BY <1>1, <1>2, <1>3, <1>4

LEMMA HostStep ==
    ASSUME IoInv, IoInit \/ IoShutdownBegin \/ IoShutdownJoined \/ IoShutdownClean \/ IoShutdownClear
    PROVE  IoInv'
<1> USE DEF IoInv
<1>1. CASE IoInit
  <2>1. PICK n \in 0..Cardinality(IoWorkers) :
            ioThreads' = n /\ ioWorker' = [w \in IoWorkers |-> IF w <= n THEN "test" ELSE "none"]
    BY <1>1 DEF IoInit
  <2>2. /\ ioHost = "idle" /\ ~ioUp /\ ioUp' = TRUE /\ ioShutdown' = FALSE
        /\ UNCHANGED <<ioQueue, ioTask, ioHost, ioDone, ioLate>>
    BY <1>1 DEF IoInit
  <2>3. n \in Nat /\ (n > 0 => 1 \in IoWorkers)
    <3> DEFINE m == Cardinality(IoWorkers)
    <3>1. m \in Nat /\ IoWorkers = 1..m
      BY SchedulerExtAssumption, FS_CardinalityType
    <3> HIDE DEF m
    <3>2. n \in 0..m
      BY <2>1 DEF m
    <3> QED BY <3>1, <3>2
  <2>4. IoType'
    BY <2>1, <2>2, <2>3 DEF IoType
  <2>5. \A w \in IoWorkers : ioTask[w] = NoTask
    BY <2>2 DEF IoPhases, IoHands
  <2>6. IoHands' /\ IoListed'
    BY <2>1, <2>2, <2>5 DEF IoHands, IoListed
  <2>7. IoPhases' /\ IoAwake'
    BY <2>1, <2>2, <2>3 DEF IoPhases, IoAwake
  <2> QED BY <2>4, <2>6, <2>7
<1>2. CASE IoShutdownBegin
  <2>1. /\ ioHost = "idle" /\ ioShutdown' = TRUE /\ ioLate' = {} /\ ioHost' = "join"
        /\ ioWorker' = [w \in IoWorkers |-> IF ioWorker[w] = "sleep" THEN "test" ELSE ioWorker[w]]
        /\ UNCHANGED <<ioQueue, ioThreads, ioUp, ioTask, ioDone>>
    BY <1>2 DEF IoShutdownBegin
  <2>2. IoType' /\ IoHands' /\ IoListed'
    BY <2>1 DEF IoType, IoHands, IoListed
  <2>3. IoPhases'
    BY <2>1 DEF IoPhases, IoType
  <2>4. IoAwake'
    BY <2>1 DEF IoAwake, IoType
  <2> QED BY <2>2, <2>3, <2>4
<1>3. CASE IoShutdownJoined
  <2>1. /\ Joined /\ ioThreads' = 0 /\ ioUp' = FALSE
        /\ ioWorker' = [w \in IoWorkers |-> "none"] /\ ioHost' = "clean"
        /\ UNCHANGED <<ioQueue, ioShutdown, ioTask, ioDone, ioLate>>
    BY <1>3 DEF IoShutdownJoined
  <2>2. \A w \in IoWorkers : ioTask[w] = NoTask
    BY <2>1 DEF Joined, IoHands
  <2>3. IoType'
    BY <2>1 DEF IoType
  <2>4. IoHands' /\ IoListed' /\ IoPhases' /\ IoAwake'
    BY <2>1, <2>2 DEF IoHands, IoListed, IoPhases, IoAwake
  <2> QED BY <2>3, <2>4
<1>4. CASE IoShutdownClean \/ IoShutdownClear
  <2>1. /\ ioHost \in {"clean", "clear"} /\ ioHost' \in {"clear", "idle"}
        /\ ioDone' = ioDone \cup Range(ioQueue) /\ ioQueue' = <<>>
        /\ UNCHANGED <<ioShutdown, ioThreads, ioUp, ioWorker, ioTask, ioLate>>
    BY <1>4 DEF IoShutdownClean, IoShutdownClear
  <2>2. Range(ioQueue) \subseteq IoTasks
    BY DEF IoType, Range
  <2>3. ~ioUp /\ \A w \in IoWorkers : ioWorker[w] = "none"
    BY <2>1 DEF IoPhases
  <2>4. IoType'
    <3>1. <<>> \in Seq(IoTasks)
      OBVIOUS
    <3>2. ioQueue' \in Seq(IoTasks)
      BY <2>1, <3>1
    <3> QED BY <2>1, <2>2, <3>2 DEF IoType
  <2>5. IoHands' /\ IoListed' /\ IoPhases' /\ IoAwake'
    BY <2>1, <2>3 DEF IoHands, IoListed, IoPhases, IoAwake
  <2> QED BY <2>4, <2>5
<1> QED BY <1>1, <1>2, <1>3, <1>4

LEMMA IoInvStep == IoInv /\ [SchedulerExtNext]_schedulerExtVars => IoInv'
<1> SUFFICES ASSUME IoInv, [SchedulerExtNext]_schedulerExtVars PROVE IoInv'
  OBVIOUS
<1>1. CASE IoNext
  BY <1>1, SubmitStep, WorkerStep, HostStep DEF IoNext
<1>2. CASE UNCHANGED ioVars
  BY <1>2 DEF ioVars, IoInv, IoType, IoHands, IoListed, IoPhases, IoAwake
<1>3. ListsNext => UNCHANGED ioVars
  BY DEF ListsNext, PrioDequeue, CrossRefClear, PrioEnqueue, CrossRefAdd, CrossRefRemove, SetMode
<1> QED BY <1>1, <1>2, <1>3 DEF SchedulerExtNext, schedulerExtVars

LEMMA IoSafety == SchedulerExtSpec => []IoInv
  BY IoInvInit, IoInvStep, PTL DEF SchedulerExtSpec

(* No accepted task is left behind: the threads never all sleep over one,  *)
(* and a shutdown that has joined them leaves only what came after it      *)
(* began, for any number of threads and tasks.                             *)
THEOREM PoolDrains == SchedulerExtSpec => []IoPoolDrains
<1>1. IoInv => IoPoolDrains
  <2> SUFFICES ASSUME IoInv PROVE IoPoolDrains
    OBVIOUS
  <2>1. ~(ioQueue # <<>> /\ ioThreads > 0 /\ \A w \in IoWorkers : ioWorker[w] \in {"sleep", "none"})
    BY DEF IoInv, IoAwake
  <2>2. (ioHost = "join" /\ ioThreads > 0 /\ Joined) => Range(ioQueue) \subseteq ioLate
    BY DEF IoInv, IoPhases, Joined
  <2> QED BY <2>1, <2>2 DEF IoPoolDrains
<1> QED BY <1>1, IoSafety, PTL

-----------------------------------------------------------------------------
(* The pool as a pool of tasks.                                            *)

LEMMA SubmitAccepts ==
    ASSUME IoInv, NEW k \in IoTasks, IoSubmit(k)
    PROVE  Pool!Accept(k)
<1>1. /\ ioQueue' = Append(ioQueue, k) /\ k \notin Known /\ UNCHANGED <<ioTask, ioDone>>
      /\ ioQueue \in Seq(IoTasks)
  BY DEF IoSubmit, IoInv, IoType
<1>2. Range(ioQueue') = Range(ioQueue) \cup {k}
  BY <1>1, Appended
<1>3. k \notin Pool!Known
  BY <1>1 DEF Pool!Known, Known, Range, IoInv, IoType
<1>4. Cardinality(Range(ioQueue)) < Cardinality(IoTasks) + 1
  <2>1. Range(ioQueue) \subseteq IoTasks
    BY <1>1 DEF Range
  <2>2. Cardinality(Range(ioQueue)) <= Cardinality(IoTasks) /\ Cardinality(IoTasks) \in Nat
        /\ Cardinality(Range(ioQueue)) \in Nat
    BY <2>1, FS_Subset, FS_CardinalityType, SchedulerExtAssumption
  <2> QED BY <2>2
<1>5. Pool!Cardinality(Range(ioQueue)) = Cardinality(Range(ioQueue))
  BY DEF Pool!Cardinality, Cardinality
<1> QED BY <1>1, <1>2, <1>3, <1>4, <1>5 DEF Pool!Accept

LEMMA PoolSteps ==
    ASSUME IoInv, [SchedulerExtNext]_schedulerExtVars
    PROVE  [Pool!Next]_(Pool!poolVars)
<1>1. ASSUME NEW k \in IoTasks, IoSubmit(k) PROVE Pool!Next
  BY <1>1, SubmitAccepts DEF Pool!Next
<1>2. ASSUME NEW w \in IoWorkers, IoTest(w), ioQueue # <<>> PROVE Pool!Next
  <2>1. /\ Head(ioQueue) \in IoTasks /\ Head(ioQueue) \in Range(ioQueue)
        /\ Range(Tail(ioQueue)) = Range(ioQueue) \ {Head(ioQueue)}
    BY <1>2, Shortened DEF IoInv, IoType, IoListed
  <2>2. ioTask[w] = NoTask
    BY <1>2 DEF IoTest, IoInv, IoHands
  <2>3. Pool!Take(w, Head(ioQueue))
    BY <1>2, <2>1, <2>2 DEF Pool!Take, IoTest
  <2> QED BY <2>1, <2>3 DEF Pool!Next
<1>3. ASSUME NEW w \in IoWorkers, IoRun(w) PROVE Pool!Next
  <2>1. ioTask[w] # NoTask
    BY <1>3 DEF IoRun, IoInv, IoHands
  <2>2. Pool!Finish(w)
    BY <1>3, <2>1 DEF Pool!Finish, IoRun
  <2> QED BY <2>2 DEF Pool!Next
<1>4. ASSUME IoShutdownClean \/ IoShutdownClear PROVE Pool!Next
  <2>0. /\ ioHost \in {"clean", "clear"} /\ ioQueue' = <<>>
        /\ ioDone' = ioDone \cup Range(ioQueue) /\ ioTask' = ioTask
    BY <1>4 DEF IoShutdownClean, IoShutdownClear
  <2>1. \A w \in IoWorkers : ioTask[w] = NoTask
    BY <2>0 DEF IoInv, IoHands, IoPhases
  <2>2. Range(ioQueue') = {}
    BY <2>0 DEF Range
  <2>3. Pool!TakeDown
    BY <2>0, <2>1, <2>2 DEF Pool!TakeDown
  <2> QED BY <2>3 DEF Pool!Next
<1>5. ASSUME UNCHANGED <<ioQueue, ioTask, ioDone>> PROVE UNCHANGED Pool!poolVars
  BY <1>5 DEF Pool!poolVars, Range
<1>6. ASSUME NEW w \in IoWorkers, IoSpurious(w) \/ (IoTest(w) /\ ioQueue = <<>>)
      PROVE  UNCHANGED Pool!poolVars
  BY <1>5, <1>6 DEF IoSpurious, IoTest
<1>7. ASSUME IoInit \/ IoShutdownBegin \/ IoShutdownJoined PROVE UNCHANGED Pool!poolVars
  BY <1>5, <1>7 DEF IoInit, IoShutdownBegin, IoShutdownJoined
<1>8. ASSUME ListsNext \/ UNCHANGED schedulerExtVars PROVE UNCHANGED Pool!poolVars
  BY <1>5, <1>8 DEF ListsNext, PrioDequeue, CrossRefClear, PrioEnqueue, CrossRefAdd,
     CrossRefRemove, SetMode, schedulerExtVars, ioVars
<1> QED BY <1>1, <1>2, <1>3, <1>4, <1>6, <1>7, <1>8 DEF SchedulerExtNext, IoNext

(* The pool of I/O threads implements the pool of tasks: a task is run by  *)
(* one thread, once, or dropped, once, after the threads are gone, for any *)
(* number of threads and tasks and any sequence of starts and shutdowns.   *)
THEOREM IoPoolImplementsTaskPool == SchedulerExtSpec => IoPoolIsTaskPool
<1>1. SchedulerExtInit => Pool!Init
  BY DEF SchedulerExtInit, Pool!Init, Range
<1> QED BY <1>1, IoSafety, PoolSteps, PTL DEF SchedulerExtSpec, IoPoolIsTaskPool, Pool!Spec

-----------------------------------------------------------------------------
(* The queue by priority and the list of references.                       *)
PrioMessages == [priority : PrioLevels, arrival : Nat]

PrioType ==
    /\ prioQueue \in Seq(PrioMessages) /\ prioSeen \in Nat
    /\ \A i \in 1 .. Len(prioQueue) : prioQueue[i].arrival < prioSeen
RefType == refs \in Seq(RefPairs) /\ refBag \in [RefPairs -> Nat]

PrioSorted ==
    \A i, j \in 1..Len(prioQueue) : i < j =>
        \/ prioQueue[i].priority < prioQueue[j].priority
        \/ /\ prioQueue[i].priority = prioQueue[j].priority
           /\ prioQueue[i].arrival < prioQueue[j].arrival
RefCounted == \A p \in RefPairs : Cardinality(Places(refs, p)) = refBag[p]

ListsInv == PrioType /\ RefType /\ PrioSorted /\ RefCounted

(* A message goes behind those of its own priority and of lesser ones, and *)
(* before the rest.                                                        *)
LEMMA PrioPlaceLemma ==
    ASSUME ListsInv, NEW p \in PrioLevels
    PROVE  /\ PrioPlace(p) \in 1 .. Len(prioQueue) + 1
           /\ \A i \in 1 .. Len(prioQueue) : i < PrioPlace(p) => prioQueue[i].priority <= p
           /\ \A i \in 1 .. Len(prioQueue) : i >= PrioPlace(p) => prioQueue[i].priority > p
<1> DEFINE n == Len(prioQueue)
           later == {i \in 1 .. n : prioQueue[i].priority > p}
<1>0. /\ n \in Nat /\ p \in Nat /\ \A i \in 1 .. n : prioQueue[i].priority \in Nat
  <2>1. PrioLevels \subseteq Nat
    BY SchedulerExtAssumption
  <2>2. \A i \in 1 .. n : prioQueue[i] \in PrioMessages
    BY ElementOfSeq DEF ListsInv, PrioType
  <2>3. n \in Nat
    BY DEF ListsInv, PrioType
  <2> QED BY <2>1, <2>2, <2>3 DEF PrioMessages
<1>1. CASE later = {}
  <2>1. PrioPlace(p) = n + 1
    BY <1>1 DEF PrioPlace
  <2>2. \A i \in 1 .. n : ~(prioQueue[i].priority > p)
    BY <1>1
  <2> QED BY <1>0, <2>1, <2>2
<1>2. CASE later # {}
  <2>0. later \in SUBSET Nat
    BY <1>0
  <2>1. \E m \in later : \A j \in later : m <= j
    BY <1>2, <2>0, LeastNat
  <2>2. PrioPlace(p) = CHOOSE i \in later : \A j \in later : i <= j
    BY <1>2 DEF PrioPlace
  <2>3. PrioPlace(p) \in later /\ \A j \in later : PrioPlace(p) <= j
    BY <2>1, <2>2
  <2>4. \A i \in 1 .. n : i < PrioPlace(p) => prioQueue[i].priority <= p
    <3> SUFFICES ASSUME NEW i \in 1 .. n, i < PrioPlace(p) PROVE prioQueue[i].priority <= p
      OBVIOUS
    <3>1. i \notin later
      BY <1>0, <2>3
    <3> QED BY <1>0, <3>1
  <2>5. ASSUME NEW i \in 1 .. n, i >= PrioPlace(p) PROVE prioQueue[i].priority > p
    <3>1. PrioPlace(p) \in 1 .. n /\ prioQueue[PrioPlace(p)].priority > p
      BY <2>3
    <3>2. CASE i = PrioPlace(p)
      BY <3>1, <3>2
    <3>3. CASE PrioPlace(p) < i
      <4>1. prioQueue[PrioPlace(p)].priority <= prioQueue[i].priority
        BY <1>0, <3>1, <3>3 DEF ListsInv, PrioSorted
      <4> QED BY <1>0, <3>1, <4>1
    <3> QED BY <1>0, <2>5, <3>1, <3>2, <3>3
  <2> QED BY <1>0, <2>3, <2>4, <2>5
<1> QED BY <1>1, <1>2

LEMMA PrioEnqueueStep ==
    ASSUME ListsInv, NEW p \in PrioLevels, PrioEnqueue(p)
    PROVE  ListsInv'
<1> DEFINE n == Len(prioQueue)
           k == PrioPlace(p)
           e == [priority |-> p, arrival |-> prioSeen]
<1>1. /\ prioQueue' = InsertAt(prioQueue, k, e) /\ prioSeen' = prioSeen + 1
      /\ refs' = refs /\ refBag' = refBag
  BY DEF PrioEnqueue
<1>2. prioQueue \in Seq(PrioMessages) /\ prioSeen \in Nat /\ n \in Nat /\ e \in PrioMessages
  BY DEF ListsInv, PrioType, PrioMessages
<1>3. /\ k \in 1 .. n + 1
      /\ \A i \in 1 .. n : i < k => prioQueue[i].priority <= p
      /\ \A i \in 1 .. n : i >= k => prioQueue[i].priority > p
  BY PrioPlaceLemma
<1>p. PrioLevels \subseteq Nat /\ p \in Nat
  BY SchedulerExtAssumption
<1>t. \A i \in 1 .. n : prioQueue[i].priority \in Nat /\ prioQueue[i].arrival \in Nat /\ prioQueue[i].arrival < prioSeen
  <2>1. \A i \in 1 .. n : prioQueue[i] \in PrioMessages
    BY <1>2, ElementOfSeq
  <2> QED BY <1>p, <2>1 DEF PrioMessages, ListsInv, PrioType
<1>e. e.priority = p /\ e.arrival = prioSeen
  OBVIOUS
<1> HIDE DEF k, e
<1>4. /\ prioQueue' \in Seq(PrioMessages) /\ Len(prioQueue') = n + 1
      /\ \A i \in 1 .. n + 1 : prioQueue'[i] = IF i < k THEN prioQueue[i] ELSE IF i = k THEN e ELSE prioQueue[i - 1]
  <2>1. PICK q : q = prioQueue
    OBVIOUS
  <2>2. q \in Seq(PrioMessages) /\ e \in PrioMessages /\ k \in 1 .. Len(q) + 1 /\ n = Len(q)
    BY <1>2, <1>3, <2>1
  <2>3. /\ InsertAt(q, k, e) \in Seq(PrioMessages) /\ Len(InsertAt(q, k, e)) = Len(q) + 1
        /\ \A i \in 1 .. Len(q) + 1 :
               InsertAt(q, k, e)[i] = IF i < k THEN q[i] ELSE IF i = k THEN e ELSE q[i - 1]
    BY <2>2, InsertAtProperties
  <2>4. prioQueue' = InsertAt(q, k, e)
    BY <1>1, <2>1
  <2> HIDE DEF n
  <2> QED BY <2>1, <2>2, <2>3, <2>4
<1>s. \A i, j \in 1 .. n : i < j =>
          \/ prioQueue[i].priority < prioQueue[j].priority
          \/ prioQueue[i].priority = prioQueue[j].priority /\ prioQueue[i].arrival < prioQueue[j].arrival
  BY DEF ListsInv, PrioSorted
<1> HIDE DEF n
<1>5. \A i \in 1 .. n + 1 : prioQueue'[i].arrival < prioSeen'
  <2> SUFFICES ASSUME NEW i \in 1 .. n + 1 PROVE prioQueue'[i].arrival < prioSeen + 1
    BY <1>1
  <2>1. CASE i < k
    BY <1>2, <1>3, <1>4, <1>t, <2>1
  <2>2. CASE i = k
    BY <1>2, <1>3, <1>4, <1>e, <2>2
  <2>3. CASE i > k
    <3>1. i - 1 \in 1 .. n /\ prioQueue'[i] = prioQueue[i - 1]
      BY <1>2, <1>3, <1>4, <2>3
    <3> QED BY <1>2, <1>t, <3>1
  <2> QED BY <1>3, <2>1, <2>2, <2>3
<1>6. PrioType'
  BY <1>1, <1>2, <1>4, <1>5 DEF PrioType
<1>7. PrioSorted'
  <2> SUFFICES ASSUME NEW i \in 1 .. n + 1, NEW j \in 1 .. n + 1, i < j
               PROVE  \/ prioQueue'[i].priority < prioQueue'[j].priority
                      \/ /\ prioQueue'[i].priority = prioQueue'[j].priority
                         /\ prioQueue'[i].arrival < prioQueue'[j].arrival
    BY <1>4 DEF PrioSorted
  <2>1. CASE j < k
    <3>1. i \in 1 .. n /\ j \in 1 .. n /\ prioQueue'[i] = prioQueue[i] /\ prioQueue'[j] = prioQueue[j]
      BY <1>2, <1>3, <1>4, <2>1
    <3> QED BY <1>s, <3>1
  <2>2. CASE j = k
    <3>1. i \in 1 .. n /\ i < k /\ prioQueue'[i] = prioQueue[i] /\ prioQueue'[j] = e
      BY <1>2, <1>3, <1>4, <2>2
    <3> QED BY <1>2, <1>3, <1>e, <1>p, <1>t, <3>1
  <2>3. CASE j > k /\ i < k
    <3>1. i \in 1 .. n /\ j - 1 \in 1 .. n /\ i < j - 1 /\ prioQueue'[i] = prioQueue[i] /\ prioQueue'[j] = prioQueue[j - 1]
      BY <1>2, <1>3, <1>4, <2>3
    <3> QED BY <1>s, <3>1
  <2>4. CASE j > k /\ i = k
    <3>1. j - 1 \in 1 .. n /\ j - 1 >= k /\ prioQueue'[i] = e /\ prioQueue'[j] = prioQueue[j - 1]
      BY <1>2, <1>3, <1>4, <2>4
    <3> QED BY <1>3, <1>e, <1>p, <1>t, <3>1
  <2>5. CASE j > k /\ i > k
    <3>1. i - 1 \in 1 .. n /\ j - 1 \in 1 .. n /\ i - 1 < j - 1 /\ prioQueue'[i] = prioQueue[i - 1] /\ prioQueue'[j] = prioQueue[j - 1]
      BY <1>2, <1>3, <1>4, <2>5
    <3> QED BY <1>s, <3>1
  <2> QED BY <1>3, <2>1, <2>2, <2>3, <2>4, <2>5
<1>8. RefType' /\ RefCounted'
  BY <1>1 DEF ListsInv, RefType, RefCounted
<1> QED BY <1>6, <1>7, <1>8 DEF ListsInv

LEMMA PrioDequeueStep ==
    ASSUME ListsInv, PrioDequeue
    PROVE  ListsInv'
<1>1. prioQueue # <<>> /\ prioQueue' = Tail(prioQueue) /\ prioSeen' = prioSeen /\ refs' = refs /\ refBag' = refBag
  BY DEF PrioDequeue
<1>2. prioQueue \in Seq(PrioMessages) /\ Len(prioQueue) \in Nat
  BY DEF ListsInv, PrioType
<1>3. /\ prioQueue' \in Seq(PrioMessages) /\ Len(prioQueue') = Len(prioQueue) - 1
      /\ \A i \in 1 .. Len(prioQueue) - 1 : prioQueue'[i] = prioQueue[i + 1]
  BY <1>1, <1>2, HeadTailProperties
<1>4. PrioType' /\ PrioSorted'
  BY <1>1, <1>2, <1>3 DEF ListsInv, PrioType, PrioSorted
<1>5. RefType' /\ RefCounted'
  BY <1>1 DEF ListsInv, RefType, RefCounted
<1> QED BY <1>4, <1>5 DEF ListsInv

(* One reference the less: the first that matches, and no other.           *)
LEMMA FirstRemovedLemma ==
    ASSUME RefType, NEW p \in RefPairs, p \in Range(refs)
    PROVE  \E k \in 1 .. Len(refs) : refs[k] = p /\ FirstRemoved(p) = RemoveAt(refs, k)
<1> DEFINE I == {i \in 1 .. Len(refs) : refs[i] = p}
<1>1. refs \in Seq(RefPairs) /\ Len(refs) \in Nat /\ DOMAIN refs = 1 .. Len(refs)
  BY DEF RefType
<1>2. I # {} /\ I \in SUBSET Nat
  BY <1>1 DEF Range
<1>3. \E m \in I : \A j \in I : m <= j
  BY <1>2, LeastNat
<1>4. FirstRemoved(p) = RemoveAt(refs, SelectInSeq(refs, LAMBDA v : v = p))
  BY <1>2 DEF FirstRemoved, RemoveFirst
<1>5. SelectInSeq(refs, LAMBDA v : v = p) = Min(I)
  BY <1>2 DEF SelectInSeq
<1>6. Min(I) \in I
  BY <1>3 DEF Min
<1> QED BY <1>4, <1>5, <1>6

LEMMA RefStep ==
    ASSUME ListsInv, NEW p \in RefPairs, CrossRefAdd(p) \/ CrossRefRemove(p)
    PROVE  ListsInv'
<1>0. prioQueue' = prioQueue /\ prioSeen' = prioSeen
  BY DEF CrossRefAdd, CrossRefRemove
<1>1. PrioType' /\ PrioSorted'
  BY <1>0 DEF ListsInv, PrioType, PrioSorted
<1>2. refs \in Seq(RefPairs) /\ refBag \in [RefPairs -> Nat] /\ RefType /\ RefCounted
  BY DEF ListsInv, RefType
<1>3. CASE CrossRefAdd(p)
  <2>1. refs' = <<p>> \o refs /\ refBag' = [refBag EXCEPT ![p] = @ + 1]
    BY <1>3 DEF CrossRefAdd
  <2>2. RefType'
    BY <1>2, <2>1, PrependProperties DEF RefType
  <2>3. ASSUME NEW q \in RefPairs PROVE Cardinality(Places(refs', q)) = refBag'[q]
    <3>1. Cardinality(Places(refs', q)) = Cardinality(Places(refs, q)) + (IF p = q THEN 1 ELSE 0)
      BY <1>2, <2>1, PlacesPrepended
    <3>2. Cardinality(Places(refs, q)) = refBag[q] /\ refBag[q] \in Nat
      BY <1>2 DEF RefCounted
    <3> QED BY <1>2, <2>1, <3>1, <3>2
  <2> QED BY <1>1, <2>2, <2>3 DEF ListsInv, RefCounted
<1>4. CASE CrossRefRemove(p)
  <2>1. refs' = FirstRemoved(p) /\ refBag' = [refBag EXCEPT ![p] = IF @ = 0 THEN 0 ELSE @ - 1]
    BY <1>4 DEF CrossRefRemove
  <2>2. Cardinality(Places(refs, p)) = refBag[p] /\ IsFiniteSet(Places(refs, p))
    BY <1>2, PlacesFinite DEF RefCounted
  <2>3. p \in Range(refs) <=> Places(refs, p) # {}
    BY <1>2 DEF Range, Places
  <2>4. CASE p \notin Range(refs)
    <3>1. refs' = refs
      BY <2>1, <2>4 DEF FirstRemoved
    <3>2. refBag[p] = 0
      BY <2>2, <2>3, <2>4, FS_EmptySet
    <3>3. refBag' = refBag
      BY <1>2, <2>1, <3>2
    <3> QED BY <1>1, <1>2, <3>1, <3>3 DEF ListsInv, RefType, RefCounted
  <2>5. CASE p \in Range(refs)
    <3>1. PICK k \in 1 .. Len(refs) : refs[k] = p /\ refs' = RemoveAt(refs, k)
      BY <1>2, <2>1, <2>5, FirstRemovedLemma
    <3>2. refBag[p] # 0
      BY <2>2, <2>3, <2>5, FS_EmptySet
    <3>3. RefType'
      <4>1. refs' \in Seq(RefPairs)
        BY <1>2, <3>1, RemoveAtProperties
      <4>2. refBag' \in [RefPairs -> Nat]
        BY <1>2, <2>1, <3>2
      <4> QED BY <4>1, <4>2 DEF RefType
    <3>4. ASSUME NEW q \in RefPairs PROVE Cardinality(Places(refs', q)) = refBag'[q]
      <4>1. Cardinality(Places(refs', q)) = Cardinality(Places(refs, q)) - (IF refs[k] = q THEN 1 ELSE 0)
        BY <1>2, <3>1, PlacesRemoved
      <4>2. Cardinality(Places(refs, q)) = refBag[q] /\ refBag[q] \in Nat
        BY <1>2 DEF RefCounted
      <4> QED BY <1>2, <2>1, <3>1, <3>2, <4>1, <4>2
    <3> QED BY <1>1, <3>3, <3>4 DEF ListsInv, RefCounted
  <2> QED BY <2>4, <2>5
<1> QED BY <1>3, <1>4

LEMMA NoPlaces == \A x : Places(<<>>, x) = {}
  BY DEF Places

LEMMA ListsInvInit == SchedulerExtInit => ListsInv
<1> SUFFICES ASSUME SchedulerExtInit PROVE ListsInv
  OBVIOUS
<1>1. prioQueue = <<>> /\ prioSeen = 0 /\ refs = <<>> /\ refBag = [p \in RefPairs |-> 0]
  BY DEF SchedulerExtInit
<1>2. PrioType /\ PrioSorted
  BY <1>1 DEF PrioType, PrioSorted
<1>3. RefType
  BY <1>1 DEF RefType
<1>4. RefCounted
  BY <1>1, NoPlaces, FS_EmptySet DEF RefCounted
<1> QED BY <1>2, <1>3, <1>4 DEF ListsInv

LEMMA ListsInvStep == ListsInv /\ [SchedulerExtNext]_schedulerExtVars => ListsInv'
<1> SUFFICES ASSUME ListsInv, [SchedulerExtNext]_schedulerExtVars PROVE ListsInv'
  OBVIOUS
<1>1. CASE UNCHANGED <<prioQueue, prioSeen, refs, refBag>>
  BY <1>1 DEF ListsInv, PrioType, PrioSorted, RefType, RefCounted
<1>2. CASE UNCHANGED schedulerExtVars \/ IoNext \/ \E m : SetMode(m)
  BY <1>1, <1>2 DEF schedulerExtVars, listVars, IoNext, IoInit, IoShutdownBegin, IoShutdownJoined,
     IoShutdownClean, IoShutdownClear, IoSubmit, IoTest, IoSpurious, IoRun, SetMode
<1>3. CASE CrossRefClear
  <2>1. refs' = <<>> /\ refBag' = [p \in RefPairs |-> 0] /\ prioQueue' = prioQueue /\ prioSeen' = prioSeen
    BY <1>3 DEF CrossRefClear
  <2>2. RefType'
    BY <2>1 DEF RefType
  <2>3. RefCounted'
    BY <2>1, NoPlaces, FS_EmptySet DEF RefCounted
  <2> QED BY <2>1, <2>2, <2>3 DEF ListsInv, PrioType, PrioSorted
<1> QED BY <1>2, <1>3, PrioDequeueStep, PrioEnqueueStep, RefStep DEF SchedulerExtNext, ListsNext

LEMMA ListsInvGives == ListsInv => SchedulerLists
<1> SUFFICES ASSUME ListsInv PROVE SchedulerLists
  OBVIOUS
<1>1. \A p \in RefPairs : Cardinality({i \in 1 .. Len(refs) : refs[i] = p}) = refBag[p]
  BY DEF ListsInv, RefCounted, Places
<1>2. \A p \in RefPairs : refBag[p] > 0 <=> p \in Range(refs)
  <2> SUFFICES ASSUME NEW p \in RefPairs PROVE refBag[p] > 0 <=> p \in Range(refs)
    OBVIOUS
  <2>1. refs \in Seq(RefPairs) /\ refBag[p] \in Nat /\ Cardinality(Places(refs, p)) = refBag[p]
    BY DEF ListsInv, RefType, RefCounted
  <2>2. IsFiniteSet(Places(refs, p))
    BY <2>1, PlacesFinite
  <2>3. p \in Range(refs) <=> Places(refs, p) # {}
    BY <2>1 DEF Range, Places
  <2>4. refBag[p] = 0 <=> Places(refs, p) = {}
    BY <2>1, <2>2, FS_EmptySet
  <2> QED BY <2>1, <2>3, <2>4
<1>3. Range(refs) \subseteq RefPairs
  BY DEF ListsInv, RefType, Range
<1>4. MarkedReachable = {p[2] : p \in {q \in RefPairs : refBag[q] > 0}}
  <2>1. Range(refs) = {q \in RefPairs : refBag[q] > 0}
    BY <1>2, <1>3
  <2> QED BY <2>1 DEF MarkedReachable
<1>5. \A n \in Cpus : WorkerCount(mode, n) >= 1
  BY SchedulerExtAssumption DEF WorkerCount
<1> QED BY <1>1, <1>4, <1>5 DEF SchedulerLists, ListsInv, PrioSorted

(* Messages leave by priority and then by arrival, the references recorded *)
(* are counted exactly, and every mode has a worker, for any number of     *)
(* levels, actors, messages and references (pny_prio_enqueue,              *)
(* pny_prio_dequeue, pny_cross_ref_add and _remove, pny_cross_ref_mark).   *)
THEOREM ListsStaySound == SchedulerExtSpec => []SchedulerLists
<1> QED BY ListsInvInit, ListsInvStep, ListsInvGives, PTL DEF SchedulerExtSpec

-----------------------------------------------------------------------------
(* The scheduler's list of actors.                                         *)

(* What keeps the links right: an actor stands in the list once, ids that  *)
(* are in it were given out, and the registry knows every actor it has a   *)
(* place for, so that registering such an actor again changes nothing.     *)
OrderIsFresh ==
    /\ \A i, j \in DOMAIN alOrder : alOrder[i] = alOrder[j] => i = j
    /\ \A i \in DOMAIN alOrder : alOrder[i] < alNextId
RegistryKnows == \A a \in 1 .. RegistrySize : a < alNextId => alRegistry[a] = a

ActorListInv == ActorListTypeOK /\ OrderIsFresh /\ RegistryKnows /\ ListLinked

LEMMA ActorListInvInit == ActorListInit => ActorListInv
<1> SUFFICES ASSUME ActorListInit PROVE ActorListInv
  OBVIOUS
<1>1. alOrder = <<>> /\ alOrder \in Seq(Ids) /\ DOMAIN alOrder = {}
  BY DEF ActorListInit
<1>2. ActorListTypeOK
  <2>1. 1 \in 1 .. ListedMax + 1 /\ 0 \in Pointers
    BY ActorListAssumption DEF Pointers
  <2>2. alNext \in [Ids -> Pointers] /\ alPrev \in [Ids -> Pointers] /\ alRegistry \in [1 .. RegistrySize -> Pointers]
    BY <2>1 DEF ActorListInit
  <2> QED BY <1>1, <2>1, <2>2 DEF ActorListInit, ActorListTypeOK
<1>3. OrderIsFresh /\ ListLinked
  BY <1>1 DEF ActorListInit, OrderIsFresh, ListLinked, Nth
<1>4. RegistryKnows
  BY ActorListAssumption DEF ActorListInit, RegistryKnows
<1> QED BY <1>2, <1>3, <1>4 DEF ActorListInv

(* A sequence with a new first element, and one without its i-th.          *)
LEMMA Prepended ==
    ASSUME NEW S, NEW s \in Seq(S), NEW x \in S
    PROVE  LET r == <<x>> \o s IN
           /\ r \in Seq(S) /\ DOMAIN r = 1 .. Len(s) + 1
           /\ r[1] = x /\ \A j \in 1 .. Len(s) : r[j + 1] = s[j]
<1>1. <<x>> \in Seq(S) /\ Len(<<x>>) = 1 /\ <<x>>[1] = x /\ Len(s) \in Nat
  OBVIOUS
<1> DEFINE r == <<x>> \o s
<1>2. /\ r \in Seq(S) /\ Len(r) = 1 + Len(s)
      /\ \A j \in 1 .. 1 + Len(s) : r[j] = IF j <= 1 THEN <<x>>[j] ELSE s[j - 1]
  BY <1>1, ConcatProperties
<1> HIDE DEF r
<1>3. DOMAIN r = 1 .. Len(s) + 1
  BY <1>1, <1>2
<1>4. r[1] = x /\ \A j \in 1 .. Len(s) : r[j + 1] = s[j]
  BY <1>1, <1>2
<1> QED BY <1>2, <1>3, <1>4 DEF r

LEMMA Removed ==
    ASSUME NEW S, NEW s \in Seq(S), NEW i \in DOMAIN s
    PROVE  LET r == RemoveAt(s, i) IN
           /\ r \in Seq(S) /\ DOMAIN r = 1 .. Len(s) - 1
           /\ \A j \in 1 .. Len(s) - 1 : r[j] = IF j < i THEN s[j] ELSE s[j + 1]
<1>1. i \in 1 .. Len(s) /\ Len(s) \in Nat
  OBVIOUS
<1> DEFINE r == RemoveAt(s, i)
           u == SubSeq(s, 1, i - 1)
           v == SubSeq(s, i + 1, Len(s))
<1>2. u \in Seq(S) /\ Len(u) = i - 1 /\ \A j \in 1 .. i - 1 : u[j] = s[j]
  BY <1>1, SubSeqProperties
<1>3. v \in Seq(S) /\ Len(v) = Len(s) - i /\ \A j \in 1 .. Len(s) - i : v[j] = s[j + i]
  BY <1>1, SubSeqProperties
<1>4. r = u \o v
  BY DEF RemoveAt
<1> HIDE DEF r, u, v
<1>5. r \in Seq(S) /\ Len(r) = Len(s) - 1
  BY <1>1, <1>2, <1>3, <1>4
<1>6. \A j \in 1 .. Len(s) - 1 : r[j] = IF j <= i - 1 THEN u[j] ELSE v[j - (i - 1)]
  BY <1>1, <1>2, <1>3, <1>4
<1>7. ASSUME NEW j \in 1 .. Len(s) - 1 PROVE r[j] = IF j < i THEN s[j] ELSE s[j + 1]
  <2>1. CASE j < i
    BY <1>1, <1>2, <1>6, <2>1
  <2>2. CASE ~(j < i)
    <3>1. j - (i - 1) \in 1 .. Len(s) - i /\ ~(j <= i - 1) /\ j - (i - 1) + i = j + 1
      BY <1>1, <2>2
    <3> QED BY <2>2, <3>1, <1>3, <1>6
  <2> QED BY <2>1, <2>2
<1> QED BY <1>5, <1>7 DEF r

LEMMA NewStep ==
    ASSUME ActorListInv, ~alBeyond, NewActor
    PROVE  ActorListInv'
<1> DEFINE n == alNextId
<1>0. /\ n \in Ids /\ alNextId' = n + 1 /\ alOrder' = <<n>> \o alOrder /\ alBeyond' = FALSE
      /\ alNext' = [alNext EXCEPT ![n] = alHead] /\ alHead' = n
      /\ alPrev' = [b \in Ids |-> IF b = n THEN 0 ELSE IF b = alHead THEN n ELSE alPrev[b]]
      /\ alRegistry' = [i \in DOMAIN alRegistry |-> IF i = n THEN i ELSE alRegistry[i]]
      /\ alNext \in [Ids -> Pointers] /\ alPrev \in [Ids -> Pointers] /\ alHead \in Pointers
      /\ alRegistry \in [1 .. RegistrySize -> Pointers] /\ alOrder \in Seq(Ids)
  BY ActorListAssumption DEF ActorListInv, ActorListTypeOK, NewActor, LinkFirst, Ids
<1> DEFINE len == Len(alOrder)
<1>1. len \in Nat /\ DOMAIN alOrder = 1 .. len
  BY <1>0
<1>2. /\ alOrder' \in Seq(Ids) /\ DOMAIN alOrder' = 1 .. len + 1
      /\ alOrder'[1] = n /\ \A j \in 1 .. len : alOrder'[j + 1] = alOrder[j]
  BY <1>0, Prepended
<1>3. /\ \A i, j \in 1 .. len : alOrder[i] = alOrder[j] => i = j
      /\ \A i \in 1 .. len : alOrder[i] < n /\ alOrder[i] \in Ids
      /\ alHead = Nth(alOrder, 1)
      /\ \A i \in 1 .. len : /\ alNext[alOrder[i]] = Nth(alOrder, i + 1)
                             /\ alPrev[alOrder[i]] = Nth(alOrder, i - 1)
  <2>1. \A i \in 1 .. len : alOrder[i] \in Ids
    BY <1>0, <1>1
  <2>2. alHead = Nth(alOrder, 1)
    BY DEF ActorListInv, ListLinked
  <2>3. \A i \in 1 .. len : /\ alNext[alOrder[i]] = Nth(alOrder, i + 1)
                            /\ alPrev[alOrder[i]] = Nth(alOrder, i - 1)
    BY <1>1 DEF ActorListInv, ListLinked
  <2>4. /\ \A i, j \in 1 .. len : alOrder[i] = alOrder[j] => i = j
        /\ \A i \in 1 .. len : alOrder[i] < n
    BY <1>1 DEF ActorListInv, OrderIsFresh
  <2> QED BY <2>1, <2>2, <2>3, <2>4
<1> HIDE DEF n, len
<1>4. n \in Nat /\ n # 0 /\ \A a \in Ids : a \in Nat /\ a # 0
  BY <1>0 DEF Ids
<1>5. \A j \in 2 .. len + 1 : j - 1 \in 1 .. len /\ alOrder'[j] = alOrder[j - 1]
  BY <1>1, <1>2
<1>6. ActorListTypeOK'
  <2>1. n + 1 \in 1 .. ListedMax + 1
    BY <1>0, ActorListAssumption DEF Ids
  <2>2. n \in Pointers /\ 0 \in Pointers
    BY <1>0 DEF Pointers
  <2>3. alNext' \in [Ids -> Pointers] /\ alPrev' \in [Ids -> Pointers]
    BY <1>0, <2>2
  <2>4. alRegistry' \in [1 .. RegistrySize -> Pointers]
    BY <1>0, <2>2
  <2> QED BY <1>0, <1>2, <2>1, <2>2, <2>3, <2>4 DEF ActorListTypeOK
<1>7. OrderIsFresh'
  <2>1. ASSUME NEW i \in 1 .. len + 1, NEW j \in 1 .. len + 1, alOrder'[i] = alOrder'[j] PROVE i = j
    <3>1. CASE i = 1 /\ j # 1
      BY <1>1, <1>2, <1>3, <1>4, <1>5, <2>1, <3>1
    <3>2. CASE i # 1 /\ j = 1
      BY <1>1, <1>2, <1>3, <1>4, <1>5, <2>1, <3>2
    <3>3. CASE i # 1 /\ j # 1
      <4>1. i - 1 = j - 1
        BY <1>1, <1>3, <1>5, <2>1, <3>3
      <4> QED BY <4>1, <1>1
    <3> QED BY <3>1, <3>2, <3>3
  <2>2. ASSUME NEW i \in 1 .. len + 1 PROVE alOrder'[i] < n + 1
    <3>1. CASE i = 1
      BY <1>2, <1>4, <3>1
    <3>2. CASE i # 1
      <4>1. i - 1 \in 1 .. len /\ alOrder'[i] = alOrder[i - 1]
        BY <1>1, <1>5, <3>2
      <4>2. alOrder[i - 1] \in Nat /\ n \in Nat /\ alOrder[i - 1] < n
        BY <1>0, <1>3, <4>1 DEF Ids
      <4> QED BY <4>1, <4>2
    <3> QED BY <3>1, <3>2
  <2> QED BY <1>0, <1>2, <2>1, <2>2 DEF OrderIsFresh, n
<1>8. RegistryKnows'
  <2>1. ASSUME NEW a \in 1 .. RegistrySize, a < n + 1 PROVE alRegistry'[a] = a
    <3>1. CASE a = n
      BY <1>0, <3>1
    <3>2. CASE a # n
      <4>1. a < n
        BY <1>4, <2>1, <3>2, ActorListAssumption
      <4>2. alRegistry[a] = a
        BY <4>1 DEF ActorListInv, RegistryKnows, n
      <4> QED BY <1>0, <3>2, <4>2
    <3> QED BY <3>1, <3>2
  <2> QED BY <1>0, <2>1 DEF RegistryKnows
<1>9. ListLinked'
  <2>1. alHead' = Nth(alOrder', 1)
    BY <1>0, <1>1, <1>2 DEF Nth
  <2>2. ASSUME NEW i \in 1 .. len + 1
        PROVE  alNext'[alOrder'[i]] = Nth(alOrder', i + 1) /\ alPrev'[alOrder'[i]] = Nth(alOrder', i - 1)
    <3>1. CASE i = 1
      <4>1. Nth(alOrder', 2) = Nth(alOrder, 1)
        BY <1>1, <1>2, <1>5 DEF Nth
      <4>2. Nth(alOrder', 0) = 0
        BY <1>1, <1>2 DEF Nth
      <4> QED BY <1>0, <1>2, <1>3, <3>1, <4>1, <4>2
    <3>2. CASE i # 1
      <4>1. i - 1 \in 1 .. len /\ alOrder'[i] = alOrder[i - 1] /\ alOrder[i - 1] < n /\ alOrder[i - 1] \in Ids
        BY <1>1, <1>3, <1>5, <3>2
      <4>2. alNext'[alOrder'[i]] = Nth(alOrder, i)
        <5>1. alOrder[i - 1] # n
          BY <1>4, <4>1
        <5>2. alNext'[alOrder'[i]] = alNext[alOrder[i - 1]] /\ i - 1 + 1 = i
          BY <1>0, <1>1, <4>1, <5>1
        <5>3. alNext[alOrder[i - 1]] = Nth(alOrder, i - 1 + 1)
          BY <1>3, <4>1
        <5> QED BY <5>2, <5>3
      <4>3. Nth(alOrder, i) = Nth(alOrder', i + 1)
        <5>1. i \in 1 .. len <=> i + 1 \in 1 .. len + 1
          BY <1>1, <4>1
        <5> QED BY <1>1, <1>2, <5>1 DEF Nth
      <4>4. CASE i = 2
        <5>1. alOrder'[i] = alHead /\ alOrder'[i] # n /\ alOrder'[i] \in Ids
          BY <1>1, <1>3, <1>4, <4>1, <4>4 DEF Nth
        <5>2. alPrev'[alOrder'[i]] = n
          BY <1>0, <5>1
        <5>3. Nth(alOrder', i - 1) = n
          <6>1. i - 1 = 1 /\ 1 \in 1 .. len + 1
            BY <1>1, <4>4
          <6> QED BY <1>2, <6>1 DEF Nth
        <5> QED BY <4>2, <4>3, <5>2, <5>3
      <4>5. CASE i # 2
        <5>1. i - 2 \in 1 .. len /\ i - 1 - 1 = i - 2 /\ alOrder'[i - 1] = alOrder[i - 2]
          <6>1. i - 1 \in 2 .. len + 1 /\ i - 1 - 1 = i - 2
            BY <1>1, <3>2, <4>5
          <6> QED BY <1>5, <6>1
        <5>2. alOrder'[i] # alHead
          <6>1. 1 \in 1 .. len /\ alHead = alOrder[1]
            BY <1>1, <1>3, <4>1 DEF Nth
          <6>2. i - 1 # 1
            BY <1>1, <4>5
          <6> QED BY <1>3, <4>1, <6>1, <6>2
        <5>3. alPrev'[alOrder'[i]] = alPrev[alOrder[i - 1]]
          <6>1. alOrder[i - 1] \in Ids /\ alOrder[i - 1] # n /\ alOrder[i - 1] # alHead
            BY <1>4, <4>1, <5>2
          <6>2. alPrev'[alOrder[i - 1]] = alPrev[alOrder[i - 1]]
            BY <1>0, <6>1
          <6> QED BY <4>1, <6>2
        <5>4. alPrev[alOrder[i - 1]] = Nth(alOrder, i - 2)
          BY <1>3, <4>1, <5>1
        <5>5. Nth(alOrder, i - 2) = Nth(alOrder', i - 1)
          BY <1>1, <1>2, <5>1 DEF Nth
        <5> QED BY <4>2, <4>3, <5>3, <5>4, <5>5
      <4> QED BY <4>4, <4>5
    <3> QED BY <3>1, <3>2
  <2> QED BY <1>2, <2>1, <2>2 DEF ListLinked
<1> QED BY <1>6, <1>7, <1>8, <1>9 DEF ActorListInv
(* Where the i-th actor of the list goes, the ones before and after it are *)
(* linked to each other.                                                   *)
LEMMA UnlinkStep ==
    ASSUME ActorListInv, ~alBeyond, NEW a \in Ids, Unlink(a)
    PROVE  ActorListInv'
<1>1. PICK i \in DOMAIN alOrder : alOrder[i] = a /\ alOrder' = RemoveAt(alOrder, i)
  BY DEF Unlink
<1> DEFINE len == Len(alOrder)
<1>0. /\ alHead' = (IF alPrev[a] = 0 THEN alNext[a] ELSE alHead)
      /\ alNext' = [b \in Ids |-> IF b = a THEN 0 ELSE IF b = alPrev[a] THEN alNext[a] ELSE alNext[b]]
      /\ alPrev' = [b \in Ids |-> IF b = a THEN 0 ELSE IF b = alNext[a] THEN alPrev[a] ELSE alPrev[b]]
      /\ alNextId' = alNextId /\ alRegistry' = alRegistry /\ alBeyond' = FALSE
      /\ alNext \in [Ids -> Pointers] /\ alPrev \in [Ids -> Pointers] /\ alHead \in Pointers
      /\ alOrder \in Seq(Ids) /\ 0 \in Pointers
  BY DEF ActorListInv, ActorListTypeOK, Unlink, Pointers
<1>2. len \in Nat /\ DOMAIN alOrder = 1 .. len /\ i \in 1 .. len
  BY <1>0, <1>1
<1>3. /\ alOrder' \in Seq(Ids) /\ DOMAIN alOrder' = 1 .. len - 1
      /\ \A j \in 1 .. len - 1 : alOrder'[j] = IF j < i THEN alOrder[j] ELSE alOrder[j + 1]
  BY <1>0, <1>1, Removed
<1>4. /\ alHead = Nth(alOrder, 1)
      /\ \A j \in 1 .. len : /\ alNext[alOrder[j]] = Nth(alOrder, j + 1)
                             /\ alPrev[alOrder[j]] = Nth(alOrder, j - 1)
  BY <1>2 DEF ActorListInv, ListLinked
<1>5. \A j, k \in 1 .. len : alOrder[j] = alOrder[k] => j = k
  BY <1>2 DEF ActorListInv, OrderIsFresh
<1>6. \A j \in 1 .. len : alOrder[j] \in Ids /\ alOrder[j] # 0
  <2>1. \A j \in 1 .. len : alOrder[j] \in Ids
    BY <1>0, <1>2
  <2>2. 0 \notin Ids
    BY DEF Ids
  <2> QED BY <2>1, <2>2
<1>7. alOrder[i] = a
  BY <1>1
<1> HIDE DEF len
<1>8. alNext[a] = Nth(alOrder, i + 1) /\ alPrev[a] = Nth(alOrder, i - 1)
  BY <1>2, <1>4, <1>7
<1>9. ActorListTypeOK'
  <2>1. alNext[a] \in Pointers /\ alPrev[a] \in Pointers
    BY <1>0
  <2>2. alNext' \in [Ids -> Pointers] /\ alPrev' \in [Ids -> Pointers] /\ alHead' \in Pointers
    BY <1>0, <2>1
  <2> QED BY <1>0, <1>3, <2>2 DEF ActorListInv, ActorListTypeOK
<1>10. OrderIsFresh'
  <2>1. ASSUME NEW j \in 1 .. len - 1
        PROVE  \E k \in 1 .. len : alOrder'[j] = alOrder[k] /\ k = IF j < i THEN j ELSE j + 1
    BY <1>2, <1>3
  <2>2. ASSUME NEW j \in 1 .. len - 1, NEW k \in 1 .. len - 1, alOrder'[j] = alOrder'[k] PROVE j = k
    <3>1. PICK x \in 1 .. len : alOrder'[j] = alOrder[x] /\ x = IF j < i THEN j ELSE j + 1
      BY <2>1
    <3>2. PICK y \in 1 .. len : alOrder'[k] = alOrder[y] /\ y = IF k < i THEN k ELSE k + 1
      BY <2>1
    <3>3. x = y
      BY <1>5, <2>2, <3>1, <3>2
    <3> QED BY <1>2, <3>1, <3>2, <3>3
  <2>3. ASSUME NEW j \in 1 .. len - 1 PROVE alOrder'[j] < alNextId'
    <3>1. PICK x \in 1 .. len : alOrder'[j] = alOrder[x]
      BY <2>1
    <3> QED BY <1>0, <1>2, <3>1 DEF ActorListInv, OrderIsFresh
  <2> QED BY <1>3, <2>2, <2>3 DEF OrderIsFresh
<1>11. RegistryKnows'
  BY <1>0 DEF ActorListInv, RegistryKnows
<1>12. \A j \in 0 .. len : Nth(alOrder', j) = IF j < i THEN Nth(alOrder, j) ELSE Nth(alOrder, j + 1)
  <2> TAKE j \in 0 .. len
  <2>1. CASE j = 0
    BY <1>2, <1>3, <2>1 DEF Nth
  <2>2. CASE j = len
    BY <1>2, <1>3, <2>2 DEF Nth
  <2>3. CASE j # 0 /\ j # len
    <3>1. j \in 1 .. len - 1 /\ j \in 1 .. len /\ j + 1 \in 1 .. len
      BY <1>2, <2>3
    <3> QED BY <1>2, <1>3, <3>1 DEF Nth
  <2> QED BY <2>1, <2>2, <2>3
(* The neighbours of the j-th actor, in the list that is left.             *)
<1>13. ASSUME NEW j \in 1 .. len, j # i
       PROVE  /\ alNext'[alOrder[j]] = IF j = i - 1 THEN Nth(alOrder, i + 1) ELSE Nth(alOrder, j + 1)
              /\ alPrev'[alOrder[j]] = IF j = i + 1 THEN Nth(alOrder, i - 1) ELSE Nth(alOrder, j - 1)
  <2> DEFINE b == alOrder[j]
  <2>1. b \in Ids /\ b # 0 /\ b # a
    BY <1>2, <1>5, <1>6, <1>7, <1>13
  <2>2. b = alPrev[a] <=> j = i - 1
    <3>1. CASE i = 1
      BY <1>2, <1>8, <2>1, <3>1 DEF Nth
    <3>2. CASE i # 1
      <4>1. i - 1 \in 1 .. len /\ alPrev[a] = alOrder[i - 1]
        BY <1>2, <1>8, <3>2 DEF Nth
      <4> QED BY <1>5, <4>1
    <3> QED BY <3>1, <3>2
  <2>3. b = alNext[a] <=> j = i + 1
    <3>1. CASE i = len
      <4>1. alNext[a] = 0 /\ j # i + 1
        BY <1>2, <1>8, <3>1 DEF Nth
      <4> QED BY <2>1, <4>1
    <3>2. CASE i # len
      <4>1. i + 1 \in 1 .. len /\ alNext[a] = alOrder[i + 1]
        BY <1>2, <1>8, <3>2 DEF Nth
      <4> QED BY <1>5, <4>1
    <3> QED BY <3>1, <3>2
  <2>4. alNext[b] = Nth(alOrder, j + 1) /\ alPrev[b] = Nth(alOrder, j - 1)
    BY <1>4
  <2> HIDE DEF b
  <2>5. /\ alNext'[b] = IF b = alPrev[a] THEN alNext[a] ELSE alNext[b]
        /\ alPrev'[b] = IF b = alNext[a] THEN alPrev[a] ELSE alPrev[b]
    BY <1>0, <2>1
  <2>6. /\ alNext'[b] = IF j = i - 1 THEN Nth(alOrder, i + 1) ELSE Nth(alOrder, j + 1)
        /\ alPrev'[b] = IF j = i + 1 THEN Nth(alOrder, i - 1) ELSE Nth(alOrder, j - 1)
    BY <1>8, <2>2, <2>3, <2>4, <2>5
  <2> QED BY <2>6 DEF b
<1>14. ListLinked'
  <2>1. alHead' = Nth(alOrder', 1)
    <3>1. CASE i = 1
      <4>1. alPrev[a] = 0 /\ 1 \in 0 .. len /\ ~(1 < i) /\ 1 + 1 = i + 1
        BY <1>2, <1>8, <3>1 DEF Nth
      <4>2. Nth(alOrder', 1) = Nth(alOrder, i + 1)
        BY <1>12, <4>1
      <4> QED BY <1>0, <1>8, <4>1, <4>2
    <3>2. CASE i # 1
      <4>1. i - 1 \in 1 .. len /\ 1 \in 0 .. len /\ 1 < i
        BY <1>2, <3>2
      <4>2. alPrev[a] # 0
        BY <1>2, <1>6, <1>8, <4>1 DEF Nth
      <4>3. Nth(alOrder', 1) = Nth(alOrder, 1)
        BY <1>12, <4>1
      <4> QED BY <1>0, <1>4, <4>2, <4>3
    <3> QED BY <3>1, <3>2
  <2>2. ASSUME NEW k \in 1 .. len - 1
        PROVE  alNext'[alOrder'[k]] = Nth(alOrder', k + 1) /\ alPrev'[alOrder'[k]] = Nth(alOrder', k - 1)
    <3>1. k \in 1 .. len /\ k + 1 \in 0 .. len /\ k - 1 \in 0 .. len /\ k + 1 \in 1 .. len
      BY <1>2
    <3>2. CASE k < i
      <4>1. alOrder'[k] = alOrder[k] /\ k # i /\ k # i + 1
        BY <1>2, <1>3, <3>1, <3>2
      <4>2. Nth(alOrder', k - 1) = Nth(alOrder, k - 1)
        <5>1. k - 1 < i
          BY <1>2, <3>1, <3>2
        <5> QED BY <1>12, <3>1, <5>1
      <4>3. alPrev'[alOrder'[k]] = Nth(alOrder', k - 1)
        BY <1>13, <3>1, <4>1, <4>2
      <4>4. CASE k = i - 1
        <5>1. ~(k + 1 < i) /\ k + 1 + 1 = i + 1
          BY <1>2, <4>4
        <5>2. Nth(alOrder', k + 1) = Nth(alOrder, i + 1)
          BY <1>12, <3>1, <5>1
        <5> QED BY <1>13, <3>1, <4>1, <4>3, <4>4, <5>2
      <4>5. CASE k # i - 1
        <5>1. k + 1 < i
          BY <1>2, <3>1, <3>2, <4>5
        <5>2. Nth(alOrder', k + 1) = Nth(alOrder, k + 1)
          BY <1>12, <3>1, <5>1
        <5> QED BY <1>13, <3>1, <4>1, <4>3, <4>5, <5>2
      <4> QED BY <4>4, <4>5
    <3>3. CASE ~(k < i)
      <4>1. alOrder'[k] = alOrder[k + 1] /\ k + 1 # i /\ k + 1 # i - 1 /\ ~(k + 1 < i)
        BY <1>2, <1>3, <3>1, <3>3
      <4>2. Nth(alOrder', k + 1) = Nth(alOrder, k + 1 + 1)
        BY <1>12, <3>1, <4>1
      <4>3. alNext'[alOrder'[k]] = Nth(alOrder', k + 1)
        BY <1>13, <3>1, <4>1, <4>2
      <4>4. CASE k = i
        <5>1. k - 1 < i /\ k + 1 = i + 1 /\ k - 1 = i - 1
          BY <1>2, <4>4
        <5>2. Nth(alOrder', k - 1) = Nth(alOrder, i - 1)
          BY <1>12, <3>1, <5>1
        <5> QED BY <1>13, <3>1, <4>1, <4>3, <5>1, <5>2
      <4>5. CASE k # i
        <5>1. ~(k - 1 < i) /\ k + 1 # i + 1 /\ k - 1 + 1 = k /\ k + 1 - 1 = k
          BY <1>2, <3>1, <3>3, <4>5
        <5>2. Nth(alOrder', k - 1) = Nth(alOrder, k)
          BY <1>12, <3>1, <5>1
        <5>3. alPrev'[alOrder[k + 1]] = Nth(alOrder, k + 1 - 1)
          BY <1>13, <3>1, <4>1, <5>1
        <5> QED BY <4>1, <4>3, <5>1, <5>2, <5>3
      <4> QED BY <4>4, <4>5
    <3> QED BY <3>2, <3>3
  <2> QED BY <1>3, <2>1, <2>2 DEF ListLinked
<1> QED BY <1>9, <1>10, <1>11, <1>14 DEF ActorListInv

(* An actor the registry has a place for is found there.                   *)
LEMMA RegisterStep ==
    ASSUME ActorListInv, ~alBeyond, NEW a \in Ids, Register(a)
    PROVE  ActorListInv'
<1>0. /\ alNextId' = alNextId /\ alRegistry' = alRegistry /\ alOrder' = alOrder
      /\ alBeyond' = (alBeyond \/ a > RegistrySize)
      /\ alNext \in [Ids -> Pointers] /\ alPrev \in [Ids -> Pointers] /\ alHead \in Pointers
      /\ alRegistry \in [1 .. RegistrySize -> Pointers] /\ alOrder \in Seq(Ids)
  BY DEF ActorListInv, ActorListTypeOK, Register
<1>1. OrderIsFresh' /\ RegistryKnows'
  BY <1>0 DEF ActorListInv, OrderIsFresh, RegistryKnows
<1>2. ActorListTypeOK'
  <2>1. a \in Pointers /\ 0 \in Pointers
    BY DEF Pointers
  <2>2. alNext' \in [Ids -> Pointers] /\ alPrev' \in [Ids -> Pointers] /\ alHead' \in Pointers
    BY <1>0, <2>1 DEF Register, LinkFirst
  <2>3. alBeyond' \in BOOLEAN
    BY <1>0 DEF ActorListInv, ActorListTypeOK
  <2> QED BY <1>0, <2>2, <2>3 DEF ActorListInv, ActorListTypeOK
<1>3. ListLinked'
  <2>1. CASE a > RegistrySize
    BY <1>0, <2>1 DEF ListLinked
  <2>2. CASE ~(a > RegistrySize)
    <3>1. a \in 1 .. RegistrySize
      BY <2>2, ActorListAssumption DEF Ids
    <3>2. PICK i \in DOMAIN alOrder : alOrder[i] = a
      BY DEF Register, Range
    <3>3. Registered(a)
      BY <1>0, <3>1, <3>2 DEF ActorListInv, OrderIsFresh, RegistryKnows, Registered
    <3>4. UNCHANGED <<alHead, alNext, alPrev>>
      BY <3>3 DEF Register
    <3> QED BY <1>0, <3>4 DEF ActorListInv, ListLinked, Nth
  <2> QED BY <2>1, <2>2
<1> QED BY <1>1, <1>2, <1>3 DEF ActorListInv

LEMMA ActorListInvStep == ActorListInv /\ [ActorListNext]_actorListVars => ActorListInv'
<1> SUFFICES ASSUME ActorListInv, [ActorListNext]_actorListVars PROVE ActorListInv'
  OBVIOUS
<1>1. CASE UNCHANGED actorListVars
  BY <1>1 DEF actorListVars, ActorListInv, ActorListTypeOK, OrderIsFresh, RegistryKnows, ListLinked, Nth
<1>2. CASE ActorListNext
  BY <1>2, NewStep, UnlinkStep, RegisterStep DEF ActorListNext
<1> QED BY <1>1, <1>2

(* The links of the scheduler's list (pny_actor_new, pny_actor_register,   *)
(* pny_actor_destroy) lead through every actor, for any number of them.    *)
THEOREM ListStaysLinked == ActorListSpec => []ListLinked
<1>1. ActorListInv => ListLinked
  BY DEF ActorListInv
<1> QED BY <1>1, ActorListInvInit, ActorListInvStep, PTL DEF ActorListSpec

(* What stands beside the ticks, together.                                 *)
THEOREM SchedulerIsSafe == SchedulerExtSpec /\ ActorListSpec => []SchedulerSafe
<1>1. IoPoolDrains /\ SchedulerLists /\ ListLinked => SchedulerSafe
  BY DEF SchedulerSafe
<1> QED BY <1>1, PoolDrains, ListsStaySound, ListStaysLinked, PTL

-----------------------------------------------------------------------------
(* Containers: rings.  A position past the last slot lies at the front.    *)

RingVals == Elems \cup {DsNull}
ItemMaps == UNION {[0 .. c - 1 -> RingVals] : c \in Nat \ {0}}
RingRecords == [cap : Nat \ {0}, max : Nat, head : Nat, tail : Nat, count : Nat, items : ItemMaps]
Wrapped(x, c) == IF x < c THEN x ELSE x - c

(* The ring r holds the elements of q, the first of them at its head.      *)
RingWithin(r) ==
    r.items \in [0 .. r.cap - 1 -> RingVals] /\ r.head \in 0 .. r.cap - 1 /\ r.count <= r.cap
RingHolds(r, q) ==
    /\ r \in RingRecords /\ RingWithin(r) /\ r.tail = Wrapped(r.head + r.count, r.cap)
    /\ q \in Seq(Elems) /\ Len(q) = r.count
    /\ \A i \in 1 .. r.count : q[i] = r.items[Wrapped(r.head + i - 1, r.cap)]

LEMMA RingFields ==
    ASSUME NEW r \in RingRecords
    PROVE  r.cap \in Nat \ {0} /\ r.max \in Nat /\ r.head \in Nat /\ r.tail \in Nat /\ r.count \in Nat /\ r.items \in ItemMaps
BY DEF RingRecords

LEMMA WrappedIs ==
    ASSUME NEW c \in Nat \ {0}, NEW x \in 0 .. 2 * c - 1
    PROVE  x % c = Wrapped(x, c) /\ Wrapped(x, c) \in 0 .. c - 1
<1>1. c \in Nat /\ c > 0 /\ x \in Nat
  OBVIOUS
<1> DEFINE q == x \div c
           r == x % c
<1>2. q \in Int /\ r \in 0 .. c - 1 /\ x = c * q + r
  BY <1>1
<1> HIDE DEF q, r
<1>3. ~(q <= -1)
  <2>1. q <= -1 => c * q <= -c
    BY <1>1, <1>2
  <2> QED BY <1>1, <1>2, <2>1
<1>4. ~(q >= 2)
  <2>1. q >= 2 => c * q >= 2 * c
    BY <1>1, <1>2
  <2> QED BY <1>1, <1>2, <2>1
<1>5. q = 0 \/ q = 1
  BY <1>2, <1>3, <1>4
<1>6. r = IF x < c THEN x ELSE x - c
  BY <1>1, <1>2, <1>5
<1> QED BY <1>1, <1>6 DEF r, Wrapped

(* A ring with one element more.                                           *)
LEMMA StoreHolds ==
    ASSUME NEW r, NEW q, RingHolds(r, q), r.count < r.cap, NEW x \in Elems
    PROVE  RingHolds(Store(r, x), Append(q, x)) /\ Store(r, x).cap = r.cap /\ Store(r, x).count = r.count + 1
<1>0. r \in RingRecords /\ RingWithin(r)
  BY DEF RingHolds
<1>1. PICK c \in Nat \ {0} : c = r.cap
  BY <1>0, RingFields
<1>2. PICK h \in 0 .. c - 1 : h = r.head
  BY <1>0, <1>1 DEF RingWithin
<1>3. PICK n \in Nat : n = r.count /\ n < c
  BY <1>0, <1>1, RingFields
<1>4. PICK m : m = r.items /\ m \in [0 .. c - 1 -> RingVals]
  BY <1>0, <1>1 DEF RingWithin
<1>5. PICK t : t = r.tail /\ t = Wrapped(h + n, c) /\ t \in 0 .. c - 1
  <2>1. h + n \in 0 .. 2 * c - 1
    BY <1>1, <1>2, <1>3
  <2> QED BY <1>1, <1>2, <1>3, <2>1, WrappedIs DEF RingHolds
<1>6. PICK items : items = [m EXCEPT ![t] = x]
  OBVIOUS
<1>7. PICK u : u = (t + 1) % c /\ u = Wrapped(h + (n + 1), c) /\ u \in 0 .. c - 1
  <2>1. t + 1 \in 0 .. 2 * c - 1 /\ h + (n + 1) \in 0 .. 2 * c - 1
    BY <1>1, <1>2, <1>3, <1>5
  <2>2. Wrapped(t + 1, c) = Wrapped(h + (n + 1), c)
    BY <1>1, <1>2, <1>3, <1>5 DEF Wrapped
  <2> QED BY <1>1, <2>1, <2>2, WrappedIs
<1>8. Store(r, x) = [r EXCEPT !.items = items, !.tail = u, !.count = n + 1]
  BY <1>0, <1>1, <1>3, <1>4, <1>5, <1>6, <1>7 DEF Store, RingRecords
<1>9. items \in [0 .. c - 1 -> RingVals] /\ items \in ItemMaps
  BY <1>1, <1>4, <1>5, <1>6 DEF RingVals, ItemMaps
<1>10. PICK s : s = Store(r, x)
  OBVIOUS
<1>11. /\ s \in RingRecords /\ s.cap = c /\ s.head = h /\ s.tail = u /\ s.count = n + 1 /\ s.items = items
  <2>1. s = [r EXCEPT !.items = items, !.tail = u, !.count = n + 1]
    BY <1>8, <1>10
  <2>2. u \in Nat /\ n + 1 \in Nat
    BY <1>1, <1>3, <1>7
  <2>3. s \in RingRecords
    BY <1>0, <1>9, <2>1, <2>2 DEF RingRecords
  <2>4. s.cap = r.cap /\ s.head = r.head /\ s.tail = u /\ s.count = n + 1 /\ s.items = items
    BY <1>0, <2>1 DEF RingRecords
  <2> QED BY <2>3, <2>4, <1>1, <1>2
<1>12. q \in Seq(Elems) /\ Len(q) = n /\ \A i \in 1 .. n : q[i] = m[Wrapped(h + i - 1, c)]
  BY <1>1, <1>2, <1>3, <1>4 DEF RingHolds
<1>13. PICK p : p = Append(q, x)
  OBVIOUS
<1>14. p \in Seq(Elems) /\ Len(p) = n + 1 /\ p[n + 1] = x /\ \A i \in 1 .. n : p[i] = q[i]
  BY <1>12, <1>13
<1>15. ASSUME NEW i \in 1 .. n + 1 PROVE p[i] = items[Wrapped(h + i - 1, c)]
  <2>1. CASE i = n + 1
    <3>1. h + i - 1 = h + n
      BY <2>1, <1>2, <1>3
    <3> QED BY <2>1, <3>1, <1>4, <1>5, <1>6, <1>14
  <2>2. CASE i # n + 1
    <3>1. i \in 1 .. n
      BY <2>2, <1>3
    <3>2. Wrapped(h + i - 1, c) # t
      BY <3>1, <1>1, <1>2, <1>3, <1>5 DEF Wrapped
    <3>3. Wrapped(h + i - 1, c) \in 0 .. c - 1
      BY <3>1, <1>1, <1>2, <1>3 DEF Wrapped
    <3>4. items[Wrapped(h + i - 1, c)] = m[Wrapped(h + i - 1, c)]
      BY <3>2, <3>3, <1>4, <1>6
    <3> QED BY <3>1, <3>4, <1>12, <1>14
  <2> QED BY <2>1, <2>2
<1>16. RingHolds(s, p)
  BY <1>1, <1>2, <1>3, <1>7, <1>9, <1>11, <1>14, <1>15 DEF RingHolds, RingWithin
<1> QED BY <1>10, <1>11, <1>13, <1>16, <1>1, <1>3

(* The capacity that is asked for is there after at most need doublings.   *)
LEMMA DoubledEnough ==
    ASSUME NEW cap \in Nat \ {0}, NEW need \in Nat
    PROVE  Doubled(cap, need) \in Nat \ {0} /\ Doubled(cap, need) >= need
<1> DEFINE Def(F) == F = [n \in 0 .. need |-> IF n = 0 THEN cap ELSE IF F[n - 1] >= need THEN F[n - 1] ELSE 2 * F[n - 1]]
<1>1. PICK next : next = [n \in 1 .. need |-> [x \in Nat |-> IF x >= need THEN x ELSE 2 * x]]
  OBVIOUS
<1>2. next \in [1 .. need -> [Nat -> Nat]]
  BY <1>1
<1>3. PICK F : Steps(need, Nat, cap, next, F)
  BY <1>2, StepByStep
<1>4. Def(F)
  <2>1. F \in [0 .. need -> Nat] /\ F[0] = cap
    BY <1>3 DEF Steps
  <2>2. ASSUME NEW n \in 1 .. need PROVE F[n] = IF F[n - 1] >= need THEN F[n - 1] ELSE 2 * F[n - 1]
    <3>1. F[n] = next[n][F[n - 1]] /\ F[n - 1] \in Nat
      BY <1>3, <2>1 DEF Steps
    <3> QED BY <3>1, <1>1
  <2> QED BY <2>1, <2>2
<1>5. PICK G : G = (CHOOSE H : Def(H))
  OBVIOUS
<1>6. Def(G) /\ Doubled(cap, need) = G[need]
  BY <1>4, <1>5 DEF Doubled
<1>7. /\ G[0] = cap
      /\ \A n \in 1 .. need : G[n] = IF G[n - 1] >= need THEN G[n - 1] ELSE 2 * G[n - 1]
  BY <1>6
<1> DEFINE I == {n \in 0 .. need : G[n] \in Nat \ {0} /\ (G[n] >= need \/ G[n] >= n + 1)}
<1>8. 0 \in I
  BY <1>7
<1>9. ASSUME NEW n \in 1 .. need, n - 1 \in I PROVE n \in I
  BY <1>7, <1>9
<1>10. \A n \in 0 .. need : n \in I
  BY <1>8, <1>9, Upwards
<1>11. need \in I
  BY <1>10
<1> QED BY <1>6, <1>11

(* The copy begins at the first slot.                                      *)
LEMMA GrowHolds ==
    ASSUME NEW r, NEW q, RingHolds(r, q), NEW need \in Nat, need > r.count
    PROVE  RingHolds(Grow(r, need), q) /\ Grow(r, need).cap >= need /\ Grow(r, need).count = r.count
<1>0. r \in RingRecords /\ RingWithin(r)
  BY DEF RingHolds
<1>1. PICK c \in Nat \ {0} : c = r.cap
  BY <1>0, RingFields
<1>2. PICK h \in 0 .. c - 1 : h = r.head
  BY <1>0, <1>1 DEF RingWithin
<1>3. PICK n \in Nat : n = r.count /\ n <= c /\ n < need
  BY <1>0, <1>1, RingFields DEF RingWithin
<1>4. PICK m : m = r.items /\ m \in [0 .. c - 1 -> RingVals]
  BY <1>0, <1>1 DEF RingWithin
<1>5. PICK e \in Nat \ {0} : e = Doubled(c, need) /\ e >= need
  BY DoubledEnough
<1>6. PICK items : items = [i \in 0 .. e - 1 |-> IF i < n THEN m[(h + i) % c] ELSE DsNull]
  OBVIOUS
<1>7. ASSUME NEW i \in 0 .. n - 1 PROVE (h + i) % c = Wrapped(h + i, c) /\ Wrapped(h + i, c) \in 0 .. c - 1
  <2>1. h + i \in 0 .. 2 * c - 1
    BY <1>1, <1>2, <1>3
  <2> QED BY <2>1, WrappedIs
<1>8. items \in [0 .. e - 1 -> RingVals] /\ items \in ItemMaps
  <2>1. ASSUME NEW i \in 0 .. e - 1 PROVE (IF i < n THEN m[(h + i) % c] ELSE DsNull) \in RingVals
    <3>1. CASE i < n
      <4>1. i \in 0 .. n - 1
        BY <3>1, <1>3
      <4> QED BY <3>1, <4>1, <1>4, <1>7
    <3>2. CASE ~(i < n)
      BY <3>2 DEF RingVals
    <3> QED BY <3>1, <3>2
  <2>2. items \in [0 .. e - 1 -> RingVals]
    BY <1>6, <2>1
  <2> QED BY <2>2, <1>5 DEF ItemMaps
<1>9. PICK s : s = Grow(r, need)
  OBVIOUS
<1>10. s = [r EXCEPT !.cap = e, !.head = 0, !.tail = n, !.items = items]
  BY <1>1, <1>2, <1>3, <1>4, <1>5, <1>6, <1>9 DEF Grow
<1>11. s \in RingRecords
  BY <1>0, <1>5, <1>3, <1>8, <1>10 DEF RingRecords
<1>12. s.cap = e /\ s.head = 0 /\ s.tail = n /\ s.count = n /\ s.items = items
  BY <1>0, <1>3, <1>10 DEF RingRecords
<1>13. q \in Seq(Elems) /\ Len(q) = n /\ \A i \in 1 .. n : q[i] = m[Wrapped(h + i - 1, c)]
  BY <1>1, <1>2, <1>3, <1>4 DEF RingHolds
<1>14. ASSUME NEW i \in 1 .. n PROVE q[i] = items[Wrapped(0 + i - 1, e)]
  <2>1. PICK j \in 0 .. n - 1 : j = i - 1 /\ j \in 0 .. e - 1 /\ j < n
    BY <1>3, <1>5
  <2>2. Wrapped(0 + i - 1, e) = j
    BY <2>1, <1>5, <1>3 DEF Wrapped
  <2>3. items[j] = m[(h + j) % c]
    BY <2>1, <1>6
  <2>4. items[j] = m[Wrapped(h + j, c)]
    BY <2>1, <2>3, <1>7
  <2>5. h + j = h + i - 1
    BY <2>1
  <2> QED BY <2>2, <2>4, <2>5, <1>13
<1>15. n = Wrapped(0 + n, e)
  BY <1>3, <1>5 DEF Wrapped
<1>16. RingWithin(s)
  BY <1>3, <1>5, <1>8, <1>12 DEF RingWithin
<1>17. RingHolds(s, q)
  BY <1>11, <1>12, <1>13, <1>14, <1>15, <1>16 DEF RingHolds
<1> QED BY <1>3, <1>5, <1>9, <1>12, <1>17

LEMMA RoomHolds ==
    ASSUME NEW r, NEW q, RingHolds(r, q), NEW n \in Nat \ {0}
    PROVE  RingHolds(Room(r, n), q) /\ Room(r, n).count = r.count /\ r.count + n <= Room(r, n).cap
<1>1. r.count \in Nat /\ r.cap \in Nat
  BY RingFields DEF RingHolds
<1>2. PICK need \in Nat : need = r.count + n /\ need > r.count
  BY <1>1
<1>3. CASE need > r.cap
  <2>1. Room(r, n) = Grow(r, need)
    BY <1>2, <1>3 DEF Room
  <2> QED BY <2>1, <1>2, GrowHolds
<1>4. CASE ~(need > r.cap)
  <2>1. Room(r, n) = r
    BY <1>2, <1>4 DEF Room
  <2> QED BY <2>1, <1>1, <1>2, <1>4
<1> QED BY <1>3, <1>4

LEMMA StoredRecord ==
    ASSUME NEW r \in RingRecords, NEW x \in Elems
    PROVE  Store(r, x) \in RingRecords
<1>1. PICK c \in Nat \ {0}, t \in Nat, n \in Nat : c = r.cap /\ t = r.tail /\ n = r.count
  BY RingFields
<1>2. PICK m : m = r.items /\ m \in ItemMaps
  BY RingFields
<1>3. PICK items : items = [m EXCEPT ![t] = x]
  OBVIOUS
<1>4. items \in ItemMaps
  BY <1>2, <1>3 DEF ItemMaps, RingVals
<1>5. PICK v \in Nat, k \in Nat : v = (t + 1) % c /\ k = n + 1
  BY <1>1
<1>6. Store(r, x) = [r EXCEPT !.items = items, !.tail = v, !.count = k]
  BY <1>1, <1>2, <1>3, <1>5 DEF Store, RingRecords
<1>7. [r EXCEPT !.items = items, !.tail = v, !.count = k] \in RingRecords
  BY <1>4 DEF RingRecords
<1> QED BY <1>6, <1>7

(* What is written one by one.                                             *)
LEMMA WrittenIs ==
    ASSUME NEW r \in RingRecords, NEW s \in Seq(Elems)
    PROVE  \E F : Steps(Len(s), RingRecords, r, [n \in 1 .. Len(s) |-> [u \in RingRecords |-> Store(u, s[n])]], F)
                  /\ Written(r, s) = F[Len(s)]
<1> DEFINE Def(F) == F = [n \in 0 .. Len(s) |-> IF n = 0 THEN r ELSE Store(F[n - 1], s[n])]
<1>0. PICK L \in Nat : L = Len(s) /\ \A n \in 1 .. L : s[n] \in Elems
  BY ElementOfSeq
<1>1. PICK next : next = [n \in 1 .. L |-> [u \in RingRecords |-> Store(u, s[n])]]
  OBVIOUS
<1>2. next \in [1 .. L -> [RingRecords -> RingRecords]]
  BY <1>0, <1>1, StoredRecord
<1>3. PICK F : Steps(L, RingRecords, r, next, F)
  BY <1>2, StepByStep
<1>4. Def(F)
  <2>1. F \in [0 .. L -> RingRecords] /\ F[0] = r
    BY <1>3 DEF Steps
  <2>2. ASSUME NEW n \in 1 .. L PROVE F[n] = Store(F[n - 1], s[n])
    <3>1. F[n] = next[n][F[n - 1]] /\ F[n - 1] \in RingRecords
      BY <1>3, <2>1 DEF Steps
    <3> QED BY <3>1, <1>1
  <2> QED BY <2>1, <2>2, <1>0
<1>5. PICK G : G = (CHOOSE H : Def(H))
  OBVIOUS
<1>6. Def(G) /\ Written(r, s) = G[L]
  BY <1>0, <1>4, <1>5 DEF Written
<1>7. G[0] = r /\ \A n \in 1 .. L : G[n] = Store(G[n - 1], s[n])
  BY <1>0, <1>6
<1> DEFINE I == {n \in 0 .. L : G[n] = F[n]}
<1>8. 0 \in I
  BY <1>3, <1>7 DEF Steps
<1>9. ASSUME NEW n \in 1 .. L, n - 1 \in I PROVE n \in I
  <2>1. F[n] = next[n][F[n - 1]] /\ F[n - 1] \in RingRecords
    BY <1>3 DEF Steps
  <2>2. F[n] = Store(F[n - 1], s[n])
    BY <2>1, <1>1
  <2> QED BY <2>2, <1>7, <1>9
<1>10. \A n \in 0 .. L : n \in I
  BY <1>8, <1>9, Upwards
<1>11. G[L] = F[L]
  BY <1>10
<1> QED BY <1>0, <1>1, <1>3, <1>6, <1>11

LEMMA WrittenHolds ==
    ASSUME NEW r, NEW q, RingHolds(r, q), NEW s \in Seq(Elems), r.count + Len(s) <= r.cap
    PROVE  RingHolds(Written(r, s), q \o s)
<1>0. r \in RingRecords /\ q \in Seq(Elems) /\ Len(q) = r.count
  BY DEF RingHolds
<1>1. PICK L \in Nat : L = Len(s) /\ \A n \in 1 .. L : s[n] \in Elems
  BY ElementOfSeq
<1>2. PICK next : next = [n \in 1 .. L |-> [u \in RingRecords |-> Store(u, s[n])]]
  OBVIOUS
<1>3. PICK F : Steps(L, RingRecords, r, next, F) /\ Written(r, s) = F[L]
  BY <1>0, <1>1, <1>2, WrittenIs
<1>4. \A n \in 1 .. L : F[n] = Store(F[n - 1], s[n])
  <2> SUFFICES ASSUME NEW n \in 1 .. L PROVE F[n] = Store(F[n - 1], s[n])
    OBVIOUS
  <2>1. F[n] = next[n][F[n - 1]] /\ F[n - 1] \in RingRecords
    BY <1>3 DEF Steps
  <2> QED BY <2>1, <1>2
<1>5. PICK Q : Q = [n \in 0 .. L |-> q \o SubSeq(s, 1, n)]
  OBVIOUS
<1>6. Q[0] = q /\ Q[L] = q \o s
  <2>1. SubSeq(s, 1, 0) = <<>> /\ SubSeq(s, 1, L) = s
    BY <1>1
  <2>2. Q[0] = q \o SubSeq(s, 1, 0) /\ Q[L] = q \o SubSeq(s, 1, L)
    BY <1>1, <1>5
  <2>3. q \o <<>> = q
    BY <1>0
  <2> QED BY <2>1, <2>2, <2>3
<1>7. ASSUME NEW n \in 1 .. L PROVE Q[n] = Append(Q[n - 1], s[n])
  <2>1. SubSeq(s, 1, n) = Append(SubSeq(s, 1, n - 1), s[n]) /\ SubSeq(s, 1, n - 1) \in Seq(Elems) /\ s[n] \in Elems
    BY <1>1
  <2>2. PICK a \in Seq(Elems) : a = SubSeq(s, 1, n - 1)
    BY <2>1
  <2>3. q \o Append(a, s[n]) = Append(q \o a, s[n])
    BY <1>0, <2>1
  <2>4. Q[n] = q \o Append(a, s[n]) /\ Q[n - 1] = q \o a
    <3>1. n \in 0 .. L /\ n - 1 \in 0 .. L
      OBVIOUS
    <3> QED BY <3>1, <1>5, <2>1, <2>2
  <2> QED BY <2>3, <2>4
<1> DEFINE I == {n \in 0 .. L : RingHolds(F[n], Q[n]) /\ F[n].cap = r.cap /\ F[n].count = r.count + n}
<1>8. r.count \in Nat /\ r.cap \in Nat
  BY <1>0, RingFields
<1>9. 0 \in I
  BY <1>3, <1>6, <1>8 DEF Steps
<1>10. ASSUME NEW n \in 1 .. L, n - 1 \in I PROVE n \in I
  <2>1. RingHolds(F[n - 1], Q[n - 1]) /\ F[n - 1].cap = r.cap /\ F[n - 1].count = r.count + (n - 1)
    BY <1>10
  <2>2. F[n - 1].count < F[n - 1].cap
    BY <2>1, <1>1, <1>8
  <2>3. PICK x \in Elems : x = s[n]
    BY <1>1
  <2>4. RingHolds(Store(F[n - 1], x), Append(Q[n - 1], x)) /\ Store(F[n - 1], x).cap = F[n - 1].cap
        /\ Store(F[n - 1], x).count = F[n - 1].count + 1
    BY <2>1, <2>2, StoreHolds
  <2>5. F[n] = Store(F[n - 1], x) /\ Q[n] = Append(Q[n - 1], x)
    BY <1>4, <1>7, <2>3
  <2>6. F[n].count = r.count + n
    BY <2>1, <2>4, <2>5, <1>8
  <2>7. RingHolds(F[n], Q[n]) /\ F[n].cap = r.cap
    BY <2>1, <2>4, <2>5
  <2>8. n \in 0 .. L
    OBVIOUS
  <2> QED BY <2>6, <2>7, <2>8
<1>11. \A n \in 0 .. L : n \in I
  BY <1>9, <1>10, Upwards
<1>12. RingHolds(F[L], Q[L])
  BY <1>11
<1> QED BY <1>3, <1>6, <1>12

(* What is taken out is the front.                                         *)
LEMMA DropHolds ==
    ASSUME NEW r, NEW q, RingHolds(r, q), NEW k \in Nat, k <= r.count, NEW p,
           p \in Seq(Elems), Len(p) = Len(q) - k, \A i \in 1 .. Len(p) : p[i] = q[i + k]
    PROVE  RingHolds([r EXCEPT !.head = (@ + k) % r.cap, !.count = @ - k], p)
<1>0. r \in RingRecords /\ RingWithin(r) /\ k \in Nat
  BY DEF RingHolds
<1>1. PICK c \in Nat \ {0} : c = r.cap
  BY <1>0, RingFields
<1>2. PICK h \in 0 .. c - 1 : h = r.head
  BY <1>0, <1>1 DEF RingWithin
<1>3. PICK n \in Nat : n = r.count /\ n <= c /\ k <= n
  BY <1>0, <1>1, RingFields DEF RingWithin
<1>4. PICK m : m = r.items /\ m \in [0 .. c - 1 -> RingVals]
  BY <1>0, <1>1 DEF RingWithin
<1>5. PICK u : u = (h + k) % c /\ u = Wrapped(h + k, c) /\ u \in 0 .. c - 1
  <2>0. k \in Nat
    OBVIOUS
  <2>1. h + k \in 0 .. 2 * c - 1
    BY <2>0, <1>2, <1>3
  <2> QED BY <2>1, WrappedIs
<1>6. PICK l \in Nat : l = n - k
  BY <1>3
<1>61. /\ h \in Int /\ c \in Int /\ n \in Int /\ k \in Int /\ l \in Int /\ u \in Int
       /\ h >= 0 /\ h < c /\ n <= c /\ k >= 0 /\ k <= n /\ l = n - k
  BY <1>2, <1>3, <1>5, <1>6
<1>62. (h + k < c /\ u = h + k) \/ (h + k >= c /\ u = h + k - c)
  <2>1. u = Wrapped(h + k, c)
    BY <1>5
  <2> QED BY <2>1, <1>61 DEF Wrapped
<1>63. /\ h + k < c => u + l = h + n
       /\ h + k >= c => u + l = h + n - c /\ h + n >= c /\ u + l < c /\ ~(h + n < c)
  BY <1>61, <1>62
<1>7. PICK s : s = [r EXCEPT !.head = u, !.count = l]
  OBVIOUS
<1>8. s = [r EXCEPT !.head = (@ + k) % r.cap, !.count = @ - k]
  BY <1>0, <1>1, <1>2, <1>3, <1>5, <1>6, <1>7 DEF RingRecords
<1>9. s \in RingRecords
  <2>1. u \in Nat
    BY <1>5
  <2> QED BY <2>1, <1>0, <1>6, <1>7 DEF RingRecords
<1>10. s.cap = c /\ s.head = u /\ s.tail = r.tail /\ s.count = l /\ s.items = m
  BY <1>0, <1>1, <1>4, <1>7 DEF RingRecords
<1>11. r.tail = Wrapped(u + l, c)
  <2>1. r.tail = Wrapped(h + n, c)
    BY <1>1, <1>2, <1>3 DEF RingHolds
  <2>2. Wrapped(h + n, c) = Wrapped(u + l, c)
    BY <1>62, <1>63 DEF Wrapped
  <2> QED BY <2>1, <2>2
<1>12. q \in Seq(Elems) /\ Len(q) = n /\ \A i \in 1 .. n : q[i] = m[Wrapped(h + i - 1, c)]
  BY <1>1, <1>2, <1>3, <1>4 DEF RingHolds
<1>13. Len(p) = l /\ \A i \in 1 .. l : p[i] = q[i + k]
  BY <1>3, <1>6, <1>12
<1>14. ASSUME NEW i \in 1 .. l PROVE p[i] = m[Wrapped(u + i - 1, c)]
  <2>1. i + k \in 1 .. n
    BY <1>3, <1>6
  <2>2. Wrapped(u + i - 1, c) = Wrapped(h + (i + k) - 1, c)
    <3>1. i \in Int /\ i + k <= n /\ i >= 1
      BY <2>1
    <3>2. CASE h + k < c
      <4>1. u + i - 1 = h + (i + k) - 1
        BY <3>1, <3>2, <1>61, <1>62
      <4> QED BY <4>1
    <3>3. CASE ~(h + k < c)
      <4>1. u + i - 1 = h + (i + k) - 1 - c /\ u + i - 1 < c /\ ~(h + (i + k) - 1 < c)
        BY <3>1, <3>3, <1>61, <1>62
      <4>2. Wrapped(u + i - 1, c) = u + i - 1
        BY <4>1 DEF Wrapped
      <4>3. Wrapped(h + (i + k) - 1, c) = h + (i + k) - 1 - c
        BY <4>1 DEF Wrapped
      <4> QED BY <4>1, <4>2, <4>3
    <3> QED BY <3>2, <3>3
  <2> QED BY <2>1, <2>2, <1>12, <1>13
<1>15. RingWithin(s)
  <2>1. l <= c
    BY <1>61
  <2>2. s.items \in [0 .. s.cap - 1 -> RingVals]
    BY <1>4, <1>10
  <2>3. s.head \in 0 .. s.cap - 1
    BY <1>5, <1>10
  <2>4. s.count <= s.cap
    BY <1>10, <2>1
  <2> QED BY <2>2, <2>3, <2>4 DEF RingWithin
<1>16. RingHolds(s, p)
  BY <1>9, <1>10, <1>11, <1>13, <1>14, <1>15 DEF RingHolds
<1> QED BY <1>8, <1>16

(* What is left of a sequence without its first k elements.                *)
LEMMA Dropped ==
    ASSUME NEW S, NEW q \in Seq(S), NEW k \in Nat, k <= Len(q)
    PROVE  /\ SubSeq(q, k + 1, Len(q)) \in Seq(S) /\ Len(SubSeq(q, k + 1, Len(q))) = Len(q) - k
           /\ \A i \in 1 .. Len(q) - k : SubSeq(q, k + 1, Len(q))[i] = q[i + k]
<1>1. Len(q) \in Nat /\ k + 1 \in Nat /\ k + 1 >= 1
  OBVIOUS
<1>2. SubSeq(q, k + 1, Len(q)) \in Seq(S)
  BY <1>1
<1>3. Len(SubSeq(q, k + 1, Len(q))) = Len(q) - k
  BY <1>1
<1>4. ASSUME NEW i \in 1 .. Len(q) - k PROVE SubSeq(q, k + 1, Len(q))[i] = q[i + k]
  <2>1. SubSeq(q, k + 1, Len(q))[i] = q[(k + 1) + i - 1]
    BY <1>1
  <2>2. (k + 1) + i - 1 = i + k
    BY <1>1
  <2> QED BY <2>1, <2>2
<1> QED BY <1>2, <1>3, <1>4

LEMMA TailDropped ==
    ASSUME NEW S, NEW q \in Seq(S), Len(q) >= 1
    PROVE  Tail(q) \in Seq(S) /\ Len(Tail(q)) = Len(q) - 1 /\ \A i \in 1 .. Len(q) - 1 : Tail(q)[i] = q[i + 1]
<1>1. q # <<>> /\ Len(q) \in Nat
  OBVIOUS
<1>2. Tail(q) \in Seq(S) /\ Len(Tail(q)) = Len(q) - 1
  BY <1>1
<1>3. ASSUME NEW i \in 1 .. Len(q) - 1 PROVE Tail(q)[i] = q[i + 1]
  BY <1>1, <1>2
<1> QED BY <1>2, <1>3

(* The call that was made is one on the container that is looked at.       *)
LEMMA KindCalls ==
    ASSUME [ContainersNext]_containerVars
    PROVE  \/ UNCHANGED containerVars
           \/ /\ dsKind' = dsKind
              /\ \/ dsKind = "queue" /\ (QueuePop \/ \E x \in Elems : QueuePush(x))
                 \/ dsKind = "mailbox" /\ (MailboxTake \/ \E x \in Elems : MailboxPut(x))
                 \/ dsKind = "stream" /\ ((\E n \in 1 .. DsSize : StreamRead(n))
                                          \/ \E s \in Seq(Elems) : s # <<>> /\ StreamWrite(s))
                 \/ dsKind = "map" /\ (MapClear \/ \E k \in Elems : MapRemove(k) \/ \E v \in {k, DsNull} : MapPut(k, v))
                 \/ dsKind = "set" /\ (SetClear \/ \E k \in Elems : SetAdd(k) \/ SetRemove(k))
                 \/ dsKind = "group" /\ \E k \in Elems : GroupAdd(k) \/ GroupRemove(k)
                 \/ dsKind = "stack" /\ (StackPop \/ \E x \in Elems : StackPush(x))
                 \/ dsKind = "list" /\ (ListStep \/ Growing)
<1> SUFFICES ASSUME ContainersNext
             PROVE  /\ dsKind' = dsKind
                    /\ \/ dsKind = "queue" /\ (QueuePop \/ \E x \in Elems : QueuePush(x))
                       \/ dsKind = "mailbox" /\ (MailboxTake \/ \E x \in Elems : MailboxPut(x))
                       \/ dsKind = "stream" /\ ((\E n \in 1 .. DsSize : StreamRead(n))
                                                \/ \E s \in Seq(Elems) : s # <<>> /\ StreamWrite(s))
                       \/ dsKind = "map" /\ (MapClear \/ \E k \in Elems : MapRemove(k) \/ \E v \in {k, DsNull} : MapPut(k, v))
                       \/ dsKind = "set" /\ (SetClear \/ \E k \in Elems : SetAdd(k) \/ SetRemove(k))
                       \/ dsKind = "group" /\ \E k \in Elems : GroupAdd(k) \/ GroupRemove(k)
                       \/ dsKind = "stack" /\ (StackPop \/ \E x \in Elems : StackPush(x))
                       \/ dsKind = "list" /\ (ListStep \/ Growing)
  OBVIOUS
<1>0. dsKind' = dsKind
  BY DEF ContainersNext
<1>1. CASE Growing
  <2>1. PICK x \in Elems : \/ QueuePush(x) \/ MailboxPut(x) \/ StackPush(x)
                           \/ ListAppend(x) \/ ListPrepend(x) \/ \E i \in 0 .. DsSize : ListInsert(i, x)
    BY <1>1 DEF Growing
  <2>2. CASE QueuePush(x)
    <3>1. dsKind = "queue"
      BY <2>2 DEF QueuePush
    <3> QED BY <1>0, <2>2, <3>1
  <2>3. CASE MailboxPut(x)
    <3>1. dsKind = "mailbox"
      BY <2>3 DEF MailboxPut
    <3> QED BY <1>0, <2>3, <3>1
  <2>4. CASE StackPush(x)
    <3>1. dsKind = "stack"
      BY <2>4 DEF StackPush
    <3> QED BY <1>0, <2>4, <3>1
  <2>5. CASE ListAppend(x) \/ ListPrepend(x) \/ \E i \in 0 .. DsSize : ListInsert(i, x)
    <3>1. dsKind = "list"
      BY <2>5 DEF ListAppend, ListPrepend, ListInsert
    <3> QED BY <1>0, <1>1, <3>1
  <2> QED BY <2>1, <2>2, <2>3, <2>4, <2>5
<1>2. CASE RingStep
  <2>1. CASE QueuePop
    <3>1. dsKind = "queue"
      BY <2>1 DEF QueuePop
    <3> QED BY <1>0, <2>1, <3>1
  <2>2. CASE MailboxTake
    <3>1. dsKind = "mailbox"
      BY <2>2 DEF MailboxTake
    <3> QED BY <1>0, <2>2, <3>1
  <2>3. ASSUME NEW n \in 1 .. DsSize, StreamRead(n) PROVE dsKind = "stream"
    BY <2>3 DEF StreamRead
  <2>4. ASSUME NEW s \in Seq(Elems), StreamWrite(s) PROVE dsKind = "stream"
    BY <2>4 DEF StreamWrite
  <2>5. \A x, y \in Elems : <<x>> \in Seq(Elems) /\ <<x>> # <<>> /\ <<x, y>> \in Seq(Elems) /\ <<x, y>> # <<>>
    OBVIOUS
  <2>6. CASE \E n \in 1 .. DsSize : StreamRead(n)
    BY <1>0, <2>3, <2>6
  <2>7. CASE \E x, y \in Elems : StreamWrite(<<x>>) \/ StreamWrite(<<x, y>>)
    <3>1. PICK s \in Seq(Elems) : s # <<>> /\ StreamWrite(s)
      BY <2>5, <2>7
    <3> QED BY <1>0, <2>4, <3>1
  <2> QED BY <1>2, <2>1, <2>2, <2>6, <2>7 DEF RingStep
<1>3. CASE HashStep
  <2>1. CASE MapClear
    <3>1. dsKind = "map"
      BY <2>1 DEF MapClear
    <3> QED BY <1>0, <2>1, <3>1
  <2>2. CASE SetClear
    <3>1. dsKind = "set"
      BY <2>2 DEF SetClear
    <3> QED BY <1>0, <2>2, <3>1
  <2>3. ASSUME NEW k \in Elems, MapRemove(k) \/ \E v \in {k, DsNull} : MapPut(k, v) PROVE dsKind = "map"
    BY <2>3 DEF MapRemove, MapPut
  <2>4. ASSUME NEW k \in Elems, SetAdd(k) \/ SetRemove(k) PROVE dsKind = "set"
    BY <2>4 DEF SetAdd, SetRemove
  <2>5. ASSUME NEW k \in Elems, GroupAdd(k) \/ GroupRemove(k) PROVE dsKind = "group"
    BY <2>5 DEF GroupAdd, GroupRemove
  <2>6. CASE \E k \in Elems : MapRemove(k) \/ \E v \in {k, DsNull} : MapPut(k, v)
    BY <1>0, <2>3, <2>6
  <2>7. CASE \E k \in Elems : SetAdd(k) \/ SetRemove(k)
    BY <1>0, <2>4, <2>7
  <2>8. CASE \E k \in Elems : GroupAdd(k) \/ GroupRemove(k)
    BY <1>0, <2>5, <2>8
  <2> QED BY <1>3, <2>1, <2>2, <2>6, <2>7, <2>8 DEF HashStep
<1>4. CASE ListStep
  <2>1. CASE StackPop
    <3>1. dsKind = "stack"
      BY <2>1 DEF StackPop
    <3> QED BY <1>0, <2>1, <3>1
  <2>2. CASE ~StackPop
    <3>1. /\ ListPop => dsKind = "list"
          /\ ListPopFront => dsKind = "list"
          /\ ListReverse => dsKind = "list"
          /\ ListSort => dsKind = "list"
      BY ZenonT(20) DEF ListPop, ListPopFront, ListReverse, ListSort
    <3>2. \A x : ListRemoveVal(x) => dsKind = "list"
      BY ZenonT(20) DEF ListRemoveVal
    <3>3. \A i, x : ListSet(i, x) => dsKind = "list"
      BY ZenonT(20) DEF ListSet
    <3>4. \A i : ListRemove(i) => dsKind = "list"
      BY ZenonT(20) DEF ListRemove
    <3>5. dsKind = "list"
      BY <1>4, <2>2, <3>1, <3>2, <3>3, <3>4 DEF ListStep
    <3> QED BY <1>0, <1>4, <3>5
  <2> QED BY <2>1, <2>2
<1> QED BY <1>1, <1>2, <1>3, <1>4 DEF ContainersNext

RingKinds == {"queue", "mailbox", "stream"}
RingInv == dsKind \in RingKinds => RingHolds(ring, dsModel)

LEMMA RingStarts == ContainersInit => RingInv
<1> SUFFICES ASSUME ContainersInit, dsKind \in RingKinds PROVE RingHolds(ring, dsModel)
  BY DEF RingInv
<1>1. PICK cap \in 1 .. DsCap, max \in 0 .. DsCap :
          ring = [cap |-> cap, max |-> max, head |-> 0, tail |-> 0, count |-> 0, items |-> [i \in 0 .. cap - 1 |-> DsNull]]
  BY DEF ContainersInit
<1>2. cap \in Nat \ {0} /\ max \in Nat
  BY ContainersAssumption
<1>3. PICK m : m = [i \in 0 .. cap - 1 |-> DsNull]
  OBVIOUS
<1>4. m \in [0 .. cap - 1 -> RingVals] /\ m \in ItemMaps
  BY <1>2, <1>3 DEF RingVals, ItemMaps
<1>5. ring = [cap |-> cap, max |-> max, head |-> 0, tail |-> 0, count |-> 0, items |-> m]
  BY <1>1, <1>3
<1>6. ring \in RingRecords /\ RingWithin(ring) /\ ring.cap = cap /\ ring.head = 0 /\ ring.tail = 0 /\ ring.count = 0
  BY <1>2, <1>4, <1>5 DEF RingRecords, RingWithin
<1>7. dsModel = <<>>
  BY DEF ContainersInit, RingKinds
<1>8. <<>> \in Seq(Elems) /\ Len(<<>>) = 0
  OBVIOUS
<1>9. Wrapped(0 + 0, cap) = 0
  BY <1>2 DEF Wrapped
<1> QED BY <1>6, <1>7, <1>8, <1>9 DEF RingHolds

LEMMA FrontTaken ==
    ASSUME RingHolds(ring, dsModel), NEW k \in Nat, k <= ring.count,
           ring' = [ring EXCEPT !.head = (@ + k) % ring.cap, !.count = @ - k],
           dsModel' = SubSeq(dsModel, k + 1, Len(dsModel))
    PROVE  RingHolds(ring', dsModel')
<1>1. dsModel \in Seq(Elems) /\ Len(dsModel) = ring.count
  BY DEF RingHolds
<1>2. PICK p : p = dsModel'
  OBVIOUS
<1>3. p \in Seq(Elems) /\ Len(p) = Len(dsModel) - k /\ \A i \in 1 .. Len(p) : p[i] = dsModel[i + k]
  BY <1>1, <1>2, Dropped
<1>4. RingHolds([ring EXCEPT !.head = (@ + k) % ring.cap, !.count = @ - k], p)
  BY <1>3, DropHolds
<1> QED BY <1>2, <1>4

LEMMA OneTaken ==
    ASSUME RingHolds(ring, dsModel), ring.count > 0,
           ring' = [ring EXCEPT !.head = (@ + 1) % ring.cap, !.count = @ - 1], dsModel' = Tail(dsModel)
    PROVE  RingHolds(ring', dsModel')
<1>1. dsModel \in Seq(Elems) /\ Len(dsModel) = ring.count /\ ring.count \in Nat
  BY RingFields DEF RingHolds
<1>2. PICK p : p = dsModel'
  OBVIOUS
<1>3. p \in Seq(Elems) /\ Len(p) = Len(dsModel) - 1 /\ \A i \in 1 .. Len(p) : p[i] = dsModel[i + 1]
  <2>1. Len(dsModel) >= 1
    BY <1>1
  <2> QED BY <1>1, <1>2, <2>1, TailDropped
<1>4. 1 \in Nat /\ 1 <= ring.count
  BY <1>1
<1>5. RingHolds([ring EXCEPT !.head = (@ + 1) % ring.cap, !.count = @ - 1], p)
  BY <1>3, <1>4, DropHolds
<1> QED BY <1>2, <1>5

LEMMA OnePut ==
    ASSUME RingHolds(ring, dsModel), NEW x \in Elems, ring' = Store(Room(ring, 1), x), dsModel' = Append(dsModel, x)
    PROVE  RingHolds(ring', dsModel')
<1>1. ring.count \in Nat
  BY RingFields DEF RingHolds
<1>2. PICK r : r = Room(ring, 1)
  OBVIOUS
<1>3. RingHolds(r, dsModel) /\ r.count = ring.count /\ ring.count + 1 <= r.cap
  BY <1>2, RoomHolds
<1>4. r.cap \in Nat
  BY <1>3, RingFields DEF RingHolds
<1>5. r.count < r.cap
  BY <1>1, <1>3, <1>4
<1>6. RingHolds(Store(r, x), Append(dsModel, x))
  BY <1>3, <1>5, StoreHolds
<1> QED BY <1>2, <1>6

LEMMA RingKept == ASSUME RingInv, [ContainersNext]_containerVars PROVE RingInv'
<1>1. CASE UNCHANGED containerVars
  BY <1>1 DEF containerVars, RingInv
<1>2. CASE ~(UNCHANGED containerVars)
  <2> SUFFICES ASSUME dsKind' \in RingKinds PROVE RingHolds(ring', dsModel')
    BY DEF RingInv
  <2>1. dsKind' = dsKind
    BY <1>2, KindCalls
  <2>2. RingHolds(ring, dsModel)
    BY <2>1 DEF RingInv
  <2>3. \/ QueuePop \/ MailboxTake \/ \E x \in Elems : QueuePush(x) \/ MailboxPut(x)
        \/ (\E n \in 1 .. DsSize : StreamRead(n)) \/ \E s \in Seq(Elems) : s # <<>> /\ StreamWrite(s)
    BY <1>2, <2>1, KindCalls DEF RingKinds
  <2>4. ASSUME QueuePop \/ MailboxTake PROVE RingHolds(ring', dsModel')
    BY <2>2, <2>4, OneTaken DEF QueuePop, MailboxTake
  <2>5. ASSUME NEW x \in Elems, QueuePush(x) \/ MailboxPut(x) PROVE RingHolds(ring', dsModel')
    BY <2>2, <2>5, OnePut DEF QueuePush, MailboxPut
  <2>6. ASSUME NEW n \in 1 .. DsSize, StreamRead(n) PROVE RingHolds(ring', dsModel')
    <3>1. ring.count \in Nat
      BY <2>2, RingFields DEF RingHolds
    <3>2. PICK k : k = IF ring.count < n THEN ring.count ELSE n
      OBVIOUS
    <3>3. k \in Nat /\ k <= ring.count
      BY <3>1, <3>2
    <3>4. /\ ring' = [ring EXCEPT !.head = (@ + k) % ring.cap, !.count = @ - k]
          /\ dsModel' = SubSeq(dsModel, k + 1, Len(dsModel))
      BY <2>6, <3>2 DEF StreamRead
    <3> QED BY <2>2, <3>3, <3>4, FrontTaken
  <2>7. ASSUME NEW s \in Seq(Elems), s # <<>>, StreamWrite(s) PROVE RingHolds(ring', dsModel')
    <3>1. Len(s) \in Nat \ {0}
      BY <2>7
    <3>2. PICK r : r = Room(ring, Len(s))
      OBVIOUS
    <3>3. RingHolds(r, dsModel) /\ r.count = ring.count /\ ring.count + Len(s) <= r.cap
      BY <2>2, <3>1, <3>2, RoomHolds
    <3>4. r.count + Len(s) <= r.cap
      BY <3>3
    <3>5. RingHolds(Written(r, s), dsModel \o s)
      BY <3>3, <3>4, WrittenHolds
    <3> QED BY <2>7, <3>2, <3>5 DEF StreamWrite
  <2> QED BY <2>3, <2>4, <2>5, <2>6, <2>7
<1> QED BY <1>1, <1>2

(* A queue, a mailbox and a stream give back what was put in, in the order *)
(* in which it was, however often their ring was copied into a larger one  *)
(* and wrapped around (pny_queue, pny_mailbox, pny_stream).                *)
THEOREM RingsAreQueues == ContainersSpec => []RingAgrees
<1>1. RingInv => RingAgrees
  <2> SUFFICES ASSUME RingInv, dsKind \in RingKinds
               PROVE  /\ ring.count <= ring.cap /\ ring.tail = (ring.head + ring.count) % ring.cap
                      /\ dsModel = [i \in 1 .. ring.count |-> ring.items[(ring.head + i - 1) % ring.cap]]
    BY DEF RingAgrees, RingKinds
  <2>0. RingHolds(ring, dsModel) /\ ring \in RingRecords /\ RingWithin(ring)
    BY DEF RingInv, RingHolds
  <2>1. PICK c \in Nat \ {0} : c = ring.cap
    BY <2>0, RingFields
  <2>2. PICK h \in 0 .. c - 1 : h = ring.head
    BY <2>0, <2>1 DEF RingWithin
  <2>3. PICK n \in Nat : n = ring.count /\ n <= c
    BY <2>0, <2>1, RingFields DEF RingWithin
  <2>4. h + n \in 0 .. 2 * c - 1 /\ \A i \in 1 .. n : h + i - 1 \in 0 .. 2 * c - 1
    BY <2>1, <2>2, <2>3
  <2>5. ring.tail = (h + n) % c
    <3>1. ring.tail = Wrapped(h + n, c)
      BY <2>0, <2>1, <2>2, <2>3 DEF RingHolds
    <3> QED BY <3>1, <2>4, WrappedIs
  <2>6. Len(dsModel) = n /\ \A i \in 1 .. n : dsModel[i] = ring.items[(h + i - 1) % c]
    <3>1. Len(dsModel) = n /\ \A i \in 1 .. n : dsModel[i] = ring.items[Wrapped(h + i - 1, c)]
      BY <2>0, <2>1, <2>2, <2>3 DEF RingHolds
    <3> QED BY <3>1, <2>4, WrappedIs
  <2>7. dsModel \in [1 .. n -> Elems]
    <3>1. dsModel \in Seq(Elems)
      BY <2>0 DEF RingHolds
    <3> QED BY <3>1, <2>6, LenProperties
  <2>8. dsModel = [i \in 1 .. n |-> ring.items[(h + i - 1) % c]]
    BY <2>6, <2>7
  <2> QED BY <2>1, <2>2, <2>3, <2>5, <2>8
<1> QED BY <1>1, RingStarts, RingKept, PTL DEF ContainersSpec

(* Tables.  A chain of bucket b has no key twice and only keys of b.       *)
ChainEntries == [key : Elems, val : RingVals]
Entry(k, v) == [key |-> k, val |-> v]
ChainOk(c, b) ==
    /\ c \in Seq(ChainEntries) /\ \A i \in 1 .. Len(c) : HashOf(c[i].key) = b
    /\ \A i, j \in 1 .. Len(c) : c[i].key = c[j].key => i = j
ChainHas(c, k, v) == \E i \in 1 .. Len(c) : c[i] = Entry(k, v)

LEMMA HashBucket == ASSUME NEW k \in Elems PROVE HashOf(k) \in Buckets
<1>1. k \in Nat
  BY ContainersAssumption
<1>2. k % 2 \in 0 .. 1
  BY <1>1
<1> QED BY <1>2 DEF HashOf, Buckets

LEMMA EntryFields ==
    ASSUME NEW k \in Elems, NEW v \in RingVals
    PROVE  Entry(k, v) \in ChainEntries /\ Entry(k, v).key = k /\ Entry(k, v).val = v
BY DEF Entry, ChainEntries

LEMMA EntryIs == ASSUME NEW e \in ChainEntries PROVE e.key \in Elems /\ e.val \in RingVals /\ e = Entry(e.key, e.val)
BY DEF Entry, ChainEntries

LEMMA ChainElements ==
    ASSUME NEW c, NEW b, ChainOk(c, b)
    PROVE  Len(c) \in Nat /\ DOMAIN c = 1 .. Len(c) /\ \A i \in 1 .. Len(c) : c[i] \in ChainEntries
<1>1. c \in Seq(ChainEntries)
  BY DEF ChainOk
<1> QED BY <1>1, ElementOfSeq

(* The first place of a key is its only one.                               *)
LEMMA FirstPlace ==
    ASSUME NEW S \in SUBSET Nat, S # {}
    PROVE  First(S) \in S /\ \A j \in S : First(S) <= j
<1>1. \E i \in S : \A j \in S : i <= j
  BY LeastNat
<1> QED BY <1>1 DEF First

LEMMA KeyPlace ==
    ASSUME NEW c, NEW b, ChainOk(c, b), NEW k, KeyAt(c, k) # {}
    PROVE  First(KeyAt(c, k)) \in 1 .. Len(c) /\ c[First(KeyAt(c, k))].key = k
<1>1. KeyAt(c, k) \subseteq 1 .. Len(c) /\ KeyAt(c, k) \in SUBSET Nat
  BY ChainElements DEF KeyAt
<1>2. First(KeyAt(c, k)) \in KeyAt(c, k)
  BY <1>1, FirstPlace
<1> QED BY <1>1, <1>2 DEF KeyAt

LEMMA ChainAdded ==
    ASSUME NEW c, NEW b, ChainOk(c, b), NEW k \in Elems, HashOf(k) = b, NEW v \in RingVals, KeyAt(c, k) = {}
    PROVE  /\ ChainOk(<<Entry(k, v)>> \o c, b) /\ Len(<<Entry(k, v)>> \o c) = Len(c) + 1
           /\ \A j, w : ChainHas(<<Entry(k, v)>> \o c, j, w) <=> ChainHas(c, j, w) \/ (j = k /\ w = v)
<1>0. PICK n \in Nat : n = Len(c) /\ DOMAIN c = 1 .. n /\ \A i \in 1 .. n : c[i] \in ChainEntries
  BY ChainElements
<1>1. PICK e : e = Entry(k, v) /\ e \in ChainEntries /\ e.key = k
  BY EntryFields
<1>2. PICK d : d = <<e>> \o c
  OBVIOUS
<1>3. /\ d \in Seq(ChainEntries) /\ Len(d) = n + 1
      /\ \A i \in 1 .. n + 1 : d[i] = IF i = 1 THEN e ELSE c[i - 1]
  BY <1>0, <1>1, <1>2, PrependProperties DEF ChainOk
<1>4. d[1] = e /\ \A i \in 1 .. n : d[i + 1] = c[i]
  <2>1. d[1] = e
    BY <1>0, <1>3
  <2>2. ASSUME NEW i \in 1 .. n PROVE d[i + 1] = c[i]
    <3>1. i + 1 \in 1 .. n + 1 /\ i + 1 # 1 /\ (i + 1) - 1 = i
      BY <1>0
    <3> QED BY <3>1, <1>3
  <2> QED BY <2>1, <2>2
<1>5. \A i \in 1 .. n + 1 : i = 1 \/ \E j \in 1 .. n : i = j + 1
  <2> SUFFICES ASSUME NEW i \in 1 .. n + 1, i # 1 PROVE \E j \in 1 .. n : i = j + 1
    OBVIOUS
  <2>1. i - 1 \in 1 .. n /\ i = (i - 1) + 1
    BY <1>0
  <2> QED BY <2>1
<1>6. \A i \in 1 .. n : c[i].key # k
  BY <1>0 DEF KeyAt
<1>7. \A i \in 1 .. n + 1 : HashOf(d[i].key) = b
  BY <1>0, <1>1, <1>4, <1>5 DEF ChainOk
<1>8. \A i, j \in 1 .. n + 1 : d[i].key = d[j].key => i = j
  <2> SUFFICES ASSUME NEW i \in 1 .. n + 1, NEW j \in 1 .. n + 1, d[i].key = d[j].key PROVE i = j
    OBVIOUS
  <2>1. CASE i = 1 /\ j = 1
    BY <2>1
  <2>2. CASE i = 1 /\ j # 1
    BY <2>2, <1>1, <1>4, <1>5, <1>6
  <2>3. CASE i # 1 /\ j = 1
    BY <2>3, <1>1, <1>4, <1>5, <1>6
  <2>4. CASE i # 1 /\ j # 1
    <3>1. PICK a \in 1 .. n, h \in 1 .. n : i = a + 1 /\ j = h + 1
      BY <2>4, <1>5
    <3>2. c[a].key = c[h].key
      BY <3>1, <1>4
    <3>3. a = h
      BY <3>2, <1>0 DEF ChainOk
    <3> QED BY <3>1, <3>3
  <2> QED BY <2>1, <2>2, <2>3, <2>4
<1>9. ChainOk(d, b)
  BY <1>3, <1>7, <1>8 DEF ChainOk
<1>10. ASSUME NEW j, NEW w PROVE ChainHas(d, j, w) <=> ChainHas(c, j, w) \/ (j = k /\ w = v)
  <2>1. ASSUME ChainHas(d, j, w) PROVE ChainHas(c, j, w) \/ (j = k /\ w = v)
    <3>1. PICK i \in 1 .. n + 1 : d[i] = Entry(j, w)
      BY <2>1, <1>3 DEF ChainHas
    <3>2. CASE i = 1
      <4>1. Entry(k, v) = Entry(j, w)
        BY <3>1, <3>2, <1>1, <1>4
      <4> QED BY <4>1 DEF Entry
    <3>3. CASE i # 1
      <4>1. PICK a \in 1 .. n : i = a + 1
        BY <3>3, <1>5
      <4>2. c[a] = Entry(j, w)
        BY <3>1, <4>1, <1>4
      <4> QED BY <4>2, <1>0 DEF ChainHas
    <3> QED BY <3>2, <3>3
  <2>2. ASSUME ChainHas(c, j, w) PROVE ChainHas(d, j, w)
    <3>1. PICK i \in 1 .. n : c[i] = Entry(j, w)
      BY <2>2, <1>0 DEF ChainHas
    <3>2. i + 1 \in 1 .. n + 1 /\ d[i + 1] = Entry(j, w)
      BY <3>1, <1>0, <1>4
    <3> QED BY <3>2, <1>3 DEF ChainHas
  <2>3. ASSUME j = k, w = v PROVE ChainHas(d, j, w)
    <3>1. 1 \in 1 .. n + 1 /\ d[1] = Entry(j, w)
      BY <2>3, <1>0, <1>1, <1>4
    <3> QED BY <3>1, <1>3 DEF ChainHas
  <2> QED BY <2>1, <2>2, <2>3
<1> QED BY <1>0, <1>1, <1>2, <1>3, <1>9, <1>10

Revalued(c, f, v) == [c EXCEPT ![f].val = v]

LEMMA ChainChanged ==
    ASSUME NEW c, NEW b, ChainOk(c, b), NEW f \in 1 .. Len(c), NEW v \in RingVals
    PROVE  /\ ChainOk(Revalued(c, f, v), b) /\ Len(Revalued(c, f, v)) = Len(c)
           /\ \A j, w : ChainHas(Revalued(c, f, v), j, w) <=> (j # c[f].key /\ ChainHas(c, j, w)) \/ (j = c[f].key /\ w = v)
<1>0. PICK n \in Nat : n = Len(c) /\ DOMAIN c = 1 .. n /\ \A i \in 1 .. n : c[i] \in ChainEntries
  BY ChainElements
<1>1. PICK k : k = c[f].key /\ k \in Elems
  BY <1>0, EntryIs
<1>2. PICK e : e = Entry(k, v) /\ e \in ChainEntries /\ e.key = k
  BY <1>1, EntryFields
<1>3. [c[f] EXCEPT !.val = v] = e
  <2>1. c[f] \in ChainEntries
    BY <1>0
  <2> QED BY <2>1, <1>1, <1>2 DEF ChainEntries, Entry
<1>4. PICK d : d = [c EXCEPT ![f] = e]
  OBVIOUS
<1>5. d = Revalued(c, f, v)
  BY <1>3, <1>4 DEF Revalued
<1>6. /\ d \in Seq(ChainEntries) /\ Len(d) = n
      /\ \A i \in 1 .. n : d[i] = IF i = f THEN e ELSE c[i]
  <2>1. c \in [1 .. n -> ChainEntries]
    BY <1>0, LenProperties DEF ChainOk
  <2>2. d \in [1 .. n -> ChainEntries] /\ \A i \in 1 .. n : d[i] = IF i = f THEN e ELSE c[i]
    BY <2>1, <1>0, <1>2, <1>4
  <2> QED BY <2>2, FunctionIsSeq
<1>7. \A i \in 1 .. n : d[i].key = c[i].key
  BY <1>0, <1>1, <1>2, <1>6
<1>8. ChainOk(d, b)
  BY <1>0, <1>6, <1>7 DEF ChainOk
<1>9. \A i \in 1 .. n : c[i].key = k => i = f
  BY <1>0, <1>1 DEF ChainOk
<1>10. ASSUME NEW j, NEW w PROVE ChainHas(d, j, w) <=> (j # k /\ ChainHas(c, j, w)) \/ (j = k /\ w = v)
  <2>1. \A i \in 1 .. n : i # f => (d[i] = Entry(j, w) => c[i] = Entry(j, w) /\ j # k)
    <3> SUFFICES ASSUME NEW i \in 1 .. n, i # f, d[i] = Entry(j, w) PROVE c[i] = Entry(j, w) /\ j # k
      OBVIOUS
    <3>1. c[i] = Entry(j, w)
      BY <1>6
    <3>2. c[i].key = j
      BY <3>1 DEF Entry
    <3> QED BY <3>1, <3>2, <1>9
  <2>2. d[f] = Entry(k, v)
    BY <1>0, <1>2, <1>6
  <2>3. ASSUME ChainHas(d, j, w) PROVE (j # k /\ ChainHas(c, j, w)) \/ (j = k /\ w = v)
    <3>1. PICK i \in 1 .. n : d[i] = Entry(j, w)
      BY <2>3, <1>6 DEF ChainHas
    <3>2. CASE i = f
      <4>1. Entry(k, v) = Entry(j, w)
        BY <3>1, <3>2, <2>2
      <4> QED BY <4>1 DEF Entry
    <3>3. CASE i # f
      <4>1. c[i] = Entry(j, w) /\ j # k
        BY <3>1, <3>3, <2>1
      <4> QED BY <4>1, <1>0 DEF ChainHas
    <3> QED BY <3>2, <3>3
  <2>4. ASSUME j # k, ChainHas(c, j, w) PROVE ChainHas(d, j, w)
    <3>1. PICK i \in 1 .. n : c[i] = Entry(j, w)
      BY <2>4, <1>0 DEF ChainHas
    <3>2. c[i].key = j
      BY <3>1 DEF Entry
    <3>3. i # f
      BY <2>4, <3>2, <1>1
    <3>4. d[i] = Entry(j, w)
      BY <3>1, <3>3, <1>6
    <3> QED BY <3>4, <1>6 DEF ChainHas
  <2>5. ASSUME j = k, w = v PROVE ChainHas(d, j, w)
    BY <2>2, <2>5, <1>0, <1>6 DEF ChainHas
  <2> QED BY <2>3, <2>4, <2>5
<1> QED BY <1>0, <1>1, <1>5, <1>6, <1>8, <1>10

LEMMA ChainCut ==
    ASSUME NEW c, NEW b, ChainOk(c, b), NEW f \in 1 .. Len(c)
    PROVE  /\ ChainOk(Without(c, f), b) /\ Len(Without(c, f)) = Len(c) - 1
           /\ \A j, w : ChainHas(Without(c, f), j, w) <=> j # c[f].key /\ ChainHas(c, j, w)
<1>0. PICK n \in Nat : n = Len(c) /\ DOMAIN c = 1 .. n /\ \A i \in 1 .. n : c[i] \in ChainEntries
  BY ChainElements
<1>1. PICK d : d = Without(c, f)
  OBVIOUS
<1>2. d = RemoveAt(c, f)
  BY <1>1 DEF Without, RemoveAt
<1>3. /\ d \in Seq(ChainEntries) /\ Len(d) = n - 1
      /\ \A i \in 1 .. n - 1 : d[i] = IF i < f THEN c[i] ELSE c[i + 1]
  BY <1>0, <1>2, RemoveAtProperties DEF ChainOk
<1>4. PICK g : g = [i \in 1 .. n - 1 |-> IF i < f THEN i ELSE i + 1]
  OBVIOUS
<1>5. \A i \in 1 .. n - 1 : g[i] \in 1 .. n /\ g[i] # f /\ d[i] = c[g[i]]
  <2> SUFFICES ASSUME NEW i \in 1 .. n - 1 PROVE g[i] \in 1 .. n /\ g[i] # f /\ d[i] = c[g[i]]
    OBVIOUS
  <2>1. i \in 1 .. n /\ i + 1 \in 1 .. n /\ f \in Int /\ i \in Int
    BY <1>0
  <2>2. CASE i < f
    <3>1. g[i] = i /\ d[i] = c[i] /\ i # f
      BY <2>1, <2>2, <1>3, <1>4
    <3> QED BY <2>1, <3>1
  <2>3. CASE ~(i < f)
    <3>1. g[i] = i + 1 /\ d[i] = c[i + 1] /\ i + 1 # f
      BY <2>1, <2>3, <1>3, <1>4
    <3> QED BY <2>1, <3>1
  <2> QED BY <2>2, <2>3
<1>6. \A i, j \in 1 .. n - 1 : g[i] = g[j] => i = j
  BY <1>0, <1>4
<1>7. ASSUME NEW i \in 1 .. n, i # f PROVE \E a \in 1 .. n - 1 : g[a] = i
  <2>1. CASE i < f
    <3>1. i \in 1 .. n - 1 /\ g[i] = i
      BY <1>0, <1>4, <2>1
    <3> QED BY <3>1
  <2>2. CASE ~(i < f)
    <3>1. PICK a \in 1 .. n - 1 : a = i - 1 /\ ~(a < f) /\ a + 1 = i
      BY <1>0, <1>7, <2>2
    <3>2. g[a] = i
      BY <1>4, <3>1
    <3> QED BY <3>2
  <2> QED BY <2>1, <2>2
<1>8. \A i, j \in 1 .. n : c[i].key = c[j].key => i = j
  BY <1>0 DEF ChainOk
<1>9. ChainOk(d, b)
  <2>1. \A i \in 1 .. n - 1 : HashOf(d[i].key) = b
    BY <1>0, <1>5 DEF ChainOk
  <2>2. ASSUME NEW i \in 1 .. n - 1, NEW j \in 1 .. n - 1, d[i].key = d[j].key PROVE i = j
    <3>1. c[g[i]].key = c[g[j]].key /\ g[i] \in 1 .. n /\ g[j] \in 1 .. n
      BY <1>5, <2>2
    <3>2. g[i] = g[j]
      BY <3>1, <1>8
    <3> QED BY <3>2, <1>6
  <2> QED BY <2>1, <2>2, <1>3 DEF ChainOk
<1>10. ASSUME NEW j, NEW w PROVE ChainHas(d, j, w) <=> j # c[f].key /\ ChainHas(c, j, w)
  <2>1. ASSUME ChainHas(d, j, w) PROVE j # c[f].key /\ ChainHas(c, j, w)
    <3>1. PICK i \in 1 .. n - 1 : d[i] = Entry(j, w)
      BY <2>1, <1>3 DEF ChainHas
    <3>2. c[g[i]] = Entry(j, w) /\ g[i] \in 1 .. n /\ g[i] # f
      BY <3>1, <1>5
    <3>3. c[g[i]].key = j
      BY <3>2 DEF Entry
    <3>4. f \in 1 .. n
      BY <1>0
    <3>5. j # c[f].key
      BY <3>2, <3>3, <3>4, <1>8
    <3> QED BY <3>2, <3>5, <1>0 DEF ChainHas
  <2>2. ASSUME j # c[f].key, ChainHas(c, j, w) PROVE ChainHas(d, j, w)
    <3>1. PICK i \in 1 .. n : c[i] = Entry(j, w)
      BY <2>2, <1>0 DEF ChainHas
    <3>2. c[i].key = j
      BY <3>1 DEF Entry
    <3>3. i # f
      BY <2>2, <3>2
    <3>4. PICK a \in 1 .. n - 1 : g[a] = i
      BY <3>3, <1>7
    <3>5. d[a] = Entry(j, w)
      BY <3>1, <3>4, <1>5
    <3> QED BY <3>5, <1>3 DEF ChainHas
  <2> QED BY <2>1, <2>2
<1> QED BY <1>0, <1>1, <1>3, <1>9, <1>10

(* The table h answers as the set m of pairs.                              *)
TableHolds(h, m) ==
    /\ h \in [size : Int, bucket : [Buckets -> Seq(ChainEntries)]] /\ h.size = Len(h.bucket[0]) + Len(h.bucket[1])
    /\ \A b \in Buckets : ChainOk(h.bucket[b], b)
    /\ m \in SUBSET (Elems \X RingVals)
    /\ \A k \in Elems : \A v \in RingVals : <<k, v>> \in m <=> ChainHas(h.bucket[HashOf(k)], k, v)
TableKinds == {"map", "set"}
SameKeyAndValue == \A k \in Elems : \A v \in RingVals : <<k, v>> \in dsModel => v = k
TableInv == dsKind \in TableKinds => TableHolds(hash, dsModel) /\ (dsKind = "set" => SameKeyAndValue)

(* The pairs of another bucket are as they were.                           *)
SameElsewhere(m, p, b) ==
    \A k \in Elems : \A v \in RingVals : HashOf(k) # b => (<<k, v>> \in p <=> <<k, v>> \in m)

LEMMA BucketChanged ==
    ASSUME NEW h, NEW m, TableHolds(h, m), NEW b \in Buckets, NEW d, ChainOk(d, b), NEW p \in SUBSET (Elems \X RingVals),
           SameElsewhere(m, p, b),
           \A k \in Elems : \A v \in RingVals : HashOf(k) = b => (<<k, v>> \in p <=> ChainHas(d, k, v)),
           NEW z, z = h.size + (Len(d) - Len(h.bucket[b])),
           NEW g, g = [size |-> z, bucket |-> [h.bucket EXCEPT ![b] = d]]
    PROVE  TableHolds(g, p)
<1>1. h.size \in Int /\ h.bucket \in [Buckets -> Seq(ChainEntries)] /\ h.size = Len(h.bucket[0]) + Len(h.bucket[1])
  BY DEF TableHolds
<1>2. d \in Seq(ChainEntries) /\ Len(d) \in Nat
  BY ChainElements DEF ChainOk
<1>3. PICK u : u = [h.bucket EXCEPT ![b] = d]
  OBVIOUS
<1>4. u \in [Buckets -> Seq(ChainEntries)] /\ \A a \in Buckets : u[a] = IF a = b THEN d ELSE h.bucket[a]
  BY <1>1, <1>2, <1>3
<1>5. PICK n0 \in Nat, n1 \in Nat, n \in Nat, o \in Int : n0 = Len(h.bucket[0]) /\ n1 = Len(h.bucket[1]) /\ n = Len(d) /\ o = h.size
  <2>1. h.bucket[0] \in Seq(ChainEntries) /\ h.bucket[1] \in Seq(ChainEntries)
    BY <1>1 DEF Buckets
  <2>2. Len(h.bucket[0]) \in Nat /\ Len(h.bucket[1]) \in Nat
    BY <2>1
  <2> QED BY <2>2, <1>1, <1>2
<1>6. z = Len(u[0]) + Len(u[1]) /\ z \in Int
  <2>1. CASE b = 0
    <3>1. u[0] = d /\ u[1] = h.bucket[1]
      BY <2>1, <1>4 DEF Buckets
    <3>2. z = o + (n - n0) /\ o = n0 + n1 /\ Len(u[0]) = n /\ Len(u[1]) = n1
      BY <2>1, <3>1, <1>1, <1>5
    <3> QED BY <3>2
  <2>2. CASE b = 1
    <3>1. u[1] = d /\ u[0] = h.bucket[0]
      BY <2>2, <1>4 DEF Buckets
    <3>2. z = o + (n - n1) /\ o = n0 + n1 /\ Len(u[1]) = n /\ Len(u[0]) = n0
      BY <2>2, <3>1, <1>1, <1>5
    <3> QED BY <3>2
  <2> QED BY <2>1, <2>2 DEF Buckets
<1>7. g = [size |-> z, bucket |-> u]
  BY <1>3
<1>8. g \in [size : Int, bucket : [Buckets -> Seq(ChainEntries)]] /\ g.size = z /\ g.bucket = u
  <2>1. g.size = z /\ g.bucket = u
    BY <1>7
  <2>2. z \in Int /\ u \in [Buckets -> Seq(ChainEntries)]
    BY <1>4, <1>6
  <2>3. \A a \in Int : \A t \in [Buckets -> Seq(ChainEntries)] :
            [size |-> a, bucket |-> t] \in [size : Int, bucket : [Buckets -> Seq(ChainEntries)]]
    OBVIOUS
  <2> QED BY <1>7, <2>1, <2>2, <2>3
<1>9. \A a \in Buckets : ChainOk(u[a], a)
  BY <1>4 DEF TableHolds
<1>10. ASSUME NEW k \in Elems, NEW v \in RingVals PROVE <<k, v>> \in p <=> ChainHas(u[HashOf(k)], k, v)
  <2>1. HashOf(k) \in Buckets
    BY HashBucket
  <2>2. CASE HashOf(k) = b
    <3>1. u[HashOf(k)] = d
      BY <2>2, <1>4
    <3> QED BY <2>2, <3>1
  <2>3. CASE HashOf(k) # b
    <3>1. u[HashOf(k)] = h.bucket[HashOf(k)]
      BY <2>1, <2>3, <1>4
    <3>2. <<k, v>> \in p <=> <<k, v>> \in m
      BY <2>3 DEF SameElsewhere
    <3>3. <<k, v>> \in m <=> ChainHas(h.bucket[HashOf(k)], k, v)
      BY DEF TableHolds
    <3> QED BY <3>1, <3>2, <3>3
  <2> QED BY <2>2, <2>3
<1> QED BY <1>6, <1>8, <1>9, <1>10 DEF TableHolds

LEMMA TableParts ==
    ASSUME NEW h, NEW m, TableHolds(h, m)
    PROVE  /\ m \in SUBSET (Elems \X RingVals) /\ h.size \in Int /\ h.bucket \in [Buckets -> Seq(ChainEntries)]
           /\ DOMAIN h = {"size", "bucket"} /\ h = [size |-> h.size, bucket |-> h.bucket]
           /\ \A b \in Buckets : ChainOk(h.bucket[b], b) /\ Len(h.bucket[b]) \in Nat
<1>1. h \in [size : Int, bucket : [Buckets -> Seq(ChainEntries)]] /\ m \in SUBSET (Elems \X RingVals)
  BY DEF TableHolds
<1>2. \A b \in Buckets : ChainOk(h.bucket[b], b)
  BY DEF TableHolds
<1>3. \A b \in Buckets : Len(h.bucket[b]) \in Nat
  BY <1>2, ChainElements
<1> QED BY <1>1, <1>2, <1>3

LEMMA TableEntered ==
    ASSUME NEW h, NEW m, TableHolds(h, m), NEW k \in Elems, NEW v \in RingVals,
           KeyAt(h.bucket[HashOf(k)], k) = {},
           NEW g, g = [size |-> h.size + 1, bucket |-> [h.bucket EXCEPT ![HashOf(k)] = <<[key |-> k, val |-> v]>> \o @]]
    PROVE  TableHolds(g, m \cup {<<k, v>>}) /\ \A w \in RingVals : <<k, w>> \notin m
<1>1. PICK b \in Buckets : b = HashOf(k)
  BY HashBucket
<1>2. PICK c : c = h.bucket[b] /\ ChainOk(c, b) /\ Len(c) \in Nat
  BY <1>1, TableParts
<1>3. PICK d : d = <<Entry(k, v)>> \o c
  OBVIOUS
<1>4. ChainOk(d, b) /\ Len(d) = Len(c) + 1 /\ \A j, w : ChainHas(d, j, w) <=> ChainHas(c, j, w) \/ (j = k /\ w = v)
  BY <1>1, <1>2, <1>3, ChainAdded
<1>5. g = [size |-> h.size + 1, bucket |-> [h.bucket EXCEPT ![b] = d]]
  <2>1. h.bucket \in [Buckets -> Seq(ChainEntries)]
    BY TableParts
  <2> QED BY <2>1, <1>1, <1>2, <1>3 DEF Entry
<1>6. PICK p : p = m \cup {<<k, v>>}
  OBVIOUS
<1>7. p \in SUBSET (Elems \X RingVals)
  BY <1>6, TableParts
<1>8. SameElsewhere(m, p, b)
  BY <1>1, <1>6 DEF SameElsewhere
<1>9. ASSUME NEW j \in Elems, NEW w \in RingVals, HashOf(j) = b PROVE <<j, w>> \in p <=> ChainHas(d, j, w)
  <2>1. <<j, w>> \in m <=> ChainHas(c, j, w)
    BY <1>2, <1>9 DEF TableHolds
  <2>2. <<j, w>> \in p <=> <<j, w>> \in m \/ (j = k /\ w = v)
    BY <1>6
  <2> QED BY <2>1, <2>2, <1>4
<1>10. PICK z : z = h.size + 1 /\ z = h.size + (Len(d) - Len(h.bucket[b]))
  <2>1. h.size \in Int
    BY TableParts
  <2> QED BY <2>1, <1>2, <1>4
<1>11. TableHolds(g, p)
  <2>1. g = [size |-> z, bucket |-> [h.bucket EXCEPT ![b] = d]]
    BY <1>5, <1>10
  <2> QED BY <2>1, <1>4, <1>7, <1>8, <1>9, <1>10, BucketChanged
<1>12. ASSUME NEW w \in RingVals PROVE <<k, w>> \notin m
  <2>1. <<k, w>> \in m <=> ChainHas(c, k, w)
    BY <1>1, <1>2 DEF TableHolds
  <2>2. ~ChainHas(c, k, w)
    <3>1. \A i \in 1 .. Len(c) : c[i].key # k
      BY <1>1, <1>2, ChainElements DEF KeyAt
    <3>2. Entry(k, w).key = k
      BY DEF Entry
    <3> QED BY <3>1, <3>2 DEF ChainHas
  <2> QED BY <2>1, <2>2
<1> QED BY <1>6, <1>11, <1>12

Replaced(h, k, v) == [h EXCEPT !.bucket[HashOf(k)][First(KeyAt(h.bucket[HashOf(k)], k))].val = v]
LEMMA TableReplaced ==
    ASSUME NEW h, NEW m, TableHolds(h, m), NEW k \in Elems, NEW v \in RingVals,
           KeyAt(h.bucket[HashOf(k)], k) # {},
           NEW g, g = Replaced(h, k, v)
    PROVE  TableHolds(g, {q \in m : q[1] # k} \cup {<<k, v>>})
<1>1. PICK b \in Buckets : b = HashOf(k)
  BY HashBucket
<1>2. PICK c : c = h.bucket[b] /\ ChainOk(c, b) /\ Len(c) \in Nat
  BY <1>1, TableParts
<1>3. PICK f \in 1 .. Len(c) : f = First(KeyAt(c, k)) /\ c[f].key = k
  BY <1>1, <1>2, KeyPlace
<1>4. PICK d : d = Revalued(c, f, v)
  OBVIOUS
<1>5. /\ ChainOk(d, b) /\ Len(d) = Len(c)
      /\ \A j, w : ChainHas(d, j, w) <=> (j # k /\ ChainHas(c, j, w)) \/ (j = k /\ w = v)
  BY <1>2, <1>3, <1>4, ChainChanged
<1>6. g = [size |-> h.size, bucket |-> [h.bucket EXCEPT ![b] = d]]
  <2>1. h.bucket \in [Buckets -> Seq(ChainEntries)] /\ h = [size |-> h.size, bucket |-> h.bucket]
    BY TableParts
  <2>2. g = [h EXCEPT !.bucket[b][f].val = v]
    BY <1>1, <1>2, <1>3 DEF Replaced
  <2>3. [h.bucket EXCEPT ![b][f].val = v] = [h.bucket EXCEPT ![b] = d]
    BY <2>1, <1>2, <1>4 DEF Revalued
  <2> QED BY <2>1, <2>2, <2>3
<1>7. PICK p : p = {q \in m : q[1] # k} \cup {<<k, v>>}
  OBVIOUS
<1>8. \A j \in Elems : \A w \in RingVals : <<j, w>> \in p <=> (j # k /\ <<j, w>> \in m) \/ (j = k /\ w = v)
  BY <1>7
<1>9. p \in SUBSET (Elems \X RingVals)
  BY <1>7, TableParts
<1>10. SameElsewhere(m, p, b)
  BY <1>1, <1>8 DEF SameElsewhere
<1>11. ASSUME NEW j \in Elems, NEW w \in RingVals, HashOf(j) = b PROVE <<j, w>> \in p <=> ChainHas(d, j, w)
  <2>1. <<j, w>> \in m <=> ChainHas(c, j, w)
    BY <1>2, <1>11 DEF TableHolds
  <2> QED BY <2>1, <1>5, <1>8
<1>12. PICK z : z = h.size /\ z = h.size + (Len(d) - Len(h.bucket[b]))
  <2>1. h.size \in Int
    BY TableParts
  <2>2. Len(d) = Len(c) /\ Len(h.bucket[b]) = Len(c) /\ Len(c) \in Nat
    BY <1>2, <1>5
  <2>3. h.size = h.size + (Len(c) - Len(c))
    BY <2>1, <2>2
  <2> QED BY <2>2, <2>3
<1>13. g = [size |-> z, bucket |-> [h.bucket EXCEPT ![b] = d]]
  BY <1>6, <1>12
<1>14. TableHolds(g, p)
  <2>1. ChainOk(d, b)
    BY <1>5
  <2> QED BY <2>1, <1>9, <1>10, <1>11, <1>12, <1>13, BucketChanged
<1> QED BY <1>7, <1>14

LEMMA TableCut ==
    ASSUME NEW h, NEW m, TableHolds(h, m), NEW k \in Elems,
           KeyAt(h.bucket[HashOf(k)], k) # {},
           NEW g, g = [size |-> h.size - 1,
                       bucket |-> [h.bucket EXCEPT ![HashOf(k)] = Without(@, First(KeyAt(h.bucket[HashOf(k)], k)))]]
    PROVE  TableHolds(g, {q \in m : q[1] # k})
<1>1. PICK b \in Buckets : b = HashOf(k)
  BY HashBucket
<1>2. PICK c : c = h.bucket[b] /\ ChainOk(c, b) /\ Len(c) \in Nat
  BY <1>1, TableParts
<1>3. PICK f \in 1 .. Len(c) : f = First(KeyAt(c, k)) /\ c[f].key = k
  BY <1>1, <1>2, KeyPlace
<1>4. PICK d : d = Without(c, f)
  OBVIOUS
<1>5. ChainOk(d, b) /\ Len(d) = Len(c) - 1 /\ \A j, w : ChainHas(d, j, w) <=> j # k /\ ChainHas(c, j, w)
  BY <1>2, <1>3, <1>4, ChainCut
<1>6. g = [size |-> h.size - 1, bucket |-> [h.bucket EXCEPT ![b] = d]]
  <2>1. h.bucket \in [Buckets -> Seq(ChainEntries)]
    BY TableParts
  <2> QED BY <2>1, <1>1, <1>2, <1>3, <1>4
<1>7. PICK p : p = {q \in m : q[1] # k}
  OBVIOUS
<1>8. \A j \in Elems : \A w \in RingVals : <<j, w>> \in p <=> j # k /\ <<j, w>> \in m
  BY <1>7
<1>9. p \in SUBSET (Elems \X RingVals)
  BY <1>7, TableParts
<1>10. SameElsewhere(m, p, b)
  BY <1>1, <1>8 DEF SameElsewhere
<1>11. ASSUME NEW j \in Elems, NEW w \in RingVals, HashOf(j) = b PROVE <<j, w>> \in p <=> ChainHas(d, j, w)
  <2>1. <<j, w>> \in m <=> ChainHas(c, j, w)
    BY <1>2, <1>11 DEF TableHolds
  <2> QED BY <2>1, <1>5, <1>8
<1>12. PICK z : z = h.size - 1 /\ z = h.size + (Len(d) - Len(h.bucket[b]))
  <2>1. h.size \in Int
    BY TableParts
  <2> QED BY <2>1, <1>2, <1>5
<1>13. g = [size |-> z, bucket |-> [h.bucket EXCEPT ![b] = d]]
  BY <1>6, <1>12
<1>14. TableHolds(g, p)
  <2>1. ChainOk(d, b)
    BY <1>5
  <2> QED BY <2>1, <1>9, <1>10, <1>11, <1>12, <1>13, BucketChanged
<1> QED BY <1>7, <1>14

LEMMA TableEmpty == TableHolds(Cleared, {})
<1>1. <<>> \in Seq(ChainEntries) /\ Len(<<>>) = 0
  OBVIOUS
<1>2. PICK u : u = [b \in Buckets |-> <<>>]
  OBVIOUS
<1>3. u \in [Buckets -> Seq(ChainEntries)] /\ u[0] = <<>> /\ u[1] = <<>> /\ \A b \in Buckets : u[b] = <<>>
  BY <1>1, <1>2 DEF Buckets
<1>4. Cleared = [size |-> 0, bucket |-> u]
  BY <1>2 DEF Cleared
<1>5. Cleared \in [size : Int, bucket : [Buckets -> Seq(ChainEntries)]] /\ Cleared.size = 0 /\ Cleared.bucket = u
  BY <1>3, <1>4
<1>6. \A b : ChainOk(<<>>, b)
  BY <1>1 DEF ChainOk
<1>7. \A j, w : ~ChainHas(<<>>, j, w)
  BY <1>1 DEF ChainHas
<1>8. \A k \in Elems : u[HashOf(k)] = <<>>
  BY <1>3, HashBucket
<1>9. Cleared.size = Len(Cleared.bucket[0]) + Len(Cleared.bucket[1])
  <2>1. Cleared.bucket[0] = <<>> /\ Cleared.bucket[1] = <<>> /\ Cleared.size = 0
    BY <1>3, <1>5
  <2> QED BY <2>1, <1>1
<1>10. \A b \in Buckets : ChainOk(Cleared.bucket[b], b)
  BY <1>3, <1>5, <1>6
<1>11. \A k \in Elems : \A v \in RingVals : ~ChainHas(Cleared.bucket[HashOf(k)], k, v)
  BY <1>5, <1>7, <1>8
<1> QED BY <1>5, <1>9, <1>10, <1>11 DEF TableHolds

LEMMA TableStarts == ContainersInit => TableInv
<1> SUFFICES ASSUME ContainersInit, dsKind \in TableKinds
             PROVE  TableHolds(hash, dsModel) /\ (dsKind = "set" => SameKeyAndValue)
  BY DEF TableInv
<1>1. hash = Cleared /\ dsModel = {}
  BY DEF ContainersInit, Cleared, TableKinds
<1> QED BY <1>1, TableEmpty DEF SameKeyAndValue

LEMMA MapPutStep ==
    ASSUME TableHolds(hash, dsModel), NEW k \in Elems, NEW v \in RingVals, MapPut(k, v)
    PROVE  TableHolds(hash', dsModel')
<1>1. PICK p : p = dsModel' /\ p = {q \in dsModel : q[1] # k} \cup {<<k, v>>}
  BY DEF MapPut
<1>2. CASE KeyAt(hash.bucket[HashOf(k)], k) # {}
  <2>1. hash' = Replaced(hash, k, v)
    BY <1>2 DEF MapPut, Replaced
  <2>2. TableHolds(hash', {q \in dsModel : q[1] # k} \cup {<<k, v>>})
    BY <1>2, <2>1, TableReplaced
  <2> QED BY <1>1, <2>2
<1>3. CASE KeyAt(hash.bucket[HashOf(k)], k) = {}
  <2>1. hash' = [size |-> hash.size + 1, bucket |-> [hash.bucket EXCEPT ![HashOf(k)] = <<[key |-> k, val |-> v]>> \o @]]
    BY <1>3 DEF MapPut
  <2>2. TableHolds(hash', dsModel \cup {<<k, v>>}) /\ \A w \in RingVals : <<k, w>> \notin dsModel
    BY <1>3, <2>1, TableEntered
  <2>3. dsModel \in SUBSET (Elems \X RingVals)
    BY TableParts
  <2>4. {q \in dsModel : q[1] # k} = dsModel
    <3>1. \A q \in dsModel : q[1] # k
      <4> SUFFICES ASSUME NEW q \in dsModel, q[1] = k PROVE FALSE
        OBVIOUS
      <4>1. q = <<k, q[2]>> /\ q[2] \in RingVals
        BY <2>3
      <4> QED BY <4>1, <2>2
    <3> QED BY <3>1
  <2> QED BY <1>1, <2>2, <2>4
<1> QED BY <1>2, <1>3

LEMMA MapRemoveStep ==
    ASSUME TableHolds(hash, dsModel), NEW k \in Elems, MapRemove(k)
    PROVE  TableHolds(hash', dsModel')
<1>1. KeyAt(hash.bucket[HashOf(k)], k) # {}
  BY DEF MapRemove
<1>2. hash' = [size |-> hash.size - 1,
               bucket |-> [hash.bucket EXCEPT ![HashOf(k)] = Without(@, First(KeyAt(hash.bucket[HashOf(k)], k)))]]
  BY DEF MapRemove
<1>3. dsModel' = {p \in dsModel : p[1] # k}
  BY DEF MapRemove
<1>4. TableHolds(hash', {p \in dsModel : p[1] # k})
  BY <1>1, <1>2, TableCut
<1> QED BY <1>3, <1>4

LEMMA SetAddStep ==
    ASSUME TableHolds(hash, dsModel), SameKeyAndValue, NEW k \in Elems, SetAdd(k)
    PROVE  TableHolds(hash', dsModel') /\ SameKeyAndValue'
<1>1. k \in RingVals
  BY DEF RingVals
<1>2. KeyAt(hash.bucket[HashOf(k)], k) = {}
  BY DEF SetAdd
<1>3. hash' = [size |-> hash.size + 1, bucket |-> [hash.bucket EXCEPT ![HashOf(k)] = <<[key |-> k, val |-> k]>> \o @]]
  BY DEF SetAdd
<1>4. dsModel' = dsModel \cup {<<k, k>>}
  BY DEF SetAdd
<1>5. TableHolds(hash', dsModel \cup {<<k, k>>})
  BY <1>1, <1>2, <1>3, TableEntered
<1> QED BY <1>4, <1>5 DEF SameKeyAndValue

LEMMA SetRemoveStep ==
    ASSUME TableHolds(hash, dsModel), SameKeyAndValue, NEW k \in Elems, SetRemove(k)
    PROVE  TableHolds(hash', dsModel') /\ SameKeyAndValue'
<1>1. KeyAt(hash.bucket[HashOf(k)], k) # {}
  BY DEF SetRemove
<1>2. hash' = [size |-> hash.size - 1,
               bucket |-> [hash.bucket EXCEPT ![HashOf(k)] = Without(@, First(KeyAt(hash.bucket[HashOf(k)], k)))]]
  BY DEF SetRemove
<1>3. dsModel' = dsModel \ {<<k, k>>}
  BY DEF SetRemove
<1>4. dsModel \in SUBSET (Elems \X RingVals)
  BY TableParts
<1>5. dsModel \ {<<k, k>>} = {p \in dsModel : p[1] # k}
  <2>1. \A p \in dsModel : p = <<k, k>> <=> p[1] = k
    <3> SUFFICES ASSUME NEW p \in dsModel PROVE p = <<k, k>> <=> p[1] = k
      OBVIOUS
    <3>1. PICK j \in Elems, w \in RingVals : p = <<j, w>>
      BY <1>4
    <3>2. w = j
      BY <3>1 DEF SameKeyAndValue
    <3> QED BY <3>1, <3>2
  <2> QED BY <2>1
<1>6. TableHolds(hash', {p \in dsModel : p[1] # k})
  BY <1>1, <1>2, TableCut
<1> QED BY <1>3, <1>5, <1>6 DEF SameKeyAndValue

LEMMA TableKept == ASSUME TableInv, [ContainersNext]_containerVars PROVE TableInv'
<1>1. CASE UNCHANGED containerVars
  BY <1>1 DEF containerVars, TableInv, SameKeyAndValue
<1>2. CASE ~(UNCHANGED containerVars)
  <2>1. dsKind' = dsKind
    BY <1>2, KindCalls
  <2>2. CASE dsKind = "map"
    <3>1. TableHolds(hash, dsModel)
      BY <2>2 DEF TableInv, TableKinds
    <3>2. MapClear \/ \E k \in Elems : MapRemove(k) \/ \E v \in {k, DsNull} : MapPut(k, v)
      BY <1>2, <2>2, KindCalls
    <3>3. CASE MapClear
      BY <2>1, <2>2, <3>3, TableEmpty DEF MapClear, TableInv
    <3>4. ASSUME NEW k \in Elems, MapRemove(k) PROVE TableHolds(hash', dsModel')
      BY <3>1, <3>4, MapRemoveStep
    <3>5. ASSUME NEW k \in Elems, NEW v \in {k, DsNull}, MapPut(k, v) PROVE TableHolds(hash', dsModel')
      <4>1. v \in RingVals
        BY DEF RingVals
      <4> QED BY <3>1, <3>5, <4>1, MapPutStep
    <3> QED BY <2>1, <2>2, <3>2, <3>3, <3>4, <3>5 DEF TableInv
  <2>3. CASE dsKind = "set"
    <3>1. TableHolds(hash, dsModel) /\ SameKeyAndValue
      BY <2>3 DEF TableInv, TableKinds
    <3>2. SetClear \/ \E k \in Elems : SetAdd(k) \/ SetRemove(k)
      BY <1>2, <2>3, KindCalls
    <3>3. CASE SetClear
      <4>1. hash' = Cleared /\ dsModel' = {}
        BY <3>3 DEF SetClear
      <4> QED BY <4>1, TableEmpty DEF TableInv, SameKeyAndValue
    <3>4. ASSUME NEW k \in Elems, SetAdd(k) \/ SetRemove(k) PROVE TableHolds(hash', dsModel') /\ SameKeyAndValue'
      BY <3>1, <3>4, SetAddStep, SetRemoveStep
    <3> QED BY <3>2, <3>3, <3>4 DEF TableInv
  <2>4. CASE dsKind \notin TableKinds
    BY <2>1, <2>4 DEF TableInv
  <2> QED BY <2>2, <2>3, <2>4 DEF TableKinds
<1> QED BY <1>1, <1>2

(* Looking a key up finds the value of its pair.                           *)
LEMMA TableAnswers ==
    ASSUME NEW h, NEW m, TableHolds(h, m), NEW k \in Elems
    PROVE  Lookup(h, k) = IF \E v \in Elems : <<k, v>> \in m THEN CHOOSE v \in Elems : <<k, v>> \in m ELSE DsNull
<1>1. PICK b \in Buckets : b = HashOf(k)
  BY HashBucket
<1>2. PICK c : c = h.bucket[b] /\ ChainOk(c, b)
  BY TableParts
<1>3. PICK n \in Nat : n = Len(c) /\ DOMAIN c = 1 .. n /\ \A i \in 1 .. n : c[i] \in ChainEntries
  BY <1>2, ChainElements
<1>4. \A v \in RingVals : <<k, v>> \in m <=> ChainHas(c, k, v)
  BY <1>1, <1>2 DEF TableHolds
<1>5. DsNull \notin Elems /\ \A v \in Elems : v \in RingVals
  BY ContainersAssumption DEF DsNull, RingVals
<1>6. CASE KeyAt(c, k) = {}
  <2>1. Lookup(h, k) = DsNull
    BY <1>1, <1>2, <1>6 DEF Lookup
  <2>2. \A v : ~ChainHas(c, k, v)
    <3>1. \A i \in 1 .. n : c[i].key # k
      BY <1>3, <1>6 DEF KeyAt
    <3>2. \A v : Entry(k, v).key = k
      BY DEF Entry
    <3> QED BY <3>1, <3>2, <1>3 DEF ChainHas
  <2>3. ~(\E v \in Elems : <<k, v>> \in m)
    BY <2>2, <1>4, <1>5
  <2> QED BY <2>1, <2>3
<1>7. CASE KeyAt(c, k) # {}
  <2>1. PICK f \in 1 .. n : f = First(KeyAt(c, k)) /\ c[f].key = k
    BY <1>2, <1>3, <1>7, KeyPlace
  <2>2. PICK w \in RingVals : w = c[f].val /\ c[f] = Entry(k, w)
    BY <1>3, <2>1, EntryIs
  <2>3. Lookup(h, k) = w
    BY <1>1, <1>2, <1>7, <2>1, <2>2 DEF Lookup
  <2>4. \A v \in RingVals : <<k, v>> \in m <=> v = w
    <3> SUFFICES ASSUME NEW v \in RingVals PROVE ChainHas(c, k, v) <=> v = w
      BY <1>4
    <3>1. ASSUME ChainHas(c, k, v) PROVE v = w
      <4>1. PICK i \in 1 .. n : c[i] = Entry(k, v)
        BY <3>1, <1>3 DEF ChainHas
      <4>2. c[i].key = k
        BY <4>1 DEF Entry
      <4>3. i = f
        BY <4>2, <2>1, <1>2, <1>3 DEF ChainOk
      <4>4. Entry(k, v) = Entry(k, w)
        BY <4>1, <4>3, <2>2
      <4> QED BY <4>4 DEF Entry
    <3>2. ChainHas(c, k, w)
      BY <2>1, <2>2, <1>3 DEF ChainHas
    <3> QED BY <3>1, <3>2
  <2>5. CASE w \in Elems
    <3>1. \A v \in Elems : <<k, v>> \in m <=> v = w
      BY <2>4, <1>5
    <3>2. (CHOOSE v \in Elems : <<k, v>> \in m) = w
      BY <3>1, <2>5
    <3> QED BY <2>3, <2>5, <3>1, <3>2
  <2>6. CASE w \notin Elems
    <3>1. w = DsNull
      BY <2>2, <2>6 DEF RingVals
    <3>2. ~(\E v \in Elems : <<k, v>> \in m)
      BY <2>4, <2>6, <1>5
    <3> QED BY <2>3, <3>1, <3>2
  <2> QED BY <2>5, <2>6
<1> QED BY <1>6, <1>7

LEMMA TableInvGives == TableInv => HashAgrees
<1> SUFFICES ASSUME TableInv, dsKind \in TableKinds
             PROVE  /\ hash.size = Len(hash.bucket[0]) + Len(hash.bucket[1])
                    /\ \A b \in Buckets : \A i, j \in DOMAIN hash.bucket[b] :
                          hash.bucket[b][i].key = hash.bucket[b][j].key => i = j
                    /\ \A k \in Elems : Lookup(hash, k) = (IF \E v \in Elems : <<k, v>> \in dsModel
                                                           THEN CHOOSE v \in Elems : <<k, v>> \in dsModel ELSE DsNull)
  BY DEF HashAgrees, TableKinds
<1>1. TableHolds(hash, dsModel)
  BY DEF TableInv
<1>2. hash.size = Len(hash.bucket[0]) + Len(hash.bucket[1])
  BY <1>1 DEF TableHolds
<1>3. ASSUME NEW b \in Buckets
      PROVE  \A i, j \in DOMAIN hash.bucket[b] : hash.bucket[b][i].key = hash.bucket[b][j].key => i = j
  <2>1. PICK c : c = hash.bucket[b] /\ ChainOk(c, b)
    BY <1>1, TableParts
  <2>2. DOMAIN c = 1 .. Len(c)
    BY <2>1, ChainElements
  <2> QED BY <2>1, <2>2 DEF ChainOk
<1> QED BY <1>1, <1>2, <1>3, TableAnswers

(* Arrays.                                                                 *)
Backwards(q, a) == Len(q) = Len(a) /\ \A i \in 1 .. Len(a) : q[i] = a[Len(a) - i + 1]
OnceEach(a) == \A i, j \in 1 .. Len(a) : a[i] = a[j] => i = j
Doubles(m, a) == \A x : x \in m <=> \E i \in 1 .. Len(a) : x = <<a[i], a[i]>>
ArrayInv ==
    /\ array \in Seq(Elems)
    /\ dsKind = "stack" => dsModel \in Seq(Elems) /\ Backwards(dsModel, array)
    /\ dsKind = "group" => OnceEach(array) /\ Doubles(dsModel, array)

LEMMA ArrayStarts == ContainersInit => ArrayInv
<1> SUFFICES ASSUME ContainersInit PROVE ArrayInv
  OBVIOUS
<1>1. array = <<>> /\ (dsKind = "stack" => dsModel = <<>>) /\ (dsKind = "group" => dsModel = {})
  BY DEF ContainersInit
<1>2. <<>> \in Seq(Elems) /\ Len(<<>>) = 0
  OBVIOUS
<1>3. array \in Seq(Elems) /\ Len(array) = 0
  BY <1>1, <1>2
<1>4. dsKind = "stack" => dsModel \in Seq(Elems) /\ Backwards(dsModel, array)
  BY <1>1, <1>2, <1>3 DEF Backwards
<1>5. dsKind = "group" => OnceEach(array) /\ Doubles(dsModel, array)
  BY <1>1, <1>3 DEF OnceEach, Doubles
<1> QED BY <1>3, <1>4, <1>5 DEF ArrayInv

LEMMA StackPushed ==
    ASSUME NEW a \in Seq(Elems), NEW q \in Seq(Elems), Backwards(q, a), NEW x \in Elems
    PROVE  Append(a, x) \in Seq(Elems) /\ <<x>> \o q \in Seq(Elems) /\ Backwards(<<x>> \o q, Append(a, x))
<1>1. PICK n \in Nat : n = Len(a) /\ Len(q) = n /\ \A i \in 1 .. n : q[i] = a[n - i + 1]
  <2>1. Len(a) \in Nat
    OBVIOUS
  <2> QED BY <2>1 DEF Backwards
<1>2. PICK b : b = Append(a, x)
  OBVIOUS
<1>3. b \in Seq(Elems) /\ Len(b) = n + 1 /\ b[n + 1] = x /\ \A i \in 1 .. n : b[i] = a[i]
  BY <1>1, <1>2
<1>4. PICK p : p = <<x>> \o q
  OBVIOUS
<1>5. p \in Seq(Elems) /\ Len(p) = n + 1 /\ \A i \in 1 .. n + 1 : p[i] = IF i = 1 THEN x ELSE q[i - 1]
  BY <1>1, <1>4, PrependProperties
<1>6. ASSUME NEW i \in 1 .. n + 1 PROVE p[i] = b[(n + 1) - i + 1]
  <2>1. CASE i = 1
    <3>1. (n + 1) - i + 1 = n + 1
      BY <2>1, <1>1
    <3> QED BY <2>1, <3>1, <1>3, <1>5
  <2>2. CASE i # 1
    <3>1. PICK j \in 1 .. n : j = i - 1
      BY <2>2, <1>1
    <3>2. (n + 1) - i + 1 = n - j + 1 /\ n - j + 1 \in 1 .. n
      BY <3>1, <1>1
    <3> QED BY <2>2, <3>1, <3>2, <1>1, <1>3, <1>5
  <2> QED BY <2>1, <2>2
<1> QED BY <1>2, <1>3, <1>4, <1>5, <1>6 DEF Backwards

LEMMA StackPopped ==
    ASSUME NEW a \in Seq(Elems), NEW q \in Seq(Elems), Backwards(q, a), a # <<>>
    PROVE  /\ SubSeq(a, 1, Len(a) - 1) \in Seq(Elems) /\ Tail(q) \in Seq(Elems)
           /\ Backwards(Tail(q), SubSeq(a, 1, Len(a) - 1))
<1>1. PICK n \in Nat : n = Len(a) /\ Len(q) = n /\ n >= 1 /\ \A i \in 1 .. n : q[i] = a[n - i + 1]
  <2>1. Len(a) \in Nat /\ Len(a) # 0
    OBVIOUS
  <2> QED BY <2>1 DEF Backwards
<1>2. PICK b : b = SubSeq(a, 1, n - 1)
  OBVIOUS
<1>3. b \in Seq(Elems) /\ Len(b) = n - 1 /\ \A i \in 1 .. n - 1 : b[i] = a[i]
  BY <1>1, <1>2, SubSeqProperties
<1>4. PICK p : p = Tail(q)
  OBVIOUS
<1>5. p \in Seq(Elems) /\ Len(p) = n - 1 /\ \A i \in 1 .. n - 1 : p[i] = q[i + 1]
  BY <1>1, <1>4, TailDropped
<1>6. ASSUME NEW i \in 1 .. n - 1 PROVE p[i] = b[(n - 1) - i + 1]
  <2>1. i + 1 \in 1 .. n /\ n - (i + 1) + 1 = (n - 1) - i + 1 /\ (n - 1) - i + 1 \in 1 .. n - 1
    BY <1>1
  <2> QED BY <2>1, <1>1, <1>3, <1>5
<1> QED BY <1>1, <1>2, <1>3, <1>4, <1>5, <1>6 DEF Backwards

LEMMA GroupAdded ==
    ASSUME NEW a \in Seq(Elems), NEW m, OnceEach(a), Doubles(m, a), NEW x \in Elems,
           ~(\E i \in DOMAIN a : a[i] = x)
    PROVE  Append(a, x) \in Seq(Elems) /\ OnceEach(Append(a, x)) /\ Doubles(m \cup {<<x, x>>}, Append(a, x))
<1>1. PICK n \in Nat : n = Len(a) /\ DOMAIN a = 1 .. n
  BY ElementOfSeq
<1>2. PICK b : b = Append(a, x)
  OBVIOUS
<1>3. b \in Seq(Elems) /\ Len(b) = n + 1 /\ b[n + 1] = x /\ \A i \in 1 .. n : b[i] = a[i]
  BY <1>1, <1>2
<1>4. \A i \in 1 .. n + 1 : i \in 1 .. n \/ i = n + 1
  BY <1>1
<1>5. \A i, j \in 1 .. n : a[i] = a[j] => i = j
  BY <1>1 DEF OnceEach
<1>6. OnceEach(b)
  <2>1. ASSUME NEW i \in 1 .. n + 1, NEW j \in 1 .. n + 1, b[i] = b[j] PROVE i = j
    BY <2>1, <1>1, <1>3, <1>4, <1>5
  <2> QED BY <2>1, <1>3 DEF OnceEach
<1>7. ASSUME NEW y PROVE y \in m \cup {<<x, x>>} <=> \E i \in 1 .. n + 1 : y = <<b[i], b[i]>>
  <2>1. y \in m <=> \E i \in 1 .. n : y = <<a[i], a[i]>>
    BY <1>1 DEF Doubles
  <2>2. n + 1 \in 1 .. n + 1 /\ \A i \in 1 .. n : i \in 1 .. n + 1
    BY <1>1
  <2> QED BY <2>1, <2>2, <1>3, <1>4
<1>8. Doubles(m \cup {<<x, x>>}, b)
  BY <1>3, <1>7 DEF Doubles
<1> QED BY <1>2, <1>3, <1>6, <1>8

(* The last member in the place of the one that leaves.                    *)
Closed(a, i) == SubSeq([a EXCEPT ![i] = a[Len(a)]], 1, Len(a) - 1)
LEMMA GroupRemoved ==
    ASSUME NEW a \in Seq(Elems), NEW m, OnceEach(a), Doubles(m, a), NEW k \in 1 .. Len(a)
    PROVE  Closed(a, k) \in Seq(Elems) /\ OnceEach(Closed(a, k)) /\ Doubles(m \ {<<a[k], a[k]>>}, Closed(a, k))
<1>1. PICK n \in Nat : n = Len(a) /\ a \in [1 .. n -> Elems] /\ n >= 1 /\ k \in 1 .. n
  <2>1. Len(a) \in Nat
    OBVIOUS
  <2> QED BY <2>1, LenProperties
<1>0. n \in Int /\ n >= 1 /\ k \in Int /\ 1 <= k /\ k <= n
  BY <1>1
<1>2. PICK e : e = [a EXCEPT ![k] = a[n]]
  OBVIOUS
<1>3. e \in [1 .. n -> Elems] /\ \A i \in 1 .. n : e[i] = IF i = k THEN a[n] ELSE a[i]
  <2>1. n \in 1 .. n
    BY <1>1
  <2> QED BY <2>1, <1>1, <1>2
<1>4. e \in Seq(Elems) /\ Len(e) = n
  BY <1>1, <1>3, FunctionIsSeq
<1>5. PICK b : b = SubSeq(e, 1, n - 1)
  OBVIOUS
<1>6. b \in Seq(Elems) /\ Len(b) = n - 1 /\ \A i \in 1 .. n - 1 : b[i] = e[i]
  BY <1>1, <1>4, <1>5, SubSeqProperties
<1>7. b = Closed(a, k)
  BY <1>1, <1>2, <1>5 DEF Closed
<1>8. PICK g : g = [i \in 1 .. n - 1 |-> IF i = k THEN n ELSE i]
  OBVIOUS
<1>9. \A i \in 1 .. n - 1 : g[i] \in 1 .. n /\ g[i] # k
  <2> SUFFICES ASSUME NEW i \in 1 .. n - 1 PROVE g[i] \in 1 .. n /\ g[i] # k
    OBVIOUS
  <2>1. g[i] = IF i = k THEN n ELSE i
    BY <1>8
  <2>2. i \in Int /\ 1 <= i /\ i < n
    BY <1>0
  <2>3. CASE i = k
    BY <2>1, <2>2, <2>3, <1>0
  <2>4. CASE i # k
    BY <2>1, <2>2, <2>4, <1>0
  <2> QED BY <2>3, <2>4
<1>10. \A i \in 1 .. n - 1 : b[i] = a[g[i]]
  <2> SUFFICES ASSUME NEW i \in 1 .. n - 1 PROVE b[i] = a[g[i]]
    OBVIOUS
  <2>1. i \in 1 .. n /\ b[i] = IF i = k THEN a[n] ELSE a[i]
    BY <1>1, <1>3, <1>6
  <2>2. g[i] = IF i = k THEN n ELSE i
    BY <1>8
  <2> QED BY <2>1, <2>2
<1>11. \A i, j \in 1 .. n - 1 : g[i] = g[j] => i = j
  <2> SUFFICES ASSUME NEW i \in 1 .. n - 1, NEW j \in 1 .. n - 1, g[i] = g[j] PROVE i = j
    OBVIOUS
  <2>1. g[i] = (IF i = k THEN n ELSE i) /\ g[j] = (IF j = k THEN n ELSE j)
    BY <1>8
  <2>2. i # n /\ j # n
    BY <1>0
  <2> QED BY <2>1, <2>2
<1>12. \A i \in 1 .. n : i # k => \E j \in 1 .. n - 1 : g[j] = i
  <2> SUFFICES ASSUME NEW i \in 1 .. n, i # k PROVE \E j \in 1 .. n - 1 : g[j] = i
    OBVIOUS
  <2>1. CASE i = n
    <3>1. k \in 1 .. n - 1
      BY <2>1, <1>1
    <3> QED BY <2>1, <3>1, <1>8
  <2>2. CASE i # n
    <3>1. i \in 1 .. n - 1
      BY <2>2, <1>0
    <3>2. g[i] = i
      BY <3>1, <1>8
    <3> QED BY <3>1, <3>2
  <2> QED BY <2>1, <2>2
<1>13. \A i, j \in 1 .. n : a[i] = a[j] => i = j
  BY <1>1 DEF OnceEach
<1>14. OnceEach(b)
  <2>1. ASSUME NEW i \in 1 .. n - 1, NEW j \in 1 .. n - 1, b[i] = b[j] PROVE i = j
    <3>1. a[g[i]] = a[g[j]] /\ g[i] \in 1 .. n /\ g[j] \in 1 .. n
      BY <2>1, <1>9, <1>10
    <3>2. g[i] = g[j]
      BY <3>1, <1>13
    <3> QED BY <3>2, <1>11
  <2> QED BY <2>1, <1>6 DEF OnceEach
<1>15. ASSUME NEW y PROVE y \in m \ {<<a[k], a[k]>>} <=> \E i \in 1 .. n - 1 : y = <<b[i], b[i]>>
  <2>1. y \in m <=> \E i \in 1 .. n : y = <<a[i], a[i]>>
    BY <1>1 DEF Doubles
  <2>2. ASSUME NEW i \in 1 .. n - 1, y = <<b[i], b[i]>> PROVE y \in m \ {<<a[k], a[k]>>}
    <3>1. y = <<a[g[i]], a[g[i]]>> /\ g[i] \in 1 .. n /\ g[i] # k
      BY <2>2, <1>9, <1>10
    <3>2. a[g[i]] # a[k]
      BY <3>1, <1>1, <1>13
    <3> QED BY <3>1, <3>2, <2>1
  <2>3. ASSUME y \in m \ {<<a[k], a[k]>>} PROVE \E i \in 1 .. n - 1 : y = <<b[i], b[i]>>
    <3>1. PICK i \in 1 .. n : y = <<a[i], a[i]>> /\ i # k
      BY <2>1, <2>3
    <3>2. PICK j \in 1 .. n - 1 : g[j] = i
      BY <3>1, <1>12
    <3> QED BY <3>1, <3>2, <1>10
  <2> QED BY <2>2, <2>3
<1>16. Doubles(m \ {<<a[k], a[k]>>}, b)
  BY <1>6, <1>15 DEF Doubles
<1> QED BY <1>6, <1>7, <1>14, <1>16

LEMMA ArrayKept == ASSUME ArrayInv, [ContainersNext]_containerVars PROVE ArrayInv'
<1>1. CASE UNCHANGED containerVars
  BY <1>1 DEF containerVars, ArrayInv
<1>2. CASE ~(UNCHANGED containerVars)
  <2>1. dsKind' = dsKind
    BY <1>2, KindCalls
  <2>2. array \in Seq(Elems)
    BY DEF ArrayInv
  <2>3. CASE dsKind = "stack"
    <3>1. dsModel \in Seq(Elems) /\ Backwards(dsModel, array)
      BY <2>3 DEF ArrayInv
    <3>2. StackPop \/ \E x \in Elems : StackPush(x)
      BY <1>2, <2>3, KindCalls
    <3>3. CASE StackPop
      <4>1. array # <<>> /\ array' = SubSeq(array, 1, Len(array) - 1) /\ dsModel' = Tail(dsModel)
        BY <3>3 DEF StackPop
      <4>2. array' \in Seq(Elems) /\ dsModel' \in Seq(Elems) /\ Backwards(dsModel', array')
        BY <2>2, <3>1, <4>1, StackPopped
      <4> QED BY <2>1, <2>3, <4>2 DEF ArrayInv
    <3>4. ASSUME NEW x \in Elems, StackPush(x) PROVE ArrayInv'
      <4>1. array' = Append(array, x) /\ dsModel' = <<x>> \o dsModel
        BY <3>4 DEF StackPush
      <4>2. array' \in Seq(Elems) /\ dsModel' \in Seq(Elems) /\ Backwards(dsModel', array')
        BY <2>2, <3>1, <4>1, StackPushed
      <4> QED BY <2>1, <2>3, <4>2 DEF ArrayInv
    <3> QED BY <3>2, <3>3, <3>4
  <2>4. CASE dsKind = "group"
    <3>1. OnceEach(array) /\ Doubles(dsModel, array)
      BY <2>4 DEF ArrayInv
    <3>2. PICK k \in Elems : GroupAdd(k) \/ GroupRemove(k)
      BY <1>2, <2>4, KindCalls
    <3>3. CASE GroupAdd(k)
      <4>1. array' = Append(array, k) /\ dsModel' = dsModel \cup {<<k, k>>} /\ ~(\E i \in DOMAIN array : array[i] = k)
        BY <3>3 DEF GroupAdd, GroupContains
      <4>2. array' \in Seq(Elems) /\ OnceEach(array') /\ Doubles(dsModel', array')
        BY <2>2, <3>1, <4>1, GroupAdded
      <4> QED BY <2>1, <2>4, <4>2 DEF ArrayInv
    <3>4. CASE GroupRemove(k)
      <4>1. PICK S : S = {j \in DOMAIN array : array[j] = k}
        OBVIOUS
      <4>2. DOMAIN array = 1 .. Len(array)
        BY <2>2, ElementOfSeq
      <4>3. S # {} /\ S \in SUBSET Nat
        BY <3>4, <4>1, <4>2 DEF GroupRemove, GroupContains
      <4>4. PICK i \in 1 .. Len(array) : i = First(S) /\ array[i] = k
        BY <4>1, <4>2, <4>3, FirstPlace
      <4>5. array' = Closed(array, i) /\ dsModel' = dsModel \ {<<k, k>>}
        BY <3>4, <4>1, <4>4 DEF GroupRemove, Closed
      <4>6. array' \in Seq(Elems) /\ OnceEach(array') /\ Doubles(dsModel', array')
        BY <2>2, <3>1, <4>4, <4>5, GroupRemoved
      <4> QED BY <2>1, <2>4, <4>6 DEF ArrayInv
    <3> QED BY <3>2, <3>3, <3>4
  <2>5. CASE dsKind \notin {"stack", "group"}
    <3>1. array' = array
      <4>1. \A x \in Elems : QueuePush(x) \/ MailboxPut(x) => UNCHANGED array
        BY DEF QueuePush, MailboxPut
      <4>2. \A n : StreamRead(n) => UNCHANGED array
        BY DEF StreamRead
      <4>3. \A s : StreamWrite(s) => UNCHANGED array
        BY DEF StreamWrite
      <4>4. QueuePop \/ MailboxTake \/ MapClear \/ SetClear => UNCHANGED array
        BY DEF QueuePop, MailboxTake, MapClear, SetClear
      <4>5. \A k, v : MapPut(k, v) => UNCHANGED array
        BY ZenonT(20) DEF MapPut
      <4>6. \A k : MapRemove(k) \/ SetAdd(k) \/ SetRemove(k) => UNCHANGED array
        BY ZenonT(20) DEF MapRemove, SetAdd, SetRemove
      <4>7. CASE dsKind # "list"
        BY <1>2, <2>5, <4>1, <4>2, <4>3, <4>4, <4>5, <4>6, <4>7, KindCalls
      <4>8. CASE dsKind = "list"
        <5>1. ListStep \/ Growing
          BY <1>2, <4>8, KindCalls
        <5>2. \A x : ListAppend(x) \/ ListPrepend(x) => UNCHANGED array
          BY ZenonT(20) DEF ListAppend, ListPrepend
        <5>3. \A i, x : ListInsert(i, x) \/ ListSet(i, x) => UNCHANGED array
          BY ZenonT(20) DEF ListInsert, ListSet
        <5>4. ListPop \/ ListPopFront \/ ListReverse \/ ListSort => UNCHANGED array
          BY ZenonT(20) DEF ListPop, ListPopFront, ListReverse, ListSort
        <5>5. \A i : ListRemoveVal(i) \/ ListRemove(i) => UNCHANGED array
          BY ZenonT(20) DEF ListRemoveVal, ListRemove
        <5>6. ~StackPop /\ \A x : ~StackPush(x) /\ ~QueuePush(x) /\ ~MailboxPut(x)
          BY <4>8, ZenonT(20) DEF StackPop, StackPush, QueuePush, MailboxPut
        <5>7. CASE ListStep
          BY <5>3, <5>4, <5>5, <5>6, <5>7 DEF ListStep
        <5>8. CASE Growing
          BY <5>2, <5>3, <5>6, <5>8 DEF Growing
        <5> QED BY <5>1, <5>7, <5>8
      <4> QED BY <4>7, <4>8
    <3> QED BY <2>1, <2>2, <2>5, <3>1 DEF ArrayInv
  <2> QED BY <2>3, <2>4, <2>5
<1> QED BY <1>1, <1>2

LEMMA ArrayInvGives == ArrayInv => ArrayAgrees
<1> SUFFICES ASSUME ArrayInv PROVE ArrayAgrees
  OBVIOUS
<1>1. PICK n \in Nat : n = Len(array) /\ DOMAIN array = 1 .. n /\ array \in [1 .. n -> Elems]
  BY ElementOfSeq, LenProperties DEF ArrayInv
<1>2. ASSUME dsKind = "stack" PROVE dsModel = Reverse(array)
  <2>1. dsModel \in Seq(Elems) /\ Len(dsModel) = n /\ \A i \in 1 .. n : dsModel[i] = array[n - i + 1]
    BY <1>1, <1>2 DEF ArrayInv, Backwards
  <2>2. dsModel \in [1 .. n -> Elems]
    BY <2>1, LenProperties
  <2>3. Reverse(array) = [i \in 1 .. n |-> array[n - i + 1]]
    BY <1>1 DEF Reverse
  <2> QED BY <2>1, <2>2, <2>3
<1>3. ASSUME dsKind = "group" PROVE dsModel = {<<x, x>> : x \in Range(array)} /\ IsInjective(array)
  <2>1. OnceEach(array) /\ Doubles(dsModel, array)
    BY <1>3 DEF ArrayInv
  <2>2. IsInjective(array)
    BY <1>1, <2>1 DEF IsInjective, OnceEach
  <2>3. \A x : x \in dsModel <=> \E i \in 1 .. n : x = <<array[i], array[i]>>
    BY <1>1, <2>1 DEF Doubles
  <2>4. Range(array) = {array[i] : i \in 1 .. n}
    BY <1>1 DEF Range
  <2>5. \A x : x \in {<<y, y>> : y \in Range(array)} <=> \E i \in 1 .. n : x = <<array[i], array[i]>>
    BY <2>4
  <2> QED BY <2>2, <2>3, <2>5
<1> QED BY <1>2, <1>3 DEF ArrayAgrees

(* A map, a set and a group answer as the set of the pairs that were put   *)
(* in and not removed, one entry for each key, and a stack as the sequence *)
(* with the last pushed first (pny_map, pny_set, pny_group, pny_stack).    *)
THEOREM TablesAreSets == ContainersSpec => []TablesAgree
<1>1. TableInv /\ ArrayInv => TablesAgree
  BY TableInvGives, ArrayInvGives DEF TablesAgree
<1>2. TableInv /\ ArrayInv /\ [ContainersNext]_containerVars => (TableInv /\ ArrayInv)'
  BY TableKept, ArrayKept
<1>3. ContainersInit => TableInv /\ ArrayInv
  BY TableStarts, ArrayStarts
<1> QED BY <1>1, <1>2, <1>3, PTL DEF ContainersSpec

-----------------------------------------------------------------------------
(* The linked list.  P names its nodes in order: P[0] and P[n + 1] are the *)
(* NULL at its two ends.                                                   *)

LinkVals == 0 .. DsSize
ListRecords == [head : LinkVals, tail : LinkVals, len : Int, byValue : BOOLEAN, used : SUBSET Nodes,
                next : [Nodes -> LinkVals], prev : [Nodes -> LinkVals], data : [Nodes -> Nat]]
WalkOf(P, n) ==
    /\ P \in [0 .. n + 1 -> LinkVals] /\ P[0] = 0 /\ P[n + 1] = 0 /\ \A i \in 1 .. n : P[i] \in Nodes
    /\ \A i, j \in 1 .. n : P[i] = P[j] => i = j
UsesAll(l, P, n) == \A y : y \in l.used <=> \E i \in 1 .. n : y = P[i]
LinkedAs(l, P, n) ==
    /\ l.head = P[1] /\ l.tail = P[n]
    /\ \A i \in 1 .. n : l.next[P[i]] = P[i + 1] /\ l.prev[P[i]] = P[i - 1]
DataIs(l, P, n, q) == q \in Seq(Elems) /\ Len(q) = n /\ \A i \in 1 .. n : l.data[P[i]] = q[i]

(* The list l spells the sequence q along P.                               *)
Spells(l, P, n, q) ==
    l \in ListRecords /\ n \in Nat /\ l.len = n /\ WalkOf(P, n) /\ UsesAll(l, P, n) /\ LinkedAs(l, P, n) /\ DataIs(l, P, n, q)

LEMMA NullIsNoNode == 0 \notin Nodes /\ 0 \in LinkVals /\ \A x \in Nodes : x \in LinkVals
BY ContainersAssumption DEF Nodes, LinkVals

LEMMA WalkStep ==
    ASSUME NEW n \in Nat, NEW P, WalkOf(P, n)
    PROVE  \A i \in 1 .. n : /\ i - 1 \in 0 .. n + 1 /\ i + 1 \in 0 .. n + 1 /\ P[i] \in Nodes
                             /\ P[i - 1] \in LinkVals /\ P[i + 1] \in LinkVals
                             /\ P[i - 1] = 0 <=> i = 1
                             /\ P[i + 1] = 0 <=> i = n
<1> SUFFICES ASSUME NEW i \in 1 .. n
             PROVE  /\ i - 1 \in 0 .. n + 1 /\ i + 1 \in 0 .. n + 1 /\ P[i] \in Nodes
                    /\ P[i - 1] \in LinkVals /\ P[i + 1] \in LinkVals
                    /\ P[i - 1] = 0 <=> i = 1
                    /\ P[i + 1] = 0 <=> i = n
  OBVIOUS
<1>1. i - 1 \in 0 .. n + 1 /\ i + 1 \in 0 .. n + 1
  OBVIOUS
<1>2. P[i] \in Nodes /\ P[i - 1] \in LinkVals /\ P[i + 1] \in LinkVals
  BY <1>1 DEF WalkOf
<1>3. P[i - 1] = 0 <=> i = 1
  <2>1. CASE i = 1
    <3>1. i - 1 = 0
      BY <2>1
    <3> QED BY <2>1, <3>1 DEF WalkOf
  <2>2. CASE i # 1
    <3>1. i - 1 \in 1 .. n
      BY <2>2
    <3> QED BY <2>2, <3>1, NullIsNoNode DEF WalkOf
  <2> QED BY <2>1, <2>2
<1>4. P[i + 1] = 0 <=> i = n
  <2>1. CASE i = n
    BY <2>1 DEF WalkOf
  <2>2. CASE i # n
    <3>1. i + 1 \in 1 .. n
      BY <2>2
    <3> QED BY <2>2, <3>1, NullIsNoNode DEF WalkOf
  <2> QED BY <2>1, <2>2
<1> QED BY <1>1, <1>2, <1>3, <1>4

LEMMA NodeAtIs ==
    ASSUME NEW l, NEW n \in Nat, NEW P, l.head = P[1], \A i \in 1 .. n : l.next[P[i]] = P[i + 1], NEW k \in 0 .. n
    PROVE  NodeAt(l, k) = P[k + 1]
<1> DEFINE Def(F) == F = [j \in 0 .. k |-> IF j = 0 THEN l.head ELSE l.next[F[j - 1]]]
<1>1. PICK W : W = [j \in 0 .. k |-> P[j + 1]]
  OBVIOUS
<1>2. Def(W)
  <2>1. W[0] = l.head
    BY <1>1
  <2>2. ASSUME NEW j \in 1 .. k PROVE W[j] = l.next[W[j - 1]]
    <3>1. j \in 1 .. n /\ j - 1 \in 0 .. k /\ j \in 0 .. k /\ (j - 1) + 1 = j
      OBVIOUS
    <3>2. W[j - 1] = P[j] /\ W[j] = P[j + 1]
      BY <3>1, <1>1
    <3> QED BY <3>1, <3>2
  <2>3. \A j \in 0 .. k : W[j] = IF j = 0 THEN l.head ELSE l.next[W[j - 1]]
    <3> SUFFICES ASSUME NEW j \in 0 .. k PROVE W[j] = IF j = 0 THEN l.head ELSE l.next[W[j - 1]]
      OBVIOUS
    <3>1. CASE j = 0
      BY <3>1, <2>1
    <3>2. CASE j # 0
      <4>1. j \in 1 .. k
        BY <3>2
      <4> QED BY <3>2, <4>1, <2>2
    <3> QED BY <3>1, <3>2
  <2> QED BY <1>1, <2>3
<1>3. PICK G : G = (CHOOSE H : Def(H))
  OBVIOUS
<1>4. Def(G) /\ NodeAt(l, k) = G[k]
  <2>1. Def(G)
    <3> HIDE DEF Def
    <3> QED BY <1>2, <1>3
  <2>2. NodeAt(l, k) = G[k]
    BY <1>3 DEF NodeAt
  <2> QED BY <2>1, <2>2
<1>5. G[0] = l.head /\ \A j \in 1 .. k : G[j] = l.next[G[j - 1]]
  BY <1>4
<1> DEFINE I == {j \in 0 .. k : G[j] = P[j + 1]}
<1>6. 0 \in I
  BY <1>5
<1>7. ASSUME NEW j \in 1 .. k, j - 1 \in I PROVE j \in I
  <2>1. G[j - 1] = P[(j - 1) + 1] /\ (j - 1) + 1 = j /\ j \in 1 .. n
    BY <1>7
  <2>2. G[j] = P[j + 1]
    BY <2>1, <1>5
  <2> QED BY <2>2
<1>8. \A j \in 0 .. k : j \in I
  <2>1. k \in Nat
    OBVIOUS
  <2> HIDE DEF I
  <2> QED BY <1>6, <1>7, <2>1, Upwards
<1>9. k \in I
  BY <1>8
<1> QED BY <1>4, <1>9

LEMMA SpellsNode ==
    ASSUME NEW l, NEW P, NEW n, NEW q, Spells(l, P, n, q), NEW k \in 0 .. n
    PROVE  NodeAt(l, k) = P[k + 1]
<1>1. n \in Nat /\ l.head = P[1] /\ \A i \in 1 .. n : l.next[P[i]] = P[i + 1]
  BY DEF Spells, LinkedAs
<1> QED BY <1>1, NodeAtIs

(* The list m is l with the node x between the i-th and the next.          *)
EnteredAt(l, m, P, n, i, x, v) ==
    /\ m \in ListRecords /\ x \in Nodes /\ x \notin l.used /\ m.len = n + 1
    /\ \A y : y \in m.used <=> y \in l.used \/ y = x
    /\ m.head = (IF i = 0 THEN x ELSE l.head) /\ m.tail = (IF i = n THEN x ELSE l.tail)
    /\ m.next[x] = P[i + 1] /\ m.prev[x] = P[i] /\ m.data[x] = v
    /\ \A y \in l.used : /\ m.next[y] = (IF y = P[i] THEN x ELSE l.next[y])
                         /\ m.prev[y] = (IF y = P[i + 1] THEN x ELSE l.prev[y])
                         /\ m.data[y] = l.data[y]
WithAt(q, i, v, t) ==
    /\ t \in Seq(Elems) /\ Len(t) = Len(q) + 1
    /\ \A j \in 1 .. Len(q) + 1 : t[j] = IF j <= i THEN q[j] ELSE IF j = i + 1 THEN v ELSE q[j - 1]
Spliced(P, n, i, x) == [j \in 0 .. (n + 1) + 1 |-> IF j <= i THEN P[j] ELSE IF j = i + 1 THEN x ELSE P[j - 1]]

SpliceOf(R, P, n, i, x) ==
    R[i + 1] = x /\ (\A j \in 0 .. i : R[j] = P[j]) /\ \A j \in i + 1 .. n + 1 : R[j + 1] = P[j]

LEMMA SplicedIs ==
    ASSUME NEW n \in Nat, NEW P, NEW i \in 0 .. n, NEW x
    PROVE  SpliceOf(Spliced(P, n, i, x), P, n, i, x)
<1>1. PICK R : R = Spliced(P, n, i, x)
  OBVIOUS
<1>2. \A j \in 0 .. (n + 1) + 1 : R[j] = IF j <= i THEN P[j] ELSE IF j = i + 1 THEN x ELSE P[j - 1]
  BY <1>1 DEF Spliced
<1>3. ASSUME NEW j \in 0 .. i PROVE R[j] = P[j]
  <2>1. j \in 0 .. (n + 1) + 1 /\ j <= i
    OBVIOUS
  <2> QED BY <2>1, <1>2
<1>4. R[i + 1] = x
  <2>1. i + 1 \in 0 .. (n + 1) + 1 /\ ~(i + 1 <= i)
    OBVIOUS
  <2> QED BY <2>1, <1>2
<1>5. ASSUME NEW j \in i + 1 .. n + 1 PROVE R[j + 1] = P[j]
  <2>1. j + 1 \in 0 .. (n + 1) + 1 /\ ~(j + 1 <= i) /\ j + 1 # i + 1 /\ (j + 1) - 1 = j
    OBVIOUS
  <2> QED BY <2>1, <1>2
<1> QED BY <1>1, <1>3, <1>4, <1>5 DEF SpliceOf

LEMMA SplicedWalk ==
    ASSUME NEW n \in Nat, NEW P, WalkOf(P, n), NEW i \in 0 .. n, NEW x \in Nodes, \A j \in 1 .. n : P[j] # x
    PROVE  WalkOf(Spliced(P, n, i, x), n + 1)
<1>1. PICK R : R = Spliced(P, n, i, x)
  OBVIOUS
<1>2. R[i + 1] = x /\ (\A j \in 0 .. i : R[j] = P[j]) /\ \A j \in i + 1 .. n + 1 : R[j + 1] = P[j]
  <2>1. SpliceOf(R, P, n, i, x)
    BY <1>1, SplicedIs
  <2> QED BY <2>1 DEF SpliceOf
<1>3. DOMAIN R = 0 .. (n + 1) + 1 /\ R = [j \in 0 .. (n + 1) + 1 |-> R[j]]
  BY <1>1 DEF Spliced
<1>4. \A j \in 0 .. (n + 1) + 1 : j \in 0 .. i \/ j = i + 1 \/ \E k \in i + 1 .. n + 1 : j = k + 1
  <2> SUFFICES ASSUME NEW j \in 0 .. (n + 1) + 1, j \notin 0 .. i, j # i + 1 PROVE \E k \in i + 1 .. n + 1 : j = k + 1
    OBVIOUS
  <2>1. j - 1 \in i + 1 .. n + 1 /\ j = (j - 1) + 1
    OBVIOUS
  <2> QED BY <2>1
<1>5. R[0] = 0 /\ R[(n + 1) + 1] = 0
  <2>1. 0 \in 0 .. i /\ n + 1 \in i + 1 .. n + 1
    OBVIOUS
  <2> QED BY <2>1, <1>2 DEF WalkOf
<1>6. \A j \in 0 .. n + 1 : P[j] \in LinkVals
  BY DEF WalkOf
<1>7. R \in [0 .. (n + 1) + 1 -> LinkVals]
  <2>1. ASSUME NEW j \in 0 .. (n + 1) + 1 PROVE R[j] \in LinkVals
    <3>1. CASE j \in 0 .. i
      <4>1. j \in 0 .. n + 1
        BY <3>1
      <4> QED BY <3>1, <4>1, <1>2, <1>6
    <3>2. CASE j = i + 1
      BY <3>2, <1>2, NullIsNoNode
    <3>3. ASSUME NEW k \in i + 1 .. n + 1, j = k + 1 PROVE R[j] \in LinkVals
      <4>1. k \in 0 .. n + 1
        OBVIOUS
      <4> QED BY <3>3, <4>1, <1>2, <1>6
    <3> QED BY <3>1, <3>2, <3>3, <1>4
  <2> QED BY <2>1, <1>3
<1>8. PICK old : old = [j \in 1 .. n + 1 |-> IF j <= i THEN j ELSE j - 1]
  OBVIOUS
<1>9. \A j \in 1 .. n + 1 : j # i + 1 => R[j] = P[old[j]] /\ old[j] \in 1 .. n
  <2> SUFFICES ASSUME NEW j \in 1 .. n + 1, j # i + 1 PROVE R[j] = P[old[j]] /\ old[j] \in 1 .. n
    OBVIOUS
  <2>1. CASE j <= i
    <3>1. j \in 0 .. i /\ j \in 1 .. n /\ old[j] = j
      BY <2>1, <1>8
    <3> QED BY <3>1, <1>2
  <2>2. CASE ~(j <= i)
    <3>1. PICK k \in i + 1 .. n + 1 : k = j - 1 /\ j = k + 1 /\ k \in 1 .. n
      BY <2>2
    <3>2. old[j] = k
      BY <2>2, <3>1, <1>8
    <3> QED BY <3>1, <3>2, <1>2
  <2> QED BY <2>1, <2>2
<1>10. \A j, k \in 1 .. n + 1 : j # i + 1 /\ k # i + 1 /\ old[j] = old[k] => j = k
  <2> SUFFICES ASSUME NEW j \in 1 .. n + 1, NEW k \in 1 .. n + 1, j # i + 1, k # i + 1, old[j] = old[k] PROVE j = k
    OBVIOUS
  <2>1. old[j] = (IF j <= i THEN j ELSE j - 1) /\ old[k] = (IF k <= i THEN k ELSE k - 1)
    BY <1>8
  <2>2. i \in Int /\ j \in Int /\ k \in Int
    OBVIOUS
  <2>3. PICK a \in Int, b \in Int : a = old[j] /\ b = old[k] /\ a = b
    <3>1. old[j] \in Int /\ old[k] \in Int
      BY <2>1, <2>2
    <3> QED BY <3>1
  <2>4. (a = j /\ j <= i) \/ (a = j - 1 /\ j > i + 1)
    <3>1. a = IF j <= i THEN j ELSE j - 1
      BY <2>1, <2>3
    <3> QED BY <2>2, <3>1
  <2>5. (b = k /\ k <= i) \/ (b = k - 1 /\ k > i + 1)
    <3>1. b = IF k <= i THEN k ELSE k - 1
      BY <2>1, <2>3
    <3> QED BY <2>2, <3>1
  <2> QED BY <2>2, <2>3, <2>4, <2>5
<1>11. \A j \in 1 .. n + 1 : R[j] \in Nodes
  BY <1>2, <1>9 DEF WalkOf
<1>12. \A j, k \in 1 .. n + 1 : R[j] = R[k] => j = k
  <2> SUFFICES ASSUME NEW j \in 1 .. n + 1, NEW k \in 1 .. n + 1, R[j] = R[k] PROVE j = k
    OBVIOUS
  <2>1. CASE j = i + 1 \/ k = i + 1
    BY <2>1, <1>2, <1>9
  <2>2. CASE j # i + 1 /\ k # i + 1
    <3>1. old[j] = old[k]
      BY <2>2, <1>9 DEF WalkOf
    <3> QED BY <2>2, <3>1, <1>10
  <2> QED BY <2>1, <2>2
<1>13. WalkOf(R, n + 1)
  BY <1>5, <1>7, <1>11, <1>12 DEF WalkOf
<1> QED BY <1>1, <1>13

LEMMA SplicedLinks ==
    ASSUME NEW l, NEW P, NEW n, NEW q, Spells(l, P, n, q), NEW i \in 0 .. n, NEW m, NEW x, NEW v, EnteredAt(l, m, P, n, i, x, v)
    PROVE  LinkedAs(m, Spliced(P, n, i, x), n + 1)
<1>0. n \in Nat /\ WalkOf(P, n)
  BY DEF Spells
<1>1. PICK R : R = Spliced(P, n, i, x)
  OBVIOUS
<1>2. R[i + 1] = x /\ (\A j \in 0 .. i : R[j] = P[j]) /\ \A j \in i + 1 .. n + 1 : R[j + 1] = P[j]
  <2>1. SpliceOf(R, P, n, i, x)
    BY <1>0, <1>1, SplicedIs
  <2> QED BY <2>1 DEF SpliceOf
<1>3. /\ x \in Nodes /\ m.next[x] = P[i + 1] /\ m.prev[x] = P[i]
      /\ m.head = (IF i = 0 THEN x ELSE P[1]) /\ m.tail = (IF i = n THEN x ELSE P[n])
  BY DEF EnteredAt, Spells, LinkedAs
<1>4. ASSUME NEW j \in 1 .. n
      PROVE  /\ m.next[P[j]] = (IF j = i THEN x ELSE P[j + 1])
             /\ m.prev[P[j]] = (IF j = i + 1 THEN x ELSE P[j - 1])
  <2>1. P[j] \in l.used /\ l.next[P[j]] = P[j + 1] /\ l.prev[P[j]] = P[j - 1]
    BY DEF Spells, UsesAll, LinkedAs
  <2>2. m.next[P[j]] = (IF P[j] = P[i] THEN x ELSE P[j + 1]) /\ m.prev[P[j]] = (IF P[j] = P[i + 1] THEN x ELSE P[j - 1])
    BY <2>1 DEF EnteredAt
  <2>3. P[j] = P[i] <=> j = i
    <3>1. CASE i = 0
      BY <1>0, <3>1, NullIsNoNode DEF WalkOf
    <3>2. CASE i # 0
      <4>1. i \in 1 .. n
        BY <3>2
      <4> QED BY <1>0, <4>1 DEF WalkOf
    <3> QED BY <3>1, <3>2
  <2>4. P[j] = P[i + 1] <=> j = i + 1
    <3>1. CASE i = n
      <4>1. j # i + 1
        BY <3>1, <1>0
      <4> QED BY <1>0, <3>1, <4>1, NullIsNoNode DEF WalkOf
    <3>2. CASE i # n
      <4>1. i + 1 \in 1 .. n
        BY <3>2, <1>0
      <4> QED BY <1>0, <4>1 DEF WalkOf
    <3> QED BY <3>1, <3>2
  <2> QED BY <2>2, <2>3, <2>4
<1>5. m.head = R[1]
  <2>1. CASE i = 0
    BY <2>1, <1>2, <1>3
  <2>2. CASE i # 0
    <3>1. 1 \in 0 .. i
      BY <2>2, <1>0
    <3> QED BY <2>2, <3>1, <1>2, <1>3
  <2> QED BY <2>1, <2>2
<1>6. m.tail = R[n + 1]
  <2>1. CASE i = n
    BY <2>1, <1>2, <1>3
  <2>2. CASE i # n
    <3>1. n \in i + 1 .. n + 1
      BY <2>2, <1>0
    <3> QED BY <2>2, <3>1, <1>2, <1>3
  <2> QED BY <2>1, <2>2
<1>7. ASSUME NEW j \in 1 .. n + 1 PROVE m.next[R[j]] = R[j + 1] /\ m.prev[R[j]] = R[j - 1]
  <2>1. CASE j = i + 1
    <3>1. i \in 0 .. i /\ i + 1 \in i + 1 .. n + 1 /\ j - 1 = i /\ j + 1 = (i + 1) + 1
      BY <2>1, <1>0
    <3> QED BY <2>1, <3>1, <1>2, <1>3
  <2>2. CASE j <= i
    <3>1. j \in 1 .. n /\ j \in 0 .. i /\ j - 1 \in 0 .. i /\ j # i + 1
      BY <2>2, <1>0
    <3>2. R[j] = P[j] /\ R[j - 1] = P[j - 1]
      BY <3>1, <1>2
    <3>3. R[j + 1] = (IF j = i THEN x ELSE P[j + 1])
      <4>1. CASE j = i
        BY <4>1, <1>2
      <4>2. CASE j # i
        <5>1. j + 1 \in 0 .. i
          BY <2>2, <4>2, <1>0
        <5> QED BY <4>2, <5>1, <1>2
      <4> QED BY <4>1, <4>2
    <3> QED BY <3>1, <3>2, <3>3, <1>4
  <2>3. CASE j > i + 1
    <3>1. PICK k \in 1 .. n : j = k + 1 /\ k \in i + 1 .. n + 1 /\ k + 1 \in i + 1 .. n + 1 /\ k # i /\ k = j - 1
      <4>1. j - 1 \in 1 .. n /\ j = (j - 1) + 1 /\ j - 1 \in i + 1 .. n + 1 /\ (j - 1) + 1 \in i + 1 .. n + 1 /\ j - 1 # i
        BY <2>3, <1>0
      <4> QED BY <4>1
    <3>2. R[j] = P[k] /\ R[j + 1] = P[k + 1]
      BY <3>1, <1>2
    <3>3. R[j - 1] = (IF k = i + 1 THEN x ELSE P[k - 1])
      <4>1. CASE k = i + 1
        BY <3>1, <4>1, <1>2
      <4>2. CASE k # i + 1
        <5>1. k - 1 \in i + 1 .. n + 1 /\ (k - 1) + 1 = k
          BY <3>1, <4>2, <1>0
        <5> QED BY <3>1, <4>2, <5>1, <1>2
      <4> QED BY <4>1, <4>2
    <3> QED BY <3>1, <3>2, <3>3, <1>4
  <2>4. i \in Int /\ j \in Int
    BY <1>0
  <2>5. j = i + 1 \/ j <= i \/ j > i + 1
    BY <2>4
  <2> QED BY <2>1, <2>2, <2>3, <2>5
<1>8. LinkedAs(m, R, n + 1)
  BY <1>5, <1>6, <1>7 DEF LinkedAs
<1> QED BY <1>1, <1>8

LEMMA SplicedData ==
    ASSUME NEW l, NEW P, NEW n, NEW q, Spells(l, P, n, q), NEW i \in 0 .. n, NEW m, NEW x, NEW v, EnteredAt(l, m, P, n, i, x, v),
           NEW t, WithAt(q, i, v, t)
    PROVE  DataIs(m, Spliced(P, n, i, x), n + 1, t) /\ UsesAll(m, Spliced(P, n, i, x), n + 1)
<1>0. n \in Nat /\ WalkOf(P, n) /\ i \in Int /\ 0 <= i /\ i <= n
  BY DEF Spells
<1>1. PICK R : R = Spliced(P, n, i, x)
  OBVIOUS
<1>2. R[i + 1] = x /\ (\A j \in 0 .. i : R[j] = P[j]) /\ \A j \in i + 1 .. n + 1 : R[j + 1] = P[j]
  <2>1. SpliceOf(R, P, n, i, x)
    BY <1>0, <1>1, SplicedIs
  <2> QED BY <2>1 DEF SpliceOf
<1>3. \A j \in 1 .. n : P[j] \in l.used /\ m.data[P[j]] = q[j]
  <2> SUFFICES ASSUME NEW j \in 1 .. n PROVE P[j] \in l.used /\ m.data[P[j]] = q[j]
    OBVIOUS
  <2>1. P[j] \in l.used /\ l.data[P[j]] = q[j]
    BY DEF Spells, UsesAll, DataIs
  <2> QED BY <2>1 DEF EnteredAt
<1>4. t \in Seq(Elems) /\ Len(t) = n + 1 /\ \A j \in 1 .. n + 1 : t[j] = IF j <= i THEN q[j] ELSE IF j = i + 1 THEN v ELSE q[j - 1]
  <2>1. Len(q) = n
    BY DEF Spells, DataIs
  <2> QED BY <2>1 DEF WithAt
<1>5. m.data[x] = v
  BY DEF EnteredAt
<1>6. ASSUME NEW j \in 1 .. n + 1 PROVE m.data[R[j]] = t[j]
  <2>1. CASE j = i + 1
    <3>1. ~(j <= i)
      BY <2>1, <1>0
    <3> QED BY <2>1, <3>1, <1>2, <1>4, <1>5
  <2>2. CASE j <= i
    <3>1. j \in 1 .. n /\ j \in 0 .. i
      BY <2>2, <1>0
    <3> QED BY <2>2, <3>1, <1>2, <1>3, <1>4
  <2>3. CASE j > i + 1
    <3>1. PICK k \in 1 .. n : k = j - 1 /\ j = k + 1 /\ k \in i + 1 .. n + 1 /\ ~(j <= i) /\ j # i + 1
      <4>1. j - 1 \in 1 .. n /\ j = (j - 1) + 1 /\ j - 1 \in i + 1 .. n + 1 /\ ~(j <= i) /\ j # i + 1
        BY <2>3, <1>0
      <4> QED BY <4>1
    <3>2. R[j] = P[k] /\ t[j] = q[k]
      BY <3>1, <1>2, <1>4
    <3> QED BY <3>2, <1>3
  <2> QED BY <2>1, <2>2, <2>3, <1>0
<1>7. DataIs(m, R, n + 1, t)
  BY <1>4, <1>6 DEF DataIs
<1>8. ASSUME NEW y, y \in m.used PROVE \E j \in 1 .. n + 1 : y = R[j]
  <2>1. CASE y = x
    <3>1. i + 1 \in 1 .. n + 1
      BY <1>0
    <3> QED BY <2>1, <3>1, <1>2
  <2>2. CASE y \in l.used
    <3>1. PICK k \in 1 .. n : y = P[k]
      BY <2>2 DEF Spells, UsesAll
    <3>2. CASE k <= i
      <4>1. k \in 1 .. n + 1 /\ k \in 0 .. i
        BY <3>2, <1>0
      <4> QED BY <3>1, <4>1, <1>2
    <3>3. CASE ~(k <= i)
      <4>1. k + 1 \in 1 .. n + 1 /\ k \in i + 1 .. n + 1
        BY <3>3, <1>0
      <4> QED BY <3>1, <4>1, <1>2
    <3> QED BY <3>2, <3>3
  <2> QED BY <1>8, <2>1, <2>2 DEF EnteredAt
<1>9. ASSUME NEW j \in 1 .. n + 1 PROVE R[j] \in m.used
  <2>1. CASE j = i + 1
    BY <2>1, <1>2 DEF EnteredAt
  <2>2. CASE j <= i
    <3>1. j \in 1 .. n /\ j \in 0 .. i
      BY <2>2, <1>0
    <3> QED BY <3>1, <1>2, <1>3 DEF EnteredAt
  <2>3. CASE j > i + 1
    <3>1. PICK k \in 1 .. n : j = k + 1 /\ k \in i + 1 .. n + 1
      <4>1. j - 1 \in 1 .. n /\ j = (j - 1) + 1 /\ j - 1 \in i + 1 .. n + 1
        BY <2>3, <1>0
      <4> QED BY <4>1
    <3> QED BY <3>1, <1>2, <1>3 DEF EnteredAt
  <2> QED BY <2>1, <2>2, <2>3, <1>0
<1>10. UsesAll(m, R, n + 1)
  BY <1>8, <1>9 DEF UsesAll
<1> QED BY <1>1, <1>7, <1>10

LEMMA SpellsEntered ==
    ASSUME NEW l, NEW P, NEW n, NEW q, Spells(l, P, n, q), NEW i \in 0 .. n, NEW m, NEW x, NEW v, EnteredAt(l, m, P, n, i, x, v),
           NEW t, WithAt(q, i, v, t)
    PROVE  Spells(m, Spliced(P, n, i, x), n + 1, t)
<1>1. n \in Nat /\ WalkOf(P, n) /\ x \in Nodes /\ m \in ListRecords /\ m.len = n + 1
  BY DEF Spells, EnteredAt
<1>2. \A j \in 1 .. n : P[j] # x
  BY DEF Spells, UsesAll, EnteredAt
<1>3. WalkOf(Spliced(P, n, i, x), n + 1)
  BY <1>1, <1>2, SplicedWalk
<1>4. LinkedAs(m, Spliced(P, n, i, x), n + 1)
  BY SplicedLinks
<1>5. DataIs(m, Spliced(P, n, i, x), n + 1, t) /\ UsesAll(m, Spliced(P, n, i, x), n + 1)
  BY SplicedData
<1> QED BY <1>1, <1>3, <1>4, <1>5 DEF Spells

(* The list m is l without its k-th node.                                  *)
LeftOf(l, m, P, n, k) ==
    /\ m \in ListRecords /\ m.len = n - 1
    /\ \A y : y \in m.used <=> y \in l.used /\ y # P[k]
    /\ m.head = (IF k = 1 THEN P[2] ELSE l.head) /\ m.tail = (IF k = n THEN P[n - 1] ELSE l.tail)
    /\ \A y \in l.used : y # P[k] =>
          /\ m.next[y] = (IF y = P[k - 1] THEN P[k + 1] ELSE l.next[y])
          /\ m.prev[y] = (IF y = P[k + 1] THEN P[k - 1] ELSE l.prev[y])
          /\ m.data[y] = l.data[y]
WithoutAt(q, k, t) ==
    t \in Seq(Elems) /\ Len(t) = Len(q) - 1 /\ \A j \in 1 .. Len(q) - 1 : t[j] = IF j < k THEN q[j] ELSE q[j + 1]
Unspliced(P, n, k) == [j \in 0 .. (n - 1) + 1 |-> IF j < k THEN P[j] ELSE P[j + 1]]

(* R leaves the k-th place of P out.                                       *)
UnspliceOf(R, P, n, k) ==
    (\A j \in 0 .. k - 1 : R[j] = P[j]) /\ \A j \in k .. n : R[j] = P[j + 1]

LEMMA UnsplicedIs ==
    ASSUME NEW n \in Nat, NEW P, NEW k \in 1 .. n
    PROVE  UnspliceOf(Unspliced(P, n, k), P, n, k)
<1>1. PICK R : R = Unspliced(P, n, k)
  OBVIOUS
<1>2. \A j \in 0 .. n : R[j] = IF j < k THEN P[j] ELSE P[j + 1]
  <2>1. (n - 1) + 1 = n
    OBVIOUS
  <2> QED BY <1>1, <2>1 DEF Unspliced
<1>3. ASSUME NEW j \in 0 .. k - 1 PROVE R[j] = P[j]
  <2>1. j \in 0 .. n /\ j < k
    OBVIOUS
  <2> QED BY <2>1, <1>2
<1>4. ASSUME NEW j \in k .. n PROVE R[j] = P[j + 1]
  <2>1. j \in 0 .. n /\ ~(j < k)
    OBVIOUS
  <2> QED BY <2>1, <1>2
<1> QED BY <1>1, <1>3, <1>4 DEF UnspliceOf

LEMMA UnsplicedWalk ==
    ASSUME NEW n \in Nat, NEW P, WalkOf(P, n), NEW k \in 1 .. n
    PROVE  WalkOf(Unspliced(P, n, k), n - 1)
<1>0. (n - 1) + 1 = n /\ k \in Int /\ 1 <= k /\ k <= n
  OBVIOUS
<1>1. PICK R : R = Unspliced(P, n, k)
  OBVIOUS
<1>2. (\A j \in 0 .. k - 1 : R[j] = P[j]) /\ \A j \in k .. n : R[j] = P[j + 1]
  <2>1. UnspliceOf(R, P, n, k)
    BY <1>1, UnsplicedIs
  <2> QED BY <2>1 DEF UnspliceOf
<1>3. R = [j \in 0 .. n |-> R[j]]
  BY <1>0, <1>1 DEF Unspliced
<1>4. ASSUME NEW j \in 0 .. n PROVE j \in 0 .. k - 1 \/ j \in k .. n
  BY <1>0
<1>5. R[0] = 0 /\ R[n] = 0
  <2>1. 0 \in 0 .. k - 1 /\ n \in k .. n
    BY <1>0
  <2> QED BY <2>1, <1>2 DEF WalkOf
<1>6. R \in [0 .. n -> LinkVals]
  <2>1. ASSUME NEW j \in 0 .. n PROVE R[j] \in LinkVals
    <3>1. j \in 0 .. n + 1 /\ j + 1 \in 0 .. n + 1
      OBVIOUS
    <3>2. P[j] \in LinkVals /\ P[j + 1] \in LinkVals
      BY <3>1 DEF WalkOf
    <3> QED BY <3>2, <1>2, <1>4
  <2> QED BY <2>1, <1>3
<1>7. PICK old : old = [j \in 1 .. n - 1 |-> IF j < k THEN j ELSE j + 1]
  OBVIOUS
<1>8. ASSUME NEW j \in 1 .. n - 1 PROVE R[j] = P[old[j]] /\ old[j] \in 1 .. n
  <2>1. CASE j < k
    <3>1. old[j] = j /\ j \in 0 .. k - 1 /\ j \in 1 .. n
      BY <2>1, <1>0, <1>7
    <3> QED BY <3>1, <1>2
  <2>2. CASE ~(j < k)
    <3>1. j \in k .. n /\ j + 1 \in 1 .. n
      BY <2>2, <1>0
    <3>2. old[j] = j + 1
      BY <2>2, <1>7
    <3> QED BY <3>1, <3>2, <1>2
  <2> QED BY <2>1, <2>2
<1>9. ASSUME NEW j \in 1 .. n - 1, NEW h \in 1 .. n - 1, old[j] = old[h] PROVE j = h
  <2>1. PICK a \in Int, b \in Int : a = old[j] /\ b = old[h] /\ a = b
    BY <1>8, <1>9
  <2>2. (a = j /\ j < k) \/ (a = j + 1 /\ j >= k)
    <3>1. a = IF j < k THEN j ELSE j + 1
      BY <2>1, <1>7
    <3> QED BY <3>1, <1>0
  <2>3. (b = h /\ h < k) \/ (b = h + 1 /\ h >= k)
    <3>1. b = IF h < k THEN h ELSE h + 1
      BY <2>1, <1>7
    <3> QED BY <3>1, <1>0
  <2> QED BY <2>1, <2>2, <2>3, <1>0
<1>10. \A j \in 1 .. n - 1 : R[j] \in Nodes
  BY <1>8 DEF WalkOf
<1>11. \A j, h \in 1 .. n - 1 : R[j] = R[h] => j = h
  <2> SUFFICES ASSUME NEW j \in 1 .. n - 1, NEW h \in 1 .. n - 1, R[j] = R[h] PROVE j = h
    OBVIOUS
  <2>1. old[j] = old[h]
    BY <1>8 DEF WalkOf
  <2> QED BY <2>1, <1>9
<1>12. WalkOf(R, n - 1)
  BY <1>0, <1>5, <1>6, <1>10, <1>11 DEF WalkOf
<1> QED BY <1>1, <1>12

LEMMA UnsplicedLinks ==
    ASSUME NEW l, NEW P, NEW n, NEW q, Spells(l, P, n, q), NEW k \in 1 .. n, NEW m, LeftOf(l, m, P, n, k)
    PROVE  LinkedAs(m, Unspliced(P, n, k), n - 1)
<1>0. n \in Nat /\ WalkOf(P, n) /\ k \in Int /\ 1 <= k /\ k <= n
  BY DEF Spells
<1>1. PICK R : R = Unspliced(P, n, k)
  OBVIOUS
<1>2. (\A j \in 0 .. k - 1 : R[j] = P[j]) /\ \A j \in k .. n : R[j] = P[j + 1]
  <2>1. UnspliceOf(R, P, n, k)
    BY <1>0, <1>1, UnsplicedIs
  <2> QED BY <2>1 DEF UnspliceOf
<1>3. m.head = (IF k = 1 THEN P[2] ELSE P[1]) /\ m.tail = (IF k = n THEN P[n - 1] ELSE P[n])
  BY DEF LeftOf, Spells, LinkedAs
<1>4. ASSUME NEW j \in 1 .. n, j # k
      PROVE  /\ m.next[P[j]] = (IF j = k - 1 THEN P[k + 1] ELSE P[j + 1])
             /\ m.prev[P[j]] = (IF j = k + 1 THEN P[k - 1] ELSE P[j - 1])
  <2>1. P[j] \in l.used /\ l.next[P[j]] = P[j + 1] /\ l.prev[P[j]] = P[j - 1]
    BY DEF Spells, UsesAll, LinkedAs
  <2>2. P[j] # P[k]
    BY <1>0, <1>4 DEF WalkOf
  <2>3. m.next[P[j]] = (IF P[j] = P[k - 1] THEN P[k + 1] ELSE P[j + 1]) /\ m.prev[P[j]] = (IF P[j] = P[k + 1] THEN P[k - 1] ELSE P[j - 1])
    BY <2>1, <2>2 DEF LeftOf
  <2>4. P[j] = P[k - 1] <=> j = k - 1
    <3>1. CASE k = 1
      <4>1. k - 1 = 0 /\ j # k - 1
        BY <3>1
      <4>2. P[k - 1] = 0 /\ P[j] \in Nodes
        BY <1>0, <4>1 DEF WalkOf
      <4> QED BY <4>1, <4>2, NullIsNoNode
    <3>2. CASE k # 1
      <4>1. k - 1 \in 1 .. n
        BY <3>2, <1>0
      <4> QED BY <1>0, <4>1 DEF WalkOf
    <3> QED BY <3>1, <3>2
  <2>5. P[j] = P[k + 1] <=> j = k + 1
    <3>1. CASE k = n
      <4>1. j # k + 1
        BY <3>1, <1>0
      <4>2. P[k + 1] = 0 /\ P[j] \in Nodes
        BY <1>0, <3>1 DEF WalkOf
      <4> QED BY <4>1, <4>2, NullIsNoNode
    <3>2. CASE k # n
      <4>1. k + 1 \in 1 .. n
        BY <3>2, <1>0
      <4> QED BY <1>0, <4>1 DEF WalkOf
    <3> QED BY <3>1, <3>2
  <2> QED BY <2>3, <2>4, <2>5
<1>5. m.head = R[1]
  <2>1. CASE k = 1
    <3>1. 1 \in k .. n /\ 1 + 1 = 2
      BY <2>1, <1>0
    <3> QED BY <2>1, <3>1, <1>2, <1>3
  <2>2. CASE k # 1
    <3>1. 1 \in 0 .. k - 1
      BY <2>2, <1>0
    <3> QED BY <2>2, <3>1, <1>2, <1>3
  <2> QED BY <2>1, <2>2
<1>6. m.tail = R[n - 1]
  <2>1. CASE k = n
    <3>1. n - 1 \in 0 .. k - 1
      BY <2>1, <1>0
    <3> QED BY <2>1, <3>1, <1>2, <1>3
  <2>2. CASE k # n
    <3>1. n - 1 \in k .. n /\ (n - 1) + 1 = n
      BY <2>2, <1>0
    <3> QED BY <2>2, <3>1, <1>2, <1>3
  <2> QED BY <2>1, <2>2
<1>7. ASSUME NEW j \in 1 .. n - 1 PROVE m.next[R[j]] = R[j + 1] /\ m.prev[R[j]] = R[j - 1]
  <2>1. CASE j < k
    <3>1. j \in 1 .. n /\ j # k /\ j \in 0 .. k - 1 /\ j - 1 \in 0 .. k - 1 /\ j # k + 1
      BY <2>1, <1>0
    <3>2. R[j] = P[j] /\ R[j - 1] = P[j - 1]
      BY <3>1, <1>2
    <3>3. R[j + 1] = (IF j = k - 1 THEN P[k + 1] ELSE P[j + 1])
      <4>1. CASE j = k - 1
        <5>1. j + 1 = k /\ k \in k .. n
          BY <4>1, <1>0
        <5> QED BY <4>1, <5>1, <1>2
      <4>2. CASE j # k - 1
        <5>1. j + 1 \in 0 .. k - 1
          BY <2>1, <4>2, <1>0
        <5> QED BY <4>2, <5>1, <1>2
      <4> QED BY <4>1, <4>2
    <3> QED BY <3>1, <3>2, <3>3, <1>4
  <2>2. CASE ~(j < k)
    <3>1. PICK h \in 1 .. n : h = j + 1 /\ h # k /\ j \in k .. n /\ h \in k .. n /\ h # k - 1 /\ j = h - 1
      <4>1. j + 1 \in 1 .. n /\ j + 1 # k /\ j \in k .. n /\ j + 1 \in k .. n /\ j + 1 # k - 1 /\ j = (j + 1) - 1
        BY <2>2, <1>0
      <4> QED BY <4>1
    <3>2. R[j] = P[h] /\ R[j + 1] = P[h + 1]
      BY <3>1, <1>2
    <3>3. R[j - 1] = (IF h = k + 1 THEN P[k - 1] ELSE P[h - 1])
      <4>1. CASE h = k + 1
        <5>1. j - 1 = k - 1 /\ k - 1 \in 0 .. k - 1
          BY <3>1, <4>1, <1>0
        <5> QED BY <4>1, <5>1, <1>2
      <4>2. CASE h # k + 1
        <5>1. j - 1 \in k .. n /\ (j - 1) + 1 = j
          BY <3>1, <4>2, <1>0
        <5> QED BY <3>1, <4>2, <5>1, <1>2
      <4> QED BY <4>1, <4>2
    <3> QED BY <3>1, <3>2, <3>3, <1>4
  <2> QED BY <2>1, <2>2
<1>8. LinkedAs(m, R, n - 1)
  BY <1>5, <1>6, <1>7, <1>0 DEF LinkedAs
<1> QED BY <1>1, <1>8

LEMMA SpellsLeft ==
    ASSUME NEW l, NEW P, NEW n, NEW q, Spells(l, P, n, q), NEW k \in 1 .. n, NEW m, LeftOf(l, m, P, n, k), NEW t, WithoutAt(q, k, t)
    PROVE  Spells(m, Unspliced(P, n, k), n - 1, t)
<1>0. n \in Nat /\ WalkOf(P, n) /\ k \in Int /\ 1 <= k /\ k <= n
  BY DEF Spells
<1>1. PICK R : R = Unspliced(P, n, k)
  OBVIOUS
<1>2. (\A j \in 0 .. k - 1 : R[j] = P[j]) /\ \A j \in k .. n : R[j] = P[j + 1]
  <2>1. UnspliceOf(R, P, n, k)
    BY <1>0, <1>1, UnsplicedIs
  <2> QED BY <2>1 DEF UnspliceOf
<1>3. \A j \in 1 .. n : j # k => P[j] \in m.used /\ m.data[P[j]] = q[j]
  <2> SUFFICES ASSUME NEW j \in 1 .. n, j # k PROVE P[j] \in m.used /\ m.data[P[j]] = q[j]
    OBVIOUS
  <2>1. P[j] \in l.used /\ l.data[P[j]] = q[j] /\ P[j] # P[k]
    BY <1>0 DEF Spells, UsesAll, DataIs, WalkOf
  <2> QED BY <2>1 DEF LeftOf
<1>4. t \in Seq(Elems) /\ Len(t) = n - 1 /\ \A j \in 1 .. n - 1 : t[j] = IF j < k THEN q[j] ELSE q[j + 1]
  <2>1. Len(q) = n
    BY DEF Spells, DataIs
  <2> QED BY <2>1 DEF WithoutAt
<1>5. ASSUME NEW j \in 1 .. n - 1 PROVE R[j] \in m.used /\ m.data[R[j]] = t[j]
  <2>1. CASE j < k
    <3>1. j \in 1 .. n /\ j # k /\ j \in 0 .. k - 1
      BY <2>1, <1>0
    <3> QED BY <2>1, <3>1, <1>2, <1>3, <1>4
  <2>2. CASE ~(j < k)
    <3>1. PICK h \in 1 .. n : h = j + 1 /\ h # k /\ j \in k .. n
      <4>1. j + 1 \in 1 .. n /\ j + 1 # k /\ j \in k .. n
        BY <2>2, <1>0
      <4> QED BY <4>1
    <3>2. R[j] = P[h] /\ t[j] = q[h]
      BY <2>2, <3>1, <1>2, <1>4
    <3> QED BY <3>1, <3>2, <1>3
  <2> QED BY <2>1, <2>2
<1>6. DataIs(m, R, n - 1, t)
  BY <1>4, <1>5 DEF DataIs
<1>7. ASSUME NEW y, y \in m.used PROVE \E j \in 1 .. n - 1 : y = R[j]
  <2>1. PICK h \in 1 .. n : y = P[h] /\ h # k
    BY <1>7 DEF Spells, UsesAll, LeftOf
  <2>2. CASE h < k
    <3>1. h \in 1 .. n - 1 /\ h \in 0 .. k - 1
      BY <2>2, <1>0
    <3> QED BY <2>1, <3>1, <1>2
  <2>3. CASE ~(h < k)
    <3>1. h - 1 \in 1 .. n - 1 /\ h - 1 \in k .. n /\ (h - 1) + 1 = h
      BY <2>1, <2>3, <1>0
    <3> QED BY <2>1, <3>1, <1>2
  <2> QED BY <2>2, <2>3
<1>8. UsesAll(m, R, n - 1)
  BY <1>5, <1>7 DEF UsesAll
<1>9. WalkOf(R, n - 1)
  BY <1>0, <1>1, UnsplicedWalk
<1>10. LinkedAs(m, R, n - 1)
  BY <1>1, UnsplicedLinks
<1>11. m \in ListRecords /\ m.len = n - 1 /\ n - 1 \in Nat
  BY <1>0 DEF LeftOf
<1> QED BY <1>1, <1>6, <1>8, <1>9, <1>10, <1>11 DEF Spells

(* A node x that is allocated with the value v.                            *)
NodeMade(l, a, x, v) ==
    /\ a \in ListRecords /\ a.used = l.used \cup {x} /\ a.len = l.len + 1 /\ a.head = l.head /\ a.tail = l.tail
    /\ a.next[x] = 0 /\ a.prev[x] = 0 /\ a.data[x] = v
    /\ \A y \in Nodes : y # x => a.next[y] = l.next[y] /\ a.prev[y] = l.prev[y] /\ a.data[y] = l.data[y]

LEMMA ListFields ==
    ASSUME NEW l \in ListRecords
    PROVE  /\ l.head \in LinkVals /\ l.tail \in LinkVals /\ l.len \in Int /\ l.byValue \in BOOLEAN /\ l.used \in SUBSET Nodes
           /\ l.next \in [Nodes -> LinkVals] /\ l.prev \in [Nodes -> LinkVals] /\ l.data \in [Nodes -> Nat]
BY DEF ListRecords

LEMMA NodeIsMade ==
    ASSUME NEW l \in ListRecords, NEW x \in Nodes, NEW v \in Nat
    PROVE  NodeMade(l, Allocated(l, x, v), x, v)
<1>1. PICK N, V, D : N = [l.next EXCEPT ![x] = 0] /\ V = [l.prev EXCEPT ![x] = 0] /\ D = [l.data EXCEPT ![x] = v]
  OBVIOUS
<1>2. N \in [Nodes -> LinkVals] /\ V \in [Nodes -> LinkVals] /\ D \in [Nodes -> Nat]
  BY <1>1, ListFields, NullIsNoNode
<1>3. N[x] = 0 /\ V[x] = 0 /\ D[x] = v /\ \A y \in Nodes : y # x => N[y] = l.next[y] /\ V[y] = l.prev[y] /\ D[y] = l.data[y]
  BY <1>1, ListFields
<1>4. PICK U, k : U = l.used \cup {x} /\ k = l.len + 1
  OBVIOUS
<1>9. U \in SUBSET Nodes
  BY <1>4, ListFields
<1>10. k \in Int
  BY <1>4, ListFields
<1>5. PICK a : a = Allocated(l, x, v)
  OBVIOUS
<1>6. a = [l EXCEPT !.used = U, !.data = D, !.next = N, !.prev = V, !.len = k]
  BY <1>1, <1>4, <1>5 DEF Allocated, ListRecords
<1>7. a \in ListRecords
  BY <1>2, <1>9, <1>10, <1>6 DEF ListRecords
<1>8. a.used = U /\ a.data = D /\ a.next = N /\ a.prev = V /\ a.len = k /\ a.head = l.head /\ a.tail = l.tail
  BY <1>6 DEF ListRecords
<1> QED BY <1>3, <1>4, <1>5, <1>7, <1>8 DEF NodeMade

LEMMA SpellsNodes ==
    ASSUME NEW l, NEW P, NEW n, NEW q, Spells(l, P, n, q)
    PROVE  /\ l \in ListRecords /\ n \in Nat /\ l.len = n /\ WalkOf(P, n)
           /\ \A y \in l.used : y \in Nodes /\ y # 0
           /\ \A i \in 1 .. n : P[i] \in l.used /\ P[i] \in Nodes /\ l.next[P[i]] = P[i + 1] /\ l.prev[P[i]] = P[i - 1]
           /\ l.head = P[1] /\ l.tail = P[n] /\ P[0] = 0 /\ P[n + 1] = 0
           /\ P[1] = 0 <=> n = 0
           /\ P[n] = 0 <=> n = 0
           /\ \A i \in 0 .. n + 1 : P[i] \in LinkVals
<1>1. l \in ListRecords /\ n \in Nat /\ l.len = n /\ WalkOf(P, n)
  BY DEF Spells
<1>2. \A y \in l.used : y \in Nodes /\ y # 0
  BY <1>1, ListFields, NullIsNoNode
<1>3. \A i \in 1 .. n : P[i] \in l.used /\ P[i] \in Nodes /\ l.next[P[i]] = P[i + 1] /\ l.prev[P[i]] = P[i - 1]
  BY DEF Spells, UsesAll, LinkedAs, WalkOf
<1>4. l.head = P[1] /\ l.tail = P[n] /\ P[0] = 0 /\ P[n + 1] = 0 /\ \A i \in 0 .. n + 1 : P[i] \in LinkVals
  BY DEF Spells, LinkedAs, WalkOf
<1>5. (P[1] = 0 <=> n = 0) /\ (P[n] = 0 <=> n = 0)
  <2>1. CASE n = 0
    <3>1. P[1] = P[n + 1] /\ P[n] = P[0]
      BY <2>1
    <3> QED BY <2>1, <3>1, <1>4
  <2>2. CASE n # 0
    <3>1. 1 \in 1 .. n /\ n \in 1 .. n
      BY <2>2, <1>1
    <3> QED BY <2>2, <3>1, <1>3, NullIsNoNode
  <2> QED BY <2>1, <2>2
<1> QED BY <1>1, <1>2, <1>3, <1>4, <1>5

LEMMA EnteredFirst ==
    ASSUME NEW l, NEW P, NEW n, NEW q, Spells(l, P, n, q), NEW x \in Nodes, x \notin l.used, NEW v, NEW a, NodeMade(l, a, x, v)
    PROVE  EnteredAt(l, AtHead(a, x), P, n, 0, x, v)
<1>1. /\ l \in ListRecords /\ n \in Nat /\ l.len = n
      /\ \A y \in l.used : y \in Nodes /\ y # 0
      /\ l.head = P[1] /\ l.tail = P[n] /\ P[0] = 0
      /\ P[1] = 0 <=> n = 0
      /\ P[n] = 0 <=> n = 0
      /\ P[1] \in LinkVals
  <2>1. 1 \in 0 .. n + 1
    BY SpellsNodes
  <2> QED BY <2>1, SpellsNodes
<1>2. /\ a \in ListRecords /\ a.used = l.used \cup {x} /\ a.len = n + 1 /\ a.head = P[1] /\ a.tail = P[n]
      /\ a.next[x] = 0 /\ a.prev[x] = 0 /\ a.data[x] = v
      /\ \A y \in Nodes : y # x => a.next[y] = l.next[y] /\ a.prev[y] = l.prev[y] /\ a.data[y] = l.data[y]
  BY <1>1 DEF NodeMade
<1>3. PICK N : N = [a.next EXCEPT ![x] = a.head]
  OBVIOUS
<1>4. PICK V : V = IF a.head # 0 THEN [a.prev EXCEPT ![a.head] = x] ELSE a.prev
  OBVIOUS
<1>5. PICK T : T = IF a.tail = 0 THEN x ELSE a.tail
  OBVIOUS
<1>6. PICK m : m = AtHead(a, x)
  OBVIOUS
<1>7. m = [a EXCEPT !.next = N, !.prev = V, !.head = x, !.tail = T]
  BY <1>2, <1>3, <1>4, <1>5, <1>6 DEF AtHead, ListRecords
<1>8. a.next \in [Nodes -> LinkVals] /\ a.prev \in [Nodes -> LinkVals] /\ x \in LinkVals /\ a.head \in LinkVals /\ a.tail \in LinkVals
  BY <1>2, ListFields, NullIsNoNode
<1>9. N \in [Nodes -> LinkVals] /\ N[x] = P[1] /\ \A y \in Nodes : y # x => N[y] = a.next[y]
  BY <1>2, <1>3, <1>8
<1>10. V \in [Nodes -> LinkVals] /\ \A y \in Nodes : V[y] = IF y = a.head THEN x ELSE a.prev[y]
  <2>1. CASE a.head = 0
    BY <2>1, <1>4, <1>8, NullIsNoNode
  <2>2. CASE a.head # 0
    BY <2>2, <1>4, <1>8
  <2> QED BY <2>1, <2>2
<1>11. T \in LinkVals /\ T = IF 0 = n THEN x ELSE l.tail
  BY <1>1, <1>2, <1>5, <1>8
<1>12. m \in ListRecords
  BY <1>2, <1>7, <1>8, <1>9, <1>10, <1>11 DEF ListRecords
<1>13. m.next = N /\ m.prev = V /\ m.head = x /\ m.tail = T /\ m.used = a.used /\ m.len = a.len /\ m.data = a.data
  BY <1>2, <1>7 DEF ListRecords
<1>14. V[x] = P[0]
  <2>1. x # a.head
    <3>1. CASE n = 0
      BY <3>1, <1>1, <1>2, NullIsNoNode
    <3>2. CASE n # 0
      <4>1. 1 \in 1 .. n
        BY <3>2, <1>1
      <4>2. P[1] \in l.used
        BY <4>1, SpellsNodes
      <4> QED BY <4>2, <1>2
    <3> QED BY <3>1, <3>2
  <2> QED BY <2>1, <1>1, <1>2, <1>10
<1>15. ASSUME NEW y \in l.used
       PROVE  /\ m.next[y] = (IF y = P[0] THEN x ELSE l.next[y])
              /\ m.prev[y] = (IF y = P[0 + 1] THEN x ELSE l.prev[y])
              /\ m.data[y] = l.data[y]
  <2>1. y \in Nodes /\ y # x /\ y # P[0]
    BY <1>1
  <2> QED BY <2>1, <1>2, <1>9, <1>10, <1>13
<1>16. EnteredAt(l, m, P, n, 0, x, v)
  BY <1>1, <1>2, <1>9, <1>11, <1>12, <1>13, <1>14, <1>15 DEF EnteredAt
<1> QED BY <1>6, <1>16

(* The node behind the i-th: what pny_list_append and pny_list_insert do.  *)
(* The list m is a with the node x linked behind the i-th.                 *)
LinkedBehind(a, m, P, n, i, x) ==
    \/ i # n /\ m = [a EXCEPT !.next = [@ EXCEPT ![x] = P[i + 1], ![P[i]] = x],
                              !.prev = [@ EXCEPT ![x] = P[i], ![P[i + 1]] = x]]
    \/ i = n /\ m = [a EXCEPT !.prev[x] = P[i], !.tail = x, !.next[P[i]] = x]

LEMMA EnteredBehind ==
    ASSUME NEW l, NEW P, NEW n, NEW q, Spells(l, P, n, q), NEW x \in Nodes, x \notin l.used, NEW v, NEW a, NodeMade(l, a, x, v),
           NEW i \in 1 .. n, NEW m, LinkedBehind(a, m, P, n, i, x)
    PROVE  EnteredAt(l, m, P, n, i, x, v)
<1>1. /\ l \in ListRecords /\ n \in Nat /\ l.len = n /\ WalkOf(P, n)
      /\ \A y \in l.used : y \in Nodes /\ y # 0
      /\ l.head = P[1] /\ l.tail = P[n] /\ P[n + 1] = 0
      /\ P[i] \in l.used /\ P[i] \in Nodes /\ i # 0
      /\ P[i + 1] \in LinkVals
  <2>1. n \in Nat
    BY SpellsNodes
  <2>2. i + 1 \in 0 .. n + 1 /\ i # 0
    BY <2>1
  <2> QED BY <2>2, SpellsNodes
<1>2. /\ a \in ListRecords /\ a.used = l.used \cup {x} /\ a.len = n + 1 /\ a.head = P[1] /\ a.tail = P[n]
      /\ a.next[x] = 0 /\ a.prev[x] = 0 /\ a.data[x] = v
      /\ \A y \in Nodes : y # x => a.next[y] = l.next[y] /\ a.prev[y] = l.prev[y] /\ a.data[y] = l.data[y]
  BY <1>1 DEF NodeMade
<1>3. a.next \in [Nodes -> LinkVals] /\ a.prev \in [Nodes -> LinkVals] /\ x \in LinkVals /\ a.tail \in LinkVals /\ a.head \in LinkVals
      /\ P[i] \in LinkVals
  BY <1>1, <1>2, ListFields, NullIsNoNode
<1>4. P[i] # x
  BY <1>1
<1>5. CASE i # n
  <2>1. P[i + 1] \in l.used /\ P[i + 1] \in Nodes /\ P[i + 1] # x
    <3>1. i + 1 \in 1 .. n
      BY <1>1, <1>5
    <3> QED BY <3>1, SpellsNodes
  <2>2. PICK N : N = [a.next EXCEPT ![x] = P[i + 1], ![P[i]] = x]
    OBVIOUS
  <2>3. PICK V : V = [a.prev EXCEPT ![x] = P[i], ![P[i + 1]] = x]
    OBVIOUS
  <2>4. m = [a EXCEPT !.next = N, !.prev = V]
    BY <1>2, <1>5, <2>2, <2>3 DEF ListRecords, LinkedBehind
  <2>5. N \in [Nodes -> LinkVals] /\ N[x] = P[i + 1] /\ \A y \in Nodes : y # x => N[y] = IF y = P[i] THEN x ELSE a.next[y]
    BY <1>1, <1>3, <1>4, <2>2
  <2>6. V \in [Nodes -> LinkVals] /\ V[x] = P[i] /\ \A y \in Nodes : y # x => V[y] = IF y = P[i + 1] THEN x ELSE a.prev[y]
    BY <1>1, <1>3, <2>1, <2>3
  <2>7. m \in ListRecords
    BY <1>2, <2>4, <2>5, <2>6 DEF ListRecords
  <2>8. m.next = N /\ m.prev = V /\ m.head = a.head /\ m.tail = a.tail /\ m.used = a.used /\ m.len = a.len /\ m.data = a.data
    BY <1>2, <2>4 DEF ListRecords
  <2>9. ASSUME NEW y \in l.used
        PROVE  /\ m.next[y] = (IF y = P[i] THEN x ELSE l.next[y])
               /\ m.prev[y] = (IF y = P[i + 1] THEN x ELSE l.prev[y])
               /\ m.data[y] = l.data[y]
    <3>1. y \in Nodes /\ y # x
      BY <1>1
    <3> QED BY <3>1, <1>2, <2>5, <2>6, <2>8
  <2> QED BY <1>1, <1>2, <1>5, <2>5, <2>6, <2>7, <2>8, <2>9 DEF EnteredAt
<1>6. CASE i = n
  <2>1. P[i + 1] = 0
    BY <1>1, <1>6
  <2>2. PICK N : N = [a.next EXCEPT ![P[i]] = x]
    OBVIOUS
  <2>3. PICK V : V = [a.prev EXCEPT ![x] = P[i]]
    OBVIOUS
  <2>4. m = [a EXCEPT !.prev = V, !.tail = x, !.next = N]
    BY <1>2, <1>6, <2>2, <2>3 DEF ListRecords, LinkedBehind
  <2>5. N \in [Nodes -> LinkVals] /\ N[x] = P[i + 1] /\ \A y \in Nodes : y # x => N[y] = IF y = P[i] THEN x ELSE a.next[y]
    BY <1>1, <1>2, <1>3, <1>4, <2>1, <2>2
  <2>6. V \in [Nodes -> LinkVals] /\ V[x] = P[i] /\ \A y \in Nodes : y # x => V[y] = a.prev[y]
    BY <1>1, <1>3, <2>3
  <2>7. m \in ListRecords
    BY <1>2, <1>3, <2>4, <2>5, <2>6 DEF ListRecords
  <2>8. m.next = N /\ m.prev = V /\ m.head = a.head /\ m.tail = x /\ m.used = a.used /\ m.len = a.len /\ m.data = a.data
    BY <1>2, <2>4 DEF ListRecords
  <2>9. ASSUME NEW y \in l.used
        PROVE  /\ m.next[y] = (IF y = P[i] THEN x ELSE l.next[y])
               /\ m.prev[y] = (IF y = P[i + 1] THEN x ELSE l.prev[y])
               /\ m.data[y] = l.data[y]
    <3>1. y \in Nodes /\ y # x /\ y # P[i + 1]
      BY <1>1, <2>1
    <3> QED BY <3>1, <1>2, <2>5, <2>6, <2>8
  <2> QED BY <1>1, <1>2, <1>6, <2>5, <2>6, <2>7, <2>8, <2>9 DEF EnteredAt
<1> QED BY <1>5, <1>6

(* A node that is given back, the links around it bent already.            *)
LEMMA NodeIsFreed ==
    ASSUME NEW b \in ListRecords, NEW x \in Nodes, NEW m, m = Freed(b, x)
    PROVE  /\ m \in ListRecords /\ m.used = b.used \ {x} /\ m.len = b.len - 1 /\ m.head = b.head /\ m.tail = b.tail
           /\ \A y \in Nodes : y # x => m.next[y] = b.next[y] /\ m.prev[y] = b.prev[y] /\ m.data[y] = b.data[y]
<1>1. PICK N, V, D : N = [b.next EXCEPT ![x] = 0] /\ V = [b.prev EXCEPT ![x] = 0] /\ D = [b.data EXCEPT ![x] = 0]
  OBVIOUS
<1>2. N \in [Nodes -> LinkVals] /\ V \in [Nodes -> LinkVals]
  BY <1>1, ListFields, NullIsNoNode
<1>3. D \in [Nodes -> Nat]
  BY <1>1, ListFields
<1>4. \A y \in Nodes : y # x => N[y] = b.next[y] /\ V[y] = b.prev[y] /\ D[y] = b.data[y]
  BY <1>1, ListFields
<1>5. PICK U, k : U = b.used \ {x} /\ k = b.len - 1
  OBVIOUS
<1>6. U \in SUBSET Nodes
  BY <1>5, ListFields
<1>7. k \in Int
  BY <1>5, ListFields
<1>8. m = [b EXCEPT !.used = U, !.len = k, !.next = N, !.prev = V, !.data = D]
  BY <1>1, <1>5 DEF Freed, ListRecords
<1>9. m \in ListRecords
  BY <1>2, <1>3, <1>6, <1>7, <1>8 DEF ListRecords
<1>10. m.used = U /\ m.data = D /\ m.next = N /\ m.prev = V /\ m.len = k /\ m.head = b.head /\ m.tail = b.tail
  BY <1>8 DEF ListRecords
<1> QED BY <1>4, <1>5, <1>9, <1>10

(* The links of b pass the k-th node by.                                   *)
PassesBy(l, P, n, k, b) ==
    /\ b \in ListRecords /\ b.used = l.used /\ b.len = n /\ b.data = l.data
    /\ b.head = (IF k = 1 THEN P[2] ELSE l.head) /\ b.tail = (IF k = n THEN P[n - 1] ELSE l.tail)
    /\ \A y \in l.used : y # P[k] => /\ b.next[y] = (IF y = P[k - 1] THEN P[k + 1] ELSE l.next[y])
                                     /\ b.prev[y] = (IF y = P[k + 1] THEN P[k - 1] ELSE l.prev[y])

LEMMA NodePassed ==
    ASSUME NEW l, NEW P, NEW n, NEW q, Spells(l, P, n, q), NEW k \in 1 .. n, NEW b, PassesBy(l, P, n, k, b)
    PROVE  LeftOf(l, Freed(b, P[k]), P, n, k)
<1>1. n \in Nat /\ P[k] \in Nodes /\ \A y \in l.used : y \in Nodes
  BY SpellsNodes
<1>2. b \in ListRecords /\ b.used = l.used /\ b.len = n /\ b.data = l.data
  BY DEF PassesBy
<1>3. PICK m : m = Freed(b, P[k])
  OBVIOUS
<1>4. /\ m \in ListRecords /\ m.used = b.used \ {P[k]} /\ m.len = b.len - 1 /\ m.head = b.head /\ m.tail = b.tail
      /\ \A y \in Nodes : y # P[k] => m.next[y] = b.next[y] /\ m.prev[y] = b.prev[y] /\ m.data[y] = b.data[y]
  BY <1>1, <1>2, <1>3, NodeIsFreed
<1>5. \A y : y \in m.used <=> y \in l.used /\ y # P[k]
  BY <1>2, <1>4
<1>6. m.head = (IF k = 1 THEN P[2] ELSE l.head) /\ m.tail = (IF k = n THEN P[n - 1] ELSE l.tail)
  BY <1>4 DEF PassesBy
<1>7. ASSUME NEW y \in l.used, y # P[k]
      PROVE  /\ m.next[y] = (IF y = P[k - 1] THEN P[k + 1] ELSE l.next[y])
             /\ m.prev[y] = (IF y = P[k + 1] THEN P[k - 1] ELSE l.prev[y])
             /\ m.data[y] = l.data[y]
  <2>1. y \in Nodes
    BY <1>1
  <2>2. m.next[y] = b.next[y] /\ m.prev[y] = b.prev[y] /\ m.data[y] = b.data[y]
    BY <2>1, <1>4, <1>7
  <2> QED BY <2>2, <1>2, <1>7 DEF PassesBy
<1>8. LeftOf(l, m, P, n, k)
  BY <1>2, <1>4, <1>5, <1>6, <1>7 DEF LeftOf
<1> QED BY <1>3, <1>8

(* What is known at the k-th node.                                         *)
LEMMA AroundNode ==
    ASSUME NEW l, NEW P, NEW n, NEW q, Spells(l, P, n, q), NEW k \in 1 .. n
    PROVE  /\ l \in ListRecords /\ n \in Nat /\ P[k] \in Nodes /\ l.next[P[k]] = P[k + 1] /\ l.prev[P[k]] = P[k - 1]
           /\ P[k - 1] \in LinkVals /\ P[k + 1] \in LinkVals
           /\ P[k - 1] = 0 <=> k = 1
           /\ P[k + 1] = 0 <=> k = n
           /\ l.len = n
           /\ \A y \in l.used : y \in Nodes /\ y # 0
           /\ k = 1 => P[k + 1] = P[2]
           /\ k = n => P[k - 1] = P[n - 1]
           /\ l.next \in [Nodes -> LinkVals] /\ l.prev \in [Nodes -> LinkVals] /\ l.head \in LinkVals /\ l.tail \in LinkVals
<1>1. l \in ListRecords /\ n \in Nat /\ WalkOf(P, n) /\ l.next[P[k]] = P[k + 1] /\ l.prev[P[k]] = P[k - 1]
      /\ l.len = n /\ \A y \in l.used : y \in Nodes /\ y # 0
  BY SpellsNodes
<1>2. /\ P[k] \in Nodes /\ P[k - 1] \in LinkVals /\ P[k + 1] \in LinkVals
      /\ P[k - 1] = 0 <=> k = 1
      /\ P[k + 1] = 0 <=> k = n
  BY <1>1, WalkStep
<1>3. /\ l.next \in [Nodes -> LinkVals] /\ l.prev \in [Nodes -> LinkVals] /\ l.head \in LinkVals /\ l.tail \in LinkVals
  BY <1>1, ListFields
<1> QED BY <1>1, <1>2, <1>3

LEMMA UnlinkedLeaves ==
    ASSUME NEW l, NEW P, NEW n, NEW q, Spells(l, P, n, q), NEW k \in 1 .. n
    PROVE  LeftOf(l, Unlinked(l, P[k]), P, n, k)
<1>1. /\ l \in ListRecords /\ n \in Nat /\ P[k] \in Nodes /\ l.next[P[k]] = P[k + 1] /\ l.prev[P[k]] = P[k - 1]
      /\ P[k - 1] \in LinkVals /\ P[k + 1] \in LinkVals
      /\ P[k - 1] = 0 <=> k = 1
      /\ P[k + 1] = 0 <=> k = n
      /\ l.len = n
      /\ \A y \in l.used : y \in Nodes /\ y # 0
      /\ k = 1 => P[k + 1] = P[2]
      /\ k = n => P[k - 1] = P[n - 1]
      /\ l.next \in [Nodes -> LinkVals] /\ l.prev \in [Nodes -> LinkVals] /\ l.head \in LinkVals /\ l.tail \in LinkVals
  BY AroundNode
<1>2. PICK H, T : H = (IF P[k - 1] = 0 THEN P[k + 1] ELSE l.head) /\ T = (IF P[k + 1] = 0 THEN P[k - 1] ELSE l.tail)
  OBVIOUS
<1>3. PICK N : N = (IF P[k - 1] # 0 THEN [l.next EXCEPT ![P[k - 1]] = P[k + 1]] ELSE l.next)
  OBVIOUS
<1>4. PICK V : V = (IF P[k + 1] # 0 THEN [l.prev EXCEPT ![P[k + 1]] = P[k - 1]] ELSE l.prev)
  OBVIOUS
<1>5. PICK b : b = [l EXCEPT !.head = H, !.tail = T, !.next = N, !.prev = V]
  OBVIOUS
<1>6. Unlinked(l, P[k]) = Freed(b, P[k])
  BY <1>1, <1>2, <1>3, <1>4, <1>5 DEF Unlinked
<1>7. N \in [Nodes -> LinkVals] /\ \A y \in l.used : N[y] = (IF y = P[k - 1] THEN P[k + 1] ELSE l.next[y])
  BY <1>1, <1>3
<1>8. V \in [Nodes -> LinkVals] /\ \A y \in l.used : V[y] = (IF y = P[k + 1] THEN P[k - 1] ELSE l.prev[y])
  BY <1>1, <1>4
<1>9. H = (IF k = 1 THEN P[2] ELSE l.head) /\ T = (IF k = n THEN P[n - 1] ELSE l.tail) /\ H \in LinkVals /\ T \in LinkVals
  BY <1>1, <1>2
<1>10. /\ b \in ListRecords /\ b.head = H /\ b.tail = T /\ b.next = N /\ b.prev = V
       /\ b.used = l.used /\ b.len = n /\ b.data = l.data
  BY <1>1, <1>5, <1>7, <1>8, <1>9 DEF ListRecords
<1>11. PassesBy(l, P, n, k, b)
  BY <1>7, <1>8, <1>9, <1>10 DEF PassesBy
<1> QED BY <1>6, <1>11, NodePassed

(* What pny_list_pop and pny_list_pop_front leave.                         *)
Popped(l, x) ==
    Freed([l EXCEPT !.next = IF l.prev[x] # 0 THEN [@ EXCEPT ![l.prev[x]] = 0] ELSE @,
                    !.head = IF l.prev[x] # 0 THEN @ ELSE 0,
                    !.tail = l.prev[x]], x)
PoppedFront(l, x) ==
    Freed([l EXCEPT !.prev = IF l.next[x] # 0 THEN [@ EXCEPT ![l.next[x]] = 0] ELSE @,
                    !.tail = IF l.next[x] # 0 THEN @ ELSE 0,
                    !.head = l.next[x]], x)

LEMMA PopLeaves ==
    ASSUME NEW l, NEW P, NEW n, NEW q, Spells(l, P, n, q), NEW x, x = l.tail, x # 0, NEW m, m = Popped(l, x)
    PROVE  n \in 1 .. n /\ LeftOf(l, m, P, n, n)
<1>1. n \in Nat /\ x = P[n] /\ P[0] = 0 /\ P[n + 1] = 0
  BY SpellsNodes
<1>2. n \in 1 .. n
  BY <1>1
<1>3. /\ l \in ListRecords /\ P[n] \in Nodes /\ l.prev[P[n]] = P[n - 1] /\ l.len = n
      /\ P[n - 1] \in LinkVals
      /\ P[n - 1] = 0 <=> n = 1
      /\ \A y \in l.used : y \in Nodes /\ y # 0
      /\ l.next \in [Nodes -> LinkVals] /\ l.prev \in [Nodes -> LinkVals] /\ l.head \in LinkVals /\ l.tail \in LinkVals
  BY <1>2, AroundNode
<1>4. PICK H : H = (IF P[n - 1] # 0 THEN l.head ELSE 0)
  OBVIOUS
<1>5. PICK N : N = (IF P[n - 1] # 0 THEN [l.next EXCEPT ![P[n - 1]] = 0] ELSE l.next)
  OBVIOUS
<1>6. PICK b : b = [l EXCEPT !.head = H, !.tail = P[n - 1], !.next = N, !.prev = l.prev]
  OBVIOUS
<1>7. m = Freed(b, P[n])
  <2>1. b = [l EXCEPT !.next = N, !.head = H, !.tail = P[n - 1]]
    BY <1>3, <1>6 DEF ListRecords
  <2> QED BY <2>1, <1>1, <1>3, <1>4, <1>5 DEF Popped
<1>8. N \in [Nodes -> LinkVals] /\ \A y \in l.used : N[y] = (IF y = P[n - 1] THEN P[n + 1] ELSE l.next[y])
  BY <1>1, <1>3, <1>5, NullIsNoNode
<1>9. \A y \in l.used : l.prev[y] = (IF y = P[n + 1] THEN P[n - 1] ELSE l.prev[y])
  BY <1>1, <1>3
<1>10. H \in LinkVals /\ H = (IF n = 1 THEN P[2] ELSE l.head)
  BY <1>1, <1>3, <1>4, NullIsNoNode
<1>11. /\ b \in ListRecords /\ b.head = H /\ b.tail = P[n - 1] /\ b.next = N /\ b.prev = l.prev
       /\ b.used = l.used /\ b.len = n /\ b.data = l.data
  BY <1>3, <1>6, <1>8, <1>10 DEF ListRecords
<1>12. PassesBy(l, P, n, n, b)
  BY <1>8, <1>9, <1>10, <1>11 DEF PassesBy
<1> QED BY <1>2, <1>7, <1>12, NodePassed

LEMMA PopFrontLeaves ==
    ASSUME NEW l, NEW P, NEW n, NEW q, Spells(l, P, n, q), NEW x, x = l.head, x # 0, NEW m, m = PoppedFront(l, x)
    PROVE  1 \in 1 .. n /\ LeftOf(l, m, P, n, 1)
<1>1. n \in Nat /\ x = P[1] /\ P[0] = 0 /\ P[n + 1] = 0 /\ (P[1] = 0 <=> n = 0)
  BY SpellsNodes
<1>2. 1 \in 1 .. n /\ 1 + 1 = 2 /\ 1 - 1 = 0
  BY <1>1
<1>3. /\ l \in ListRecords /\ P[1] \in Nodes /\ l.next[P[1]] = P[2] /\ l.len = n
      /\ P[2] \in LinkVals
      /\ P[2] = 0 <=> 1 = n
      /\ \A y \in l.used : y \in Nodes /\ y # 0
      /\ l.next \in [Nodes -> LinkVals] /\ l.prev \in [Nodes -> LinkVals] /\ l.head \in LinkVals /\ l.tail \in LinkVals
  <2>1. /\ l \in ListRecords /\ P[1] \in Nodes /\ l.next[P[1]] = P[1 + 1] /\ P[1 + 1] \in LinkVals /\ l.len = n
        /\ P[1 + 1] = 0 <=> 1 = n
        /\ \A y \in l.used : y \in Nodes /\ y # 0
        /\ l.next \in [Nodes -> LinkVals] /\ l.prev \in [Nodes -> LinkVals] /\ l.head \in LinkVals /\ l.tail \in LinkVals
    BY <1>2, AroundNode
  <2> QED BY <2>1, <1>2
<1>4. PICK T : T = (IF P[2] # 0 THEN l.tail ELSE 0)
  OBVIOUS
<1>5. PICK V : V = (IF P[2] # 0 THEN [l.prev EXCEPT ![P[2]] = 0] ELSE l.prev)
  OBVIOUS
<1>6. PICK b : b = [l EXCEPT !.head = P[2], !.tail = T, !.next = l.next, !.prev = V]
  OBVIOUS
<1>7. m = Freed(b, P[1])
  <2>1. b = [l EXCEPT !.prev = V, !.tail = T, !.head = P[2]]
    BY <1>3, <1>6 DEF ListRecords
  <2> QED BY <2>1, <1>1, <1>3, <1>4, <1>5 DEF PoppedFront
<1>8. V \in [Nodes -> LinkVals] /\ \A y \in l.used : V[y] = (IF y = P[2] THEN P[0] ELSE l.prev[y])
  BY <1>1, <1>3, <1>5, NullIsNoNode
<1>9. \A y \in l.used : l.next[y] = (IF y = P[0] THEN P[2] ELSE l.next[y])
  BY <1>1, <1>3
<1>10. T \in LinkVals /\ T = (IF 1 = n THEN P[n - 1] ELSE l.tail)
  <2>1. 1 = n => P[n - 1] = 0
    BY <1>1
  <2> QED BY <2>1, <1>3, <1>4, NullIsNoNode
<1>11. /\ b \in ListRecords /\ b.head = P[2] /\ b.tail = T /\ b.next = l.next /\ b.prev = V
       /\ b.used = l.used /\ b.len = n /\ b.data = l.data
  BY <1>3, <1>6, <1>8, <1>10 DEF ListRecords
<1>12. PassesBy(l, P, n, 1, b)
  BY <1>2, <1>8, <1>9, <1>10, <1>11 DEF PassesBy
<1> QED BY <1>2, <1>7, <1>12, NodePassed

(* The sequence with one element more, and with one less.                  *)
LEMMA WithLast ==
    ASSUME NEW q \in Seq(Elems), NEW v \in Elems
    PROVE  WithAt(q, Len(q), v, Append(q, v))
<1>1. PICK n \in Nat : n = Len(q)
  OBVIOUS
<1>2. PICK t : t = Append(q, v)
  OBVIOUS
<1>3. t \in Seq(Elems) /\ Len(t) = n + 1 /\ (\A j \in 1 .. n : t[j] = q[j]) /\ t[n + 1] = v
  BY <1>1, <1>2, AppendProperties
<1>4. \A j \in 1 .. n + 1 : t[j] = IF j <= n THEN q[j] ELSE IF j = n + 1 THEN v ELSE q[j - 1]
  BY <1>1, <1>3
<1>5. WithAt(q, n, v, t)
  BY <1>1, <1>3, <1>4 DEF WithAt
<1> QED BY <1>1, <1>2, <1>5

LEMMA WithFirst ==
    ASSUME NEW q \in Seq(Elems), NEW v \in Elems
    PROVE  WithAt(q, 0, v, <<v>> \o q)
<1>1. PICK n \in Nat : n = Len(q)
  OBVIOUS
<1>2. PICK t : t = <<v>> \o q
  OBVIOUS
<1>3. t \in Seq(Elems) /\ Len(t) = n + 1 /\ \A j \in 1 .. n + 1 : t[j] = IF j = 1 THEN v ELSE q[j - 1]
  BY <1>1, <1>2, PrependProperties
<1>4. \A j \in 1 .. n + 1 : t[j] = IF j <= 0 THEN q[j] ELSE IF j = 0 + 1 THEN v ELSE q[j - 1]
  BY <1>1, <1>3
<1>5. WithAt(q, 0, v, t)
  BY <1>1, <1>3, <1>4 DEF WithAt
<1> QED BY <1>2, <1>5

LEMMA WithAmong ==
    ASSUME NEW q \in Seq(Elems), NEW v \in Elems, NEW i \in 0 .. Len(q)
    PROVE  WithAt(q, i, v, SubSeq(q, 1, i) \o <<v>> \o SubSeq(q, i + 1, Len(q)))
<1>1. PICK n \in Nat : n = Len(q)
  OBVIOUS
<1>2. i + 1 \in 1 .. n + 1 /\ (i + 1) - 1 = i /\ i \in Int
  BY <1>1
<1>3. PICK t : t = SubSeq(q, 1, i) \o <<v>> \o SubSeq(q, i + 1, Len(q))
  OBVIOUS
<1>4. t = InsertAt(q, i + 1, v)
  BY <1>2, <1>3 DEF InsertAt
<1>5. t \in Seq(Elems) /\ Len(t) = n + 1
      /\ \A j \in 1 .. n + 1 : t[j] = IF j < i + 1 THEN q[j] ELSE IF j = i + 1 THEN v ELSE q[j - 1]
  <2>1. PICK k \in 1 .. Len(q) + 1 : k = i + 1
    BY <1>1, <1>2
  <2>2. InsertAt(q, k, v) \in Seq(Elems) /\ Len(InsertAt(q, k, v)) = Len(q) + 1
        /\ \A j \in 1 .. Len(q) + 1 : InsertAt(q, k, v)[j] = IF j < k THEN q[j] ELSE IF j = k THEN v ELSE q[j - 1]
    BY InsertAtProperties
  <2>3. t = InsertAt(q, k, v)
    BY <1>4, <2>1
  <2> QED BY <1>1, <2>1, <2>2, <2>3
<1>6. \A j \in 1 .. n + 1 : t[j] = IF j <= i THEN q[j] ELSE IF j = i + 1 THEN v ELSE q[j - 1]
  <2> SUFFICES ASSUME NEW j \in 1 .. n + 1 PROVE t[j] = IF j <= i THEN q[j] ELSE IF j = i + 1 THEN v ELSE q[j - 1]
    OBVIOUS
  <2>1. j < i + 1 <=> j <= i
    BY <1>2
  <2> QED BY <1>5, <2>1
<1>7. WithAt(q, i, v, t)
  BY <1>1, <1>5, <1>6 DEF WithAt
<1> QED BY <1>3, <1>7

LEMMA WithoutOne ==
    ASSUME NEW q \in Seq(Elems), NEW k \in 1 .. Len(q)
    PROVE  WithoutAt(q, k, Without(q, k))
<1>1. PICK t : t = Without(q, k)
  OBVIOUS
<1>2. t = RemoveAt(q, k)
  BY <1>1 DEF Without, RemoveAt
<1>3. WithoutAt(q, k, t)
  BY <1>2, RemoveAtProperties DEF WithoutAt
<1> QED BY <1>1, <1>3

LEMMA WithoutLast ==
    ASSUME NEW q \in Seq(Elems), Len(q) >= 1
    PROVE  WithoutAt(q, Len(q), SubSeq(q, 1, Len(q) - 1))
<1>1. PICK n \in Nat : n = Len(q) /\ n >= 1
  OBVIOUS
<1>2. PICK t : t = SubSeq(q, 1, n - 1)
  OBVIOUS
<1>3. 1 \in Int /\ n - 1 \in Int /\ \A j \in 1 .. n - 1 : q[j] \in Elems
  BY <1>1, ElementOfSeq
<1>4. t \in Seq(Elems) /\ Len(t) = n - 1 /\ \A j \in 1 .. n - 1 : t[j] = q[j]
  <2>1. t \in Seq(Elems) /\ Len(t) = (IF 1 <= n - 1 THEN (n - 1) - 1 + 1 ELSE 0)
        /\ \A j \in 1 .. (n - 1) - 1 + 1 : t[j] = q[1 + j - 1]
    BY <1>2, <1>3, SubSeqProperties
  <2>2. Len(t) = n - 1
    BY <1>1, <2>1
  <2>3. ASSUME NEW j \in 1 .. n - 1 PROVE t[j] = q[j]
    <3>1. j \in 1 .. (n - 1) - 1 + 1 /\ 1 + j - 1 = j
      BY <1>1
    <3> QED BY <2>1, <3>1
  <2> QED BY <2>1, <2>2, <2>3
<1>5. \A j \in 1 .. n - 1 : t[j] = IF j < n THEN q[j] ELSE q[j + 1]
  BY <1>1, <1>4
<1>6. WithoutAt(q, n, t)
  BY <1>1, <1>4, <1>5 DEF WithoutAt
<1> QED BY <1>1, <1>2, <1>6

LEMMA WithoutFirst ==
    ASSUME NEW q \in Seq(Elems), Len(q) >= 1
    PROVE  WithoutAt(q, 1, Tail(q))
<1>1. PICK n \in Nat : n = Len(q) /\ n >= 1
  OBVIOUS
<1>2. PICK t : t = Tail(q)
  OBVIOUS
<1>3. t \in Seq(Elems) /\ Len(t) = n - 1 /\ \A j \in 1 .. n - 1 : t[j] = q[j + 1]
  BY <1>1, <1>2, TailDropped
<1>4. \A j \in 1 .. n - 1 : t[j] = IF j < 1 THEN q[j] ELSE q[j + 1]
  BY <1>1, <1>3
<1>5. WithoutAt(q, 1, t)
  BY <1>1, <1>3, <1>4 DEF WithoutAt
<1> QED BY <1>2, <1>5

-----------------------------------------------------------------------------
(* The calls on the list.                                                  *)

ListSpelled(l, q) == \E P, n : Spells(l, P, n, q)

LEMMA FreshIs ==
    ASSUME list.used \in SUBSET Nodes, list.used # Nodes
    PROVE  Fresh \in Nodes /\ Fresh \notin list.used
<1>1. \E n \in Nodes \ list.used : TRUE
  OBVIOUS
<1>2. Fresh \in Nodes \ list.used
  BY <1>1 DEF Fresh
<1> QED BY <1>2

LEMMA ListGrows ==
    ASSUME NEW l, NEW P, NEW n, NEW q, Spells(l, P, n, q), NEW i \in 0 .. n, NEW m, NEW x, NEW v, EnteredAt(l, m, P, n, i, x, v),
           NEW t, WithAt(q, i, v, t)
    PROVE  ListSpelled(m, t)
<1>1. Spells(m, Spliced(P, n, i, x), n + 1, t)
  BY SpellsEntered
<1> QED BY <1>1 DEF ListSpelled

LEMMA ListShrinks ==
    ASSUME NEW l, NEW P, NEW n, NEW q, Spells(l, P, n, q), NEW k \in 1 .. n, NEW m, LeftOf(l, m, P, n, k), NEW t, WithoutAt(q, k, t)
    PROVE  ListSpelled(m, t)
<1>1. Spells(m, Unspliced(P, n, k), n - 1, t)
  BY SpellsLeft
<1> QED BY <1>1 DEF ListSpelled

LEMMA SpellsLength ==
    ASSUME NEW l, NEW P, NEW n, NEW q, Spells(l, P, n, q)
    PROVE  q \in Seq(Elems) /\ n = Len(q) /\ n \in Nat /\ l.len = n /\ l \in ListRecords /\ l.used \in SUBSET Nodes
<1>1. l \in ListRecords /\ q \in Seq(Elems) /\ n = Len(q) /\ n \in Nat /\ l.len = n
  BY DEF Spells, DataIs
<1> QED BY <1>1, ListFields

LEMMA NodeAllocated ==
    ASSUME NEW P, NEW n, Spells(list, P, n, dsModel), list.used # Nodes, NEW v \in Elems
    PROVE  \E x \in Nodes : \E a : x = Fresh /\ a = Allocated(list, x, v) /\ x \notin list.used /\ NodeMade(list, a, x, v)
<1>1. list \in ListRecords /\ list.used \in SUBSET Nodes
  BY SpellsLength
<1>2. PICK x \in Nodes : x = Fresh /\ x \notin list.used
  BY <1>1, FreshIs
<1>3. PICK a : a = Allocated(list, x, v)
  OBVIOUS
<1>4. v \in Nat
  BY ContainersAssumption
<1>5. NodeMade(list, a, x, v)
  BY <1>1, <1>3, <1>4, NodeIsMade
<1> QED BY <1>2, <1>3, <1>5

OnlyNode(a, x) == [a EXCEPT !.head = x, !.tail = x]

LEMMA FirstMade ==
    ASSUME NEW a \in ListRecords, NEW x \in Nodes, a.head = 0, a.tail = 0, a.next[x] = 0
    PROVE  OnlyNode(a, x) = AtHead(a, x)
<1>1. a.next \in [Nodes -> LinkVals] /\ x # 0
  BY ListFields, NullIsNoNode
<1>2. PICK N : N = [a.next EXCEPT ![x] = a.head]
  OBVIOUS
<1>3. N = a.next
  BY <1>1, <1>2
<1>4. AtHead(a, x) = [a EXCEPT !.next = N, !.prev = a.prev, !.head = x, !.tail = x]
  BY <1>2 DEF AtHead, ListRecords
<1> QED BY <1>3, <1>4 DEF ListRecords, OnlyNode

LEMMA AppendKept ==
    ASSUME NEW P, NEW n, Spells(list, P, n, dsModel), NEW v \in Elems, ListAppend(v)
    PROVE  ListSpelled(list', dsModel')
<1>1. PICK x, a : x \in Nodes /\ x = Fresh /\ a = Allocated(list, x, v) /\ x \notin list.used /\ NodeMade(list, a, x, v)
  BY NodeAllocated DEF ListAppend
<1>2. PICK m : m = list'
  OBVIOUS
<1>3. m = IF a.head = 0 THEN [a EXCEPT !.head = x, !.tail = x]
          ELSE [a EXCEPT !.prev[x] = a.tail, !.next[a.tail] = x, !.tail = x]
  BY <1>1, <1>2 DEF ListAppend
<1>4. dsModel \in Seq(Elems) /\ n = Len(dsModel) /\ n \in Nat
  BY SpellsLength
<1>5. WithAt(dsModel, n, v, dsModel')
  BY <1>4, WithLast DEF ListAppend
<1>6. /\ list.head = P[1] /\ list.tail = P[n]
      /\ P[1] = 0 <=> n = 0
      /\ P[n] = 0 <=> n = 0
  BY SpellsNodes
<1>7. a \in ListRecords /\ a.head = list.head /\ a.tail = list.tail /\ a.next[x] = 0
  BY <1>1 DEF NodeMade
<1>8. EnteredAt(list, m, P, n, n, x, v)
  <2>1. CASE n = 0
    <3>1. m = AtHead(a, x)
      <4>1. a.head = 0 /\ a.tail = 0
        BY <1>6, <1>7, <2>1
      <4>2. m = [a EXCEPT !.head = x, !.tail = x]
        BY <1>3, <4>1
      <4>3. x \in Nodes /\ a \in ListRecords /\ a.next[x] = 0
        BY <1>1, <1>7
      <4>4. OnlyNode(a, x) = AtHead(a, x)
        BY <4>1, <4>3, FirstMade
      <4> QED BY <4>2, <4>4 DEF OnlyNode
    <3>2. EnteredAt(list, m, P, n, 0, x, v)
      BY <1>1, <3>1, EnteredFirst
    <3> QED BY <2>1, <3>2
  <2>2. CASE n # 0
    <3>1. n \in 1 .. n
      BY <1>4, <2>2
    <3>2. m = [a EXCEPT !.prev[x] = P[n], !.next[P[n]] = x, !.tail = x]
      BY <1>3, <1>6, <1>7, <2>2
    <3>3. m = [a EXCEPT !.prev[x] = P[n], !.tail = x, !.next[P[n]] = x]
      BY <1>7, <3>2 DEF ListRecords
    <3>4. LinkedBehind(a, m, P, n, n, x)
      BY <3>3 DEF LinkedBehind
    <3> QED BY <1>1, <3>1, <3>4, EnteredBehind
  <2> QED BY <2>1, <2>2
<1>9. n \in 0 .. n
  BY <1>4
<1>10. ListSpelled(m, dsModel')
  BY <1>5, <1>8, <1>9, ListGrows
<1> QED BY <1>2, <1>10

LEMMA PrependKept ==
    ASSUME NEW P, NEW n, Spells(list, P, n, dsModel), NEW v \in Elems, ListPrepend(v)
    PROVE  ListSpelled(list', dsModel')
<1>1. PICK x, a : x \in Nodes /\ x = Fresh /\ a = Allocated(list, x, v) /\ x \notin list.used /\ NodeMade(list, a, x, v)
  BY NodeAllocated DEF ListPrepend
<1>2. PICK m : m = list'
  OBVIOUS
<1>3. m = AtHead(a, x)
  BY <1>1, <1>2 DEF ListPrepend
<1>4. dsModel \in Seq(Elems) /\ n = Len(dsModel) /\ n \in Nat
  BY SpellsLength
<1>5. WithAt(dsModel, 0, v, dsModel')
  BY <1>4, WithFirst DEF ListPrepend
<1>6. EnteredAt(list, m, P, n, 0, x, v)
  BY <1>1, <1>3, EnteredFirst
<1>7. 0 \in 0 .. n
  BY <1>4
<1>8. ListSpelled(m, dsModel')
  BY <1>5, <1>6, <1>7, ListGrows
<1> QED BY <1>2, <1>8

LEMMA InsertKept ==
    ASSUME NEW P, NEW n, Spells(list, P, n, dsModel), NEW v \in Elems, NEW i \in 0 .. DsSize, ListInsert(i, v)
    PROVE  ListSpelled(list', dsModel')
<1>1. PICK x, a : x \in Nodes /\ x = Fresh /\ a = Allocated(list, x, v) /\ x \notin list.used /\ NodeMade(list, a, x, v)
  BY NodeAllocated DEF ListInsert
<1>2. PICK m, pos : m = list' /\ pos = NodeAt(list, i - 1)
  OBVIOUS
<1>3. m = IF i = 0 THEN AtHead(a, x)
          ELSE IF a.next[pos] # 0
          THEN [a EXCEPT !.next = [@ EXCEPT ![x] = a.next[pos], ![pos] = x],
                         !.prev = [@ EXCEPT ![x] = pos, ![a.next[pos]] = x]]
          ELSE [a EXCEPT !.prev[x] = pos, !.tail = x, !.next[pos] = x]
  BY <1>1, <1>2 DEF ListInsert
<1>4. dsModel \in Seq(Elems) /\ n = Len(dsModel) /\ n \in Nat /\ i \in 0 .. n
  <2>1. dsModel \in Seq(Elems) /\ n = Len(dsModel) /\ n \in Nat /\ list.len = n
    BY SpellsLength
  <2> QED BY <2>1 DEF ListInsert
<1>5. WithAt(dsModel, i, v, dsModel')
  BY <1>4, WithAmong DEF ListInsert
<1>6. EnteredAt(list, m, P, n, i, x, v)
  <2>1. CASE i = 0
    <3>1. m = AtHead(a, x)
      BY <1>3, <2>1
    <3>2. EnteredAt(list, m, P, n, 0, x, v)
      BY <1>1, <3>1, EnteredFirst
    <3> QED BY <2>1, <3>2
  <2>2. CASE i # 0
    <3>1. i \in 1 .. n /\ i - 1 \in 0 .. n /\ (i - 1) + 1 = i
      BY <1>4, <2>2
    <3>2. pos = P[i]
      BY <1>2, <3>1, SpellsNode
    <3>3. P[i] \in Nodes /\ P[i] \in list.used /\ list.next[P[i]] = P[i + 1] /\ P[i] # x
      BY <1>1, <3>1, SpellsNodes
    <3>4. P[i + 1] = 0 <=> i = n
      BY <3>1, AroundNode
    <3>5. a.next[pos] = P[i + 1]
      BY <1>1, <3>2, <3>3 DEF NodeMade
    <3>6. CASE i # n
      <4>1. m = [a EXCEPT !.next = [@ EXCEPT ![x] = P[i + 1], ![P[i]] = x],
                          !.prev = [@ EXCEPT ![x] = P[i], ![P[i + 1]] = x]]
        BY <1>3, <2>2, <3>2, <3>4, <3>5, <3>6
      <4>2. LinkedBehind(a, m, P, n, i, x)
        BY <3>6, <4>1 DEF LinkedBehind
      <4> QED BY <1>1, <3>1, <4>2, EnteredBehind
    <3>7. CASE i = n
      <4>1. m = [a EXCEPT !.prev[x] = P[i], !.tail = x, !.next[P[i]] = x]
        BY <1>3, <2>2, <3>2, <3>4, <3>5, <3>7
      <4>2. LinkedBehind(a, m, P, n, i, x)
        BY <3>7, <4>1 DEF LinkedBehind
      <4> QED BY <1>1, <3>1, <4>2, EnteredBehind
    <3> QED BY <3>6, <3>7
  <2> QED BY <2>1, <2>2
<1>7. ListSpelled(m, dsModel')
  BY <1>4, <1>5, <1>6, ListGrows
<1> QED BY <1>2, <1>7

LEMMA RemoveKept ==
    ASSUME NEW P, NEW n, Spells(list, P, n, dsModel), NEW i \in 0 .. list.len - 1,
           list' = Unlinked(list, NodeAt(list, i)), dsModel' = Without(dsModel, i + 1)
    PROVE  ListSpelled(list', dsModel')
<1>1. dsModel \in Seq(Elems) /\ n = Len(dsModel) /\ n \in Nat /\ list.len = n
  BY SpellsLength
<1>2. i \in 0 .. n /\ i + 1 \in 1 .. n /\ i + 1 \in 1 .. Len(dsModel)
  BY <1>1
<1>3. NodeAt(list, i) = P[i + 1]
  BY <1>2, SpellsNode
<1>4. PICK k \in 1 .. n : k = i + 1
  BY <1>2
<1>5. LeftOf(list, list', P, n, k)
  <2>1. LeftOf(list, Unlinked(list, P[k]), P, n, k)
    BY UnlinkedLeaves
  <2> QED BY <1>3, <1>4, <2>1
<1>6. WithoutAt(dsModel, k, dsModel')
  BY <1>1, <1>2, <1>4, WithoutOne
<1> QED BY <1>5, <1>6, ListShrinks

LEMMA RemoveValKept ==
    ASSUME NEW P, NEW n, Spells(list, P, n, dsModel), NEW x \in Elems, ListRemoveVal(x)
    PROVE  ListSpelled(list', dsModel')
<1>1. PICK found : found = {i \in 0 .. list.len - 1 : list.data[NodeAt(list, i)] = x}
  OBVIOUS
<1>2. found # {} /\ list' = Unlinked(list, NodeAt(list, First(found))) /\ dsModel' = Without(dsModel, First(found) + 1)
  BY <1>1 DEF ListRemoveVal
<1>3. list.len \in Nat
  BY SpellsLength
<1>4. found \in SUBSET Nat /\ found \subseteq 0 .. list.len - 1
  BY <1>1, <1>3
<1>5. First(found) \in found
  <2>1. \E j \in found : \A k \in found : j <= k
    BY <1>2, <1>4, LeastNat
  <2> QED BY <2>1 DEF First
<1>6. First(found) \in 0 .. list.len - 1
  BY <1>4, <1>5
<1> QED BY <1>2, <1>6, RemoveKept

LEMMA PopKept ==
    ASSUME NEW P, NEW n, Spells(list, P, n, dsModel), ListPop
    PROVE  ListSpelled(list', dsModel')
<1>1. dsModel \in Seq(Elems) /\ n = Len(dsModel) /\ n \in Nat
  BY SpellsLength
<1>2. PICK x : x = list.tail /\ x # 0
  BY DEF ListPop
<1>3. PICK m : m = list'
  OBVIOUS
<1>4. m = Popped(list, x)
  BY <1>2, <1>3 DEF ListPop, Popped
<1>5. n \in 1 .. n /\ LeftOf(list, m, P, n, n)
  BY <1>2, <1>4, PopLeaves
<1>6. WithoutAt(dsModel, n, dsModel')
  <2>1. Len(dsModel) >= 1
    BY <1>1, <1>5
  <2> QED BY <1>1, <2>1, WithoutLast DEF ListPop
<1>7. ListSpelled(m, dsModel')
  BY <1>5, <1>6, ListShrinks
<1> QED BY <1>3, <1>7

LEMMA PopFrontKept ==
    ASSUME NEW P, NEW n, Spells(list, P, n, dsModel), ListPopFront
    PROVE  ListSpelled(list', dsModel')
<1>1. dsModel \in Seq(Elems) /\ n = Len(dsModel) /\ n \in Nat
  BY SpellsLength
<1>2. PICK x : x = list.head /\ x # 0
  BY DEF ListPopFront
<1>3. PICK m : m = list'
  OBVIOUS
<1>4. m = PoppedFront(list, x)
  BY <1>2, <1>3 DEF ListPopFront, PoppedFront
<1>5. 1 \in 1 .. n /\ LeftOf(list, m, P, n, 1)
  BY <1>2, <1>4, PopFrontLeaves
<1>6. WithoutAt(dsModel, 1, dsModel')
  <2>1. Len(dsModel) >= 1
    BY <1>1, <1>5
  <2> QED BY <2>1, <1>1, WithoutFirst DEF ListPopFront
<1>7. ListSpelled(m, dsModel')
  BY <1>5, <1>6, ListShrinks
<1> QED BY <1>3, <1>7

(* Other data at the nodes: the list spells the data.                      *)
LEMMA SpellsData ==
    ASSUME NEW l, NEW P, NEW n, NEW q, Spells(l, P, n, q), NEW D \in [Nodes -> Nat], NEW t \in Seq(Elems), Len(t) = n,
           \A i \in 1 .. n : D[P[i]] = t[i], NEW m, m = [l EXCEPT !.data = D]
    PROVE  Spells(m, P, n, t)
<1>1. l \in ListRecords /\ n \in Nat /\ l.len = n /\ WalkOf(P, n) /\ UsesAll(l, P, n) /\ LinkedAs(l, P, n)
  BY DEF Spells
<1>2. m \in ListRecords
  BY <1>1 DEF ListRecords
<1>3. m.data = D /\ m.head = l.head /\ m.tail = l.tail /\ m.next = l.next /\ m.prev = l.prev /\ m.used = l.used /\ m.len = l.len
  BY <1>1 DEF ListRecords
<1>4. UsesAll(m, P, n)
  BY <1>1, <1>3 DEF UsesAll
<1>5. LinkedAs(m, P, n)
  BY <1>1, <1>3 DEF LinkedAs
<1>6. DataIs(m, P, n, t)
  BY <1>3 DEF DataIs
<1> QED BY <1>1, <1>2, <1>3, <1>4, <1>5, <1>6 DEF Spells

LEMMA SetKept ==
    ASSUME NEW P, NEW n, Spells(list, P, n, dsModel), NEW x \in Elems, NEW i \in 0 .. DsSize, ListSet(i, x)
    PROVE  ListSpelled(list', dsModel')
<1>1. dsModel \in Seq(Elems) /\ n = Len(dsModel) /\ n \in Nat /\ list.len = n /\ list \in ListRecords
  BY SpellsLength
<1>2. i \in 0 .. n /\ i < n
  BY <1>1 DEF ListSet
<1>3. NodeAt(list, i) = P[i + 1]
  BY <1>2, SpellsNode
<1>4. PICK k \in 1 .. n : k = i + 1
  BY <1>1, <1>2
<1>5. PICK D : D = [list.data EXCEPT ![P[k]] = x]
  OBVIOUS
<1>6. \A j \in 1 .. n : P[j] \in Nodes /\ list.data[P[j]] = dsModel[j] /\ (P[j] = P[k] => j = k)
  BY DEF Spells, WalkOf, DataIs
<1>7. x \in Nat /\ list.data \in [Nodes -> Nat]
  BY <1>1, ListFields, ContainersAssumption
<1>8. D \in [Nodes -> Nat] /\ \A j \in 1 .. n : D[P[j]] = IF j = k THEN x ELSE dsModel[j]
  BY <1>5, <1>6, <1>7
<1>9. PICK t : t = [dsModel EXCEPT ![k] = x]
  OBVIOUS
<1>10. t \in Seq(Elems) /\ Len(t) = n
  <2>1. dsModel \in [1 .. n -> Elems]
    BY <1>1, LenProperties
  <2>2. t \in [1 .. n -> Elems]
    BY <1>9, <2>1
  <2> QED BY <1>1, <2>2, FunctionIsSeq
<1>11. \A j \in 1 .. n : t[j] = IF j = k THEN x ELSE dsModel[j]
  <2>1. DOMAIN dsModel = 1 .. n
    BY <1>1, LenProperties
  <2> QED BY <1>9, <2>1
<1>12. \A j \in 1 .. n : D[P[j]] = t[j]
  BY <1>8, <1>11
<1>13. list' = [list EXCEPT !.data = D] /\ dsModel' = t
  BY <1>1, <1>3, <1>4, <1>5, <1>9 DEF ListSet, ListRecords
<1>14. Spells(list', P, n, dsModel')
  BY <1>8, <1>10, <1>12, <1>13, SpellsData
<1> QED BY <1>14 DEF ListSpelled

(* The way back: the nodes from the last to the first.                     *)
BackOf(P, n) == [j \in 0 .. n + 1 |-> P[n + 1 - j]]

LEMMA BackWalk ==
    ASSUME NEW n \in Nat, NEW P, WalkOf(P, n)
    PROVE  WalkOf(BackOf(P, n), n)
<1>1. PICK R : R = BackOf(P, n)
  OBVIOUS
<1>2. \A j \in 0 .. n + 1 : R[j] = P[n + 1 - j] /\ n + 1 - j \in 0 .. n + 1
  BY <1>1 DEF BackOf
<1>3. R \in [0 .. n + 1 -> LinkVals]
  <2>1. \A j \in 0 .. n + 1 : R[j] \in LinkVals
    BY <1>2 DEF WalkOf
  <2> QED BY <2>1, <1>1 DEF BackOf
<1>4. R[0] = 0 /\ R[n + 1] = 0
  <2>1. 0 \in 0 .. n + 1 /\ n + 1 \in 0 .. n + 1 /\ n + 1 - 0 = n + 1 /\ n + 1 - (n + 1) = 0
    OBVIOUS
  <2> QED BY <2>1, <1>2 DEF WalkOf
<1>5. \A j \in 1 .. n : n + 1 - j \in 1 .. n /\ R[j] = P[n + 1 - j]
  BY <1>2
<1>6. \A j \in 1 .. n : R[j] \in Nodes
  BY <1>5 DEF WalkOf
<1>7. ASSUME NEW i \in 1 .. n, NEW j \in 1 .. n, R[i] = R[j] PROVE i = j
  <2>1. n + 1 - i = n + 1 - j
    BY <1>5, <1>7 DEF WalkOf
  <2> QED BY <2>1
<1>8. WalkOf(R, n)
  BY <1>3, <1>4, <1>6, <1>7 DEF WalkOf
<1> QED BY <1>1, <1>8

LEMMA BackSteps ==
    ASSUME NEW n \in Nat, NEW P, NEW i \in 1 .. n
    PROVE  /\ n + 1 - i \in 1 .. n /\ BackOf(P, n)[i] = P[n + 1 - i]
           /\ BackOf(P, n)[i + 1] = P[(n + 1 - i) - 1] /\ BackOf(P, n)[i - 1] = P[(n + 1 - i) + 1]
<1>1. PICK R : R = BackOf(P, n)
  OBVIOUS
<1>2. \A j \in 0 .. n + 1 : R[j] = P[n + 1 - j]
  BY <1>1 DEF BackOf
<1>3. i \in 0 .. n + 1 /\ i + 1 \in 0 .. n + 1 /\ i - 1 \in 0 .. n + 1
      /\ n + 1 - (i + 1) = (n + 1 - i) - 1 /\ n + 1 - (i - 1) = (n + 1 - i) + 1 /\ n + 1 - i \in 1 .. n
  OBVIOUS
<1>4. R[i] = P[n + 1 - i] /\ R[i + 1] = P[n + 1 - (i + 1)] /\ R[i - 1] = P[n + 1 - (i - 1)]
  BY <1>2, <1>3
<1> QED BY <1>1, <1>3, <1>4

LEMMA ReverseKept ==
    ASSUME NEW P, NEW n, Spells(list, P, n, dsModel), ListReverse
    PROVE  ListSpelled(list', dsModel')
<1>1. dsModel \in Seq(Elems) /\ n = Len(dsModel) /\ n \in Nat /\ list.len = n /\ list \in ListRecords /\ WalkOf(P, n)
  BY SpellsLength, SpellsNodes
<1>2. PICK N : N = [y \in Nodes |-> IF y \in list.used THEN list.prev[y] ELSE list.next[y]]
  OBVIOUS
<1>3. PICK V : V = [y \in Nodes |-> IF y \in list.used THEN list.next[y] ELSE list.prev[y]]
  OBVIOUS
<1>4. PICK m : m = [list EXCEPT !.next = N, !.prev = V, !.head = list.tail, !.tail = list.head]
  OBVIOUS
<1>5. list' = m
  BY <1>1, <1>2, <1>3, <1>4 DEF ListReverse, ListRecords
<1>6. list.next \in [Nodes -> LinkVals] /\ list.prev \in [Nodes -> LinkVals] /\ list.head \in LinkVals /\ list.tail \in LinkVals
  BY <1>1, ListFields
<1>7. N \in [Nodes -> LinkVals] /\ V \in [Nodes -> LinkVals]
  BY <1>2, <1>3, <1>6
<1>8. m \in ListRecords
  BY <1>1, <1>4, <1>6, <1>7 DEF ListRecords
<1>9. m.next = N /\ m.prev = V /\ m.head = list.tail /\ m.tail = list.head /\ m.used = list.used /\ m.len = list.len /\ m.data = list.data
  BY <1>1, <1>4 DEF ListRecords
<1>10. PICK R : R = BackOf(P, n)
  OBVIOUS
<1>11. WalkOf(R, n)
  BY <1>1, <1>10, BackWalk
<1>12. \A i \in 1 .. n : /\ n + 1 - i \in 1 .. n /\ R[i] = P[n + 1 - i]
                         /\ R[i + 1] = P[(n + 1 - i) - 1] /\ R[i - 1] = P[(n + 1 - i) + 1]
  <2> SUFFICES ASSUME NEW i \in 1 .. n
               PROVE  /\ n + 1 - i \in 1 .. n /\ R[i] = P[n + 1 - i]
                      /\ R[i + 1] = P[(n + 1 - i) - 1] /\ R[i - 1] = P[(n + 1 - i) + 1]
    OBVIOUS
  <2>1. /\ n + 1 - i \in 1 .. n /\ BackOf(P, n)[i] = P[n + 1 - i]
        /\ BackOf(P, n)[i + 1] = P[(n + 1 - i) - 1] /\ BackOf(P, n)[i - 1] = P[(n + 1 - i) + 1]
    BY <1>1, BackSteps
  <2> QED BY <1>10, <2>1
<1>13. \A i \in 1 .. n : P[i] \in list.used /\ P[i] \in Nodes /\ list.next[P[i]] = P[i + 1] /\ list.prev[P[i]] = P[i - 1]
  BY SpellsNodes
<1>14. \A i \in 1 .. n : m.next[R[i]] = R[i + 1] /\ m.prev[R[i]] = R[i - 1]
  BY <1>2, <1>3, <1>9, <1>12, <1>13
<1>15. m.head = R[1] /\ m.tail = R[n]
  <2>1. list.head = P[1] /\ list.tail = P[n]
    BY SpellsNodes
  <2>2. 1 \in 0 .. n + 1 /\ n \in 0 .. n + 1 /\ n + 1 - 1 = n /\ n + 1 - n = 1
    BY <1>1
  <2>3. R[1] = P[n] /\ R[n] = P[1]
    BY <1>10, <2>2 DEF BackOf
  <2> QED BY <1>9, <2>1, <2>3
<1>16. UsesAll(m, R, n)
  <2>1. \A y : y \in list.used <=> \E i \in 1 .. n : y = P[i]
    BY DEF Spells, UsesAll
  <2>2. \A i \in 1 .. n : n + 1 - i \in 1 .. n /\ n + 1 - (n + 1 - i) = i
    BY <1>1
  <2>3. \A i \in 1 .. n : P[i] = R[n + 1 - i]
    BY <1>12, <2>2
  <2>4. \A y : (\E i \in 1 .. n : y = P[i]) <=> \E i \in 1 .. n : y = R[i]
    BY <1>12, <2>2, <2>3
  <2> QED BY <1>9, <2>1, <2>4 DEF UsesAll
<1>17. PICK t : t = Reverse(dsModel)
  OBVIOUS
<1>18. t = [i \in 1 .. n |-> dsModel[n + 1 - i]]
  <2>1. \A i \in 1 .. n : n - i + 1 = n + 1 - i
    BY <1>1
  <2> QED BY <1>1, <1>17, <2>1 DEF Reverse
<1>19. t \in Seq(Elems) /\ Len(t) = n
  <2>1. \A i \in 1 .. n : dsModel[n + 1 - i] \in Elems
    BY <1>1, <1>12, ElementOfSeq
  <2>2. t \in [1 .. n -> Elems]
    BY <1>18, <2>1
  <2> QED BY <1>1, <2>2, FunctionIsSeq
<1>20. DataIs(m, R, n, t)
  <2>1. \A i \in 1 .. n : list.data[P[i]] = dsModel[i]
    BY DEF Spells, DataIs
  <2>2. ASSUME NEW i \in 1 .. n PROVE m.data[R[i]] = t[i]
    <3>1. PICK j \in 1 .. n : j = n + 1 - i
      BY <1>12
    <3>2. R[i] = P[j] /\ t[i] = dsModel[j]
      BY <1>12, <1>18, <3>1
    <3> QED BY <1>9, <2>1, <3>2
  <2> QED BY <1>19, <2>2 DEF DataIs
<1>21. Spells(m, R, n, t)
  BY <1>1, <1>8, <1>9, <1>11, <1>14, <1>15, <1>16, <1>20 DEF Spells, LinkedAs
<1>22. dsModel' = t
  BY <1>17 DEF ListReverse
<1> QED BY <1>5, <1>21, <1>22 DEF ListSpelled

-----------------------------------------------------------------------------
(* The sort.  t is s with its places moved about; s rises; all of s above  *)
(* the place m is where it belongs; the first j are at most the next.      *)
Rearranged(s, t, n) ==
    \E g \in [1 .. n -> 1 .. n] : (\A i, j \in 1 .. n : g[i] = g[j] => i = j) /\ \A j \in 1 .. n : t[j] = s[g[j]]
Rising(s, n) == \A a, b \in 1 .. n : a < b => s[a] <= s[b]
SettledFrom(s, n, m) == \A a, b \in 1 .. n : a < b /\ b > m => s[a] <= s[b]
LedBy(s, j) == \A a \in 1 .. j : s[a] <= s[j + 1]
Exchanged(s, n, j) == [i \in 1 .. n |-> IF i = j THEN s[j + 1] ELSE IF i = j + 1 THEN s[j] ELSE s[i]]

LEMMA ExchangedSettled ==
    ASSUME NEW n \in Nat, NEW s \in [1 .. n -> Nat], NEW k \in 1 .. n - 1, NEW j \in 1 .. k, s[j] > s[j + 1],
           SettledFrom(s, n, k + 1), LedBy(s, j - 1)
    PROVE  SettledFrom(Exchanged(s, n, j), n, k + 1) /\ LedBy(Exchanged(s, n, j), j)
<1>1. PICK t : t = Exchanged(s, n, j)
  OBVIOUS
<1>2. \A i \in 1 .. n : t[i] = IF i = j THEN s[j + 1] ELSE IF i = j + 1 THEN s[j] ELSE s[i]
  BY <1>1 DEF Exchanged
<1>3. j \in 1 .. n /\ j + 1 \in 1 .. n /\ j \in Int /\ k \in Int /\ j <= k /\ (j - 1) + 1 = j
  OBVIOUS
<1>4. \A i \in 1 .. n : s[i] \in Nat
  OBVIOUS
<1>5. t[j] = s[j + 1] /\ t[j + 1] = s[j]
  BY <1>2, <1>3
<1>6. ASSUME NEW a \in 1 .. n, NEW b \in 1 .. n, a < b, b > k + 1 PROVE t[a] <= t[b]
  <2>0. b # j /\ b # j + 1
    BY <1>3, <1>6
  <2>1. t[b] = s[b]
    BY <1>2, <2>0
  <2>2. CASE a = j
    <3>1. s[j + 1] <= s[b]
      BY <1>3, <1>6 DEF SettledFrom
    <3> QED BY <1>5, <2>1, <2>2, <3>1
  <2>3. CASE a = j + 1
    <3>1. s[j] <= s[b]
      BY <1>3, <1>6 DEF SettledFrom
    <3> QED BY <1>5, <2>1, <2>3, <3>1
  <2>4. CASE a # j /\ a # j + 1
    <3>1. t[a] = s[a]
      BY <1>2, <2>4
    <3>2. s[a] <= s[b]
      BY <1>6 DEF SettledFrom
    <3> QED BY <2>1, <3>1, <3>2
  <2> QED BY <2>2, <2>3, <2>4
<1>7. ASSUME NEW a \in 1 .. j PROVE t[a] <= t[j + 1]
  <2>1. CASE a = j
    <3>1. s[j + 1] <= s[j]
      BY <1>3, <1>4
    <3> QED BY <1>5, <2>1, <3>1
  <2>2. CASE a # j
    <3>1. a \in 1 .. j - 1 /\ a \in 1 .. n /\ a # j + 1
      BY <1>3, <2>2
    <3>2. t[a] = s[a]
      BY <1>2, <2>2, <3>1
    <3>3. s[a] <= s[j]
      BY <1>3, <3>1 DEF LedBy
    <3> QED BY <1>5, <3>2, <3>3
  <2> QED BY <2>1, <2>2
<1>8. SettledFrom(t, n, k + 1)
  BY <1>6 DEF SettledFrom
<1>9. LedBy(t, j)
  BY <1>7 DEF LedBy
<1> QED BY <1>1, <1>8, <1>9

LEMMA KeptLeader ==
    ASSUME NEW n \in Nat, NEW s \in [1 .. n -> Nat], NEW j \in 1 .. n - 1, ~(s[j] > s[j + 1]), LedBy(s, j - 1)
    PROVE  LedBy(s, j)
<1>1. j \in 1 .. n /\ j + 1 \in 1 .. n /\ (j - 1) + 1 = j
  OBVIOUS
<1>2. s[j] <= s[j + 1] /\ s[j] \in Nat /\ s[j + 1] \in Nat
  BY <1>1
<1>3. ASSUME NEW a \in 1 .. j PROVE s[a] <= s[j + 1]
  <2>1. CASE a = j
    BY <1>2, <2>1
  <2>2. CASE a # j
    <3>1. a \in 1 .. j - 1 /\ a \in 1 .. n
      BY <1>1, <2>2
    <3>2. s[a] <= s[j] /\ s[a] \in Nat
      BY <1>1, <3>1 DEF LedBy
    <3> QED BY <1>2, <3>2
  <2> QED BY <2>1, <2>2
<1> QED BY <1>3 DEF LedBy

LEMMA ExchangedRearranged ==
    ASSUME NEW n \in Nat, NEW s, NEW q, NEW j \in 1 .. n - 1, Rearranged(q, s, n)
    PROVE  Rearranged(q, Exchanged(s, n, j), n)
<1>1. PICK g \in [1 .. n -> 1 .. n] : (\A i, k \in 1 .. n : g[i] = g[k] => i = k) /\ \A i \in 1 .. n : s[i] = q[g[i]]
  BY DEF Rearranged
<1>2. PICK t : t = Exchanged(s, n, j)
  OBVIOUS
<1>3. PICK x : x = [i \in 1 .. n |-> IF i = j THEN j + 1 ELSE IF i = j + 1 THEN j ELSE i]
  OBVIOUS
<1>4. j \in 1 .. n /\ j + 1 \in 1 .. n /\ j # j + 1
  OBVIOUS
<1>5. \A i \in 1 .. n : x[i] = (IF i = j THEN j + 1 ELSE IF i = j + 1 THEN j ELSE i) /\ x[i] \in 1 .. n
  BY <1>3, <1>4
<1>6. \A i \in 1 .. n : t[i] = s[x[i]]
  BY <1>2, <1>5 DEF Exchanged
<1>7. \A i, k \in 1 .. n : x[i] = x[k] => i = k
  BY <1>4, <1>5
<1>8. PICK h : h = [i \in 1 .. n |-> g[x[i]]]
  OBVIOUS
<1>9. h \in [1 .. n -> 1 .. n] /\ \A i \in 1 .. n : h[i] = g[x[i]]
  BY <1>5, <1>8
<1>10. ASSUME NEW i \in 1 .. n, NEW k \in 1 .. n, h[i] = h[k] PROVE i = k
  <2>1. PICK a \in 1 .. n : a = x[i]
    BY <1>5
  <2>2. PICK b \in 1 .. n : b = x[k]
    BY <1>5
  <2>3. g[a] = g[b]
    BY <1>9, <1>10, <2>1, <2>2
  <2>4. a = b
    BY <1>1, <2>3
  <2> QED BY <1>7, <2>1, <2>2, <2>4
<1>11. ASSUME NEW i \in 1 .. n PROVE t[i] = q[h[i]]
  <2>1. PICK a \in 1 .. n : a = x[i]
    BY <1>5
  <2>2. s[a] = q[g[a]]
    BY <1>1
  <2>3. t[i] = s[a]
    BY <1>6, <2>1
  <2>4. h[i] = g[a]
    BY <1>9, <2>1
  <2> QED BY <2>2, <2>3, <2>4
<1>12. Rearranged(q, t, n)
  BY <1>9, <1>10, <1>11 DEF Rearranged
<1> QED BY <1>2, <1>12

(* One comparison of the list.                                             *)
Compared(s, n, j) == IF s[j] > s[j + 1] THEN Exchanged(s, n, j) ELSE s

LEMMA SpellsNumbers ==
    ASSUME NEW l, NEW P, NEW n, NEW s, Spells(l, P, n, s)
    PROVE  n \in Nat /\ s \in [1 .. n -> Nat] /\ s \in [1 .. n -> Elems]
<1>1. n \in Nat /\ s \in Seq(Elems) /\ Len(s) = n
  BY SpellsLength
<1>2. s \in [1 .. n -> Elems]
  BY <1>1, LenProperties
<1> QED BY <1>1, <1>2, ContainersAssumption

LEMMA BubbleSpells ==
    ASSUME NEW l, NEW P, NEW n, NEW s, Spells(l, P, n, s), NEW j \in 1 .. n - 1
    PROVE  Spells(Bubble(l, j), P, n, Compared(s, n, j))
<1>1. n \in Nat /\ s \in [1 .. n -> Nat] /\ s \in [1 .. n -> Elems] /\ s \in Seq(Elems) /\ Len(s) = n /\ l \in ListRecords
  BY SpellsNumbers, SpellsLength
<1>2. j \in 1 .. n /\ j + 1 \in 1 .. n /\ j - 1 \in 0 .. n /\ (j - 1) + 1 = j /\ j # j + 1
  BY <1>1
<1>3. NodeAt(l, j - 1) = P[j]
  BY <1>2, SpellsNode
<1>4. l.next[P[j]] = P[j + 1]
  BY <1>2, SpellsNodes
<1>5. \A i \in 1 .. n : P[i] \in Nodes /\ l.data[P[i]] = s[i]
  BY DEF Spells, WalkOf, DataIs
<1>6. \A i \in 1 .. n : (P[i] = P[j] => i = j) /\ (P[i] = P[j + 1] => i = j + 1)
  BY <1>2 DEF Spells, WalkOf
<1>7. l.data \in [Nodes -> Nat]
  BY <1>1, ListFields
<1>8. PICK m : m = Bubble(l, j)
  OBVIOUS
<1>9. PICK D : D = [l.data EXCEPT ![P[j]] = s[j + 1], ![P[j + 1]] = s[j]]
  OBVIOUS
<1>10. m = IF s[j] > s[j + 1] THEN [l EXCEPT !.data = D] ELSE l
  <2>1. m = IF l.data[P[j]] > l.data[P[j + 1]]
            THEN [l EXCEPT !.data = [@ EXCEPT ![P[j]] = l.data[P[j + 1]], ![P[j + 1]] = l.data[P[j]]]] ELSE l
    BY <1>3, <1>4, <1>8 DEF Bubble
  <2>2. l.data[P[j]] = s[j] /\ l.data[P[j + 1]] = s[j + 1]
    BY <1>2, <1>5
  <2>3. m = IF s[j] > s[j + 1] THEN [l EXCEPT !.data = [l.data EXCEPT ![P[j]] = s[j + 1], ![P[j + 1]] = s[j]]] ELSE l
    BY <2>1, <2>2
  <2> QED BY <1>9, <2>3
<1>11. CASE s[j] > s[j + 1]
  <2>1. PICK t : t = Exchanged(s, n, j)
    OBVIOUS
  <2>2. \A i \in 1 .. n : t[i] = IF i = j THEN s[j + 1] ELSE IF i = j + 1 THEN s[j] ELSE s[i]
    BY <2>1 DEF Exchanged
  <2>3. t \in [1 .. n -> Elems]
    BY <1>1, <1>2, <2>1 DEF Exchanged
  <2>4. t \in Seq(Elems) /\ Len(t) = n
    BY <1>1, <2>3, FunctionIsSeq
  <2>5. D \in [Nodes -> Nat]
    BY <1>1, <1>2, <1>7, <1>9
  <2>6. ASSUME NEW i \in 1 .. n PROVE D[P[i]] = t[i]
    <3>1. D[P[i]] = IF P[i] = P[j + 1] THEN s[j] ELSE IF P[i] = P[j] THEN s[j + 1] ELSE l.data[P[i]]
      BY <1>2, <1>5, <1>7, <1>9
    <3> QED BY <1>2, <1>5, <1>6, <2>2, <3>1
  <2>7. m = [l EXCEPT !.data = D] /\ Compared(s, n, j) = t
    BY <1>10, <1>11, <2>1 DEF Compared
  <2>8. Spells(m, P, n, t)
    BY <2>4, <2>5, <2>6, <2>7, SpellsData
  <2> QED BY <1>8, <2>7, <2>8
<1>12. CASE ~(s[j] > s[j + 1])
  <2>1. m = l /\ Compared(s, n, j) = s
    BY <1>10, <1>12 DEF Compared
  <2> QED BY <1>8, <2>1
<1> QED BY <1>11, <1>12

(* What the sort has got to: q is what the list spelled at first.          *)
SortedTo(l, P, n, q, m, j) ==
    \E s : Spells(l, P, n, s) /\ Rearranged(q, s, n) /\ SettledFrom(s, n, m) /\ LedBy(s, j)

LEMMA BubbleLeads ==
    ASSUME NEW l, NEW P, NEW n \in Nat, NEW q, NEW k \in 1 .. n - 1, NEW j \in 1 .. k, SortedTo(l, P, n, q, k + 1, j - 1)
    PROVE  SortedTo(Bubble(l, j), P, n, q, k + 1, j)
<1>1. PICK s : Spells(l, P, n, s) /\ Rearranged(q, s, n) /\ SettledFrom(s, n, k + 1) /\ LedBy(s, j - 1)
  BY DEF SortedTo
<1>2. j \in 1 .. n - 1
  OBVIOUS
<1>3. Spells(Bubble(l, j), P, n, Compared(s, n, j))
  BY <1>1, <1>2, BubbleSpells
<1>4. s \in [1 .. n -> Nat]
  BY <1>1, SpellsNumbers
<1>5. CASE s[j] > s[j + 1]
  <2>1. PICK t : t = Exchanged(s, n, j)
    OBVIOUS
  <2>2. Compared(s, n, j) = t
    BY <1>5, <2>1 DEF Compared
  <2>3. SettledFrom(t, n, k + 1) /\ LedBy(t, j)
    BY <1>1, <1>4, <1>5, <2>1, ExchangedSettled
  <2>4. Rearranged(q, t, n)
    BY <1>1, <1>2, <2>1, ExchangedRearranged
  <2> QED BY <1>3, <2>2, <2>3, <2>4 DEF SortedTo
<1>6. CASE ~(s[j] > s[j + 1])
  <2>1. Compared(s, n, j) = s
    BY <1>6 DEF Compared
  <2>2. LedBy(s, j)
    BY <1>1, <1>2, <1>4, <1>6, KeptLeader
  <2> QED BY <1>1, <1>3, <2>1, <2>2 DEF SortedTo
<1> QED BY <1>5, <1>6

(* The lists that hold the same nodes in the same order as l does.         *)
SameNodes(P, n) == {m \in ListRecords : \E t : Spells(m, P, n, t)}

LEMMA SameNodesAre ==
    ASSUME NEW m, NEW P, NEW n
    PROVE  m \in SameNodes(P, n) <=> \E t : Spells(m, P, n, t)
<1>1. ASSUME NEW t, Spells(m, P, n, t) PROVE m \in ListRecords
  BY <1>1, SpellsLength
<1> QED BY <1>1 DEF SameNodes

(* A pass of the sort is its comparisons, one after the other.             *)
LEMMA PassSteps ==
    ASSUME NEW P, NEW n \in Nat, NEW l \in SameNodes(P, n), NEW k \in 0 .. n - 1
    PROVE  \E F : /\ F[0] = l /\ Bubbled(l, k) = F[k]
                  /\ \A j \in 1 .. k : F[j] = Bubble(F[j - 1], j)
                  /\ \A j \in 0 .. k : F[j] \in SameNodes(P, n)
<1> DEFINE Def(F) == F = [j \in 0 .. k |-> IF j = 0 THEN l ELSE Bubble(F[j - 1], j)]
<1>1. PICK T : T = SameNodes(P, n)
  OBVIOUS
<1>2. ASSUME NEW m \in T, NEW j \in 1 .. k PROVE Bubble(m, j) \in T
  <2>1. PICK t : Spells(m, P, n, t)
    BY <1>1, SameNodesAre
  <2>2. j \in 1 .. n - 1
    OBVIOUS
  <2>3. Spells(Bubble(m, j), P, n, Compared(t, n, j))
    BY <2>1, <2>2, BubbleSpells
  <2> QED BY <1>1, <2>3, SameNodesAre
<1>3. PICK next : next = [j \in 1 .. k |-> [m \in T |-> Bubble(m, j)]]
  OBVIOUS
<1>4. next \in [1 .. k -> [T -> T]]
  BY <1>2, <1>3
<1>5. k \in Nat /\ l \in T
  BY <1>1
<1>6. PICK W : Steps(k, T, l, next, W)
  BY <1>4, <1>5, StepByStep
<1>7. W \in [0 .. k -> T] /\ W[0] = l /\ \A j \in 1 .. k : W[j] = next[j][W[j - 1]]
  BY <1>6 DEF Steps
<1>8. Def(W)
  <2>1. ASSUME NEW j \in 1 .. k PROVE W[j] = Bubble(W[j - 1], j)
    <3>1. j - 1 \in 0 .. k
      OBVIOUS
    <3>2. PICK m \in T : m = W[j - 1]
      BY <1>7, <3>1
    <3>3. next[j][m] = Bubble(m, j)
      BY <1>3
    <3> QED BY <1>7, <3>2, <3>3
  <2>2. \A j \in 0 .. k : W[j] = IF j = 0 THEN l ELSE Bubble(W[j - 1], j)
    <3> SUFFICES ASSUME NEW j \in 0 .. k PROVE W[j] = IF j = 0 THEN l ELSE Bubble(W[j - 1], j)
      OBVIOUS
    <3>1. CASE j = 0
      BY <1>7, <3>1
    <3>2. CASE j # 0
      <4>1. j \in 1 .. k
        BY <3>2
      <4> QED BY <2>1, <3>2, <4>1
    <3> QED BY <3>1, <3>2
  <2>3. W = [j \in 0 .. k |-> W[j]]
    BY <1>7
  <2> QED BY <2>2, <2>3
<1>9. PICK G : G = (CHOOSE H : Def(H))
  OBVIOUS
<1>10. Def(G) /\ Bubbled(l, k) = G[k]
  BY <1>8, <1>9 DEF Bubbled
<1>11. G[0] = l /\ \A j \in 1 .. k : G[j] = Bubble(G[j - 1], j)
  BY <1>5, <1>10
<1> DEFINE I == {j \in 0 .. k : G[j] \in T}
<1>12. 0 \in I
  BY <1>5, <1>11
<1>13. ASSUME NEW j \in 1 .. k, j - 1 \in I PROVE j \in I
  <2>1. PICK m \in T : m = G[j - 1]
    BY <1>13
  <2>2. G[j] = Bubble(m, j)
    BY <1>11, <2>1
  <2> QED BY <1>2, <2>1, <2>2
<1>14. \A j \in 0 .. k : j \in I
  <2> HIDE DEF I
  <2> QED BY <1>5, <1>12, <1>13, Upwards
<1> QED BY <1>1, <1>10, <1>11, <1>14

(* The sort is its passes, each one pair shorter.                          *)
LEMMA SortSteps ==
    ASSUME NEW P, NEW n \in Nat, NEW l \in SameNodes(P, n), n >= 1
    PROVE  \E F : /\ F[0] = l /\ Sorted(l, n - 1) = F[n - 1]
                  /\ \A i \in 1 .. n - 1 : F[i] = Bubbled(F[i - 1], n - i)
<1> DEFINE Def(F) == F = [i \in 0 .. n - 1 |-> IF i = 0 THEN l ELSE Bubbled(F[i - 1], n - i)]
<1>1. PICK T : T = SameNodes(P, n)
  OBVIOUS
<1>2. ASSUME NEW m \in T, NEW i \in 1 .. n - 1 PROVE Bubbled(m, n - i) \in T
  <2>1. PICK k \in 0 .. n - 1 : k = n - i
    OBVIOUS
  <2>2. PICK F : Bubbled(m, k) = F[k] /\ \A j \in 0 .. k : F[j] \in SameNodes(P, n)
    BY <1>1, PassSteps
  <2>3. k \in 0 .. k
    OBVIOUS
  <2> QED BY <1>1, <2>1, <2>2, <2>3
<1>3. PICK next : next = [i \in 1 .. n - 1 |-> [m \in T |-> Bubbled(m, n - i)]]
  OBVIOUS
<1>4. next \in [1 .. n - 1 -> [T -> T]]
  BY <1>2, <1>3
<1>5. n - 1 \in Nat /\ l \in T
  BY <1>1
<1>6. PICK W : Steps(n - 1, T, l, next, W)
  BY <1>4, <1>5, StepByStep
<1>7. W \in [0 .. n - 1 -> T] /\ W[0] = l /\ \A i \in 1 .. n - 1 : W[i] = next[i][W[i - 1]]
  BY <1>6 DEF Steps
<1>8. Def(W)
  <2>1. ASSUME NEW i \in 1 .. n - 1 PROVE W[i] = Bubbled(W[i - 1], n - i)
    <3>1. i - 1 \in 0 .. n - 1
      OBVIOUS
    <3>2. PICK m \in T : m = W[i - 1]
      BY <1>7, <3>1
    <3>3. next[i][m] = Bubbled(m, n - i)
      BY <1>3
    <3> QED BY <1>7, <3>2, <3>3
  <2>2. \A i \in 0 .. n - 1 : W[i] = IF i = 0 THEN l ELSE Bubbled(W[i - 1], n - i)
    <3> SUFFICES ASSUME NEW i \in 0 .. n - 1 PROVE W[i] = IF i = 0 THEN l ELSE Bubbled(W[i - 1], n - i)
      OBVIOUS
    <3>1. CASE i = 0
      BY <1>7, <3>1
    <3>2. CASE i # 0
      <4>1. i \in 1 .. n - 1
        BY <3>2
      <4> QED BY <2>1, <3>2, <4>1
    <3> QED BY <3>1, <3>2
  <2>3. W = [i \in 0 .. n - 1 |-> W[i]]
    BY <1>7
  <2> QED BY <2>2, <2>3
<1>9. PICK G : G = (CHOOSE H : Def(H))
  OBVIOUS
<1>10. l.len = n
  BY SameNodesAre, SpellsLength
<1>11. Def(G) /\ Sorted(l, n - 1) = G[n - 1]
  BY <1>8, <1>9, <1>10 DEF Sorted
<1>12. G[0] = l /\ \A i \in 1 .. n - 1 : G[i] = Bubbled(G[i - 1], n - i)
  BY <1>5, <1>11
<1> QED BY <1>11, <1>12

LEMMA SettledAlready ==
    ASSUME NEW n \in Nat, NEW s
    PROVE  LedBy(s, 0) /\ SettledFrom(s, n, n)
<1>1. LedBy(s, 0)
  BY DEF LedBy
<1>2. SettledFrom(s, n, n)
  BY DEF SettledFrom
<1> QED BY <1>1, <1>2

(* What a pass carries to its end is where it belongs.                     *)
LEMMA LeaderSettles ==
    ASSUME NEW n \in Nat, NEW s, NEW k \in 1 .. n - 1, SettledFrom(s, n, k + 1), LedBy(s, k)
    PROVE  SettledFrom(s, n, k)
<1>1. ASSUME NEW a \in 1 .. n, NEW b \in 1 .. n, a < b, b > k PROVE s[a] <= s[b]
  <2>1. CASE b = k + 1
    <3>1. a \in 1 .. k
      BY <1>1, <2>1
    <3> QED BY <2>1, <3>1 DEF LedBy
  <2>2. CASE b # k + 1
    <3>1. b > k + 1
      BY <1>1, <2>2
    <3> QED BY <1>1, <3>1 DEF SettledFrom
  <2> QED BY <2>1, <2>2
<1> QED BY <1>1 DEF SettledFrom

(* Some sorting of q whose places above m are settled.                     *)
Sorting(l, P, n, q, m) == \E s : Spells(l, P, n, s) /\ Rearranged(q, s, n) /\ SettledFrom(s, n, m)

LEMMA PassSorts ==
    ASSUME NEW l, NEW P, NEW n \in Nat, NEW q, NEW k \in 1 .. n - 1, Sorting(l, P, n, q, k + 1)
    PROVE  Sorting(Bubbled(l, k), P, n, q, k)
<1>1. PICK s : Spells(l, P, n, s) /\ Rearranged(q, s, n) /\ SettledFrom(s, n, k + 1)
  BY DEF Sorting
<1>2. l \in SameNodes(P, n)
  BY <1>1, SameNodesAre
<1>3. k \in 0 .. n - 1 /\ k \in Nat
  OBVIOUS
<1>4. PICK F : /\ F[0] = l /\ Bubbled(l, k) = F[k]
               /\ \A j \in 1 .. k : F[j] = Bubble(F[j - 1], j)
  BY <1>2, <1>3, PassSteps
<1> DEFINE I == {j \in 0 .. k : SortedTo(F[j], P, n, q, k + 1, j)}
<1>5. 0 \in I
  <2>1. SortedTo(F[0], P, n, q, k + 1, 0)
    BY <1>1, <1>4, SettledAlready DEF SortedTo
  <2> QED BY <1>3, <2>1
<1>6. ASSUME NEW j \in 1 .. k, j - 1 \in I PROVE j \in I
  <2>1. SortedTo(F[j - 1], P, n, q, k + 1, j - 1)
    BY <1>6
  <2>2. PICK m : m = F[j - 1]
    OBVIOUS
  <2>3. SortedTo(Bubble(m, j), P, n, q, k + 1, j)
    BY <2>1, <2>2, BubbleLeads
  <2>4. F[j] = Bubble(m, j)
    BY <1>4, <2>2
  <2> QED BY <2>3, <2>4
<1>7. \A j \in 0 .. k : j \in I
  <2> HIDE DEF I
  <2> QED BY <1>3, <1>5, <1>6, Upwards
<1>8. SortedTo(F[k], P, n, q, k + 1, k)
  BY <1>3, <1>7
<1>9. PICK t : Spells(F[k], P, n, t) /\ Rearranged(q, t, n) /\ SettledFrom(t, n, k + 1) /\ LedBy(t, k)
  BY <1>8 DEF SortedTo
<1>10. SettledFrom(t, n, k)
  BY <1>9, LeaderSettles
<1> QED BY <1>4, <1>9, <1>10 DEF Sorting

LEMMA SortSorts ==
    ASSUME NEW l, NEW P, NEW n, NEW q, Spells(l, P, n, q), n >= 1
    PROVE  \E t : Spells(Sorted(l, n - 1), P, n, t) /\ Rearranged(q, t, n) /\ Rising(t, n)
<1>1. n \in Nat /\ n - 1 \in Nat /\ n - 1 \in 0 .. n - 1
  BY SpellsLength
<1>2. l \in SameNodes(P, n)
  BY SameNodesAre
<1>3. PICK F : /\ F[0] = l /\ Sorted(l, n - 1) = F[n - 1]
               /\ \A i \in 1 .. n - 1 : F[i] = Bubbled(F[i - 1], n - i)
  BY <1>1, <1>2, SortSteps
<1> DEFINE I == {i \in 0 .. n - 1 : Sorting(F[i], P, n, q, n - i)}
<1>4. 0 \in I
  <2>1. PICK g : g = [j \in 1 .. n |-> j]
    OBVIOUS
  <2>2. g \in [1 .. n -> 1 .. n] /\ \A j \in 1 .. n : g[j] = j
    BY <2>1
  <2>3. Rearranged(q, q, n)
    BY <2>2 DEF Rearranged
  <2>4. Sorting(F[0], P, n, q, n)
    BY <1>1, <1>3, <2>3, SettledAlready DEF Sorting
  <2>5. n - 0 = n /\ 0 \in 0 .. n - 1
    BY <1>1
  <2> QED BY <2>4, <2>5
<1>5. ASSUME NEW i \in 1 .. n - 1, i - 1 \in I PROVE i \in I
  <2>1. PICK k \in 1 .. n - 1 : k = n - i
    BY <1>1
  <2>2. n - (i - 1) = k + 1
    BY <1>1, <2>1
  <2>3. PICK m : m = F[i - 1]
    OBVIOUS
  <2>4. Sorting(m, P, n, q, k + 1)
    BY <1>5, <2>2, <2>3
  <2>5. Sorting(Bubbled(m, k), P, n, q, k)
    BY <1>1, <2>4, PassSorts
  <2>6. F[i] = Bubbled(m, k)
    BY <1>3, <2>1, <2>3
  <2>7. i \in 0 .. n - 1
    OBVIOUS
  <2> QED BY <2>1, <2>5, <2>6, <2>7
<1>6. \A i \in 0 .. n - 1 : i \in I
  <2> HIDE DEF I
  <2> QED BY <1>1, <1>4, <1>5, Upwards
<1>7. Sorting(F[n - 1], P, n, q, 1)
  <2>1. n - (n - 1) = 1
    BY <1>1
  <2> QED BY <1>1, <1>6, <2>1
<1>8. PICK t : Spells(F[n - 1], P, n, t) /\ Rearranged(q, t, n) /\ SettledFrom(t, n, 1)
  BY <1>7 DEF Sorting
<1>9. Rising(t, n)
  <2>1. ASSUME NEW a \in 1 .. n, NEW b \in 1 .. n, a < b PROVE t[a] <= t[b]
    <3>1. b > 1
      BY <2>1
    <3> QED BY <1>8, <2>1, <3>1 DEF SettledFrom
  <2> QED BY <2>1 DEF Rising
<1> QED BY <1>3, <1>8, <1>9

-----------------------------------------------------------------------------
(* Two rising sequences that are each other's rearrangement are the same.  *)
PlacesIn(f, a, b, c, d) == \A x \in a .. b : f[x] \in c .. d
Meets(f, a, b) == \E x, y \in a .. b : x # y /\ f[x] = f[y]

LEMMA TooManyPlaces ==
    ASSUME NEW a \in Int, NEW b \in Int, NEW c \in Int, NEW d \in Int, a <= b, d - c < b - a, c <= d + 1,
           NEW f, PlacesIn(f, a, b, c, d)
    PROVE  Meets(f, a, b)
<1>1. PICK S : S = a .. b
  OBVIOUS
<1>2. PICK T : T = c .. d
  OBVIOUS
<1>3. IsFiniteSet(S) /\ Cardinality(S) = b - a + 1
  <2>1. IsFiniteSet(a .. b) /\ Cardinality(a .. b) = IF a > b THEN 0 ELSE b - a + 1
    BY FS_Interval
  <2>2. ~(a > b)
    OBVIOUS
  <2> QED BY <1>1, <2>1, <2>2
<1>4. IsFiniteSet(T) /\ Cardinality(T) = d - c + 1
  <2>1. IsFiniteSet(c .. d) /\ Cardinality(c .. d) = IF c > d THEN 0 ELSE d - c + 1
    BY FS_Interval
  <2>2. c > d => d - c + 1 = 0
    OBVIOUS
  <2> QED BY <1>2, <2>1, <2>2
<1>5. Cardinality(T) < Cardinality(S)
  <2>1. d - c + 1 < b - a + 1
    OBVIOUS
  <2> QED BY <1>3, <1>4, <2>1
<1>6. PICK h : h = [x \in S |-> f[x]]
  OBVIOUS
<1>7. h \in [S -> T] /\ \A x \in S : h[x] = f[x]
  BY <1>1, <1>2, <1>6 DEF PlacesIn
<1>8. \E x, y \in S : x # y /\ h[x] = h[y]
  BY <1>3, <1>4, <1>5, <1>7, FS_PigeonHole
<1>9. \E x, y \in S : x # y /\ f[x] = f[y]
  BY <1>7, <1>8
<1> QED BY <1>1, <1>9 DEF Meets

(* u is t with the places r moved about.                                   *)
MovedBy(u, t, r, n) ==
    /\ \A j \in 1 .. n : r[j] \in 1 .. n /\ u[j] = t[r[j]]
    /\ \A i, j \in 1 .. n : r[i] = r[j] => i = j
Numbers(t, n) == \A j \in 1 .. n : t[j] \in Nat

LEMMA RisesNoHigher ==
    ASSUME NEW n \in Nat, NEW t, NEW u, NEW r, Numbers(t, n), Numbers(u, n), Rising(t, n), Rising(u, n), MovedBy(u, t, r, n),
           NEW k \in 1 .. n
    PROVE  ~(u[k] < t[k])
<1> SUFFICES ASSUME u[k] < t[k] PROVE FALSE
  OBVIOUS
<1>1. ASSUME NEW j \in 1 .. k PROVE r[j] \in 1 .. k - 1
  <2>1. j \in 1 .. n /\ (j < k \/ j = k)
    OBVIOUS
  <2>2. u[j] \in Nat /\ u[k] \in Nat /\ t[k] \in Nat
    BY <2>1 DEF Numbers
  <2>3. u[j] <= u[k]
    BY <2>1, <2>2 DEF Rising
  <2>4. PICK i \in 1 .. n : i = r[j] /\ u[j] = t[i]
    BY <2>1 DEF MovedBy
  <2>5. t[i] < t[k]
    BY <2>2, <2>3, <2>4
  <2>6. ~(k < i) /\ k # i
    BY <2>2, <2>4, <2>5 DEF Rising
  <2>7. i \in 1 .. k - 1
    BY <2>6
  <2> QED BY <2>4, <2>7
<1>2. PICK a \in Int, b \in Int, c \in Int, d \in Int : a = 1 /\ b = k /\ c = 1 /\ d = k - 1
  OBVIOUS
<1>3. PICK x \in 1 .. k, y \in 1 .. k : x # y /\ r[x] = r[y]
  <2>1. a <= b /\ d - c < b - a /\ c <= d + 1
    BY <1>2
  <2>2. PlacesIn(r, a, b, c, d)
    BY <1>1, <1>2 DEF PlacesIn
  <2>3. Meets(r, a, b)
    BY <2>1, <2>2, TooManyPlaces
  <2> QED BY <1>2, <2>3 DEF Meets
<1>4. x \in 1 .. n /\ y \in 1 .. n
  OBVIOUS
<1> QED BY <1>3, <1>4 DEF MovedBy

LEMMA RisesNoLower ==
    ASSUME NEW n \in Nat, NEW t, NEW u, NEW r, Numbers(t, n), Numbers(u, n), Rising(t, n), Rising(u, n), MovedBy(u, t, r, n),
           NEW k \in 1 .. n
    PROVE  ~(u[k] > t[k])
<1> SUFFICES ASSUME u[k] > t[k] PROVE FALSE
  OBVIOUS
<1>1. ASSUME NEW j \in k .. n PROVE r[j] \in k + 1 .. n
  <2>1. j \in 1 .. n /\ (k < j \/ j = k)
    OBVIOUS
  <2>2. u[j] \in Nat /\ u[k] \in Nat /\ t[k] \in Nat
    BY <2>1 DEF Numbers
  <2>3. u[k] <= u[j]
    BY <2>1, <2>2 DEF Rising
  <2>4. PICK i \in 1 .. n : i = r[j] /\ u[j] = t[i]
    BY <2>1 DEF MovedBy
  <2>5. t[k] < t[i]
    BY <2>2, <2>3, <2>4
  <2>6. ~(i < k) /\ k # i
    BY <2>2, <2>4, <2>5 DEF Rising
  <2>7. i \in k + 1 .. n
    BY <2>6
  <2> QED BY <2>4, <2>7
<1>2. PICK a \in Int, b \in Int, c \in Int, d \in Int : a = k /\ b = n /\ c = k + 1 /\ d = n
  OBVIOUS
<1>3. PICK x \in k .. n, y \in k .. n : x # y /\ r[x] = r[y]
  <2>1. a <= b /\ d - c < b - a /\ c <= d + 1
    BY <1>2
  <2>2. PlacesIn(r, a, b, c, d)
    BY <1>1, <1>2 DEF PlacesIn
  <2>3. Meets(r, a, b)
    BY <2>1, <2>2, TooManyPlaces
  <2> QED BY <1>2, <2>3 DEF Meets
<1>4. x \in 1 .. n /\ y \in 1 .. n
  OBVIOUS
<1> QED BY <1>3, <1>4 DEF MovedBy

(* What the model calls ascending is what the sort leaves.                 *)
LEMMA AscendingIs ==
    ASSUME NEW q \in Seq(Nat), NEW n \in Nat, n = Len(q), NEW t \in [1 .. n -> Nat], Rearranged(q, t, n), Rising(t, n)
    PROVE  Ascending(q) = t
<1>1. PICK g \in [1 .. n -> 1 .. n] : (\A i, j \in 1 .. n : g[i] = g[j] => i = j) /\ \A j \in 1 .. n : t[j] = q[g[j]]
  BY DEF Rearranged
<1> DEFINE Orders(h) == h \in [1 .. n -> 1 .. n] /\ IsInjective(h) /\ \A i, j \in 1 .. n : i < j => q[h[i]] <= q[h[j]]
<1>2. Orders(g)
  <2>1. IsInjective(g)
    BY <1>1 DEF IsInjective
  <2>2. \A i, j \in 1 .. n : i < j => q[g[i]] <= q[g[j]]
    BY <1>1 DEF Rising
  <2> QED BY <2>1, <2>2
<1>3. PICK p : p = CHOOSE h \in [1 .. n -> 1 .. n] : IsInjective(h) /\ \A i, j \in 1 .. n : i < j => q[h[i]] <= q[h[j]]
  OBVIOUS
<1>4. Orders(p)
  BY <1>2, <1>3
<1>5. PICK u : u = [i \in 1 .. n |-> q[p[i]]]
  OBVIOUS
<1>6. Ascending(q) = u
  BY <1>3, <1>5 DEF Ascending
<1>7. u \in [1 .. n -> Nat] /\ \A i \in 1 .. n : u[i] = q[p[i]] /\ p[i] \in 1 .. n
  <2>1. \A i \in 1 .. n : p[i] \in 1 .. n
    BY <1>4
  <2>2. \A i \in 1 .. n : q[i] \in Nat
    BY ElementOfSeq
  <2>3. \A i \in 1 .. n : q[p[i]] \in Nat
    BY <2>1, <2>2
  <2> QED BY <1>5, <2>1, <2>3
<1>8. Rising(u, n)
  BY <1>4, <1>7 DEF Rising
<1>9. \A i \in 1 .. n : \E j \in 1 .. n : g[j] = i
  <2>1. IsFiniteSet(1 .. n)
    BY FS_Interval
  <2>2. g \in Injection(1 .. n, 1 .. n)
    BY <1>2 DEF Injection
  <2>3. g \in Surjection(1 .. n, 1 .. n)
    BY <2>1, <2>2, FS_Injection
  <2> QED BY <2>3 DEF Surjection
<1>10. PICK r : r = [j \in 1 .. n |-> CHOOSE i \in 1 .. n : g[i] = p[j]]
  OBVIOUS
<1>11. ASSUME NEW j \in 1 .. n PROVE r[j] \in 1 .. n /\ g[r[j]] = p[j]
  <2>1. \E i \in 1 .. n : g[i] = p[j]
    BY <1>7, <1>9
  <2>2. r[j] = CHOOSE i \in 1 .. n : g[i] = p[j]
    BY <1>10
  <2> QED BY <2>1, <2>2
<1>12. r \in [1 .. n -> 1 .. n]
  BY <1>10, <1>11
<1>13. ASSUME NEW i \in 1 .. n, NEW j \in 1 .. n, r[i] = r[j] PROVE i = j
  <2>1. p[i] = p[j]
    BY <1>11, <1>13
  <2>2. i \in DOMAIN p /\ j \in DOMAIN p
    BY <1>4
  <2> QED BY <1>4, <2>1, <2>2 DEF IsInjective
<1>14. ASSUME NEW j \in 1 .. n PROVE u[j] = t[r[j]]
  <2>1. PICK i \in 1 .. n : i = r[j]
    BY <1>11
  <2>2. t[i] = q[p[j]]
    BY <1>1, <1>11, <2>1
  <2> QED BY <1>7, <2>1, <2>2
<1>15. MovedBy(u, t, r, n) /\ Numbers(u, n) /\ Numbers(t, n)
  BY <1>7, <1>11, <1>13, <1>14 DEF MovedBy, Numbers
<1>16. ASSUME NEW k \in 1 .. n PROVE u[k] = t[k]
  <2>1. ~(u[k] < t[k]) /\ ~(u[k] > t[k])
    BY <1>8, <1>15, RisesNoHigher, RisesNoLower
  <2>2. u[k] \in Nat /\ t[k] \in Nat
    BY <1>7
  <2> QED BY <2>1, <2>2
<1> QED BY <1>6, <1>7, <1>16

LEMMA SortKept ==
    ASSUME NEW P, NEW n, Spells(list, P, n, dsModel), ListSort
    PROVE  ListSpelled(list', dsModel')
<1>1. dsModel \in Seq(Elems) /\ n = Len(dsModel) /\ n \in Nat /\ list.len = n
  BY SpellsLength
<1>2. n >= 1
  BY <1>1 DEF ListSort
<1>3. CASE list.byValue
  <2>1. PICK t : Spells(Sorted(list, n - 1), P, n, t) /\ Rearranged(dsModel, t, n) /\ Rising(t, n)
    BY <1>2, SortSorts
  <2>2. t \in [1 .. n -> Nat]
    BY <2>1, SpellsNumbers
  <2>3. dsModel \in Seq(Nat)
    <3>1. dsModel \in [1 .. n -> Nat]
      BY SpellsNumbers
    <3> QED BY <1>1, <3>1, FunctionIsSeq, LenProperties
  <2>4. Ascending(dsModel) = t
    BY <1>1, <2>1, <2>2, <2>3, AscendingIs
  <2>5. list' = Sorted(list, n - 1) /\ dsModel' = t
    BY <1>1, <1>3, <2>4 DEF ListSort
  <2> QED BY <2>1, <2>5 DEF ListSpelled
<1>4. CASE ~list.byValue
  <2>1. list' = list /\ dsModel' = dsModel
    BY <1>4 DEF ListSort
  <2> QED BY <2>1 DEF ListSpelled
<1> QED BY <1>3, <1>4

-----------------------------------------------------------------------------
(* The list spells its sequence.                                           *)
ListInv == dsKind = "list" => ListSpelled(list, dsModel)

LEMMA ListStarts == ContainersInit => ListInv
<1> SUFFICES ASSUME ContainersInit, dsKind = "list" PROVE ListSpelled(list, dsModel)
  BY DEF ListInv
<1>1. dsModel = <<>>
  BY DEF ContainersInit
<1>2. PICK byValue \in BOOLEAN :
          list = [head |-> 0, tail |-> 0, len |-> 0, byValue |-> byValue, used |-> {},
                  next |-> [y \in Nodes |-> 0], prev |-> [y \in Nodes |-> 0], data |-> [y \in Nodes |-> 0]]
  BY DEF ContainersInit
<1>3. list.head = 0 /\ list.tail = 0 /\ list.len = 0 /\ list.used = {}
  BY <1>2
<1>4. list \in ListRecords
  <2>1. 0 \in LinkVals
    BY NullIsNoNode
  <2>2. [y \in Nodes |-> 0] \in [Nodes -> LinkVals] /\ [y \in Nodes |-> 0] \in [Nodes -> Nat]
    BY <2>1
  <2> QED BY <1>2, <2>1, <2>2 DEF ListRecords
<1>5. PICK P : P = [i \in 0 .. 0 + 1 |-> 0]
  OBVIOUS
<1>6. WalkOf(P, 0)
  <2>1. P \in [0 .. 0 + 1 -> LinkVals]
    BY <1>5, NullIsNoNode
  <2>2. P[0] = 0 /\ P[0 + 1] = 0
    BY <1>5
  <2>3. \A i \in 1 .. 0 : FALSE
    OBVIOUS
  <2> QED BY <2>1, <2>2, <2>3 DEF WalkOf
<1>7. UsesAll(list, P, 0) /\ LinkedAs(list, P, 0)
  <2>1. \A i \in 1 .. 0 : FALSE
    OBVIOUS
  <2>2. P[0] = 0 /\ P[1] = 0
    BY <1>5
  <2> QED BY <1>3, <2>1, <2>2 DEF UsesAll, LinkedAs
<1>8. DataIs(list, P, 0, dsModel)
  <2>1. <<>> \in Seq(Elems) /\ Len(<<>>) = 0 /\ \A i \in 1 .. 0 : FALSE
    OBVIOUS
  <2> QED BY <1>1, <2>1 DEF DataIs
<1>9. Spells(list, P, 0, dsModel)
  BY <1>3, <1>4, <1>6, <1>7, <1>8 DEF Spells
<1> QED BY <1>9 DEF ListSpelled

LEMMA ListKept == ASSUME ListInv, [ContainersNext]_containerVars PROVE ListInv'
<1>1. CASE UNCHANGED containerVars
  BY <1>1 DEF ListInv, ListSpelled, containerVars
<1>2. CASE dsKind' = dsKind /\ dsKind # "list"
  BY <1>2 DEF ListInv
<1>3. ASSUME dsKind' = dsKind, dsKind = "list", ListStep \/ Growing PROVE ListSpelled(list', dsModel')
  <2>1. PICK P, n : Spells(list, P, n, dsModel)
    BY <1>3 DEF ListInv, ListSpelled
  <2>2. ~StackPop /\ \A x : ~StackPush(x) /\ ~QueuePush(x) /\ ~MailboxPut(x)
    BY <1>3, ZenonT(20) DEF StackPop, StackPush, QueuePush, MailboxPut
  <2>3. CASE Growing
    <3>1. PICK x \in Elems : ListAppend(x) \/ ListPrepend(x) \/ \E i \in 0 .. DsSize : ListInsert(i, x)
      BY <2>2, <2>3, ZenonT(20) DEF Growing
    <3>2. CASE ListAppend(x)
      BY <2>1, <3>2, AppendKept
    <3>3. CASE ListPrepend(x)
      BY <2>1, <3>3, PrependKept
    <3>4. ASSUME NEW i \in 0 .. DsSize, ListInsert(i, x) PROVE ListSpelled(list', dsModel')
      BY <2>1, <3>4, InsertKept
    <3> QED BY <3>1, <3>2, <3>3, <3>4
  <2>4. CASE ListStep
    <3>1. \/ ListPop \/ ListPopFront \/ ListReverse \/ ListSort
          \/ \E x \in Elems : ListRemoveVal(x) \/ \E i \in 0 .. DsSize : ListSet(i, x)
          \/ \E i \in 0 .. DsSize : ListRemove(i)
      BY <2>2, <2>4, ZenonT(20) DEF ListStep
    <3>2. CASE ListPop
      BY <2>1, <3>2, PopKept
    <3>3. CASE ListPopFront
      BY <2>1, <3>3, PopFrontKept
    <3>4. CASE ListReverse
      BY <2>1, <3>4, ReverseKept
    <3>5. CASE ListSort
      BY <2>1, <3>5, SortKept
    <3>6. ASSUME NEW x \in Elems, ListRemoveVal(x) PROVE ListSpelled(list', dsModel')
      BY <2>1, <3>6, RemoveValKept
    <3>7. ASSUME NEW x \in Elems, NEW i \in 0 .. DsSize, ListSet(i, x) PROVE ListSpelled(list', dsModel')
      BY <2>1, <3>7, SetKept
    <3>8. ASSUME NEW i \in 0 .. DsSize, ListRemove(i) PROVE ListSpelled(list', dsModel')
      <4>1. list.len = n /\ n \in Nat
        BY <2>1, SpellsLength
      <4>2. i < list.len /\ list' = Unlinked(list, NodeAt(list, i)) /\ dsModel' = Without(dsModel, i + 1)
        BY <3>8 DEF ListRemove
      <4>3. i \in 0 .. list.len - 1
        BY <4>1, <4>2
      <4> QED BY <2>1, <4>2, <4>3, RemoveKept
    <3> QED BY <3>1, <3>2, <3>3, <3>4, <3>5, <3>6, <3>7, <3>8
  <2> QED BY <1>3, <2>3, <2>4
<1>4. ASSUME dsKind' = dsKind, ListStep \/ Growing PROVE ListInv'
  BY <1>2, <1>3, <1>4 DEF ListInv
<1>5. CASE ~UNCHANGED containerVars
  <2>1. dsKind' = dsKind
    BY <1>5, KindCalls
  <2>2. dsKind = "list" => ListStep \/ Growing
    BY <1>5, KindCalls
  <2> QED BY <1>2, <1>4, <2>1, <2>2
<1> QED BY <1>1, <1>5

LEMMA ListInvGives == ListInv => ListAgrees
<1> SUFFICES ASSUME ListInv, dsKind = "list"
             PROVE  /\ Data(list) = dsModel /\ list.len = Len(dsModel)
                    /\ list.used = {NodeAt(list, i) : i \in 0 .. list.len - 1}
                    /\ Data([list EXCEPT !.head = list.tail, !.next = list.prev]) = Reverse(dsModel)
  BY DEF ListAgrees
<1>1. PICK P, n : Spells(list, P, n, dsModel)
  BY DEF ListInv, ListSpelled
<1>2. dsModel \in Seq(Elems) /\ n = Len(dsModel) /\ n \in Nat /\ list.len = n /\ list \in ListRecords /\ WalkOf(P, n)
  BY <1>1, SpellsLength, SpellsNodes
<1>0. n \in Nat
  BY <1>2
<1>3. \A k \in 0 .. n : NodeAt(list, k) = P[k + 1]
  BY <1>1, SpellsNode
<1>4. \A i \in 1 .. n : list.data[P[i]] = dsModel[i] /\ list.prev[P[i]] = P[i - 1]
  BY <1>1, SpellsNodes DEF Spells, DataIs
<1>5. Data(list) = dsModel
  <2>1. \A i \in 1 .. n : i - 1 \in 0 .. n /\ (i - 1) + 1 = i
    BY <1>2
  <2>2. \A i \in 1 .. n : list.data[NodeAt(list, i - 1)] = dsModel[i]
    BY <1>3, <1>4, <2>1
  <2>3. dsModel = [i \in 1 .. n |-> dsModel[i]]
    BY <1>2, LenProperties
  <2> QED BY <1>2, <2>2, <2>3 DEF Data
<1>6. list.used = {NodeAt(list, i) : i \in 0 .. n - 1}
  <2>1. \A y : y \in list.used <=> \E i \in 1 .. n : y = P[i]
    BY <1>1 DEF Spells, UsesAll
  <2>2. ASSUME NEW i \in 1 .. n PROVE \E k \in 0 .. n - 1 : NodeAt(list, k) = P[i]
    <3>1. i - 1 \in 0 .. n - 1 /\ i - 1 \in 0 .. n /\ (i - 1) + 1 = i
      BY <1>2
    <3> QED BY <1>3, <3>1
  <2>3. ASSUME NEW k \in 0 .. n - 1 PROVE \E i \in 1 .. n : NodeAt(list, k) = P[i]
    <3>1. k \in 0 .. n /\ k + 1 \in 1 .. n
      BY <1>2
    <3> QED BY <1>3, <3>1
  <2>4. \A y : y \in list.used <=> \E k \in 0 .. n - 1 : y = NodeAt(list, k)
    BY <2>1, <2>2, <2>3
  <2> QED BY <2>4
<1>7. PICK b : b = [list EXCEPT !.head = list.tail, !.next = list.prev]
  OBVIOUS
<1>8. b.head = list.tail /\ b.next = list.prev /\ b.data = list.data /\ b.len = n
  BY <1>2, <1>7 DEF ListRecords
<1>9. PICK R : R = BackOf(P, n)
  OBVIOUS
<1>10. ASSUME NEW i \in 1 .. n
       PROVE  n + 1 - i \in 1 .. n /\ R[i] = P[n + 1 - i] /\ R[i + 1] = P[(n + 1 - i) - 1]
  <2>1. n + 1 - i \in 1 .. n /\ BackOf(P, n)[i] = P[n + 1 - i] /\ BackOf(P, n)[i + 1] = P[(n + 1 - i) - 1]
    BY <1>0, BackSteps
  <2> QED BY <1>9, <2>1
<1>11. b.head = R[1]
  <2>1. list.tail = P[n]
    BY <1>1, SpellsNodes
  <2>2. 1 \in 0 .. n + 1 /\ n + 1 - 1 = n
    BY <1>2
  <2> QED BY <1>8, <1>9, <2>1, <2>2 DEF BackOf
<1>12. \A i \in 1 .. n : b.next[R[i]] = R[i + 1]
  <2> SUFFICES ASSUME NEW i \in 1 .. n PROVE b.next[R[i]] = R[i + 1]
    OBVIOUS
  <2>1. PICK j \in 1 .. n : j = n + 1 - i
    BY <1>10
  <2>2. R[i] = P[j] /\ R[i + 1] = P[j - 1]
    BY <1>10, <2>1
  <2> QED BY <1>4, <1>8, <2>2
<1>13. ASSUME NEW i \in 1 .. n PROVE b.data[NodeAt(b, i - 1)] = dsModel[(n - i) + 1]
  <2>1. PICK k \in 0 .. n : k = i - 1 /\ k + 1 = i
    BY <1>2
  <2>2. NodeAt(b, k) = R[k + 1]
    BY <1>0, <1>11, <1>12, NodeAtIs
  <2>3. PICK j \in 1 .. n : j = n + 1 - i /\ j = (n - i) + 1
    <3>1. n + 1 - i \in 1 .. n /\ n + 1 - i = (n - i) + 1
      BY <1>0
    <3> QED BY <3>1
  <2>4. R[i] = P[j]
    BY <1>10, <2>3
  <2> QED BY <1>4, <1>8, <2>1, <2>2, <2>3, <2>4
<1>14. Data(b) = Reverse(dsModel)
  <2>1. Data(b) = [i \in 1 .. n |-> b.data[NodeAt(b, i - 1)]]
    BY <1>8 DEF Data
  <2>2. Reverse(dsModel) = [i \in 1 .. n |-> dsModel[(n - i) + 1]]
    BY <1>2 DEF Reverse
  <2> QED BY <1>13, <2>1, <2>2
<1> QED BY <1>2, <1>5, <1>6, <1>7, <1>14

(* The links of a list, followed in either direction, pass the elements of *)
(* the sequence that the calls made of it, the sort included, and no other *)
(* node is allocated (pny_list).                                           *)
THEOREM ListsAreSequences == ContainersSpec => []ListAgrees
<1>1. ListInv => ListAgrees
  BY ListInvGives
<1>2. ListInv /\ [ContainersNext]_containerVars => ListInv'
  BY ListKept
<1>3. ContainersInit => ListInv
  BY ListStarts
<1> QED BY <1>1, <1>2, <1>3, PTL DEF ContainersSpec

(* All of them together: what the memory of a container spells is its      *)
(* value.                                                                  *)
THEOREM ContainersAreSound == ContainersSpec => []ContainersAgree
<1>1. RingAgrees /\ TablesAgree /\ ListAgrees => ContainersAgree
  BY DEF ContainersAgree
<1> QED BY <1>1, RingsAreQueues, TablesAreSets, ListsAreSequences, PTL
=============================================================================
