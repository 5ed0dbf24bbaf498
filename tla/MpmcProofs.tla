----------------------------- MODULE MpmcProofs -----------------------------
(***************************************************************************)
(* Proofs about MpmcQueue: typing, that no two threads are ever at the     *)
(* data of one slot, and that it implements BoundedFifo, for any number of *)
(* threads and any capacity above 1.                                       *)
(***************************************************************************)
EXTENDS MpmcQueue, FiniteSetTheorems, SequenceTheorems, TLAPS

Calls == {Fifo!Idle, Fifo!Dequeue, Fifo!Size} \cup {Fifo!Enqueue(v) : v \in Values}
Answers == Values \cup {Nothing} \cup 0 .. SizeMod - 1

(* TypeOK, and that call and got are functions on the threads.             *)
TypeInv ==
    /\ TypeOK
    /\ call \in [Threads -> Calls]
    /\ got \in [Threads -> Answers]

(* A position has a slot, and two positions in a row have different ones,  *)
(* since the capacity is at least 2 (mpmc.c rounds it up).                 *)
LEMMA SlotLemma ==
    ASSUME NEW p \in Nat
    PROVE  Slot(p) \in 0 .. Capacity - 1 /\ Slot(p + 1) # Slot(p)
<1>1. Capacity \in Nat /\ Capacity >= 2
  BY QueueAssumption
<1>2. /\ p % Capacity \in 0 .. Capacity - 1
      /\ p \div Capacity \in Int /\ (p + 1) \div Capacity \in Int
      /\ p = Capacity * (p \div Capacity) + (p % Capacity)
      /\ p + 1 = Capacity * ((p + 1) \div Capacity) + ((p + 1) % Capacity)
  BY <1>1
<1>3. ASSUME (p + 1) % Capacity = p % Capacity PROVE FALSE
  <2> DEFINE d == (p + 1) \div Capacity - p \div Capacity
  <2>1. d \in Int /\ Capacity * d = 1
    BY <1>1, <1>2, <1>3
  <2> HIDE DEF d
  <2>2. CASE d <= 0
    BY <1>1, <2>1, <2>2
  <2>3. CASE d >= 1
    BY <1>1, <2>1, <2>3
  <2> QED BY <2>1, <2>2, <2>3
<1> QED BY <1>2, <1>3 DEF Slot

LEMMA TypeInit == Init => TypeInv
<1> SUFFICES ASSUME Init PROVE TypeInv
  OBVIOUS
<1>1. call \in [Threads -> Calls] /\ got \in [Threads -> Answers]
  BY DEF Init, Calls, Answers
<1>2. TypeOK
  BY <1>1, QueueAssumption DEF Init, TypeOK, Calls, Answers
<1> QED BY <1>1, <1>2 DEF TypeInv

(* The operations a call can be, by its op.                                *)
LEMMA CallKinds ==
    ASSUME NEW c \in Calls
    PROVE  /\ c.op \in {"none", "enqueue", "dequeue", "size"}
           /\ c.op = "enqueue" => c.value \in Values
  BY DEF Calls, Fifo!Idle, Fifo!Dequeue, Fifo!Size, Fifo!Enqueue

LEMMA TypeStep == TypeInv /\ [Next]_vars => TypeInv'
<1> SUFFICES ASSUME TypeInv, [Next]_vars PROVE TypeInv'
  OBVIOUS
<1> USE QueueAssumption DEF TypeInv, TypeOK, Calls, Answers, shared, totals, local, vars, At, Goto, Answer
<1>1. CASE UNCHANGED vars
  BY <1>1
<1>2. ASSUME NEW t \in Threads, Start(t) PROVE TypeInv'
  BY <1>2 DEF Start
<1>3. ASSUME NEW t \in Threads, Return(t) PROVE TypeInv'
  BY <1>3 DEF Return
<1>4. ASSUME NEW t \in Threads, EnqueueLoad(t) PROVE TypeInv'
  BY <1>4 DEF EnqueueLoad
<1>5. ASSUME NEW t \in Threads, EnqueueCheck(t) PROVE TypeInv'
  BY <1>5 DEF EnqueueCheck
<1>6. ASSUME NEW t \in Threads, EnqueueReserve(t) PROVE TypeInv'
  BY <1>6 DEF EnqueueReserve
<1>7. ASSUME NEW t \in Threads, EnqueueRetry(t) PROVE TypeInv'
  BY <1>7 DEF EnqueueRetry
<1>8. ASSUME NEW t \in Threads, EnqueueWrite(t) PROVE TypeInv'
  BY CallKinds, SlotLemma, <1>8 DEF EnqueueWrite
<1>9. ASSUME NEW t \in Threads, EnqueuePublish(t) PROVE TypeInv'
  <2>1. pos[t] + 1 \in Nat
    OBVIOUS
  <2>2. sequence' \in [0 .. Capacity - 1 -> Nat]
    BY <1>9, <2>1 DEF EnqueuePublish
  <2> QED BY <1>9, <2>2 DEF EnqueuePublish
<1>10. ASSUME NEW t \in Threads, EnqueueCount(t) PROVE TypeInv'
  BY CallKinds, <1>10 DEF EnqueueCount
<1>11. ASSUME NEW t \in Threads, DequeueLoad(t) PROVE TypeInv'
  BY <1>11 DEF DequeueLoad
<1>12. ASSUME NEW t \in Threads, DequeueCheck(t) PROVE TypeInv'
  BY <1>12 DEF DequeueCheck
<1>13. ASSUME NEW t \in Threads, DequeueReserve(t) PROVE TypeInv'
  BY <1>13 DEF DequeueReserve
<1>14. ASSUME NEW t \in Threads, DequeueRetry(t) PROVE TypeInv'
  BY <1>14 DEF DequeueRetry
<1>15. ASSUME NEW t \in Threads, DequeueRead(t) PROVE TypeInv'
  BY SlotLemma, <1>15 DEF DequeueRead
<1>16. ASSUME NEW t \in Threads, DequeueRelease(t) PROVE TypeInv'
  <2>1. pos[t] + Capacity \in Nat
    OBVIOUS
  <2>2. sequence' \in [0 .. Capacity - 1 -> Nat]
    BY <1>16, <2>1 DEF DequeueRelease
  <2> QED BY <1>16, <2>2 DEF DequeueRelease
<1>17. ASSUME NEW t \in Threads, DequeueCount(t) PROVE TypeInv'
  BY <1>17 DEF DequeueCount
<1>18. ASSUME NEW t \in Threads, SizeLoadEnqueued(t) PROVE TypeInv'
  BY <1>18 DEF SizeLoadEnqueued
<1>19. ASSUME NEW t \in Threads, SizeLoadDequeued(t) PROVE TypeInv'
  BY <1>19 DEF SizeLoadDequeued
<1> QED BY <1>1, <1>2, <1>3, <1>4, <1>5, <1>6, <1>7, <1>8, <1>9, <1>10, <1>11, <1>12, <1>13,
           <1>14, <1>15, <1>16, <1>17, <1>18, <1>19 DEF Next, Step

-----------------------------------------------------------------------------
(* What a thread's local position says about the queue.  Holds(t, op): t   *)
(* has reserved its slot for op and not yet passed it on.                  *)

Holds(t, op) == call[t].op = op /\ pc[t] \in {"move", "publish"}

(* A reserved slot keeps the sequence number it was reserved at, since     *)
(* only the thread that holds it may change it; and its position lies      *)
(* behind the queue's.                                                     *)
HeldByWriter ==
    \A t \in Threads : Holds(t, "enqueue") =>
        sequence[Slot(pos[t])] = pos[t] /\ pos[t] < enqueue_pos
HeldByReader ==
    \A t \in Threads : Holds(t, "dequeue") =>
        sequence[Slot(pos[t])] = pos[t] + 1 /\ pos[t] < dequeue_pos

(* No position is reserved twice for the same operation.                   *)
ReservedOnce ==
    \A t, u \in Threads, op \in {"enqueue", "dequeue"} :
        Holds(t, op) /\ Holds(u, op) /\ pos[t] = pos[u] => t = u

(* Once a slot was found free (or full), it is so until the queue's        *)
(* position moves on, which makes the compare-exchange fail.               *)
FreeForWriter ==
    \A t \in Threads : At(t, "enqueue", "cas") =>
        /\ pos[t] <= enqueue_pos
        /\ sequence[Slot(pos[t])] = pos[t] \/ pos[t] < enqueue_pos
FullForReader ==
    \A t \in Threads : At(t, "dequeue", "cas") =>
        /\ pos[t] <= dequeue_pos
        /\ sequence[Slot(pos[t])] = pos[t] + 1 \/ pos[t] < dequeue_pos

(* A position that was loaded is not ahead of the queue's.                 *)
LoadedBehind ==
    \A t \in Threads :
        /\ At(t, "enqueue", "check") => pos[t] <= enqueue_pos
        /\ At(t, "dequeue", "check") => pos[t] <= dequeue_pos

(* Only these two operations come to where slots are held.                 *)
HoldersMove ==
    \A t \in Threads : pc[t] \in {"cas", "move", "publish"} => call[t].op \in {"enqueue", "dequeue"}

SlotInv ==
    /\ HeldByWriter /\ HeldByReader /\ ReservedOnce
    /\ FreeForWriter /\ FullForReader /\ LoadedBehind /\ HoldersMove

LEMMA SlotInit == Init => SlotInv
  BY DEF Init, SlotInv, HeldByWriter, HeldByReader, ReservedOnce, FreeForWriter, FullForReader,
         LoadedBehind, HoldersMove, Holds, At

(* A holder's slot differs from that of a reader or a writer whose         *)
(* sequence number does not fit.                                           *)
LEMMA SlotsApart ==
    ASSUME TypeInv, NEW t \in Threads, NEW u \in Threads
    PROVE  /\ pos[t] \in Nat /\ Slot(pos[t]) \in 0 .. Capacity - 1
           /\ sequence[Slot(pos[t])] \in Nat
           /\ pos[u] = pos[t] + 1 => Slot(pos[u]) # Slot(pos[t])
<1>1. pos[t] \in Nat /\ pos[u] \in Nat
  BY DEF TypeInv, TypeOK
<1>2. Slot(pos[t]) \in 0 .. Capacity - 1 /\ Slot(pos[t] + 1) # Slot(pos[t])
  BY <1>1, SlotLemma
<1> QED BY <1>1, <1>2 DEF TypeInv, TypeOK

LEMMA SlotStep == TypeInv /\ SlotInv /\ [Next]_vars => SlotInv'
<1> SUFFICES ASSUME TypeInv, SlotInv, [Next]_vars PROVE SlotInv'
  OBVIOUS
<1>0. /\ pc \in [Threads -> {"idle", "load", "check", "cas", "move", "publish", "count", "return"}]
      /\ pos \in [Threads -> Nat] /\ call \in [Threads -> Calls]
      /\ sequence \in [0 .. Capacity - 1 -> Nat]
      /\ enqueue_pos \in Nat /\ dequeue_pos \in Nat
  BY DEF TypeInv, TypeOK
<1>t. \A t, u \in Threads :
         /\ pos[t] \in Nat /\ Slot(pos[t]) \in 0 .. Capacity - 1
         /\ sequence[Slot(pos[t])] \in Nat
         /\ pos[u] = pos[t] + 1 => Slot(pos[u]) # Slot(pos[t])
  BY SlotsApart
<1>k. \A t \in Threads : call[t].op \in {"none", "enqueue", "dequeue", "size"}
  BY <1>0, CallKinds
<1> USE DEF SlotInv, HeldByWriter, HeldByReader, ReservedOnce, FreeForWriter, FullForReader,
            LoadedBehind, HoldersMove, Holds, At, Goto, Answer
<1>1. CASE UNCHANGED vars
  BY <1>1 DEF vars, shared, totals, local
<1>2. ASSUME NEW t \in Threads, Start(t) PROVE SlotInv'
  BY <1>0, <1>2 DEF Start, shared
<1>3. ASSUME NEW t \in Threads, Return(t) PROVE SlotInv'
  BY <1>0, <1>t, <1>k, <1>3 DEF Return, shared
<1>4. ASSUME NEW t \in Threads, EnqueueLoad(t) PROVE SlotInv'
  BY <1>0, <1>t, <1>k, <1>4 DEF EnqueueLoad, shared
<1>5. ASSUME NEW t \in Threads, EnqueueCheck(t) PROVE SlotInv'
  <2>1. pc'[t] = "cas" => sequence[Slot(pos[t])] = pos[t]
    BY <1>0, <1>t, <1>5 DEF EnqueueCheck
  <2>2. FreeForWriter'
    BY <1>0, <1>5, <2>1 DEF EnqueueCheck, shared
  <2>3. HeldByWriter' /\ HeldByReader' /\ ReservedOnce' /\ FullForReader' /\ LoadedBehind' /\ HoldersMove'
    BY <1>0, <1>5 DEF EnqueueCheck, shared
  <2> QED BY <2>2, <2>3
<1>6. ASSUME NEW t \in Threads, EnqueueReserve(t) PROVE SlotInv'
  <2>1. HeldByWriter'
    BY <1>0, <1>t, <1>k, <1>6 DEF EnqueueReserve, totals
  <2>2. HeldByReader'
    BY <1>0, <1>t, <1>k, <1>6 DEF EnqueueReserve, totals
  <2>3. ReservedOnce'
    BY <1>0, <1>t, <1>k, <1>6 DEF EnqueueReserve, totals
  <2>4. FreeForWriter'
    BY <1>0, <1>t, <1>k, <1>6 DEF EnqueueReserve, totals
  <2>5. FullForReader'
    BY <1>0, <1>t, <1>k, <1>6 DEF EnqueueReserve, totals
  <2>6. LoadedBehind'
    BY <1>0, <1>t, <1>k, <1>6 DEF EnqueueReserve, totals
  <2>7. HoldersMove'
    BY <1>0, <1>t, <1>k, <1>6 DEF EnqueueReserve, totals
  <2> QED BY <2>1, <2>2, <2>3, <2>4, <2>5, <2>6, <2>7
<1>7. ASSUME NEW t \in Threads, EnqueueRetry(t) PROVE SlotInv'
  BY <1>0, <1>t, <1>k, <1>7 DEF EnqueueRetry, shared
<1>8. ASSUME NEW t \in Threads, EnqueueWrite(t) PROVE SlotInv'
  BY <1>0, <1>t, <1>k, <1>8 DEF EnqueueWrite, shared
<1>9. ASSUME NEW t \in Threads, EnqueuePublish(t) PROVE SlotInv'
  <2>1. HeldByWriter'
    BY <1>0, <1>t, <1>k, <1>9 DEF EnqueuePublish, totals
  <2>2. HeldByReader'
    BY <1>0, <1>t, <1>k, <1>9 DEF EnqueuePublish, totals
  <2>3. ReservedOnce'
    BY <1>0, <1>t, <1>k, <1>9 DEF EnqueuePublish, totals
  <2>4. FreeForWriter'
    BY <1>0, <1>t, <1>k, <1>9 DEF EnqueuePublish, totals
  <2>5. FullForReader'
    BY <1>0, <1>t, <1>k, <1>9 DEF EnqueuePublish, totals
  <2>6. LoadedBehind'
    BY <1>0, <1>t, <1>k, <1>9 DEF EnqueuePublish, totals
  <2>7. HoldersMove'
    BY <1>0, <1>t, <1>k, <1>9 DEF EnqueuePublish, totals
  <2> QED BY <2>1, <2>2, <2>3, <2>4, <2>5, <2>6, <2>7
<1>10. ASSUME NEW t \in Threads, EnqueueCount(t) PROVE SlotInv'
  BY <1>0, <1>t, <1>k, <1>10 DEF EnqueueCount, shared
<1>11. ASSUME NEW t \in Threads, DequeueLoad(t) PROVE SlotInv'
  BY <1>0, <1>t, <1>k, <1>11 DEF DequeueLoad, shared
<1>12. ASSUME NEW t \in Threads, DequeueCheck(t) PROVE SlotInv'
  <2>1. HeldByWriter' /\ HeldByReader' /\ ReservedOnce'
    BY <1>0, <1>12 DEF DequeueCheck, shared
  <2>2. FreeForWriter'
    BY <1>0, <1>t, <1>k, <1>12 DEF DequeueCheck, shared
  <2>3. pc'[t] = "cas" => sequence[Slot(pos[t])] = pos[t] + 1
    BY <1>0, <1>t, <1>12 DEF DequeueCheck
  <2>4. FullForReader'
    BY <1>0, <1>12, <2>3 DEF DequeueCheck, shared
  <2>5. LoadedBehind' /\ HoldersMove'
    BY <1>0, <1>12 DEF DequeueCheck, shared
  <2> QED BY <2>1, <2>2, <2>4, <2>5
<1>13. ASSUME NEW t \in Threads, DequeueReserve(t) PROVE SlotInv'
  <2>1. HeldByWriter'
    BY <1>0, <1>t, <1>k, <1>13 DEF DequeueReserve, totals
  <2>2. HeldByReader'
    BY <1>0, <1>t, <1>k, <1>13 DEF DequeueReserve, totals
  <2>3. ReservedOnce'
    BY <1>0, <1>t, <1>k, <1>13 DEF DequeueReserve, totals
  <2>4. FreeForWriter'
    BY <1>0, <1>t, <1>k, <1>13 DEF DequeueReserve, totals
  <2>5. FullForReader'
    BY <1>0, <1>t, <1>k, <1>13 DEF DequeueReserve, totals
  <2>6. LoadedBehind'
    BY <1>0, <1>t, <1>k, <1>13 DEF DequeueReserve, totals
  <2>7. HoldersMove'
    BY <1>0, <1>t, <1>k, <1>13 DEF DequeueReserve, totals
  <2> QED BY <2>1, <2>2, <2>3, <2>4, <2>5, <2>6, <2>7
<1>14. ASSUME NEW t \in Threads, DequeueRetry(t) PROVE SlotInv'
  BY <1>0, <1>t, <1>k, <1>14 DEF DequeueRetry, shared
<1>15. ASSUME NEW t \in Threads, DequeueRead(t) PROVE SlotInv'
  BY <1>0, <1>t, <1>k, <1>15 DEF DequeueRead, shared
<1>16. ASSUME NEW t \in Threads, DequeueRelease(t) PROVE SlotInv'
  <2>1. HeldByWriter'
    BY <1>0, <1>t, <1>k, <1>16 DEF DequeueRelease, totals
  <2>2. HeldByReader'
    BY <1>0, <1>t, <1>k, <1>16 DEF DequeueRelease, totals
  <2>3. ReservedOnce'
    BY <1>0, <1>t, <1>k, <1>16 DEF DequeueRelease, totals
  <2>4. FreeForWriter'
    BY <1>0, <1>t, <1>k, <1>16 DEF DequeueRelease, totals
  <2>5. FullForReader'
    BY <1>0, <1>t, <1>k, <1>16 DEF DequeueRelease, totals
  <2>6. LoadedBehind'
    BY <1>0, <1>t, <1>k, <1>16 DEF DequeueRelease, totals
  <2>7. HoldersMove'
    BY <1>0, <1>t, <1>k, <1>16 DEF DequeueRelease, totals
  <2> QED BY <2>1, <2>2, <2>3, <2>4, <2>5, <2>6, <2>7
<1>17. ASSUME NEW t \in Threads, DequeueCount(t) PROVE SlotInv'
  BY <1>0, <1>t, <1>k, <1>17 DEF DequeueCount, shared
<1>18. ASSUME NEW t \in Threads, SizeLoadEnqueued(t) PROVE SlotInv'
  BY <1>0, <1>t, <1>k, <1>18 DEF SizeLoadEnqueued, shared
<1>19. ASSUME NEW t \in Threads, SizeLoadDequeued(t) PROVE SlotInv'
  BY <1>0, <1>t, <1>k, <1>19 DEF SizeLoadDequeued, shared
<1> QED BY <1>1, <1>2, <1>3, <1>4, <1>5, <1>6, <1>7, <1>8, <1>9, <1>10, <1>11, <1>12, <1>13,
           <1>14, <1>15, <1>16, <1>17, <1>18, <1>19 DEF Next, Step

LEMMA Safety == Spec => [](TypeInv /\ SlotInv)
  BY TypeInit, TypeStep, SlotInit, SlotStep, PTL DEF Spec

(* The state of the queue and of the threads in it keeps its types.        *)
THEOREM TypeCorrect == Spec => []TypeOK
<1>1. TypeInv => TypeOK
  BY DEF TypeInv
<1> QED BY <1>1, Safety, PTL

LEMMA Exclusive == TypeInv /\ SlotInv => SlotExclusive
<1> SUFFICES ASSUME TypeInv, SlotInv, NEW t \in Threads, NEW u \in Threads,
                    pc[t] \in {"move", "publish"}, pc[u] \in {"move", "publish"},
                    Slot(pos[t]) = Slot(pos[u])
             PROVE  t = u
  BY DEF SlotExclusive
<1>1. /\ call[t].op \in {"enqueue", "dequeue"} /\ call[u].op \in {"enqueue", "dequeue"}
  BY DEF SlotInv, HoldersMove
<1>2. pos[t] \in Nat /\ pos[u] \in Nat
  BY DEF TypeInv, TypeOK
<1>3. CASE call[t].op = call[u].op
  BY <1>1, <1>2, <1>3 DEF SlotInv, HeldByWriter, HeldByReader, ReservedOnce, Holds
<1>4. CASE call[t].op # call[u].op
  <2>1. pos[t] = pos[u] + 1 \/ pos[u] = pos[t] + 1
    BY <1>1, <1>2, <1>4 DEF SlotInv, HeldByWriter, HeldByReader, Holds
  <2> QED BY <2>1, SlotsApart
<1> QED BY <1>3, <1>4

(* No two threads are ever at the data of one slot (mpmc.c:97-125, 131-150):*)
(* the sequence number of a held slot tells writer from reader, and a      *)
(* position is reserved once.                                              *)
THEOREM SlotsAreExclusive == Spec => []SlotExclusive
  BY Exclusive, Safety, PTL

-----------------------------------------------------------------------------
(* The statistics.  The operations that have reserved a slot and are not   *)
(* yet counted are the difference between a position and its total; there  *)
(* are finitely many of them, whatever the number of threads.              *)

Uncounted(op) == {t \in Threads : call[t].op = op /\ pc[t] \in {"move", "publish", "count"}}
Enqueuing == Uncounted("enqueue")
Dequeuing == Uncounted("dequeue")

CountInv ==
    /\ IsFiniteSet(Enqueuing) /\ enqueue_pos = total_enqueued + Cardinality(Enqueuing)
    /\ IsFiniteSet(Dequeuing) /\ dequeue_pos = total_dequeued + Cardinality(Dequeuing)

Steady ==
    /\ UNCHANGED <<enqueue_pos, dequeue_pos, total_enqueued, total_dequeued>>
    /\ Enqueuing' = Enqueuing /\ Dequeuing' = Dequeuing

LEMMA CountInit == Init => CountInv
<1> SUFFICES ASSUME Init PROVE CountInv
  OBVIOUS
<1>1. Enqueuing = {} /\ Dequeuing = {}
  BY DEF Init, Enqueuing, Dequeuing, Uncounted, Fifo!Idle
<1> QED BY <1>1, FS_EmptySet DEF Init, CountInv

LEMMA CountStep == TypeInv /\ CountInv /\ [Next]_vars => CountInv'
<1> SUFFICES ASSUME TypeInv, CountInv, [Next]_vars PROVE CountInv'
  OBVIOUS
<1>0. /\ pc \in [Threads -> {"idle", "load", "check", "cas", "move", "publish", "count", "return"}]
      /\ call \in [Threads -> Calls]
      /\ enqueue_pos \in Nat /\ dequeue_pos \in Nat /\ total_enqueued \in Nat /\ total_dequeued \in Nat
      /\ IsFiniteSet(Enqueuing) => Cardinality(Enqueuing) \in Nat
      /\ IsFiniteSet(Dequeuing) => Cardinality(Dequeuing) \in Nat
  BY FS_CardinalityType DEF TypeInv, TypeOK
<1>s. ASSUME Steady PROVE CountInv'
  BY <1>s DEF Steady, CountInv
<1> USE DEF At, Goto, Answer
<1>1. CASE UNCHANGED vars
  BY <1>1, <1>s DEF vars, shared, totals, local, Steady, Enqueuing, Dequeuing, Uncounted
<1>2. ASSUME NEW t \in Threads, Start(t) PROVE CountInv'
  <2>1. \A u \in Threads : u # t => call'[u] = call[u]
    BY <1>0, <1>2 DEF Start
  <2> QED BY <1>0, <1>2, <2>1, <1>s DEF Start, shared, totals, Steady, Enqueuing, Dequeuing, Uncounted
<1>3. ASSUME NEW t \in Threads, Return(t) PROVE CountInv'
  BY <1>0, <1>3, <1>s DEF Return, shared, totals, Steady, Enqueuing, Dequeuing, Uncounted
<1>4. ASSUME NEW t \in Threads, EnqueueLoad(t) PROVE CountInv'
  BY <1>0, <1>4, <1>s DEF EnqueueLoad, shared, totals, Steady, Enqueuing, Dequeuing, Uncounted
<1>5. ASSUME NEW t \in Threads, EnqueueCheck(t) PROVE CountInv'
  BY <1>0, <1>5, <1>s DEF EnqueueCheck, shared, totals, Steady, Enqueuing, Dequeuing, Uncounted
<1>6. ASSUME NEW t \in Threads, EnqueueReserve(t) PROVE CountInv'
  <2>1. t \notin Enqueuing /\ Enqueuing' = Enqueuing \cup {t} /\ Dequeuing' = Dequeuing
    BY <1>0, <1>6 DEF EnqueueReserve, Enqueuing, Dequeuing, Uncounted
  <2>2. IsFiniteSet(Enqueuing') /\ Cardinality(Enqueuing') = Cardinality(Enqueuing) + 1
    BY <2>1, FS_AddElement DEF CountInv
  <2> QED BY <1>0, <1>6, <2>1, <2>2 DEF EnqueueReserve, totals, CountInv
<1>7. ASSUME NEW t \in Threads, EnqueueRetry(t) PROVE CountInv'
  BY <1>0, <1>7, <1>s DEF EnqueueRetry, shared, totals, Steady, Enqueuing, Dequeuing, Uncounted
<1>8. ASSUME NEW t \in Threads, EnqueueWrite(t) PROVE CountInv'
  BY <1>0, <1>8, <1>s DEF EnqueueWrite, shared, totals, Steady, Enqueuing, Dequeuing, Uncounted
<1>9. ASSUME NEW t \in Threads, EnqueuePublish(t) PROVE CountInv'
  BY <1>0, <1>9, <1>s DEF EnqueuePublish, shared, totals, Steady, Enqueuing, Dequeuing, Uncounted
<1>10. ASSUME NEW t \in Threads, EnqueueCount(t) PROVE CountInv'
  <2>1. t \in Enqueuing /\ Enqueuing' = Enqueuing \ {t} /\ Dequeuing' = Dequeuing
    BY <1>0, <1>10 DEF EnqueueCount, Enqueuing, Dequeuing, Uncounted
  <2>2. IsFiniteSet(Enqueuing') /\ Cardinality(Enqueuing') = Cardinality(Enqueuing) - 1
    BY <2>1, FS_RemoveElement DEF CountInv
  <2> QED BY <1>0, <1>10, <2>1, <2>2 DEF EnqueueCount, shared, CountInv
<1>11. ASSUME NEW t \in Threads, DequeueLoad(t) PROVE CountInv'
  BY <1>0, <1>11, <1>s DEF DequeueLoad, shared, totals, Steady, Enqueuing, Dequeuing, Uncounted
<1>12. ASSUME NEW t \in Threads, DequeueCheck(t) PROVE CountInv'
  BY <1>0, <1>12, <1>s DEF DequeueCheck, shared, totals, Steady, Enqueuing, Dequeuing, Uncounted
<1>13. ASSUME NEW t \in Threads, DequeueReserve(t) PROVE CountInv'
  <2>1. t \notin Dequeuing /\ Dequeuing' = Dequeuing \cup {t} /\ Enqueuing' = Enqueuing
    BY <1>0, <1>13 DEF DequeueReserve, Enqueuing, Dequeuing, Uncounted
  <2>2. IsFiniteSet(Dequeuing') /\ Cardinality(Dequeuing') = Cardinality(Dequeuing) + 1
    BY <2>1, FS_AddElement DEF CountInv
  <2> QED BY <1>0, <1>13, <2>1, <2>2 DEF DequeueReserve, totals, CountInv
<1>14. ASSUME NEW t \in Threads, DequeueRetry(t) PROVE CountInv'
  BY <1>0, <1>14, <1>s DEF DequeueRetry, shared, totals, Steady, Enqueuing, Dequeuing, Uncounted
<1>15. ASSUME NEW t \in Threads, DequeueRead(t) PROVE CountInv'
  BY <1>0, <1>15, <1>s DEF DequeueRead, shared, totals, Steady, Enqueuing, Dequeuing, Uncounted
<1>16. ASSUME NEW t \in Threads, DequeueRelease(t) PROVE CountInv'
  BY <1>0, <1>16, <1>s DEF DequeueRelease, shared, totals, Steady, Enqueuing, Dequeuing, Uncounted
<1>17. ASSUME NEW t \in Threads, DequeueCount(t) PROVE CountInv'
  <2>1. t \in Dequeuing /\ Dequeuing' = Dequeuing \ {t} /\ Enqueuing' = Enqueuing
    BY <1>0, <1>17 DEF DequeueCount, Enqueuing, Dequeuing, Uncounted
  <2>2. IsFiniteSet(Dequeuing') /\ Cardinality(Dequeuing') = Cardinality(Dequeuing) - 1
    BY <2>1, FS_RemoveElement DEF CountInv
  <2> QED BY <1>0, <1>17, <2>1, <2>2 DEF DequeueCount, shared, CountInv
<1>18. ASSUME NEW t \in Threads, SizeLoadEnqueued(t) PROVE CountInv'
  BY <1>0, <1>18, <1>s DEF SizeLoadEnqueued, shared, totals, Steady, Enqueuing, Dequeuing, Uncounted
<1>19. ASSUME NEW t \in Threads, SizeLoadDequeued(t) PROVE CountInv'
  BY <1>0, <1>19, <1>s DEF SizeLoadDequeued, shared, totals, Steady, Enqueuing, Dequeuing, Uncounted
<1> QED BY <1>1, <1>2, <1>3, <1>4, <1>5, <1>6, <1>7, <1>8, <1>9, <1>10, <1>11, <1>12, <1>13,
           <1>14, <1>15, <1>16, <1>17, <1>18, <1>19 DEF Next, Step

(* When no operation is running, the statistics say how many elements the  *)
(* queue holds.                                                            *)
THEOREM QuiescentSizeCorrect == Spec => []QuiescentSizeIsExact
<1>1. TypeInv /\ CountInv => QuiescentSizeIsExact
  <2> SUFFICES ASSUME TypeInv, CountInv, \A t \in Threads : pc[t] = "idle"
               PROVE  total_enqueued - total_dequeued = enqueue_pos - dequeue_pos
    BY DEF QuiescentSizeIsExact
  <2>1. Enqueuing = {} /\ Dequeuing = {}
    BY DEF Enqueuing, Dequeuing, Uncounted
  <2>2. Cardinality(Enqueuing) = 0 /\ Cardinality(Dequeuing) = 0
    BY <2>1, FS_EmptySet
  <2> QED BY <2>2 DEF CountInv, TypeInv, TypeOK
<1>2. Spec => []CountInv
  <2>1. Spec => [](TypeInv /\ SlotInv)
    BY Safety
  <2> QED BY <2>1, CountInit, CountStep, PTL DEF Spec
<1> QED BY <1>1, <1>2, Safety, PTL

-----------------------------------------------------------------------------
(* MpmcQueue implements BoundedFifo: its operations take effect at their   *)
(* compare-exchange, or where they see that the queue is full, empty or in *)
(* use.                                                                    *)

(* A number less than a lap is a multiple of the capacity only if it is 0. *)
LEMMA NoMultiple ==
    ASSUME NEW d \in Int, NEW x \in Int, Capacity * d = x, -Capacity < x, x < Capacity
    PROVE  d = 0
<1>1. Capacity \in Nat /\ Capacity >= 2
  BY QueueAssumption
<1>2. CASE d <= -1
  BY <1>1, <1>2
<1>3. CASE d >= 1
  BY <1>1, <1>3
<1> QED BY <1>2, <1>3

LEMMA Division ==
    ASSUME NEW p \in Nat
    PROVE  \E k \in Int : p = Capacity * k + Slot(p) /\ Slot(p) \in 0 .. Capacity - 1
<1>1. Capacity \in Nat /\ Capacity >= 2
  BY QueueAssumption
<1>2. p % Capacity \in 0 .. Capacity - 1 /\ p \div Capacity \in Int
      /\ p = Capacity * (p \div Capacity) + (p % Capacity)
  BY <1>1
<1> QED BY <1>2 DEF Slot

(* Positions less than a lap apart have different slots, and a lap later   *)
(* it is the same slot again.                                              *)
LEMMA SlotsOfALap ==
    /\ \A p, q \in Nat : p < q /\ q < p + Capacity => Slot(p) # Slot(q)
    /\ \A p \in Nat : Slot(p + Capacity) = Slot(p)
    /\ \A p \in Nat : Slot(p) \in 0 .. Capacity - 1
<1>0. Capacity \in Nat /\ Capacity >= 2
  BY QueueAssumption
<1>1. ASSUME NEW p \in Nat, NEW q \in Nat, p < q, q < p + Capacity, Slot(p) = Slot(q) PROVE FALSE
  <2>1. PICK k \in Int : p = Capacity * k + Slot(p) /\ Slot(p) \in 0 .. Capacity - 1
    BY Division
  <2>2. PICK m \in Int : q = Capacity * m + Slot(q)
    BY Division
  <2> DEFINE d == m - k
             x == q - p
  <2>3. d \in Int /\ x \in Int /\ Capacity * d = x
    BY <1>0, <1>1, <2>1, <2>2
  <2>4. 0 < x /\ x < Capacity
    BY <1>0, <1>1
  <2> HIDE DEF d, x
  <2>5. d = 0
    BY <1>0, <2>3, <2>4, NoMultiple
  <2> QED BY <1>0, <2>3, <2>4, <2>5
<1>2. ASSUME NEW p \in Nat PROVE Slot(p + Capacity) = Slot(p)
  <2>0. p + Capacity \in Nat
    BY <1>0
  <2>1. PICK k \in Int : p = Capacity * k + Slot(p) /\ Slot(p) \in 0 .. Capacity - 1
    BY Division
  <2>2. PICK m \in Int : /\ p + Capacity = Capacity * m + Slot(p + Capacity)
                         /\ Slot(p + Capacity) \in 0 .. Capacity - 1
    BY <2>0, Division
  <2> DEFINE d == m - k - 1
             x == Slot(p) - Slot(p + Capacity)
  <2>3. d \in Int /\ x \in Int /\ Capacity * d = x
    BY <1>0, <2>1, <2>2
  <2>4. -Capacity < x /\ x < Capacity
    BY <1>0, <2>1, <2>2
  <2> HIDE DEF d
  <2>5. d = 0
    BY <1>0, <2>3, <2>4, NoMultiple
  <2>6. x = 0
    BY <1>0, <2>3, <2>5
  <2>7. Slot(p) \in Int /\ Slot(p + Capacity) \in Int
    BY <1>0, <2>1, <2>2
  <2> QED BY <2>6, <2>7
<1>3. ASSUME NEW p \in Nat PROVE Slot(p) \in 0 .. Capacity - 1
  BY <1>3, Division
<1> QED BY <1>1, <1>2, <1>3
-----------------------------------------------------------------------------
(* What the slots of the window hold: the positions from dequeue_pos to    *)
(* enqueue_pos are the queue, those up to a lap beyond dequeue_pos are     *)
(* free, but for the threads that hold a slot.                             *)

Window == dequeue_pos <= enqueue_pos /\ enqueue_pos <= dequeue_pos + Capacity

Filled ==
    \A p \in Nat : dequeue_pos <= p /\ p < enqueue_pos =>
        \/ sequence[Slot(p)] = p + 1
        \/ \E t \in Threads : Holds(t, "enqueue") /\ pos[t] = p
Freed ==
    \A p \in Nat : enqueue_pos <= p /\ p < dequeue_pos + Capacity =>
        \/ sequence[Slot(p)] = p
        \/ \E t \in Threads : Holds(t, "dequeue") /\ pos[t] + Capacity = p

(* A slot is not passed on before its holder is done with it.              *)
HoldersInside ==
    \A t \in Threads :
        /\ Holds(t, "enqueue") => dequeue_pos <= pos[t]
        /\ Holds(t, "dequeue") => enqueue_pos <= pos[t] + Capacity

(* Sequence numbers do not fall behind: a late thread finds a larger one   *)
(* than it expects, and tries again.                                       *)
Ahead ==
    \A p \in Nat :
        /\ p < enqueue_pos => sequence[Slot(p)] >= p
        /\ p < dequeue_pos => sequence[Slot(p)] >= p + 1

Written ==
    \A t \in Threads : At(t, "enqueue", "publish") => data[Slot(pos[t])] = call[t].value

CallsOK ==
    \A t \in Threads :
        /\ pc[t] = "idle" => call[t] = Fifo!Idle
        /\ pc[t] = "count" => call[t].op \in {"enqueue", "dequeue"}

FifoInv == Window /\ Filled /\ Freed /\ HoldersInside /\ Ahead /\ Written /\ CallsOK

LEMMA FifoInit == Init => FifoInv
<1> SUFFICES ASSUME Init PROVE FifoInv
  OBVIOUS
<1>1. Capacity \in Nat /\ Capacity >= 2
  BY QueueAssumption
<1>2. \A p \in Nat : p < Capacity => Slot(p) = p
  BY <1>1 DEF Slot
<1>3. \A p \in Nat : p < Capacity => sequence[Slot(p)] = p
  BY <1>1, <1>2 DEF Init
<1>4. enqueue_pos = 0 /\ dequeue_pos = 0
  BY DEF Init
<1>4a. Window /\ Filled /\ Ahead
  BY <1>1, <1>4 DEF Window, Filled, Ahead
<1>4b. Freed
  BY <1>1, <1>3, <1>4 DEF Freed
<1>5. HoldersInside /\ Written /\ CallsOK
  BY DEF Init, HoldersInside, Written, CallsOK, Holds, At
<1> QED BY <1>4a, <1>4b, <1>5 DEF FifoInv

(* A step that touches no slot and lets nobody hold or release one.        *)
Quiet(t) ==
    /\ UNCHANGED shared
    /\ \A u \in Threads : u # t => pc'[u] = pc[u] /\ call'[u] = call[u] /\ pos'[u] = pos[u]
    /\ pc[t] \notin {"move", "publish"} /\ pc'[t] \notin {"move", "publish"}
    /\ pc'[t] = "idle" => call'[t] = Fifo!Idle
    /\ pc'[t] # "count"

LEMMA QuietStep ==
    ASSUME FifoInv, NEW t \in Threads, Quiet(t)
    PROVE  FifoInv'
<1>1. \A u \in Threads : \A op \in {"enqueue", "dequeue"} :
          /\ Holds(u, op)' <=> Holds(u, op)
          /\ Holds(u, op) => pos'[u] = pos[u]
  BY DEF Quiet, Holds
<1>2. /\ enqueue_pos' = enqueue_pos /\ dequeue_pos' = dequeue_pos
      /\ sequence' = sequence /\ data' = data
  BY DEF Quiet, shared
<1>3. Window' /\ Filled' /\ Freed' /\ HoldersInside' /\ Ahead'
  BY <1>1, <1>2 DEF FifoInv, Window, Filled, Freed, HoldersInside, Ahead
<1>4. Written'
  BY <1>2 DEF FifoInv, Written, Quiet, At
<1>5. CallsOK'
  BY DEF FifoInv, CallsOK, Quiet
<1> QED BY <1>3, <1>4, <1>5 DEF FifoInv

(* A thread on its way inside an operation: nobody else moves.             *)
Moves(t, from, to) ==
    /\ pc[t] = from /\ pc'[t] = to
    /\ \A u \in Threads : u # t => pc'[u] = pc[u]
    /\ call' = call /\ pos' = pos

LEMMA ReserveStep ==
    ASSUME TypeInv, SlotInv, FifoInv, NEW t \in Threads,
           EnqueueReserve(t) \/ DequeueReserve(t)
    PROVE  FifoInv'
<1>0. /\ Capacity \in Nat /\ Capacity >= 2
      /\ enqueue_pos \in Nat /\ dequeue_pos \in Nat /\ pos \in [Threads -> Nat]
      /\ pc \in [Threads -> {"idle", "load", "check", "cas", "move", "publish", "count", "return"}]
  BY QueueAssumption DEF TypeInv, TypeOK
<1>s. \A p \in Nat : sequence[Slot(p)] \in Nat
  BY SlotsOfALap DEF TypeInv, TypeOK
<1>1. CASE EnqueueReserve(t)
  <2>1. /\ Moves(t, "cas", "move") /\ call[t].op = "enqueue" /\ pos[t] = enqueue_pos
        /\ enqueue_pos' = enqueue_pos + 1 /\ dequeue_pos' = dequeue_pos
        /\ sequence' = sequence /\ data' = data
        /\ sequence[Slot(pos[t])] = pos[t]
    BY <1>0, <1>1 DEF EnqueueReserve, Moves, At, Goto, SlotInv, FreeForWriter
  <2>2. \A u \in Threads : /\ Holds(u, "dequeue")' <=> Holds(u, "dequeue")
                           /\ Holds(u, "enqueue")' <=> Holds(u, "enqueue") \/ u = t
    BY <2>1 DEF Moves, Holds
  <2>3. enqueue_pos < dequeue_pos + Capacity
    <3>1. SUFFICES ASSUME enqueue_pos = dequeue_pos + Capacity PROVE FALSE
      BY <1>0 DEF FifoInv, Window
    <3>2. Slot(enqueue_pos) = Slot(dequeue_pos)
      BY <1>0, <3>1, SlotsOfALap
    <3>3. \/ sequence[Slot(dequeue_pos)] = dequeue_pos + 1
          \/ \E u \in Threads : Holds(u, "enqueue") /\ pos[u] = dequeue_pos
      BY <1>0, <3>1 DEF FifoInv, Filled
    <3> QED BY <1>0, <2>1, <3>1, <3>2, <3>3 DEF SlotInv, HeldByWriter
  <2>4. Window'
    BY <1>0, <2>1, <2>3 DEF FifoInv, Window
  <2>5. Filled'
    BY <1>0, <2>1, <2>2 DEF FifoInv, Filled, Moves
  <2>6. Freed'
    BY <1>0, <2>1, <2>2 DEF FifoInv, Freed, Moves
  <2>7. HoldersInside'
    <3>1. ASSUME NEW u \in Threads, Holds(u, "dequeue"), enqueue_pos = pos[u] + Capacity PROVE FALSE
      <4>1. Slot(enqueue_pos) = Slot(pos[u])
        BY <1>0, <3>1, SlotsOfALap
      <4> QED BY <1>0, <2>1, <3>1, <4>1 DEF SlotInv, HeldByReader
    <3> QED BY <1>0, <2>1, <2>2, <3>1 DEF FifoInv, HoldersInside, Window, Moves
  <2>8. Ahead'
    BY <1>0, <1>s, <2>1 DEF FifoInv, Ahead
  <2>9. Written' /\ CallsOK'
    BY <2>1 DEF FifoInv, Written, CallsOK, Moves, At
  <2> QED BY <2>4, <2>5, <2>6, <2>7, <2>8, <2>9 DEF FifoInv
<1>2. CASE DequeueReserve(t)
  <2>1. /\ Moves(t, "cas", "move") /\ call[t].op = "dequeue" /\ pos[t] = dequeue_pos
        /\ dequeue_pos' = dequeue_pos + 1 /\ enqueue_pos' = enqueue_pos
        /\ sequence' = sequence /\ data' = data
        /\ sequence[Slot(pos[t])] = pos[t] + 1
    BY <1>0, <1>2 DEF DequeueReserve, Moves, At, Goto, SlotInv, FullForReader
  <2>2. \A u \in Threads : /\ Holds(u, "enqueue")' <=> Holds(u, "enqueue")
                           /\ Holds(u, "dequeue")' <=> Holds(u, "dequeue") \/ u = t
    BY <2>1 DEF Moves, Holds
  <2>3. dequeue_pos < enqueue_pos
    <3>1. SUFFICES ASSUME enqueue_pos = dequeue_pos PROVE FALSE
      BY <1>0 DEF FifoInv, Window
    <3>2. \/ sequence[Slot(dequeue_pos)] = dequeue_pos
          \/ \E u \in Threads : Holds(u, "dequeue") /\ pos[u] + Capacity = dequeue_pos
      BY <1>0, <3>1 DEF FifoInv, Freed
    <3>3. ASSUME NEW u \in Threads, Holds(u, "dequeue"), pos[u] + Capacity = dequeue_pos PROVE FALSE
      <4>1. Slot(dequeue_pos) = Slot(pos[u])
        BY <1>0, <3>3, SlotsOfALap
      <4> QED BY <1>0, <2>1, <3>3, <4>1 DEF SlotInv, HeldByReader
    <3> QED BY <1>0, <2>1, <3>2, <3>3
  <2>4. Window'
    BY <1>0, <2>1, <2>3 DEF FifoInv, Window
  <2>5. Filled'
    BY <1>0, <2>1, <2>2 DEF FifoInv, Filled, Moves
  <2>6. Freed'
    <3>1. SUFFICES ASSUME NEW p \in Nat, enqueue_pos <= p, p < dequeue_pos + 1 + Capacity
                   PROVE  \/ sequence[Slot(p)] = p
                          \/ \E u \in Threads : Holds(u, "dequeue")' /\ pos[u] + Capacity = p
      BY <2>1 DEF Freed, Moves
    <3>2. CASE p = dequeue_pos + Capacity
      BY <2>1, <2>2, <3>2
    <3>3. CASE p < dequeue_pos + Capacity
      BY <2>2, <3>1, <3>3 DEF FifoInv, Freed
    <3> QED BY <1>0, <3>1, <3>2, <3>3
  <2>7. HoldersInside'
    <3>1. ASSUME NEW u \in Threads, Holds(u, "enqueue"), dequeue_pos = pos[u] PROVE FALSE
      BY <1>0, <2>1, <3>1 DEF SlotInv, HeldByWriter
    <3> QED BY <1>0, <2>1, <2>2, <3>1 DEF FifoInv, HoldersInside, Window, Moves
  <2>8. Ahead'
    BY <1>0, <1>s, <2>1 DEF FifoInv, Ahead
  <2>9. Written' /\ CallsOK'
    BY <2>1 DEF FifoInv, Written, CallsOK, Moves, At
  <2> QED BY <2>4, <2>5, <2>6, <2>7, <2>8, <2>9 DEF FifoInv
<1> QED BY <1>1, <1>2

LEMMA AccessStep ==
    ASSUME TypeInv, SlotInv, FifoInv, NEW t \in Threads,
           EnqueueWrite(t) \/ DequeueRead(t)
    PROVE  FifoInv'
<1>0. /\ pc \in [Threads -> {"idle", "load", "check", "cas", "move", "publish", "count", "return"}]
      /\ data \in [0 .. Capacity - 1 -> Values \cup {Nothing}]
      /\ \A u \in Threads : Slot(pos[u]) \in 0 .. Capacity - 1
  BY SlotsOfALap DEF TypeInv, TypeOK
<1>1. /\ Moves(t, "move", "publish") /\ call[t].op \in {"enqueue", "dequeue"}
      /\ enqueue_pos' = enqueue_pos /\ dequeue_pos' = dequeue_pos /\ sequence' = sequence
  BY <1>0 DEF EnqueueWrite, DequeueRead, Moves, At, Goto, shared
<1>2. \A u \in Threads : \A op \in {"enqueue", "dequeue"} : Holds(u, op)' <=> Holds(u, op)
  BY <1>1 DEF Moves, Holds
<1>3. Window' /\ Filled' /\ Freed' /\ HoldersInside' /\ Ahead'
  BY <1>1, <1>2 DEF FifoInv, Window, Filled, Freed, HoldersInside, Ahead, Moves
<1>4. CallsOK'
  BY <1>1 DEF FifoInv, CallsOK, Moves
<1>5. \A u \in Threads : u # t /\ pc[u] = "publish" => Slot(pos[u]) # Slot(pos[t])
  BY <1>1, Exclusive DEF SlotExclusive, Moves
<1>6. Written'
  <2> SUFFICES ASSUME NEW u \in Threads, At(u, "enqueue", "publish")'
               PROVE  data'[Slot(pos[u])] = call[u].value
    BY <1>1 DEF Written, Moves
  <2>1. CASE EnqueueWrite(t)
    <3>1. data' = [data EXCEPT ![Slot(pos[t])] = call[t].value]
      BY <2>1 DEF EnqueueWrite
    <3>2. CASE u = t
      BY <1>0, <3>1, <3>2
    <3>3. CASE u # t
      BY <1>0, <1>1, <1>5, <3>1, <3>3 DEF FifoInv, Written, At, Moves
    <3> QED BY <3>2, <3>3
  <2>2. CASE DequeueRead(t)
    <3>1. data' = data /\ call[t].op = "dequeue"
      BY <2>2 DEF DequeueRead, shared, At
    <3> QED BY <1>1, <3>1 DEF FifoInv, Written, At, Moves
  <2> QED BY <2>1, <2>2
<1> QED BY <1>3, <1>4, <1>6 DEF FifoInv

(* Passing a slot on changes the number of this slot only, hence of one    *)
(* position in a lap.                                                      *)
LEMMA PassStep ==
    ASSUME TypeInv, SlotInv, FifoInv, NEW t \in Threads,
           EnqueuePublish(t) \/ DequeueRelease(t)
    PROVE  FifoInv'
<1>0. /\ Capacity \in Nat /\ Capacity >= 2
      /\ enqueue_pos \in Nat /\ dequeue_pos \in Nat /\ pos \in [Threads -> Nat]
      /\ pc \in [Threads -> {"idle", "load", "check", "cas", "move", "publish", "count", "return"}]
      /\ sequence \in [0 .. Capacity - 1 -> Nat]
  BY QueueAssumption DEF TypeInv, TypeOK
<1>s. \A p \in Nat : sequence[Slot(p)] \in Nat /\ Slot(p) \in 0 .. Capacity - 1
  BY <1>0, SlotsOfALap
<1>1. /\ Moves(t, "publish", "count") /\ call[t].op \in {"enqueue", "dequeue"}
      /\ enqueue_pos' = enqueue_pos /\ dequeue_pos' = dequeue_pos /\ data' = data
  BY <1>0 DEF EnqueuePublish, DequeueRelease, Moves, At, Goto
<1>2. \A u \in Threads : \A op \in {"enqueue", "dequeue"} :
          u # t => (Holds(u, op)' <=> Holds(u, op))
  BY <1>1 DEF Moves, Holds
<1>3. \A op \in {"enqueue", "dequeue"} : ~Holds(t, op)'
  BY <1>1 DEF Moves, Holds
<1>4. Window' /\ HoldersInside' /\ Written' /\ CallsOK'
  BY <1>1, <1>2, <1>3 DEF FifoInv, Window, HoldersInside, Written, CallsOK, Moves, At
<1>5. \A p, q \in Nat :
          (dequeue_pos <= p /\ p < dequeue_pos + Capacity
             /\ dequeue_pos <= q /\ q < dequeue_pos + Capacity /\ p # q)
          => Slot(p) # Slot(q)
  <2> SUFFICES ASSUME NEW p \in Nat, NEW q \in Nat,
                      dequeue_pos <= p, p < dequeue_pos + Capacity,
                      dequeue_pos <= q, q < dequeue_pos + Capacity, p # q
               PROVE  Slot(p) # Slot(q)
    OBVIOUS
  <2>1. CASE p < q
    BY <1>0, <2>1, SlotsOfALap
  <2>2. CASE q < p
    BY <1>0, <2>2, SlotsOfALap
  <2> QED BY <2>1, <2>2
<1>6. CASE EnqueuePublish(t)
  <2>1. /\ sequence' = [sequence EXCEPT ![Slot(pos[t])] = pos[t] + 1]
        /\ Holds(t, "enqueue")
    BY <1>6 DEF EnqueuePublish, Holds, At
  <2>2. /\ sequence[Slot(pos[t])] = pos[t] /\ pos[t] < enqueue_pos /\ dequeue_pos <= pos[t]
        /\ pos[t] \in Nat
    BY <1>0, <2>1 DEF SlotInv, HeldByWriter, FifoInv, HoldersInside
  <2>3. \A p \in Nat : sequence'[Slot(p)] = IF Slot(p) = Slot(pos[t]) THEN pos[t] + 1
                                            ELSE sequence[Slot(p)]
    BY <1>0, <1>s, <2>1
  <2>4. Filled'
    <3> SUFFICES ASSUME NEW p \in Nat, dequeue_pos <= p, p < enqueue_pos
                 PROVE  \/ sequence'[Slot(p)] = p + 1
                        \/ \E u \in Threads : Holds(u, "enqueue")' /\ pos[u] = p
      BY <1>1 DEF Filled, Moves
    <3>1. CASE p = pos[t]
      BY <2>3, <3>1
    <3>2. CASE p # pos[t]
      <4>1. Slot(p) # Slot(pos[t])
        BY <1>0, <1>5, <2>2, <3>2 DEF FifoInv, Window
      <4>2. \/ sequence[Slot(p)] = p + 1
            \/ \E u \in Threads : Holds(u, "enqueue") /\ pos[u] = p
        BY DEF FifoInv, Filled
      <4> QED BY <1>2, <2>3, <3>2, <4>1, <4>2
    <3> QED BY <3>1, <3>2
  <2>5. Freed'
    <3> SUFFICES ASSUME NEW p \in Nat, enqueue_pos <= p, p < dequeue_pos + Capacity
                 PROVE  \/ sequence'[Slot(p)] = p
                        \/ \E u \in Threads : Holds(u, "dequeue")' /\ pos[u] + Capacity = p
      BY <1>1 DEF Freed, Moves
    <3>1. Slot(p) # Slot(pos[t])
      BY <1>0, <1>5, <2>2 DEF FifoInv, Window
    <3>2. \/ sequence[Slot(p)] = p
          \/ \E u \in Threads : Holds(u, "dequeue") /\ pos[u] + Capacity = p
      BY DEF FifoInv, Freed
    <3>3. ~Holds(t, "dequeue")
      BY <2>1 DEF Holds
    <3> QED BY <1>2, <2>3, <3>1, <3>2, <3>3
  <2>6. \A p \in Nat : sequence'[Slot(p)] >= sequence[Slot(p)] /\ sequence'[Slot(p)] \in Nat
    <3> SUFFICES ASSUME NEW p \in Nat
                 PROVE  sequence'[Slot(p)] >= sequence[Slot(p)] /\ sequence'[Slot(p)] \in Nat
      OBVIOUS
    <3>1. sequence[Slot(p)] \in Nat
      BY <1>s
    <3>2. CASE Slot(p) = Slot(pos[t])
      BY <1>0, <2>2, <2>3, <3>2
    <3>3. CASE Slot(p) # Slot(pos[t])
      BY <2>3, <3>1, <3>3
    <3> QED BY <3>2, <3>3
  <2>7. Ahead'
    <3> SUFFICES ASSUME NEW p \in Nat
                 PROVE  /\ p < enqueue_pos => sequence'[Slot(p)] >= p
                        /\ p < dequeue_pos => sequence'[Slot(p)] >= p + 1
      BY <1>1 DEF Ahead
    <3>1. /\ sequence[Slot(p)] \in Nat /\ sequence'[Slot(p)] \in Nat
          /\ sequence'[Slot(p)] >= sequence[Slot(p)]
      BY <1>s, <2>6
    <3>2. /\ p < enqueue_pos => sequence[Slot(p)] >= p
          /\ p < dequeue_pos => sequence[Slot(p)] >= p + 1
      BY DEF FifoInv, Ahead
    <3> QED BY <3>1, <3>2
  <2> QED BY <1>4, <2>4, <2>5, <2>7 DEF FifoInv
<1>7. CASE DequeueRelease(t)
  <2>1. /\ sequence' = [sequence EXCEPT ![Slot(pos[t])] = pos[t] + Capacity]
        /\ Holds(t, "dequeue")
    BY <1>7 DEF DequeueRelease, Holds, At
  <2>2. /\ sequence[Slot(pos[t])] = pos[t] + 1 /\ pos[t] < dequeue_pos
        /\ enqueue_pos <= pos[t] + Capacity
        /\ pos[t] \in Nat /\ pos[t] + Capacity \in Nat
    BY <1>0, <2>1 DEF SlotInv, HeldByReader, FifoInv, HoldersInside
  <2>3. \A p \in Nat : sequence'[Slot(p)] = IF Slot(p) = Slot(pos[t]) THEN pos[t] + Capacity
                                            ELSE sequence[Slot(p)]
    BY <1>0, <1>s, <2>1
  <2>l. Slot(pos[t] + Capacity) = Slot(pos[t])
    BY <2>2, SlotsOfALap
  <2>4. Filled'
    <3> SUFFICES ASSUME NEW p \in Nat, dequeue_pos <= p, p < enqueue_pos
                 PROVE  \/ sequence'[Slot(p)] = p + 1
                        \/ \E u \in Threads : Holds(u, "enqueue")' /\ pos[u] = p
      BY <1>1 DEF Filled, Moves
    <3>1. Slot(p) # Slot(pos[t] + Capacity)
      BY <1>0, <1>5, <2>2 DEF FifoInv, Window
    <3>2. \/ sequence[Slot(p)] = p + 1
          \/ \E u \in Threads : Holds(u, "enqueue") /\ pos[u] = p
      BY DEF FifoInv, Filled
    <3>3. ~Holds(t, "enqueue")
      BY <2>1 DEF Holds
    <3> QED BY <1>2, <2>3, <2>l, <3>1, <3>2, <3>3
  <2>5. Freed'
    <3> SUFFICES ASSUME NEW p \in Nat, enqueue_pos <= p, p < dequeue_pos + Capacity
                 PROVE  \/ sequence'[Slot(p)] = p
                        \/ \E u \in Threads : Holds(u, "dequeue")' /\ pos[u] + Capacity = p
      BY <1>1 DEF Freed, Moves
    <3>1. CASE p = pos[t] + Capacity
      BY <2>2, <2>3, <2>l, <3>1
    <3>2. CASE p # pos[t] + Capacity
      <4>1. Slot(p) # Slot(pos[t] + Capacity)
        BY <1>0, <1>5, <2>2, <3>2 DEF FifoInv, Window
      <4>2. \/ sequence[Slot(p)] = p
            \/ \E u \in Threads : Holds(u, "dequeue") /\ pos[u] + Capacity = p
        BY DEF FifoInv, Freed
      <4> QED BY <1>2, <2>3, <2>l, <3>2, <4>1, <4>2
    <3> QED BY <3>1, <3>2
  <2>6. \A p \in Nat : sequence'[Slot(p)] >= sequence[Slot(p)] /\ sequence'[Slot(p)] \in Nat
    <3> SUFFICES ASSUME NEW p \in Nat
                 PROVE  sequence'[Slot(p)] >= sequence[Slot(p)] /\ sequence'[Slot(p)] \in Nat
      OBVIOUS
    <3>1. sequence[Slot(p)] \in Nat
      BY <1>s
    <3>2. CASE Slot(p) = Slot(pos[t])
      BY <1>0, <2>2, <2>3, <3>2
    <3>3. CASE Slot(p) # Slot(pos[t])
      BY <2>3, <3>1, <3>3
    <3> QED BY <3>2, <3>3
  <2>7. Ahead'
    <3> SUFFICES ASSUME NEW p \in Nat
                 PROVE  /\ p < enqueue_pos => sequence'[Slot(p)] >= p
                        /\ p < dequeue_pos => sequence'[Slot(p)] >= p + 1
      BY <1>1 DEF Ahead
    <3>1. /\ sequence[Slot(p)] \in Nat /\ sequence'[Slot(p)] \in Nat
          /\ sequence'[Slot(p)] >= sequence[Slot(p)]
      BY <1>s, <2>6
    <3>2. /\ p < enqueue_pos => sequence[Slot(p)] >= p
          /\ p < dequeue_pos => sequence[Slot(p)] >= p + 1
      BY DEF FifoInv, Ahead
    <3> QED BY <3>1, <3>2
  <2> QED BY <1>4, <2>4, <2>5, <2>7 DEF FifoInv
<1> QED BY <1>6, <1>7

LEMMA FifoStep == TypeInv /\ SlotInv /\ FifoInv /\ [Next]_vars => FifoInv'
<1> SUFFICES ASSUME TypeInv, SlotInv, FifoInv, [Next]_vars PROVE FifoInv'
  OBVIOUS
<1>0. /\ pc \in [Threads -> {"idle", "load", "check", "cas", "move", "publish", "count", "return"}]
      /\ call \in [Threads -> Calls] /\ pos \in [Threads -> Nat]
  BY DEF TypeInv, TypeOK
<1>1. CASE UNCHANGED vars
  BY <1>1 DEF vars, shared, totals, local, FifoInv, Window, Filled, Freed, HoldersInside, Ahead,
     Written, CallsOK, Holds, At
<1>2. ASSUME NEW t \in Threads, Start(t) \/ Return(t) PROVE FifoInv'
  <2>1. Quiet(t)
    BY <1>0, <1>2 DEF Start, Return, Quiet, Goto, At
  <2> QED BY <2>1, QuietStep
<1>3. ASSUME NEW t \in Threads,
             EnqueueLoad(t) \/ EnqueueRetry(t) \/ DequeueLoad(t) \/ DequeueRetry(t) \/ SizeLoadEnqueued(t)
      PROVE  FifoInv'
  <2>1. Quiet(t)
    BY <1>0, <1>3 DEF EnqueueLoad, EnqueueRetry, DequeueLoad, DequeueRetry, SizeLoadEnqueued,
       Quiet, Goto, At
  <2> QED BY <2>1, QuietStep
<1>4. ASSUME NEW t \in Threads,
             EnqueueCheck(t) \/ DequeueCheck(t) \/ SizeLoadDequeued(t)
      PROVE  FifoInv'
  <2>1. Quiet(t)
    BY <1>0, <1>4 DEF EnqueueCheck, DequeueCheck, SizeLoadDequeued, Quiet, Goto, At, Answer
  <2> QED BY <2>1, QuietStep
<1>5. ASSUME NEW t \in Threads, EnqueueCount(t) \/ DequeueCount(t) PROVE FifoInv'
  <2>1. Quiet(t)
    BY <1>0, <1>5 DEF EnqueueCount, DequeueCount, Quiet, Goto, At, Answer
  <2> QED BY <2>1, QuietStep
<1> QED BY <1>1, <1>2, <1>3, <1>4, <1>5, ReserveStep, AccessStep, PassStep DEF Next, Step

LEMMA FifoSafety == Spec => [](TypeInv /\ SlotInv /\ FifoInv)
<1>1. Spec => [](TypeInv /\ SlotInv)
  BY Safety
<1> QED BY <1>1, FifoInit, FifoStep, PTL DEF Spec

-----------------------------------------------------------------------------
(* The items and outcomes of the abstract queue.                           *)

(* A position has one writer at most, so its item is what this one brings, *)
(* or else what the slot holds.                                            *)
ItemsAre ==
    \A p \in Nat :
        /\ \A t \in Threads : Holds(t, "enqueue") /\ pos[t] = p => Item(p) = call[t].value
        /\ (\A t \in Threads : ~(Holds(t, "enqueue") /\ pos[t] = p)) => Item(p) = data[Slot(p)]

LEMMA ItemOf == SlotInv => ItemsAre
<1> SUFFICES ASSUME SlotInv, NEW p \in Nat
             PROVE  /\ \A t \in Threads : Holds(t, "enqueue") /\ pos[t] = p => Item(p) = call[t].value
                    /\ (\A t \in Threads : ~(Holds(t, "enqueue") /\ pos[t] = p)) => Item(p) = data[Slot(p)]
  BY DEF ItemsAre
<1>1. ASSUME NEW t \in Threads, Holds(t, "enqueue"), pos[t] = p PROVE Item(p) = call[t].value
  <2>1. Writers(p) = {t}
    BY <1>1 DEF Writers, Holds, SlotInv, ReservedOnce
  <2>2. (CHOOSE u \in Writers(p) : TRUE) = t
    BY <2>1
  <2> QED BY <2>1, <2>2 DEF Item
<1>2. ASSUME \A t \in Threads : ~(Holds(t, "enqueue") /\ pos[t] = p) PROVE Item(p) = data[Slot(p)]
  BY <1>2 DEF Item, Writers, Holds
<1> QED BY <1>1, <1>2

(* A step that leaves a slot and its writer alone leaves the item alone.   *)
LEMMA ItemSame ==
    ASSUME SlotInv, SlotInv', NEW p \in Nat,
           \A u \in Threads : (Holds(u, "enqueue")' /\ pos'[u] = p) <=> (Holds(u, "enqueue") /\ pos[u] = p),
           \A u \in Threads : Holds(u, "enqueue") /\ pos[u] = p => call'[u] = call[u],
           (\A u \in Threads : ~(Holds(u, "enqueue") /\ pos[u] = p)) => data'[Slot(p)] = data[Slot(p)]
    PROVE  Item(p)' = Item(p)
<1>i. ItemsAre /\ ItemsAre'
  BY ItemOf, PTL
<1>1. ASSUME NEW u \in Threads, Holds(u, "enqueue"), pos[u] = p PROVE Item(p)' = Item(p)
  <2>1. Item(p) = call[u].value
    BY <1>i, <1>1 DEF ItemsAre
  <2>2. Item(p)' = call'[u].value
    BY <1>i, <1>1 DEF ItemsAre
  <2> QED BY <1>1, <2>1, <2>2
<1>2. CASE \A u \in Threads : ~(Holds(u, "enqueue") /\ pos[u] = p)
  <2>1. Item(p) = data[Slot(p)]
    BY <1>i, <1>2 DEF ItemsAre
  <2>2. Item(p)' = data'[Slot(p)]
    BY <1>i, <1>2 DEF ItemsAre
  <2> QED BY <1>2, <2>1, <2>2
<1> QED BY <1>1, <1>2

(* The contents are a sequence, and change as its items do.                *)
Inside(p) == dequeue_pos <= p /\ p < enqueue_pos

ContentsAre ==
    /\ Contents \in Seq({Item(p) : p \in Nat})
    /\ Len(Contents) = enqueue_pos - dequeue_pos
    /\ \A i \in 1 .. enqueue_pos - dequeue_pos, p \in Nat :
           p = dequeue_pos + i - 1 => Contents[i] = Item(p)

LEMMA ContentsOf == TypeInv /\ Window => ContentsAre
<1> SUFFICES ASSUME TypeInv, Window PROVE ContentsAre
  OBVIOUS
<1> DEFINE n == enqueue_pos - dequeue_pos
           S == {Item(p) : p \in Nat}
           it(i) == Item(dequeue_pos + i - 1)
<1>1. enqueue_pos \in Nat /\ dequeue_pos \in Nat /\ n \in Nat
  BY DEF TypeInv, TypeOK, Window
<1>2. \A i \in 1 .. n : dequeue_pos + i - 1 \in Nat /\ Inside(dequeue_pos + i - 1)
  BY <1>1 DEF Inside
<1>3. \A i \in 1 .. n : it(i) \in S
  BY <1>2
<1>4. Contents = [i \in 1 .. n |-> it(i)]
  BY DEF Contents
<1>5. \A i \in 1 .. n : it(i) = Item(dequeue_pos + i - 1)
  OBVIOUS
<1> HIDE DEF S, it
<1>6. Contents \in Seq(S) /\ Len(Contents) = n /\ \A i \in 1 .. n : Contents[i] = it(i)
  <2> HIDE DEF n
  <2>1. Contents \in [1 .. n -> S]
    BY <1>3, <1>4
  <2>2. Contents \in Seq(S)
    BY <1>1, <2>1
  <2>3. DOMAIN Contents = 1 .. n /\ DOMAIN Contents = 1 .. Len(Contents) /\ Len(Contents) \in Nat
    BY <2>1, <2>2
  <2>4. Len(Contents) = n
    BY <1>1, <2>3
  <2> QED BY <1>4, <2>2, <2>4
<1>7. \A i \in 1 .. n, p \in Nat : p = dequeue_pos + i - 1 => Contents[i] = Item(p)
  BY <1>5, <1>6
<1> QED BY <1>6, <1>7 DEF S, ContentsAre

LEMMA ItemsSame ==
    ASSUME TypeInv, UNCHANGED <<enqueue_pos, dequeue_pos>>,
           \A p \in Nat : Inside(p) => Item(p)' = Item(p)
    PROVE  Contents' = Contents
<1>0. enqueue_pos \in Nat /\ dequeue_pos \in Nat
  BY DEF TypeInv, TypeOK
<1> DEFINE it(p) == Item(p)
           jt(p) == Item(p)'
<1>2. \A i \in 1 .. enqueue_pos - dequeue_pos :
          dequeue_pos + i - 1 \in Nat /\ Inside(dequeue_pos + i - 1)
  BY <1>0 DEF Inside
<1>3. Contents' = [i \in 1 .. enqueue_pos - dequeue_pos |-> jt(dequeue_pos + i - 1)]
  BY DEF Contents
<1>4. Contents = [i \in 1 .. enqueue_pos - dequeue_pos |-> it(dequeue_pos + i - 1)]
  BY DEF Contents
<1>5. \A p \in Nat : Inside(p) => it(p) = jt(p)
  OBVIOUS
<1> HIDE DEF it, jt
<1> QED BY <1>2, <1>3, <1>4, <1>5

(* A step of t leaves the outcome of the other threads alone.              *)
LEMMA OutcomeStep ==
    ASSUME SlotInv, NEW t \in Threads,
           \A u \in Threads : u # t => /\ pc'[u] = pc[u] /\ call'[u] = call[u]
                                      /\ pos'[u] = pos[u] /\ got'[u] = got[u],
           \A u \in Threads : u # t /\ pc[u] = "move" /\ Holds(u, "dequeue")
                                   => data'[Slot(pos[u])] = data[Slot(pos[u])]
    PROVE  /\ Outcome' = [Outcome EXCEPT ![t] = Outcome'[t]]
           /\ Outcome'[t] = Outcome[t] => Outcome' = Outcome
<1>1. ASSUME NEW u \in Threads, u # t PROVE Outcome'[u] = Outcome[u]
  <2>1. pc[u] = "move" => call[u].op = "enqueue" \/ Holds(u, "dequeue")
    BY DEF SlotInv, HoldersMove, Holds
  <2> QED BY <1>1, <2>1 DEF Outcome, Result
<1>2. Outcome' = [u \in Threads |-> Outcome'[u]] /\ Outcome = [u \in Threads |-> Outcome[u]]
  BY DEF Outcome
<1> QED BY <1>1, <1>2

(* What an operation has or has not come to.                               *)
LEMMA OutcomeOf ==
    ASSUME NEW t \in Threads
    PROVE  /\ pc[t] \in {"move", "publish", "count", "return"}
                 => Outcome[t] = Fifo!Done(Result(t))
           /\ pc[t] \notin {"move", "publish", "count", "return"} => Outcome[t] = Fifo!Pending
           /\ Fifo!Done(Result(t)) # Fifo!Pending
  BY DEF Outcome, Fifo!Done, Fifo!Pending

LEMMA FifoInitial == Init => Fifo!Init
<1> SUFFICES ASSUME Init PROVE Fifo!Init
  OBVIOUS
<1>1. Contents = <<>>
  BY DEF Init, Contents
<1>2. Outcome = [t \in Threads |-> Fifo!Pending]
  BY DEF Init, Outcome, Fifo!Pending
<1> QED BY <1>1, <1>2 DEF Init, Fifo!Init

(* Sequences that are another one with an element more or one less.        *)
LEMMA IsAppended ==
    ASSUME NEW S, NEW s \in Seq(S), NEW v, NEW n \in Nat, Len(s) = n,
           NEW T, NEW r \in Seq(T), Len(r) = n + 1,
           \A i \in 1 .. n : r[i] = s[i], r[n + 1] = v
    PROVE  r = Append(s, v)
<1> DEFINE U == S \cup T \cup {v}
           a == Append(s, v)
<1>1. s \in Seq(U) /\ r \in Seq(U) /\ v \in U
  BY SeqMonotonic
<1>2. /\ a \in Seq(U) /\ Len(a) = n + 1 /\ a[n + 1] = v
      /\ \A i \in 1 .. n : a[i] = s[i]
  BY <1>1, AppendProperties
<1>3. \A i \in 1 .. n + 1 : i = n + 1 \/ i \in 1 .. n
  OBVIOUS
<1> HIDE DEF a, U
<1>4. \A i \in 1 .. Len(r) : r[i] = a[i]
  BY <1>2, <1>3
<1>5. r = a
  BY <1>1, <1>2, <1>4, SeqEqual
<1> QED BY <1>5 DEF a

LEMMA IsTail ==
    ASSUME NEW S, NEW s \in Seq(S), NEW n \in Nat, Len(s) = n, n >= 1,
           NEW T, NEW r \in Seq(T), Len(r) = n - 1,
           \A i \in 1 .. n - 1 : r[i] = s[i + 1]
    PROVE  r = Tail(s) /\ s # <<>> /\ Head(s) = s[1]
<1> DEFINE U == S \cup T
           a == Tail(s)
<1>1. s # <<>> /\ s \in Seq(U) /\ r \in Seq(U)
  BY SeqMonotonic
<1>2. /\ a \in Seq(U) /\ Len(a) = n - 1
      /\ \A i \in 1 .. n - 1 : a[i] = s[i + 1]
  BY <1>1, HeadTailProperties
<1>3. Head(s) = s[1]
  BY <1>1
<1> HIDE DEF a, U
<1>4. r = a
  BY <1>1, <1>2, SeqEqual
<1> QED BY <1>1, <1>3, <1>4 DEF a

FullInv == TypeInv /\ SlotInv /\ FifoInv

-----------------------------------------------------------------------------
(* An enqueue takes effect when it reserves its slot.                      *)
LEMMA PutStep ==
    ASSUME FullInv, FullInv', NEW t \in Threads, EnqueueReserve(t)
    PROVE  Fifo!Put(t)
<1> DEFINE n == enqueue_pos - dequeue_pos
           S == {Item(p) : p \in Nat}
           T == {Item(p)' : p \in Nat}
           v == call[t].value
<1>0. /\ enqueue_pos \in Nat /\ dequeue_pos \in Nat /\ Capacity \in Nat /\ n \in Nat
      /\ pos \in [Threads -> Nat] /\ call \in [Threads -> Calls]
      /\ pc \in [Threads -> {"idle", "load", "check", "cas", "move", "publish", "count", "return"}]
      /\ TypeInv /\ Window /\ SlotInv /\ SlotInv'
  BY QueueAssumption DEF FullInv, TypeInv, TypeOK, FifoInv, Window
<1>1. /\ Moves(t, "cas", "move") /\ call[t].op = "enqueue" /\ pos[t] = enqueue_pos
      /\ enqueue_pos' = enqueue_pos + 1 /\ dequeue_pos' = dequeue_pos
      /\ data' = data /\ got' = got
  BY <1>0 DEF EnqueueReserve, Moves, At, Goto
<1>n. enqueue_pos' - dequeue_pos' = n + 1 /\ enqueue_pos' \in Nat /\ dequeue_pos' \in Nat
  BY <1>0, <1>1
<1>2. n + 1 <= Capacity
  BY <1>0, <1>1 DEF FullInv, FifoInv, Window
<1>3. ASSUME NEW p \in Nat, p < enqueue_pos PROVE Item(p)' = Item(p)
  <2>1. \A u \in Threads : (Holds(u, "enqueue")' /\ pos'[u] = p) <=> (Holds(u, "enqueue") /\ pos[u] = p)
    BY <1>0, <1>1, <1>3 DEF Moves, Holds
  <2> QED BY <1>0, <1>1, <2>1, ItemSame DEF Moves
<1>4. ASSUME NEW p \in Nat, p = enqueue_pos PROVE Item(p)' = v
  <2>1. ItemsAre'
    BY <1>0, ItemOf, PTL
  <2>2. Holds(t, "enqueue")' /\ pos'[t] = p /\ call'[t].value = v
    BY <1>1, <1>4 DEF Holds, Moves
  <2> QED BY <2>1, <2>2 DEF ItemsAre
<1>5. /\ Contents \in Seq(S) /\ Len(Contents) = n
      /\ \A i \in 1 .. n, p \in Nat : p = dequeue_pos + i - 1 => Contents[i] = Item(p)
  BY <1>0, ContentsOf DEF ContentsAre
<1>c. ContentsAre'
  <2>1. TypeInv' /\ Window'
    BY DEF FullInv, FifoInv
  <2> QED BY <2>1, ContentsOf, PTL
<1>6. Contents' = Append(Contents, v)
  <2> DEFINE r == Contents'
  <2>1. r \in Seq(T) /\ Len(r) = n + 1
    BY <1>n, <1>c DEF ContentsAre
  <2>2. \A i \in 1 .. n : r[i] = Contents[i]
    <3> SUFFICES ASSUME NEW i \in 1 .. n PROVE r[i] = Contents[i]
      OBVIOUS
    <3>1. PICK p \in Nat : p = dequeue_pos + i - 1 /\ p < enqueue_pos
      BY <1>0
    <3>2. r[i] = Item(p)'
      BY <1>0, <1>1, <1>n, <1>c, <3>1 DEF ContentsAre
    <3> QED BY <1>3, <1>5, <3>1, <3>2
  <2>3. r[n + 1] = v
    <3>1. PICK p \in Nat : p = enqueue_pos /\ p = dequeue_pos + (n + 1) - 1
      BY <1>0
    <3>2. r[n + 1] = Item(p)'
      BY <1>0, <1>1, <1>n, <1>c, <3>1 DEF ContentsAre
    <3> QED BY <1>4, <3>1, <3>2
  <2> HIDE DEF r, n, S, T, v
  <2>4. r = Append(Contents, v)
    BY <1>0, <1>5, <2>1, <2>2, <2>3, IsAppended
  <2> QED BY <2>4 DEF r
<1>7. /\ Outcome[t] = Fifo!Pending
      /\ Outcome' = [Outcome EXCEPT ![t] = Fifo!Done(v)]
  <2>1. Outcome' = [Outcome EXCEPT ![t] = Outcome'[t]]
    BY <1>0, <1>1, OutcomeStep DEF Moves
  <2>2. Outcome'[t] = Fifo!Done(v)
    BY <1>1 DEF Outcome, Result, Moves, Fifo!Done
  <2>3. Outcome[t] = Fifo!Pending
    BY <1>1, OutcomeOf DEF Moves
  <2> QED BY <2>1, <2>2, <2>3
<1>8. Len(Contents) < Capacity
  BY <1>0, <1>2, <1>5
<1> QED BY <1>1, <1>6, <1>7, <1>8 DEF Fifo!Put, Fifo!Decide, Moves

(* A dequeue takes effect when it reserves its slot.                       *)
LEMMA TakeStep ==
    ASSUME FullInv, FullInv', NEW t \in Threads, DequeueReserve(t)
    PROVE  Fifo!Take(t)
<1> DEFINE n == enqueue_pos - dequeue_pos
           S == {Item(p) : p \in Nat}
           T == {Item(p)' : p \in Nat}
<1>0. /\ enqueue_pos \in Nat /\ dequeue_pos \in Nat /\ Capacity \in Nat /\ n \in Nat
      /\ pos \in [Threads -> Nat] /\ call \in [Threads -> Calls]
      /\ pc \in [Threads -> {"idle", "load", "check", "cas", "move", "publish", "count", "return"}]
      /\ TypeInv /\ Window /\ SlotInv /\ SlotInv'
  BY QueueAssumption DEF FullInv, TypeInv, TypeOK, FifoInv, Window
<1>1. /\ Moves(t, "cas", "move") /\ call[t].op = "dequeue" /\ pos[t] = dequeue_pos
      /\ enqueue_pos' = enqueue_pos /\ dequeue_pos' = dequeue_pos + 1
      /\ data' = data /\ got' = got
  BY <1>0 DEF DequeueReserve, Moves, At, Goto
<1>n. enqueue_pos' - dequeue_pos' = n - 1 /\ enqueue_pos' \in Nat /\ dequeue_pos' \in Nat
  BY <1>0, <1>1
<1>2. n >= 1
  BY <1>0, <1>1 DEF FullInv, FifoInv, Window
<1>3. ASSUME NEW p \in Nat PROVE Item(p)' = Item(p)
  <2>1. \A u \in Threads : (Holds(u, "enqueue")' /\ pos'[u] = p) <=> (Holds(u, "enqueue") /\ pos[u] = p)
    BY <1>0, <1>1 DEF Moves, Holds
  <2> QED BY <1>0, <1>1, <2>1, ItemSame DEF Moves
<1>4. Item(dequeue_pos) = data[Slot(pos[t])]
  <2>1. ItemsAre
    BY <1>0, ItemOf, PTL
  <2>2. sequence[Slot(pos[t])] = pos[t] + 1
    BY <1>0, <1>1 DEF SlotInv, FullForReader, At, Moves
  <2>3. \A u \in Threads : ~(Holds(u, "enqueue") /\ pos[u] = dequeue_pos)
    BY <1>0, <1>1, <2>2 DEF SlotInv, HeldByWriter
  <2> QED BY <1>0, <1>1, <2>1, <2>3 DEF ItemsAre
<1>5. /\ Contents \in Seq(S) /\ Len(Contents) = n
      /\ \A i \in 1 .. n, p \in Nat : p = dequeue_pos + i - 1 => Contents[i] = Item(p)
  BY <1>0, ContentsOf DEF ContentsAre
<1>c. ContentsAre'
  <2>1. TypeInv' /\ Window'
    BY DEF FullInv, FifoInv
  <2> QED BY <2>1, ContentsOf, PTL
<1>6. Contents' = Tail(Contents) /\ Contents # <<>> /\ Head(Contents) = Contents[1]
  <2> DEFINE r == Contents'
  <2>1. r \in Seq(T) /\ Len(r) = n - 1
    BY <1>n, <1>c DEF ContentsAre
  <2>2. \A i \in 1 .. n - 1 : r[i] = Contents[i + 1]
    <3> SUFFICES ASSUME NEW i \in 1 .. n - 1 PROVE r[i] = Contents[i + 1]
      OBVIOUS
    <3>1. PICK p \in Nat : p = dequeue_pos + 1 + i - 1 /\ p = dequeue_pos + (i + 1) - 1
      BY <1>0
    <3>2. r[i] = Item(p)'
      BY <1>0, <1>1, <1>n, <1>c, <3>1 DEF ContentsAre
    <3>3. i + 1 \in 1 .. n
      BY <1>0
    <3> QED BY <1>3, <1>5, <3>1, <3>2, <3>3
  <2> HIDE DEF r, n, S, T
  <2>3. r = Tail(Contents) /\ Contents # <<>> /\ Head(Contents) = Contents[1]
    BY <1>0, <1>2, <1>5, <2>1, <2>2, IsTail
  <2> QED BY <2>3 DEF r
<1>7. Head(Contents) = data[Slot(pos[t])]
  <2>1. dequeue_pos = dequeue_pos + 1 - 1 /\ 1 \in 1 .. n
    BY <1>0, <1>2
  <2>2. Contents[1] = Item(dequeue_pos)
    BY <1>0, <1>5, <2>1
  <2> QED BY <1>4, <1>6, <2>2
<1>8. /\ Outcome[t] = Fifo!Pending
      /\ Outcome' = [Outcome EXCEPT ![t] = Fifo!Done(data[Slot(pos[t])])]
  <2>1. Outcome' = [Outcome EXCEPT ![t] = Outcome'[t]]
    BY <1>0, <1>1, OutcomeStep DEF Moves
  <2>2. Outcome'[t] = Fifo!Done(data[Slot(pos[t])])
    BY <1>1 DEF Outcome, Result, Moves, Fifo!Done
  <2>3. Outcome[t] = Fifo!Pending
    BY <1>1, OutcomeOf DEF Moves
  <2> QED BY <2>1, <2>2, <2>3
<1> QED BY <1>1, <1>6, <1>7, <1>8 DEF Fifo!Take, Fifo!Decide, Moves

-----------------------------------------------------------------------------
(* The other steps.  A refusal: the queue is full (or empty), or a slot of *)
(* the window is held by another thread.                                   *)

LEMMA RefuseStep ==
    ASSUME FullInv, FullInv', NEW t \in Threads,
           EnqueueCheck(t) \/ DequeueCheck(t), pc'[t] = "return"
    PROVE  Fifo!Refuse(t)
<1>0. /\ enqueue_pos \in Nat /\ dequeue_pos \in Nat /\ Capacity \in Nat /\ Capacity >= 2
      /\ pos \in [Threads -> Nat] /\ call \in [Threads -> Calls] /\ got \in [Threads -> Answers]
      /\ pc \in [Threads -> {"idle", "load", "check", "cas", "move", "publish", "count", "return"}]
      /\ TypeInv /\ Window /\ SlotInv /\ SlotInv'
  <2>1. TypeInv /\ SlotInv /\ FifoInv /\ SlotInv'
    BY DEF FullInv
  <2>2. TypeOK /\ call \in [Threads -> Calls] /\ got \in [Threads -> Answers]
    BY <2>1 DEF TypeInv
  <2>3. /\ enqueue_pos \in Nat /\ dequeue_pos \in Nat /\ pos \in [Threads -> Nat]
        /\ pc \in [Threads -> {"idle", "load", "check", "cas", "move", "publish", "count", "return"}]
    BY <2>2 DEF TypeOK
  <2>4. Window
    BY <2>1 DEF FifoInv
  <2> QED BY <2>1, <2>2, <2>3, <2>4, QueueAssumption
<1>s. \A p \in Nat : sequence[Slot(p)] \in Nat
  BY <1>0, SlotsOfALap DEF TypeInv, TypeOK
<1>1. /\ Moves(t, "check", "return") /\ got' = [got EXCEPT ![t] = Nothing]
      /\ UNCHANGED <<enqueue_pos, dequeue_pos, data>>
      /\ call[t].op \in {"enqueue", "dequeue"}
      /\ call[t].op = "enqueue" => sequence[Slot(pos[t])] - pos[t] < 0
      /\ call[t].op = "dequeue" => sequence[Slot(pos[t])] - (pos[t] + 1) < 0
  BY <1>0, <1>s DEF EnqueueCheck, DequeueCheck, Moves, At, Goto, Answer, shared
<1>2. Contents' = Contents
  <2>1. ASSUME NEW p \in Nat PROVE Item(p)' = Item(p)
    <3>1. \A u \in Threads : (Holds(u, "enqueue")' /\ pos'[u] = p) <=> (Holds(u, "enqueue") /\ pos[u] = p)
      BY <1>1 DEF Moves, Holds
    <3> QED BY <1>0, <1>1, <3>1, ItemSame DEF Moves
  <2> QED BY <1>0, <1>1, <2>1, ItemsSame
<1>3. /\ Outcome[t] = Fifo!Pending /\ Outcome' = [Outcome EXCEPT ![t] = Fifo!Done(Nothing)]
  <2>1. Outcome' = [Outcome EXCEPT ![t] = Outcome'[t]]
    BY <1>0, <1>1, OutcomeStep DEF Moves
  <2>2. Outcome'[t] = Fifo!Done(Nothing)
    BY <1>0, <1>1 DEF Outcome, Result, Moves, Fifo!Done
  <2>3. Outcome[t] = Fifo!Pending
    BY <1>1, OutcomeOf DEF Moves
  <2> QED BY <2>1, <2>2, <2>3
<1>4. ASSUME NEW u \in Threads, Holds(u, "enqueue") \/ Holds(u, "dequeue")
      PROVE  Fifo!Contended(t)
  BY <1>1, <1>4 DEF Fifo!Contended, Fifo!InProgress, Holds, Moves
<1>5. Len(Contents) = enqueue_pos - dequeue_pos /\ Contents \in Seq({Item(p) : p \in Nat})
  BY <1>0, ContentsOf DEF ContentsAre
<1>6. CASE call[t].op = "enqueue"
  <2>1. pos[t] = enqueue_pos
    BY <1>0, <1>1, <1>6, <1>s DEF SlotInv, LoadedBehind, At, Moves, FullInv, FifoInv, Ahead
  <2>2. CASE enqueue_pos = dequeue_pos + Capacity
    BY <1>0, <1>1, <1>2, <1>3, <1>5, <1>6, <2>2 DEF Fifo!Refuse, Fifo!Decide, Moves
  <2>3. CASE enqueue_pos < dequeue_pos + Capacity
    <3>1. \E u \in Threads : Holds(u, "dequeue")
      BY <1>0, <1>1, <1>6, <1>s, <2>1, <2>3 DEF FullInv, FifoInv, Freed
    <3> QED BY <1>1, <1>2, <1>3, <1>4, <1>6, <3>1 DEF Fifo!Refuse, Fifo!Decide, Fifo!InProgress, Moves
  <2> QED BY <1>0, <2>2, <2>3 DEF Window
<1>7. CASE call[t].op = "dequeue"
  <2>1. pos[t] = dequeue_pos
    BY <1>0, <1>1, <1>7, <1>s DEF SlotInv, LoadedBehind, At, Moves, FullInv, FifoInv, Ahead
  <2>2. CASE enqueue_pos = dequeue_pos
    <3>1. Contents = <<>>
      BY <1>0, <2>2 DEF Contents
    <3> QED BY <1>1, <1>2, <1>3, <1>7, <3>1 DEF Fifo!Refuse, Fifo!Decide, Moves
  <2>3. CASE dequeue_pos < enqueue_pos
    <3>1. \E u \in Threads : Holds(u, "enqueue")
      BY <1>0, <1>1, <1>7, <1>s, <2>1, <2>3 DEF FullInv, FifoInv, Filled
    <3> QED BY <1>1, <1>2, <1>3, <1>4, <1>7, <3>1 DEF Fifo!Refuse, Fifo!Decide, Fifo!InProgress, Moves
  <2> QED BY <1>0, <2>2, <2>3 DEF Window
<1> QED BY <1>1, <1>6, <1>7

(* What changes neither slots nor writers, and nobody's outcome but t's.   *)
LEMMA LocalStep ==
    ASSUME FullInv, FullInv', NEW t \in Threads, UNCHANGED shared,
           \A u \in Threads : u # t => /\ pc'[u] = pc[u] /\ call'[u] = call[u]
                                      /\ pos'[u] = pos[u] /\ got'[u] = got[u],
           pc[t] \notin {"move", "publish"}, pc'[t] \notin {"move", "publish"}
    PROVE  /\ Contents' = Contents /\ Outcome' = [Outcome EXCEPT ![t] = Outcome'[t]]
           /\ Outcome'[t] = Outcome[t] => Outcome' = Outcome
<1>0. TypeInv /\ SlotInv /\ SlotInv' /\ data' = data /\ UNCHANGED <<enqueue_pos, dequeue_pos>>
  BY DEF FullInv, shared
<1>1. ASSUME NEW p \in Nat PROVE Item(p)' = Item(p)
  <2>1. \A u \in Threads : (Holds(u, "enqueue")' /\ pos'[u] = p) <=> (Holds(u, "enqueue") /\ pos[u] = p)
    BY DEF Holds
  <2>2. \A u \in Threads : Holds(u, "enqueue") /\ pos[u] = p => call'[u] = call[u]
    BY DEF Holds
  <2> QED BY <1>0, <2>1, <2>2, ItemSame
<1>2. Contents' = Contents
  BY <1>0, <1>1, ItemsSame
<1> QED BY <1>0, <1>2, OutcomeStep

LEMMA HolderSteps ==
    ASSUME FullInv, FullInv', NEW t \in Threads,
           EnqueueWrite(t) \/ EnqueuePublish(t) \/ DequeueRead(t) \/ DequeueRelease(t)
    PROVE  UNCHANGED <<Contents, call, Outcome>>
<1>0. /\ enqueue_pos \in Nat /\ dequeue_pos \in Nat /\ Capacity \in Nat
      /\ pos \in [Threads -> Nat] /\ call \in [Threads -> Calls] /\ got \in [Threads -> Answers]
      /\ pc \in [Threads -> {"idle", "load", "check", "cas", "move", "publish", "count", "return"}]
      /\ data \in [0 .. Capacity - 1 -> Values \cup {Nothing}]
      /\ \A p \in Nat : Slot(p) \in 0 .. Capacity - 1
      /\ TypeInv /\ Window /\ SlotInv /\ SlotInv' /\ SlotExclusive
  BY QueueAssumption, SlotsOfALap, Exclusive DEF FullInv, TypeInv, TypeOK, FifoInv
<1>i. ItemsAre /\ ItemsAre'
  BY <1>0, ItemOf, PTL
<1>1. CASE EnqueueWrite(t)
  <2>1. /\ Moves(t, "move", "publish") /\ UNCHANGED <<enqueue_pos, dequeue_pos>> /\ got' = got
        /\ Holds(t, "enqueue") /\ data' = [data EXCEPT ![Slot(pos[t])] = call[t].value]
    BY <1>0, <1>1 DEF EnqueueWrite, Moves, Holds, At, Goto
  <2>2. \A p \in Nat : Slot(p) # Slot(pos[t]) => data'[Slot(p)] = data[Slot(p)]
    BY <1>0, <2>1
  <2>3. dequeue_pos <= pos[t] /\ pos[t] < enqueue_pos /\ pos[t] \in Nat
    BY <1>0, <2>1 DEF FullInv, FifoInv, HoldersInside, SlotInv, HeldByWriter
  <2>4. ASSUME NEW p \in Nat, Inside(p) PROVE Item(p)' = Item(p)
    <3>1. \A u \in Threads : (Holds(u, "enqueue")' /\ pos'[u] = p) <=> (Holds(u, "enqueue") /\ pos[u] = p)
      BY <2>1 DEF Moves, Holds
    <3>2. p # pos[t] => Slot(p) # Slot(pos[t])
      <4>1. CASE p < pos[t]
        BY <1>0, <2>3, <2>4, <4>1, SlotsOfALap DEF Inside, Window
      <4>2. CASE pos[t] < p
        BY <1>0, <2>3, <2>4, <4>2, SlotsOfALap DEF Inside, Window
      <4> QED BY <2>3, <4>1, <4>2
    <3>3. (\A u \in Threads : ~(Holds(u, "enqueue") /\ pos[u] = p)) => data'[Slot(p)] = data[Slot(p)]
      BY <2>1, <2>2, <3>2
    <3>4. \A u \in Threads : Holds(u, "enqueue") /\ pos[u] = p => call'[u] = call[u]
      BY <2>1 DEF Moves
    <3> QED BY <1>0, <3>1, <3>3, <3>4, ItemSame
  <2>5. Contents' = Contents
    BY <1>0, <2>1, <2>4, ItemsSame
  <2>6. Outcome' = Outcome
    <3>1. \A u \in Threads : u # t /\ pc[u] = "move" /\ Holds(u, "dequeue")
                                 => data'[Slot(pos[u])] = data[Slot(pos[u])]
      BY <1>0, <2>1, <2>2 DEF SlotExclusive, Moves
    <3>2. Outcome'[t] = Outcome[t]
      BY <2>1 DEF Outcome, Result, Moves, Holds
    <3> QED BY <1>0, <2>1, <3>1, <3>2, OutcomeStep DEF Moves
  <2> QED BY <2>1, <2>5, <2>6 DEF Moves
<1>2. CASE EnqueuePublish(t)
  <2>1. /\ Moves(t, "publish", "count") /\ UNCHANGED <<enqueue_pos, dequeue_pos>>
        /\ got' = got /\ data' = data /\ At(t, "enqueue", "publish")
    BY <1>0, <1>2 DEF EnqueuePublish, Moves, At, Goto
  <2>2. data[Slot(pos[t])] = call[t].value
    BY <2>1 DEF FullInv, FifoInv, Written
  <2>3. ASSUME NEW p \in Nat PROVE Item(p)' = Item(p)
    <3>1. CASE p # pos[t]
      <4>1. \A u \in Threads : (Holds(u, "enqueue")' /\ pos'[u] = p) <=> (Holds(u, "enqueue") /\ pos[u] = p)
        BY <2>1, <3>1 DEF Moves, Holds
      <4> QED BY <1>0, <2>1, <4>1, ItemSame DEF Moves
    <3>2. CASE p = pos[t]
      <4>1. Item(p) = call[t].value
        BY <1>i, <2>1, <3>2 DEF ItemsAre, Holds, At
      <4>2. \A u \in Threads : ~(Holds(u, "enqueue")' /\ pos'[u] = p)
        BY <1>0, <2>1, <3>2 DEF SlotInv, ReservedOnce, Holds, At, Moves
      <4>3. Item(p)' = data'[Slot(p)]
        BY <1>i, <4>2 DEF ItemsAre
      <4> QED BY <2>1, <2>2, <3>2, <4>1, <4>3
    <3> QED BY <3>1, <3>2
  <2>4. Contents' = Contents
    BY <1>0, <2>1, <2>3, ItemsSame
  <2>5. Outcome' = Outcome
    <3>1. Outcome'[t] = Outcome[t]
      BY <2>1 DEF Outcome, Result, Moves, At
    <3> QED BY <1>0, <2>1, <3>1, OutcomeStep DEF Moves
  <2> QED BY <2>1, <2>4, <2>5 DEF Moves
<1>3. CASE DequeueRead(t) \/ DequeueRelease(t)
  <2>1. /\ \A u \in Threads : u # t => pc'[u] = pc[u] /\ got'[u] = got[u]
        /\ UNCHANGED <<enqueue_pos, dequeue_pos, data, call, pos>> /\ call[t].op = "dequeue"
        /\ \/ pc[t] = "move" /\ pc'[t] = "publish" /\ got'[t] = data[Slot(pos[t])]
           \/ pc[t] = "publish" /\ pc'[t] = "count" /\ got'[t] = got[t]
    BY <1>0, <1>3 DEF DequeueRead, DequeueRelease, At, Goto, shared
  <2>2. ASSUME NEW p \in Nat PROVE Item(p)' = Item(p)
    <3>1. \A u \in Threads : (Holds(u, "enqueue")' /\ pos'[u] = p) <=> (Holds(u, "enqueue") /\ pos[u] = p)
      BY <2>1 DEF Holds
    <3> QED BY <1>0, <2>1, <3>1, ItemSame
  <2>3. Contents' = Contents
    BY <1>0, <2>1, <2>2, ItemsSame
  <2>4. Outcome' = Outcome
    <3>1. Outcome'[t] = Outcome[t]
      BY <2>1 DEF Outcome, Result
    <3> QED BY <1>0, <2>1, <3>1, OutcomeStep
  <2> QED BY <2>1, <2>3, <2>4
<1> QED BY <1>1, <1>2, <1>3

LEMMA FifoSteps ==
    ASSUME FullInv, FullInv', [Next]_vars
    PROVE  [Fifo!Next]_(Fifo!fifoVars)
<1>0. /\ pc \in [Threads -> {"idle", "load", "check", "cas", "move", "publish", "count", "return"}]
      /\ call \in [Threads -> Calls] /\ pos \in [Threads -> Nat] /\ got \in [Threads -> Answers]
      /\ total_dequeued \in Nat
  BY DEF FullInv, TypeInv, TypeOK
<1>u. ASSUME UNCHANGED <<Contents, call, Outcome>> PROVE UNCHANGED Fifo!fifoVars
  BY <1>u DEF Fifo!fifoVars
<1>1. CASE UNCHANGED vars
  <2>1. UNCHANGED <<Contents, call, Outcome>>
    BY <1>1 DEF vars, shared, totals, local, Contents, Outcome, Item, Writers, Result
  <2> QED BY <1>u, <2>1
<1>2. ASSUME NEW t \in Threads, Start(t) PROVE Fifo!Next
  <2>1. /\ UNCHANGED shared /\ pc[t] = "idle" /\ pc'[t] = "load"
        /\ \A u \in Threads : u # t => /\ pc'[u] = pc[u] /\ call'[u] = call[u]
                                      /\ pos'[u] = pos[u] /\ got'[u] = got[u]
    BY <1>0, <1>2 DEF Start, Goto
  <2>2. Contents' = Contents /\ Outcome' = Outcome
    <3>1. Outcome'[t] = Outcome[t]
      BY <2>1 DEF Outcome
    <3> QED BY <2>1, <3>1, LocalStep
  <2>3. call[t] = Fifo!Idle
    BY <2>1 DEF FullInv, FifoInv, CallsOK
  <2>4. \/ \E v \in Values : Fifo!Call(t, Fifo!Enqueue(v))
        \/ Fifo!Call(t, Fifo!Dequeue) \/ Fifo!Call(t, Fifo!Size)
    BY <1>2, <2>2, <2>3 DEF Start, Fifo!Call
  <2> QED BY <2>4 DEF Fifo!Next
<1>3. ASSUME NEW t \in Threads, Return(t) PROVE Fifo!Next
  <2>1. /\ UNCHANGED shared /\ pc[t] = "return" /\ pc'[t] = "idle"
        /\ \A u \in Threads : u # t => /\ pc'[u] = pc[u] /\ call'[u] = call[u]
                                      /\ pos'[u] = pos[u] /\ got'[u] = got[u]
        /\ call' = [call EXCEPT ![t] = Fifo!Idle]
    BY <1>0, <1>3 DEF Return, Goto
  <2>2. Outcome'[t] = Fifo!Pending
    BY <2>1 DEF Outcome, Fifo!Pending
  <2>3. Contents' = Contents /\ Outcome' = [Outcome EXCEPT ![t] = Fifo!Pending]
    BY <2>1, <2>2, LocalStep
  <2>4. Outcome[t] # Fifo!Pending
    BY <2>1, OutcomeOf
  <2> QED BY <2>1, <2>3, <2>4 DEF Fifo!Next, Fifo!Return
<1>4. ASSUME NEW t \in Threads, EnqueueLoad(t) \/ EnqueueRetry(t) \/ DequeueLoad(t) \/ DequeueRetry(t) \/ SizeLoadEnqueued(t)
      PROVE  UNCHANGED Fifo!fifoVars
  <2>1. /\ UNCHANGED <<shared, call, got>> /\ pc[t] \in {"load", "cas"} /\ pc'[t] = "check"
        /\ \A u \in Threads : u # t => pc'[u] = pc[u] /\ pos'[u] = pos[u]
    BY <1>0, <1>4 DEF EnqueueLoad, EnqueueRetry, DequeueLoad, DequeueRetry, SizeLoadEnqueued, At, Goto
  <2>2. Outcome'[t] = Outcome[t]
    BY <2>1 DEF Outcome
  <2>3. Contents' = Contents /\ Outcome' = Outcome
    BY <2>1, <2>2, LocalStep
  <2> QED BY <1>u, <2>1, <2>3
<1>5. ASSUME NEW t \in Threads, EnqueueCheck(t) \/ DequeueCheck(t), pc'[t] # "return"
      PROVE  UNCHANGED Fifo!fifoVars
  <2>1. /\ UNCHANGED <<shared, call, got, pos>> /\ pc[t] = "check" /\ pc'[t] \in {"cas", "load"}
        /\ \A u \in Threads : u # t => pc'[u] = pc[u]
    BY <1>0, <1>5 DEF EnqueueCheck, DequeueCheck, At, Goto, Answer
  <2>2. Outcome'[t] = Outcome[t]
    BY <2>1 DEF Outcome
  <2>3. Contents' = Contents /\ Outcome' = Outcome
    BY <2>1, <2>2, LocalStep
  <2> QED BY <1>u, <2>1, <2>3
<1>6. ASSUME NEW t \in Threads, EnqueueCount(t) \/ DequeueCount(t) PROVE UNCHANGED Fifo!fifoVars
  <2>1. /\ UNCHANGED <<shared, call, pos>> /\ pc[t] = "count" /\ pc'[t] = "return"
        /\ \A u \in Threads : u # t => pc'[u] = pc[u] /\ got'[u] = got[u]
        /\ got'[t] = IF call[t].op = "enqueue" THEN call[t].value ELSE got[t]
    BY <1>0, <1>6 DEF EnqueueCount, DequeueCount, At, Goto, Answer
  <2>2. Outcome'[t] = Outcome[t]
    BY <2>1 DEF Outcome, Result
  <2>3. Contents' = Contents /\ Outcome' = Outcome
    BY <2>1, <2>2, LocalStep
  <2> QED BY <1>u, <2>1, <2>3
<1>7. ASSUME NEW t \in Threads, SizeLoadDequeued(t) PROVE Fifo!Next
  <2> DEFINE m == (pos[t] - total_dequeued) % SizeMod
  <2>0. m \in 0 .. SizeMod - 1
    <3>1. SizeMod \in Nat \ {0} /\ pos[t] - total_dequeued \in Int
      BY <1>0, QueueAssumption
    <3> QED BY <3>1
  <2> HIDE DEF m
  <2>1. /\ UNCHANGED <<shared, call, pos>> /\ pc[t] = "check" /\ pc'[t] = "return"
        /\ call[t].op = "size" /\ got'[t] = m
        /\ \A u \in Threads : u # t => pc'[u] = pc[u] /\ got'[u] = got[u]
    BY <1>0, <1>7 DEF SizeLoadDequeued, At, Goto, Answer, m
  <2>2. Outcome'[t] = Fifo!Done(m) /\ Outcome[t] = Fifo!Pending
    BY <2>1 DEF Outcome, Result, Fifo!Done, Fifo!Pending
  <2>3. Contents' = Contents /\ Outcome' = [Outcome EXCEPT ![t] = Fifo!Done(m)]
    BY <2>1, <2>2, LocalStep
  <2>4. Fifo!Measure(t)
    BY <2>0, <2>1, <2>2, <2>3 DEF Fifo!Measure, Fifo!Decide
  <2> QED BY <2>4 DEF Fifo!Next
<1>8. ASSUME NEW t \in Threads, Step(t) PROVE [Fifo!Next]_(Fifo!fifoVars)
  <2>1. EnqueueReserve(t) => Fifo!Next
    BY PutStep DEF Fifo!Next
  <2>2. DequeueReserve(t) => Fifo!Next
    BY TakeStep DEF Fifo!Next
  <2>3. (EnqueueCheck(t) \/ DequeueCheck(t)) /\ pc'[t] = "return" => Fifo!Next
    BY RefuseStep DEF Fifo!Next
  <2>4. EnqueueWrite(t) \/ EnqueuePublish(t) \/ DequeueRead(t) \/ DequeueRelease(t)
            => UNCHANGED Fifo!fifoVars
    BY <1>u, HolderSteps
  <2> QED BY <1>3, <1>4, <1>5, <1>6, <1>7, <1>8, <2>1, <2>2, <2>3, <2>4 DEF Step
<1> QED BY <1>1, <1>2, <1>8 DEF Next

(* The queue of mpmc.c is a bounded first-in first-out queue: whatever     *)
(* threads do at once, each operation takes effect at one moment, nothing  *)
(* is lost, repeated or reordered, and none is refused without a reason,   *)
(* for every number of threads, every capacity and every length of run.    *)
THEOREM QueueImplementsFifo == Spec => ImplementsFifo
<1>1. Spec => []FullInv
  BY FifoSafety, PTL DEF FullInv
<1>2. FullInv /\ FullInv' /\ [Next]_vars => [Fifo!Next]_(Fifo!fifoVars)
  BY FifoSteps
<1> QED BY <1>1, <1>2, FifoInitial, PTL DEF Spec, ImplementsFifo, Fifo!Spec
=============================================================================
