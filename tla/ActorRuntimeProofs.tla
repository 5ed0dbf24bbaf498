-------------------------- MODULE ActorRuntimeProofs --------------------------
(***************************************************************************)
(* Proofs about ActorRuntime: every actor is handed the messages it        *)
(* accepts exactly once and in order, and at most once when the program    *)
(* itself queries the exactly-once filter; the filter never drops a fresh  *)
(* message; the runtime with its call stack is type correct; a walk of the *)
(* list goes on at live actors; upgrades come before the next message; the *)
(* statistics balance; prompt calls are answered.                          *)
(***************************************************************************)
EXTENDS ActorRuntime, SequenceTheorems, FiniteSetTheorems, TLAPS

Sup == INSTANCE SupervisionProofs

(* The constants meet what Supervision assumes of them.                    *)
LEMMA TreeSetup == Sup!SupervisionAssumption
  BY RuntimeAssumption DEF Sup!SupervisionAssumption

(* Supervision under its two names, the model's and the proofs'.           *)
LEMMA SameTree ==
    /\ Tree!Init <=> Sup!Init
    /\ Tree!Next <=> Sup!Next
    /\ UNCHANGED Tree!treeVars <=> UNCHANGED Sup!treeVars
    /\ Tree!TypeOK <=> Sup!TypeOK
    /\ Tree!ListIsLive <=> Sup!ListIsLive
    /\ Tree!TypeOK' <=> Sup!TypeOK'
    /\ Tree!ListIsLive' <=> Sup!ListIsLive'
<1> USE DEF Tree!NoMeta, Sup!NoMeta, Tree!Live, Sup!Live, Tree!States, Sup!States,
            Tree!Supervised, Sup!Supervised, Tree!Meta, Sup!Meta,
            Tree!Range, Sup!Range, Tree!RemoveAt, Sup!RemoveAt,
            Tree!Cardinality, Sup!Cardinality, Tree!Charge, Sup!Charge
<1>1. Tree!Init <=> Sup!Init
  BY DEF Tree!Init, Sup!Init
<1>2. \A a \in Actors : Tree!New(a) <=> Sup!New(a)
  BY DEF Tree!New, Sup!New
<1>3. \A a \in Actors : Tree!Destroy(a) <=> Sup!Destroy(a)
  BY DEF Tree!Destroy, Sup!Destroy
<1>4. \A a \in Actors : Tree!MarkCrashed(a) <=> Sup!MarkCrashed(a)
  BY DEF Tree!MarkCrashed, Sup!MarkCrashed
<1>5. \A a \in Actors : Tree!HandleCrashExhausted(a) <=> Sup!HandleCrashExhausted(a)
  BY DEF Tree!HandleCrashExhausted, Sup!HandleCrashExhausted, Tree!Exhausted, Sup!Exhausted
<1>6. \A a \in Actors : Tree!HandleCrashRestart(a) <=> Sup!HandleCrashRestart(a)
  BY DEF Tree!HandleCrashRestart, Sup!HandleCrashRestart, Tree!Exhausted, Sup!Exhausted,
         Tree!RefsLive, Sup!RefsLive, Tree!RestartSet, Sup!RestartSet
<1>7. Tree!Start <=> Sup!Start
  BY DEF Tree!Start, Sup!Start, Tree!StartTotal, Sup!StartTotal, Tree!Started, Sup!Started,
         Tree!StartCount, Sup!StartCount, Tree!IsSupervisor, Sup!IsSupervisor
<1>8. Tree!Stop <=> Sup!Stop
  BY DEF Tree!Stop, Sup!Stop
<1>9. \A p, c \in Actors, s \in Strategies, m \in RestartArgs :
          Tree!SuperviseRegister(p, c, s, m) <=> Sup!SuperviseRegister(p, c, s, m)
  BY DEF Tree!SuperviseRegister, Sup!SuperviseRegister, Tree!Registrations, Sup!Registrations
<1>10. Tree!Next <=> Sup!Next
  BY <1>2, <1>3, <1>4, <1>5, <1>6, <1>7, <1>8, <1>9
     DEF Tree!Next, Sup!Next, Tree!HandleCrash, Sup!HandleCrash
<1>11. UNCHANGED Tree!treeVars <=> UNCHANGED Sup!treeVars
  BY DEF Tree!treeVars, Sup!treeVars
<1>12. (Tree!TypeOK <=> Sup!TypeOK) /\ (Tree!ListIsLive <=> Sup!ListIsLive)
  BY DEF Tree!TypeOK, Sup!TypeOK, Tree!ListIsLive, Sup!ListIsLive
<1>13. (Tree!TypeOK' <=> Sup!TypeOK') /\ (Tree!ListIsLive' <=> Sup!ListIsLive')
  BY DEF Tree!TypeOK, Sup!TypeOK, Tree!ListIsLive, Sup!ListIsLive
<1> QED BY <1>1, <1>10, <1>11, <1>12, <1>13

(* Every step of the runtime is a lifecycle or supervision step, or none.  *)
LEMMA TreeSteps == [Next]_vars => [Tree!Next]_(Tree!treeVars)
<1> SUFFICES ASSUME [Next]_vars PROVE [Tree!Next]_(Tree!treeVars)
  OBVIOUS
<1>1. ASSUME UNCHANGED lifeVars PROVE UNCHANGED Tree!treeVars
  BY <1>1 DEF lifeVars, Tree!treeVars
<1>2. ASSUME NEW a \in Actors, New(a) PROVE Tree!Next
  BY <1>2 DEF New, Tree!Next
<1>3. ASSUME NEW a \in Actors, Destroy(a) \/ DestroySelf(a) PROVE Tree!Next
  BY <1>3 DEF Destroy, DestroySelf, Discard, Tree!Next
<1>4. CASE Lifecycle
  BY <1>4 DEF Lifecycle, Tree!Next
<1>5. ASSUME NEW a \in Actors, Send(a) PROVE UNCHANGED lifeVars
  BY <1>5 DEF Send, Enqueue
<1>6. ASSUME NEW a \in Actors, NEW c \in Calls, Call(a, c) PROVE UNCHANGED lifeVars
  BY <1>6 DEF Call, Enqueue
<1>7. ASSUME NEW a \in Actors, NEW n \in Limits, SetLimit(a, n) PROVE UNCHANGED lifeVars
  BY <1>7 DEF SetLimit
<1>8. ASSUME NEW a \in Actors, NEW id \in 1 .. MaxSends, Probe(a, id)
      PROVE  UNCHANGED lifeVars
  BY <1>8 DEF Probe
<1>9. ASSUME NEW a \in Actors, NEW b \in Behaviors \cup {NoBehavior}, HotUpgrade(a, b)
      PROVE  UNCHANGED lifeVars
  BY <1>9 DEF HotUpgrade
<1>10. CASE Reply \/ BehaviorReturn \/ TickStart
  BY <1>10, <1>1 DEF Reply, BehaviorReturn, TickStart
<1>11. CASE TickEnd \/ CallTick \/ CallReturn
  BY <1>11, <1>1 DEF TickEnd, CallTick, CallReturn
<1>12. ASSUME NEW a \in Actors, Visit(a) PROVE UNCHANGED lifeVars
  BY <1>12 DEF Visit, VisitIdle, VisitDuplicate, VisitDeliver
<1>13. CASE UNCHANGED vars
  BY <1>13, <1>1 DEF vars
<1> QED
  BY <1>1, <1>2, <1>3, <1>4, <1>5, <1>6, <1>7, <1>8, <1>9, <1>10, <1>11, <1>12, <1>13
     DEF Next, Step, Runtime

(* The scheduler's list agrees with the actors that exist, in the runtime. *)
TreeInv == Tree!TypeOK /\ Tree!ListIsLive

LEMMA TreeInvStep == TreeInv /\ [Next]_vars => TreeInv'
<1> SUFFICES ASSUME TreeInv, [Next]_vars PROVE TreeInv'
  OBVIOUS
<1>1. Sup!TypeOK /\ Sup!ListIsLive
  BY SameTree DEF TreeInv
<1>2. [Tree!Next]_(Tree!treeVars)
  BY TreeSteps
<1>3. [Sup!Next]_(Sup!treeVars)
  BY <1>2, SameTree
<1>4. Sup!TypeOK'
  BY <1>1, <1>3, TreeSetup, Sup!TypeStep
<1>5. Sup!ListIsLive'
  BY <1>1, <1>3, TreeSetup, Sup!ListStep
<1> QED BY <1>4, <1>5, SameTree DEF TreeInv

LEMMA TreeInvInit == Init => TreeInv
  BY TreeSetup, SameTree, Sup!SafetyInit DEF TreeInv, Init, Sup!SafetyInv

LEMMA FreedForever ==
    TreeInv /\ [Next]_vars
        => \A a \in Actors : actor_state[a] = "FREED" => actor_state'[a] = "FREED"
<1> SUFFICES ASSUME TreeInv, [Next]_vars
             PROVE  \A a \in Actors : actor_state[a] = "FREED"
                                          => actor_state'[a] = "FREED"
  OBVIOUS
<1>1. Sup!TypeOK /\ Sup!ListIsLive
  BY SameTree DEF TreeInv
<1>2. [Tree!Next]_(Tree!treeVars)
  BY TreeSteps
<1>3. [Sup!Next]_(Sup!treeVars)
  BY <1>2, SameTree
<1> QED BY <1>1, <1>3, TreeSetup, Sup!FreedForever

-----------------------------------------------------------------------------
(* The inductive invariant behind InOrder and NoFalseDuplicate.            *)
QueueTypes ==
    /\ mailbox \in [Actors -> Seq(Message)]
    /\ next_msg_id \in [Actors -> Nat \ {0}]
    /\ delivered_ids \in [Actors -> SUBSET Nat]
    /\ accepted \in [Actors -> Nat]
    /\ log \in [Actors -> Seq(Nat)]
    /\ discarded \in [Actors -> Nat]

(* Message ids grow along the queue, above the delivered ones and below    *)
(* the next one.                                                           *)
IdsGrow(a) ==
    /\ \A d \in delivered_ids[a] : d < next_msg_id[a]
    /\ \A i \in DOMAIN mailbox[a] : mailbox[a][i].id > 0 =>
        /\ mailbox[a][i].id < next_msg_id[a]
        /\ \A d \in delivered_ids[a] : d < mailbox[a][i].id
        /\ \A j \in DOMAIN mailbox[a] :
               j < i /\ mailbox[a][j].id > 0 => mailbox[a][j].id < mailbox[a][i].id

Ordered(a) ==
    /\ accepted[a] = Len(log[a]) + Len(mailbox[a]) + discarded[a]
    /\ \A i \in DOMAIN log[a] : log[a][i] = i
    /\ \A i \in DOMAIN mailbox[a] : mailbox[a][i].seq = Len(log[a]) + i
    /\ actor_state[a] # "FREED" => discarded[a] = 0

QueueInv == TreeInv /\ QueueTypes /\ \A a \in Actors : IdsGrow(a) /\ Ordered(a)

LEMMA QueueInit == Init => QueueInv
<1> SUFFICES ASSUME Init PROVE QueueInv
  OBVIOUS
<1>1. TreeInv
  BY TreeInvInit
<1>2. <<>> \in Seq(Message) /\ <<>> \in Seq(Nat)
  OBVIOUS
<1>3. QueueTypes
  BY <1>2 DEF Init, QueueTypes
<1>4. \A a \in Actors : IdsGrow(a) /\ Ordered(a)
  BY DEF Init, IdsGrow, Ordered
<1> QED BY <1>1, <1>3, <1>4 DEF QueueInv

(* An actor whose queue a step leaves alone keeps its part of QueueInv.    *)
LEMMA SameQueue ==
    ASSUME QueueInv, [Next]_vars, NEW b \in Actors,
           mailbox'[b] = mailbox[b], next_msg_id'[b] = next_msg_id[b],
           delivered_ids'[b] = delivered_ids[b], accepted'[b] = accepted[b],
           log'[b] = log[b], discarded'[b] = discarded[b]
    PROVE  IdsGrow(b)' /\ Ordered(b)'
<1>1. IdsGrow(b) /\ Ordered(b)
  BY DEF QueueInv
<1>2. actor_state'[b] # "FREED" => actor_state[b] # "FREED"
  BY FreedForever DEF QueueInv
<1> QED BY <1>1, <1>2 DEF IdsGrow, Ordered

LEMMA UnchangedQueues ==
    ASSUME QueueInv, [Next]_vars,
           UNCHANGED <<mailbox, next_msg_id, delivered_ids, accepted, log, discarded>>
    PROVE  QueueInv'
<1>1. TreeInv'
  BY TreeInvStep DEF QueueInv
<1>2. QueueTypes'
  BY DEF QueueInv, QueueTypes
<1>3. \A b \in Actors : IdsGrow(b)' /\ Ordered(b)'
  BY SameQueue
<1> QED BY <1>1, <1>2, <1>3 DEF QueueInv

(* A message appended to the queue of an actor that accepts it.            *)
LEMMA EnqueueStep ==
    ASSUME QueueInv, [Next]_vars, NEW a \in Actors, NEW id \in Nat,
           NEW call \in 0 .. MaxCalls, Accepts(a), Enqueue(a, id, call),
           \/ id = 0 /\ UNCHANGED next_msg_id
           \/ id = next_msg_id[a] /\ next_msg_id' = [next_msg_id EXCEPT ![a] = @ + 1]
    PROVE  QueueInv'
<1> DEFINE m == [seq |-> accepted[a] + 1, id |-> id, call |-> call]
           q == mailbox[a]
<1>1. /\ mailbox \in [Actors -> Seq(Message)] /\ q \in Seq(Message)
      /\ next_msg_id \in [Actors -> Nat \ {0}] /\ next_msg_id[a] \in Nat \ {0}
      /\ delivered_ids \in [Actors -> SUBSET Nat] /\ delivered_ids[a] \subseteq Nat
      /\ accepted \in [Actors -> Nat] /\ accepted[a] \in Nat
      /\ log \in [Actors -> Seq(Nat)] /\ log[a] \in Seq(Nat)
      /\ discarded \in [Actors -> Nat]
  BY DEF QueueInv, QueueTypes
<1>2. /\ mailbox' = [mailbox EXCEPT ![a] = Append(q, m)]
      /\ accepted' = [accepted EXCEPT ![a] = @ + 1]
      /\ UNCHANGED <<delivered_ids, log, discarded>>
  BY DEF Enqueue
<1>3. m \in Message /\ m.seq = accepted[a] + 1 /\ m.id = id
  BY <1>1 DEF Message
<1> HIDE DEF m, q
<1>4. /\ Append(q, m) \in Seq(Message)
      /\ Len(q) \in Nat /\ DOMAIN q = 1 .. Len(q)
      /\ Len(Append(q, m)) = Len(q) + 1
      /\ DOMAIN Append(q, m) = 1 .. Len(q) + 1
      /\ Append(q, m)[Len(q) + 1] = m
      /\ \A i \in 1 .. Len(q) : Append(q, m)[i] = q[i] /\ q[i] \in Message
  BY <1>1, <1>3
<1>5. QueueTypes'
  <2>1. mailbox' \in [Actors -> Seq(Message)]
    BY <1>1, <1>2, <1>4
  <2>2. next_msg_id' \in [Actors -> Nat \ {0}]
    <3>1. next_msg_id[a] + 1 \in Nat \ {0}
      BY <1>1
    <3>2. CASE UNCHANGED next_msg_id
      BY <1>1, <3>2
    <3>3. CASE next_msg_id' = [next_msg_id EXCEPT ![a] = @ + 1]
      BY <1>1, <3>1, <3>3
    <3> QED BY <3>2, <3>3
  <2>3. accepted' \in [Actors -> Nat]
    BY <1>1, <1>2
  <2> QED BY <1>1, <1>2, <2>1, <2>2, <2>3 DEF QueueTypes
<1>6. TreeInv'
  BY TreeInvStep DEF QueueInv
<1>7. ASSUME NEW b \in Actors, b # a PROVE IdsGrow(b)' /\ Ordered(b)'
  <2>1. /\ mailbox'[b] = mailbox[b] /\ next_msg_id'[b] = next_msg_id[b]
        /\ accepted'[b] = accepted[b]
    BY <1>1, <1>2, <1>7
  <2>2. /\ delivered_ids'[b] = delivered_ids[b] /\ log'[b] = log[b]
        /\ discarded'[b] = discarded[b]
    BY <1>2
  <2> QED BY <2>1, <2>2, SameQueue
<1>8. IdsGrow(a) /\ Ordered(a) /\ mailbox[a] = q /\ mailbox'[a] = Append(q, m)
  BY <1>1, <1>2 DEF QueueInv, q
<1>9. Ordered(a)'
  <2>1. discarded[a] = 0
    BY <1>8 DEF Accepts, Ordered
  <2>2. /\ accepted'[a] = accepted[a] + 1 /\ Len(log[a]) \in Nat
        /\ log'[a] = log[a] /\ discarded'[a] = 0
    BY <1>1, <1>2, <2>1
  <2>3. accepted[a] = Len(log[a]) + Len(q)
    BY <1>4, <1>8, <2>1, <2>2 DEF Ordered
  <2>4. accepted'[a] = Len(log'[a]) + Len(mailbox'[a]) + discarded'[a]
    BY <1>1, <1>4, <1>8, <2>2, <2>3
  <2>5. \A i \in DOMAIN mailbox'[a] : mailbox'[a][i].seq = Len(log'[a]) + i
    <3>1. \A i \in 1 .. Len(q) : q[i].seq = Len(log[a]) + i
      BY <1>4, <1>8 DEF Ordered
    <3>2. m.seq = Len(log[a]) + (Len(q) + 1)
      <4>1. Len(q) \in Nat
        BY <1>4
      <4> QED BY <1>1, <1>3, <2>2, <2>3, <4>1
    <3>3. \A i \in 1 .. Len(q) + 1 : i \in 1 .. Len(q) \/ i = Len(q) + 1
      BY <1>4
    <3>4. DOMAIN mailbox'[a] = 1 .. Len(q) + 1
      BY <1>4, <1>8
    <3>5. \A i \in 1 .. Len(q) : mailbox'[a][i] = q[i]
      BY <1>4, <1>8
    <3>6. mailbox'[a][Len(q) + 1] = m
      BY <1>4, <1>8
    <3> QED BY <2>2, <3>1, <3>2, <3>3, <3>4, <3>5, <3>6
  <2>6. \A i \in DOMAIN log'[a] : log'[a][i] = i
    BY <1>8, <2>2 DEF Ordered
  <2> QED BY <2>2, <2>4, <2>5, <2>6 DEF Ordered
<1>10. IdsGrow(a)'
  <2>1. delivered_ids'[a] = delivered_ids[a] /\ delivered_ids[a] \subseteq Nat
    BY <1>1, <1>2
  <2>2. next_msg_id[a] \in Nat \ {0} /\ next_msg_id'[a] \in Nat
        /\ next_msg_id'[a] >= next_msg_id[a] /\ (id > 0 => next_msg_id'[a] = id + 1)
        /\ (id > 0 => id = next_msg_id[a])
    BY <1>1
  <2>3. \A i \in 1 .. Len(q) : q[i].id \in Nat
    BY <1>4 DEF Message
  <2>4. ASSUME NEW i \in 1 .. Len(q) + 1, Append(q, m)[i].id > 0
        PROVE  /\ Append(q, m)[i].id < next_msg_id'[a]
               /\ \A d \in delivered_ids[a] : d < Append(q, m)[i].id
               /\ \A j \in 1 .. Len(q) + 1 : j < i /\ Append(q, m)[j].id > 0
                     => Append(q, m)[j].id < Append(q, m)[i].id
    <3>1. CASE i \in 1 .. Len(q)
      <4>1. Append(q, m)[i] = q[i] /\ q[i].id > 0 /\ q[i].id \in Nat
        BY <1>4, <2>3, <2>4, <3>1
      <4>2. /\ q[i].id < next_msg_id[a] /\ \A d \in delivered_ids[a] : d < q[i].id
            /\ \A j \in 1 .. Len(q) : j < i /\ q[j].id > 0 => q[j].id < q[i].id
        BY <1>4, <1>8, <3>1, <4>1 DEF IdsGrow
      <4>3. \A j \in 1 .. Len(q) + 1 : j < i => j \in 1 .. Len(q) /\ Append(q, m)[j] = q[j]
        BY <1>4, <3>1
      <4>4. q[i].id < next_msg_id'[a]
        BY <2>2, <4>1, <4>2
      <4> QED BY <4>1, <4>2, <4>3, <4>4
    <3>2. CASE i = Len(q) + 1
      <4>1. Append(q, m)[i].id = id /\ id > 0 /\ id = next_msg_id[a]
        BY <1>3, <1>4, <2>2, <2>4, <3>2
      <4>2. next_msg_id'[a] = id + 1 /\ id \in Nat
        BY <2>2, <4>1
      <4>3. \A d \in delivered_ids[a] : d < id
        BY <1>8, <4>1 DEF IdsGrow
      <4>4. \A j \in 1 .. Len(q) : q[j].id > 0 => q[j].id < id
        BY <1>4, <1>8, <4>1 DEF IdsGrow
      <4>5. \A j \in 1 .. Len(q) + 1 : j < i => j \in 1 .. Len(q) /\ Append(q, m)[j] = q[j]
        BY <1>4, <3>2
      <4>6. id < next_msg_id'[a]
        BY <4>2
      <4> QED BY <4>1, <4>3, <4>4, <4>5, <4>6
    <3> QED BY <1>4, <3>1, <3>2
  <2>5. \A d \in delivered_ids'[a] : d < next_msg_id'[a]
    BY <1>8, <2>1, <2>2 DEF IdsGrow
  <2> QED BY <1>4, <1>8, <2>1, <2>4, <2>5 DEF IdsGrow
<1> QED BY <1>5, <1>6, <1>7, <1>9, <1>10 DEF QueueInv

(* A message taken off the queue of a RUNNING actor.                       *)
LEMMA DeliverStep ==
    ASSUME QueueInv, [Next]_vars, NEW a \in Actors, VisitDeliver(a)
    PROVE  QueueInv'
<1> DEFINE q == mailbox[a]
           m == Head(mailbox[a])
<1>1. /\ mailbox \in [Actors -> Seq(Message)] /\ q \in Seq(Message) /\ q # <<>>
      /\ next_msg_id \in [Actors -> Nat \ {0}] /\ next_msg_id[a] \in Nat
      /\ delivered_ids \in [Actors -> SUBSET Nat] /\ delivered_ids[a] \subseteq Nat
      /\ accepted \in [Actors -> Nat] /\ accepted[a] \in Nat
      /\ log \in [Actors -> Seq(Nat)] /\ log[a] \in Seq(Nat)
      /\ discarded \in [Actors -> Nat] /\ discarded[a] \in Nat
  BY DEF QueueInv, QueueTypes, VisitDeliver, Deliverable
<1>2. /\ mailbox' = [mailbox EXCEPT ![a] = Tail(q)]
      /\ delivered_ids' = IF m.id > 0
             THEN [delivered_ids EXCEPT ![a] = @ \cup {m.id}] ELSE delivered_ids
      /\ log' = [log EXCEPT ![a] = Append(log[a], m.seq)]
      /\ UNCHANGED <<next_msg_id, accepted, discarded>>
  BY <1>1 DEF VisitDeliver
<1>3. IdsGrow(a) /\ Ordered(a) /\ mailbox[a] = q /\ mailbox'[a] = Tail(q)
  BY <1>1, <1>2 DEF QueueInv
<1> HIDE DEF q
<1>4. m = q[1] /\ m \in Message /\ m.id \in Nat /\ m.seq \in Nat
  <2>1. q \in Seq(Message) /\ q # <<>> /\ m = Head(q)
    BY <1>1, <1>3
  <2>2. Head(q) = q[1] /\ Len(q) \in Nat \ {0} /\ DOMAIN q = 1 .. Len(q)
    BY <2>1
  <2>3. q[1] \in Message
    BY <2>1, <2>2
  <2> HIDE DEF m
  <2> QED BY <2>1, <2>2, <2>3 DEF Message
<1> HIDE DEF m
<1>5. /\ Tail(q) \in Seq(Message)
      /\ Len(q) \in Nat \ {0} /\ DOMAIN q = 1 .. Len(q)
      /\ Len(Tail(q)) = Len(q) - 1 /\ DOMAIN Tail(q) = 1 .. Len(q) - 1
      /\ \A i \in 1 .. Len(q) - 1 : Tail(q)[i] = q[i + 1] /\ i + 1 \in 1 .. Len(q)
      /\ \A i \in 1 .. Len(q) : q[i].id \in Nat
  <2>1. q \in Seq(Message) /\ q # <<>>
    BY <1>1
  <2>2. /\ Tail(q) \in Seq(Message)
        /\ Len(q) \in Nat \ {0} /\ DOMAIN q = 1 .. Len(q)
        /\ Len(Tail(q)) = Len(q) - 1
        /\ \A i \in 1 .. Len(q) - 1 : Tail(q)[i] = q[i + 1]
    BY <2>1
  <2>3. \A i \in 1 .. Len(q) : q[i] \in Message
    BY <2>1, <2>2
  <2>4. \A i \in 1 .. Len(q) : q[i].id \in Nat
    BY <2>3 DEF Message
  <2> QED BY <2>2, <2>4
<1>6. /\ Append(log[a], m.seq) \in Seq(Nat) /\ Len(log[a]) \in Nat
      /\ Len(Append(log[a], m.seq)) = Len(log[a]) + 1
      /\ DOMAIN log[a] = 1 .. Len(log[a])
      /\ DOMAIN Append(log[a], m.seq) = 1 .. Len(log[a]) + 1
      /\ Append(log[a], m.seq)[Len(log[a]) + 1] = m.seq
      /\ \A i \in 1 .. Len(log[a]) : Append(log[a], m.seq)[i] = log[a][i]
  BY <1>1, <1>4
<1>7. QueueTypes'
  <2>1. mailbox' \in [Actors -> Seq(Message)]
    BY <1>1, <1>2, <1>5
  <2>2. delivered_ids' \in [Actors -> SUBSET Nat]
    <3>1. delivered_ids[a] \cup {m.id} \in SUBSET Nat
      BY <1>1, <1>4
    <3> QED BY <1>1, <1>2, <3>1
  <2>3. log' \in [Actors -> Seq(Nat)]
    BY <1>1, <1>2, <1>6
  <2> QED BY <1>1, <1>2, <2>1, <2>2, <2>3 DEF QueueTypes
<1>8. TreeInv'
  BY TreeInvStep DEF QueueInv
<1>9. ASSUME NEW b \in Actors, b # a PROVE IdsGrow(b)' /\ Ordered(b)'
  <2>1. mailbox'[b] = mailbox[b] /\ log'[b] = log[b]
    BY <1>1, <1>2, <1>9
  <2>2. delivered_ids'[b] = delivered_ids[b]
    BY <1>1, <1>2, <1>9
  <2>3. /\ next_msg_id'[b] = next_msg_id[b] /\ accepted'[b] = accepted[b]
        /\ discarded'[b] = discarded[b]
    BY <1>2
  <2> QED BY <2>1, <2>2, <2>3, SameQueue
<1>10. Ordered(a)'
  <2>1. log'[a] = Append(log[a], m.seq) /\ accepted'[a] = accepted[a]
        /\ discarded'[a] = discarded[a]
    BY <1>1, <1>2
  <2>2. accepted'[a] = Len(log'[a]) + Len(mailbox'[a]) + discarded'[a]
    <3>1. accepted[a] = Len(log[a]) + Len(q) + discarded[a]
      BY <1>3 DEF Ordered
    <3> QED BY <1>1, <1>3, <1>5, <1>6, <2>1, <3>1
  <2>3. m.seq = Len(log[a]) + 1
    BY <1>3, <1>4, <1>5 DEF Ordered
  <2>4. \A i \in DOMAIN log'[a] : log'[a][i] = i
    <3>1. \A i \in 1 .. Len(log[a]) : log[a][i] = i
      BY <1>3, <1>6 DEF Ordered
    <3> QED BY <1>6, <2>1, <2>3, <3>1
  <2>5. \A i \in DOMAIN mailbox'[a] : mailbox'[a][i].seq = Len(log'[a]) + i
    <3>1. \A i \in 1 .. Len(q) : q[i].seq = Len(log[a]) + i
      BY <1>3, <1>5 DEF Ordered
    <3> QED BY <1>3, <1>5, <1>6, <2>1, <3>1
  <2>6. actor_state'[a] # "FREED" => discarded'[a] = 0
    BY <1>3, <2>1, FreedForever DEF Ordered, QueueInv
  <2> QED BY <2>2, <2>4, <2>5, <2>6 DEF Ordered
<1>11. IdsGrow(a)'
  <2>1. next_msg_id'[a] = next_msg_id[a] /\ next_msg_id[a] \in Nat
    BY <1>1, <1>2
  <2>2. \A d \in delivered_ids'[a] :
            d \in Nat /\ (d \in delivered_ids[a] \/ (d = m.id /\ m.id > 0))
    <3>1. CASE m.id > 0
      <4>1. delivered_ids'[a] = delivered_ids[a] \cup {m.id}
        BY <1>1, <1>2, <3>1
      <4> QED BY <1>1, <1>4, <3>1, <4>1
    <3>2. CASE ~(m.id > 0)
      <4>1. delivered_ids' = delivered_ids
        BY <1>2, <3>2
      <4>2. \A d \in delivered_ids[a] : d \in Nat
        BY <1>1
      <4> QED BY <4>1, <4>2
    <3> QED BY <3>1, <3>2
  <2>3. \A i \in 1 .. Len(q) : q[i].id > 0 =>
            /\ q[i].id < next_msg_id[a]
            /\ \A d \in delivered_ids[a] : d < q[i].id
            /\ \A j \in 1 .. Len(q) : j < i /\ q[j].id > 0 => q[j].id < q[i].id
    BY <1>3, <1>5 DEF IdsGrow
  <2>4. \A d \in delivered_ids'[a] : d < next_msg_id'[a]
    <3>1. \A d \in delivered_ids[a] : d < next_msg_id[a]
      BY <1>3 DEF IdsGrow
    <3> QED BY <1>4, <1>5, <2>1, <2>2, <2>3, <3>1
  <2>5. ASSUME NEW i \in 1 .. Len(q) - 1, Tail(q)[i].id > 0
        PROVE  /\ Tail(q)[i].id < next_msg_id[a]
               /\ \A d \in delivered_ids'[a] : d < Tail(q)[i].id
               /\ \A j \in 1 .. Len(q) - 1 : j < i /\ Tail(q)[j].id > 0
                     => Tail(q)[j].id < Tail(q)[i].id
    <3>1. Tail(q)[i] = q[i + 1] /\ i + 1 \in 1 .. Len(q) /\ 1 < i + 1 /\ 1 \in 1 .. Len(q)
      BY <1>5
    <3>2. \A d \in delivered_ids'[a] : d < q[i + 1].id
      BY <1>4, <2>2, <2>3, <2>5, <3>1
    <3>3. \A j \in 1 .. Len(q) - 1 : j < i =>
              Tail(q)[j] = q[j + 1] /\ j + 1 \in 1 .. Len(q) /\ j + 1 < i + 1
      BY <1>5
    <3> QED BY <2>3, <2>5, <3>1, <3>2, <3>3
  <2> QED BY <1>3, <1>5, <2>1, <2>4, <2>5 DEF IdsGrow
<1> QED BY <1>7, <1>8, <1>9, <1>10, <1>11 DEF QueueInv

(* The exactly-once filter never fires on a queue in good order.           *)
LEMMA NeverDuplicate ==
    ASSUME QueueInv, NEW a \in Actors, mailbox[a] # <<>> PROVE ~Duplicate(a)
<1>1. mailbox[a] \in Seq(Message) /\ delivered_ids[a] \subseteq Nat /\ IdsGrow(a)
  BY DEF QueueInv, QueueTypes
<1>2. Head(mailbox[a]) = mailbox[a][1] /\ 1 \in DOMAIN mailbox[a]
  BY <1>1
<1>3. \A d \in delivered_ids[a] : mailbox[a][1].id > 0 => d < mailbox[a][1].id
  BY <1>1, <1>2 DEF IdsGrow
<1> QED BY <1>1, <1>2, <1>3 DEF Duplicate

LEMMA DiscardStep ==
    ASSUME QueueInv, [Next]_vars, NEW a \in Actors, Discard(a)
    PROVE  QueueInv'
<1>1. /\ mailbox \in [Actors -> Seq(Message)] /\ mailbox[a] \in Seq(Message)
      /\ log \in [Actors -> Seq(Nat)] /\ log[a] \in Seq(Nat) /\ accepted[a] \in Nat
      /\ discarded \in [Actors -> Nat] /\ discarded[a] \in Nat
  BY DEF QueueInv, QueueTypes
<1>2. /\ mailbox' = [mailbox EXCEPT ![a] = <<>>]
      /\ discarded' = [discarded EXCEPT ![a] = @ + Len(mailbox[a])]
      /\ UNCHANGED <<next_msg_id, delivered_ids, accepted, log>>
  BY DEF Discard
<1>3. Len(mailbox[a]) \in Nat /\ Len(log[a]) \in Nat
  BY <1>1
<1>4. QueueTypes'
  <2>1. mailbox' \in [Actors -> Seq(Message)]
    BY <1>1, <1>2
  <2>2. discarded' \in [Actors -> Nat]
    BY <1>1, <1>2, <1>3
  <2> QED BY <1>2, <2>1, <2>2 DEF QueueInv, QueueTypes
<1>5. TreeInv'
  BY TreeInvStep DEF QueueInv
<1>6. ASSUME NEW b \in Actors, b # a PROVE IdsGrow(b)' /\ Ordered(b)'
  <2>1. mailbox'[b] = mailbox[b] /\ discarded'[b] = discarded[b]
    BY <1>1, <1>2, <1>6
  <2> QED BY <1>2, <2>1, SameQueue
<1>7. IdsGrow(a) /\ Ordered(a) /\ mailbox'[a] = <<>>
  BY <1>1, <1>2 DEF QueueInv
<1>8. actor_state'[a] = "FREED"
  BY DEF Discard, Tree!Destroy, QueueInv, TreeInv, Tree!TypeOK
<1>9. IdsGrow(a)'
  BY <1>2, <1>7 DEF IdsGrow
<1>10. Ordered(a)'
  <2>1. discarded'[a] = discarded[a] + Len(mailbox[a])
    BY <1>1, <1>2
  <2>2. accepted[a] = Len(log[a]) + Len(mailbox[a]) + discarded[a]
    BY <1>7 DEF Ordered
  <2>3. accepted'[a] = Len(log'[a]) + Len(mailbox'[a]) + discarded'[a]
    BY <1>1, <1>2, <1>3, <1>7, <2>1, <2>2
  <2>4. log'[a] = log[a] /\ \A i \in DOMAIN log[a] : log[a][i] = i
    BY <1>2, <1>7 DEF Ordered
  <2>5. DOMAIN mailbox'[a] = {}
    BY <1>7
  <2> QED BY <1>8, <2>3, <2>4, <2>5 DEF Ordered
<1> QED BY <1>4, <1>5, <1>6, <1>9, <1>10 DEF QueueInv

LEMMA QueueStep ==
    ASSUME QueueInv, ~Uses("probe"), [Next]_vars
    PROVE  QueueInv'
<1> DEFINE Same == UNCHANGED <<mailbox, next_msg_id, delivered_ids, accepted, log,
                               discarded>>
<1>1. Same => QueueInv'
  BY UnchangedQueues
<1>2. ASSUME NEW a \in Actors, New(a) PROVE Same
  BY <1>2 DEF New, queueVars, statVars
<1>3. ASSUME NEW a \in Actors, Destroy(a) \/ DestroySelf(a) PROVE QueueInv'
  BY <1>3, DiscardStep DEF Destroy, DestroySelf
<1>4. CASE Lifecycle
  BY <1>1, <1>4 DEF Lifecycle, queueVars, statVars
<1>5. ASSUME NEW a \in Actors, Send(a) PROVE QueueInv'
  <2>1. next_msg_id[a] \in Nat /\ 0 \in 0 .. MaxCalls
    BY RuntimeAssumption DEF QueueInv, QueueTypes
  <2> QED BY <1>5, <2>1, EnqueueStep DEF Send
<1>6. ASSUME NEW a \in Actors, NEW c \in Calls, Call(a, c) PROVE QueueInv'
  <2>1. c \in 0 .. MaxCalls
    BY RuntimeAssumption DEF Calls
  <2> QED BY <1>6, <2>1, EnqueueStep DEF Call
<1>7. ASSUME NEW a \in Actors, NEW n \in Limits, SetLimit(a, n) PROVE Same
  BY <1>7 DEF SetLimit, statVars
<1>8. ASSUME NEW a \in Actors, NEW b \in Behaviors \cup {NoBehavior}, HotUpgrade(a, b)
      PROVE  Same
  BY <1>8 DEF HotUpgrade, queueVars, statVars
<1>9. CASE Reply \/ BehaviorReturn \/ TickStart
  BY <1>1, <1>9 DEF Reply, BehaviorReturn, TickStart, queueVars, statVars
<1>10. CASE TickEnd \/ CallTick \/ CallReturn
  BY <1>1, <1>10 DEF TickEnd, CallTick, CallReturn, queueVars, statVars
<1>11. ASSUME NEW a \in Actors, VisitIdle(a) PROVE Same
  BY <1>11 DEF VisitIdle, queueVars, statVars
<1>12. ASSUME NEW a \in Actors, VisitDuplicate(a) PROVE FALSE
  BY <1>12, NeverDuplicate DEF VisitDuplicate, Deliverable
<1>13. ASSUME NEW a \in Actors, VisitDeliver(a) PROVE QueueInv'
  BY <1>13, DeliverStep
<1>14. CASE UNCHANGED vars
  BY <1>1, <1>14 DEF vars, queueVars, statVars
<1>15. ASSUME NEW a \in Actors, NEW id \in 1 .. MaxSends, Probe(a, id) PROVE FALSE
  BY <1>15 DEF Probe
<1> HIDE DEF Same
<1> QED
  BY <1>1, <1>2, <1>3, <1>4, <1>5, <1>6, <1>7, <1>8, <1>9, <1>10, <1>11, <1>12, <1>13,
     <1>14, <1>15
     DEF Next, Step, Runtime, Visit

(* What a program without probes keeps; which program runs never changes.  *)
ProgramInv == ~Uses("probe") => QueueInv

LEMMA ProgramStep == ProgramInv /\ [Next]_vars => ProgramInv'
<1> SUFFICES ASSUME ProgramInv, [Next]_vars, ~Uses("probe")' PROVE QueueInv'
  BY DEF ProgramInv
<1>1. program' = program
  BY DEF Next, vars
<1>2. ~Uses("probe")
  BY <1>1 DEF Uses
<1> QED BY <1>2, QueueStep DEF ProgramInv

LEMMA ProgramInit == Init => ProgramInv
  BY QueueInit DEF ProgramInv

(* Exactly once and in order, for every number of actors, messages and     *)
(* calls and every interleaving of ticks and operations, as long as the    *)
(* program itself never asks pny_msg_delivered.                            *)
THEOREM DeliveredInOrder == Spec => []InOrder
<1>1. ProgramInv => InOrder
  BY DEF ProgramInv, QueueInv, Ordered, InOrder
<1> QED BY <1>1, ProgramInit, ProgramStep, PTL DEF Spec

(* And the filter of repeated ids never drops a message then.              *)
THEOREM FilterSparesNewMessages == Spec => []NoFalseDuplicate
<1>1. ProgramInv => NoFalseDuplicate
  <2> SUFFICES ASSUME ProgramInv, ~Uses("probe"),
                      NEW a \in Actors, NEW i \in DOMAIN mailbox[a],
                      mailbox[a][i].id > 0
               PROVE  mailbox[a][i].id \notin delivered_ids[a]
    BY DEF NoFalseDuplicate
  <2>1. mailbox[a] \in Seq(Message) /\ delivered_ids[a] \subseteq Nat /\ IdsGrow(a)
    BY DEF ProgramInv, QueueInv, QueueTypes
  <2> QED BY <2>1 DEF IdsGrow
<1> QED BY <1>1, ProgramInit, ProgramStep, PTL DEF Spec

-----------------------------------------------------------------------------
(* Type correctness.                                                       *)

(* What the stack holds, and what is on its top.                           *)
Frame == TickFrame \cup CallFrame

LEMMA FrameLemma ==
    ASSUME TypeOK
    PROVE  /\ \A a \in Actors \cup {NoActor} : Tick(a) \in Frame
           /\ stack # <<>> => /\ Top \in Frame /\ Pop \in Seq(Frame)
                              /\ Top.kind = "tick" => Top \in TickFrame
                              /\ Top.kind = "call" => Top \in CallFrame
           /\ \A s \in Seq(Frame), f \in Frame : Append(s, f) \in Seq(Frame)
           /\ \A s \in Seq(Frame), f, g \in Frame : s \o <<f, g>> \in Seq(Frame)
           /\ First \in Actors \cup {NoActor}
<1>1. NoMsg \in Message
  BY RuntimeAssumption DEF NoMsg, Message
<1>2. \A a \in Actors \cup {NoActor} : Tick(a) \in Frame
  BY <1>1 DEF Tick, Frame, TickFrame
<1>3. ASSUME stack # <<>>
      PROVE  /\ Top \in Frame /\ Pop \in Seq(Frame)
             /\ Top.kind = "tick" => Top \in TickFrame
             /\ Top.kind = "call" => Top \in CallFrame
  <2>1. stack \in Seq(Frame) /\ Len(stack) \in Nat \ {0}
    BY <1>3 DEF TypeOK, Frame
  <2>2. Top \in Frame
    BY <2>1 DEF Top
  <2>3. Pop \in Seq(Frame)
    BY <2>1 DEF Pop
  <2> QED BY <2>2, <2>3 DEF Frame, TickFrame, CallFrame
<1>4. \A s \in Seq(Frame), f \in Frame : Append(s, f) \in Seq(Frame)
  OBVIOUS
<1>5. \A s \in Seq(Frame), f, g \in Frame : s \o <<f, g>> \in Seq(Frame)
  <2> SUFFICES ASSUME NEW s \in Seq(Frame), NEW f \in Frame, NEW g \in Frame
               PROVE  s \o <<f, g>> \in Seq(Frame)
    OBVIOUS
  <2>1. <<f, g>> \in Seq(Frame)
    OBVIOUS
  <2> QED BY <2>1, ConcatProperties
<1>6. First \in Actors \cup {NoActor}
  BY DEF First, TypeOK, Tree!TypeOK
<1> QED BY <1>2, <1>3, <1>4, <1>5, <1>6

LEMMA AfterLemma ==
    ASSUME TypeOK, Tree!ListIsLive, NEW a \in Tree!Live
    PROVE  After(a) \in Actors \cup {NoActor}
<1>1. actors \in Seq(Actors) /\ \E k \in DOMAIN actors : actors[k] = a
  BY DEF TypeOK, Tree!TypeOK, Tree!ListIsLive, Tree!Range
<1> DEFINE i == CHOOSE k \in DOMAIN actors : actors[k] = a
<1>2. i \in DOMAIN actors
  BY <1>1
<1> HIDE DEF i
<1>3. i < Len(actors) => i + 1 \in DOMAIN actors
  BY <1>1, <1>2
<1> QED BY <1>1, <1>3 DEF After, i

(* The parts of TypeOK, by what a step may touch.                          *)
QueuesTyped ==
    /\ mailbox \in [Actors -> Seq(Message)]
    /\ max_messages \in [Actors -> Nat]
    /\ next_msg_id \in [Actors -> Nat]
    /\ delivered_ids \in [Actors -> SUBSET Nat]
CodeTyped ==
    /\ behavior \in [Actors -> Behaviors \cup {NoBehavior}]
    /\ new_behavior \in [Actors -> Behaviors \cup {NoBehavior}]
StackTyped == stack \in Seq(Frame)
CallsTyped ==
    /\ reply \in [Calls -> {"unused", "waiting", "done", "freed"}]
    /\ result \in [Calls -> {"none", "success"}]
    /\ answered \subseteq Calls /\ prompt \subseteq Calls
StatsTyped ==
    /\ messages_sent \in Nat /\ messages_delivered \in Nat
    /\ messages_dead_letter \in Nat
    /\ accepted \in [Actors -> Nat]
    /\ log \in [Actors -> Seq(Nat)]
    /\ discarded \in [Actors -> Nat]

LEMMA TypeParts ==
    TypeOK <=> /\ program \in Programs /\ Tree!TypeOK /\ QueuesTyped /\ CodeTyped /\ StackTyped
               /\ CallsTyped /\ StatsTyped
  BY DEF TypeOK, QueuesTyped, CodeTyped, StackTyped, CallsTyped, StatsTyped, Frame

LEMMA SameParts ==
    /\ QueuesTyped /\ UNCHANGED queueVars => QueuesTyped'
    /\ CodeTyped /\ UNCHANGED codeVars => CodeTyped'
    /\ StackTyped /\ UNCHANGED stack => StackTyped'
    /\ CallsTyped /\ UNCHANGED callVars => CallsTyped'
    /\ StatsTyped /\ UNCHANGED statVars => StatsTyped'
  BY DEF QueuesTyped, CodeTyped, StackTyped, CallsTyped, StatsTyped, queueVars, codeVars, callVars,
         statVars

LEMMA DiscardTyped ==
    ASSUME TypeOK, NEW a \in Actors, Discard(a)
    PROVE  QueuesTyped' /\ CodeTyped' /\ StackTyped' /\ CallsTyped' /\ StatsTyped'
<1>1. QueuesTyped /\ CodeTyped /\ StackTyped /\ CallsTyped /\ StatsTyped
  BY TypeParts
<1>2. QueuesTyped'
  <2>1. <<>> \in Seq(Message)
    OBVIOUS
  <2> QED BY <1>1, <2>1 DEF Discard, QueuesTyped
<1>3. StatsTyped'
  <2>1. Len(mailbox[a]) \in Nat
    BY <1>1 DEF QueuesTyped
  <2>2. discarded' \in [Actors -> Nat]
    BY <1>1, <2>1 DEF Discard, StatsTyped
  <2> QED BY <1>1, <2>2 DEF Discard, StatsTyped
<1> QED BY <1>1, <1>2, <1>3, SameParts DEF Discard

LEMMA EnqueueTyped ==
    ASSUME TypeOK, NEW a \in Actors, NEW id \in Nat, NEW call \in 0 .. MaxCalls, Enqueue(a, id, call),
           UNCHANGED next_msg_id \/ next_msg_id' = [next_msg_id EXCEPT ![a] = @ + 1]
    PROVE  QueuesTyped' /\ CodeTyped' /\ StatsTyped'
<1>1. QueuesTyped /\ CodeTyped /\ StatsTyped
  BY TypeParts
<1> DEFINE m == [seq |-> accepted[a] + 1, id |-> id, call |-> call]
<1>2. m \in Message
  BY <1>1 DEF StatsTyped, Message
<1>3. mailbox' = [mailbox EXCEPT ![a] = Append(@, m)]
  BY DEF Enqueue
<1> HIDE DEF m
<1>4. Append(mailbox[a], m) \in Seq(Message)
  BY <1>1, <1>2 DEF QueuesTyped
<1>5. mailbox' \in [Actors -> Seq(Message)]
  BY <1>1, <1>3, <1>4 DEF QueuesTyped
<1>6. next_msg_id' \in [Actors -> Nat]
  BY <1>1 DEF QueuesTyped
<1>7. QueuesTyped'
  BY <1>1, <1>5, <1>6 DEF Enqueue, QueuesTyped
<1>8. StatsTyped'
  BY <1>1 DEF Enqueue, StatsTyped
<1> QED BY <1>1, <1>7, <1>8, SameParts DEF Enqueue

LEMMA VisitTyped ==
    ASSUME TypeOK, Tree!ListIsLive, NEW a \in Actors, Visit(a)
    PROVE  QueuesTyped' /\ CodeTyped' /\ StackTyped' /\ CallsTyped' /\ StatsTyped'
<1>1. QueuesTyped /\ CodeTyped /\ StackTyped /\ CallsTyped /\ StatsTyped
  BY TypeParts
<1>2. Visiting(a) /\ Upgrade(a)
  BY DEF Visit, VisitIdle, VisitDuplicate, VisitDeliver
<1>3. CodeTyped'
  BY <1>1, <1>2 DEF Upgrade, CodeTyped
<1>4. a \in Tree!Live /\ stack # <<>> /\ After(a) \in Actors \cup {NoActor}
  BY <1>2, AfterLemma DEF Visiting, Walking
<1>5. Tick(After(a)) \in Frame /\ Append(Pop, Tick(After(a))) \in Seq(Frame)
  BY <1>4, FrameLemma
<1>6. CASE VisitIdle(a)
  BY <1>1, <1>3, <1>5, <1>6, SameParts DEF VisitIdle, StackTyped
<1>7. CASE VisitDuplicate(a)
  <2>1. Tail(mailbox[a]) \in Seq(Message)
    BY <1>1, <1>7 DEF VisitDuplicate, Deliverable, QueuesTyped
  <2>2. QueuesTyped'
    BY <1>1, <1>7, <2>1 DEF VisitDuplicate, QueuesTyped
  <2>3. StatsTyped' /\ StackTyped'
    BY <1>1, <1>5, <1>7 DEF VisitDuplicate, StatsTyped, StackTyped
  <2> QED BY <1>1, <1>3, <1>7, <2>2, <2>3, SameParts DEF VisitDuplicate
<1>8. CASE VisitDeliver(a)
  <2> DEFINE m == Head(mailbox[a])
  <2>1. Tail(mailbox[a]) \in Seq(Message) /\ m \in Message
    BY <1>1, <1>8 DEF VisitDeliver, Deliverable, QueuesTyped
  <2>2. /\ mailbox' = [mailbox EXCEPT ![a] = Tail(@)]
        /\ delivered_ids' = IF m.id > 0
               THEN [delivered_ids EXCEPT ![a] = @ \cup {m.id}] ELSE delivered_ids
        /\ log' = [log EXCEPT ![a] = Append(@, m.seq)]
        /\ messages_delivered' \in {messages_delivered, messages_delivered + 1}
        /\ \/ stack' = Append(Pop, Tick(After(a)))
           \/ stack' = Append(Pop, [Tick(After(a)) EXCEPT !.run = a, !.msg = m])
        /\ UNCHANGED <<max_messages, next_msg_id, callVars, messages_sent, messages_dead_letter,
                       accepted, discarded>>
    BY <1>8 DEF VisitDeliver
  <2> HIDE DEF m
  <2>3. m.id \in Nat /\ m.seq \in Nat
    BY <2>1 DEF Message
  <2>4. QueuesTyped'
    <3>1. mailbox' \in [Actors -> Seq(Message)]
      BY <1>1, <2>1, <2>2 DEF QueuesTyped
    <3>2. delivered_ids' \in [Actors -> SUBSET Nat]
      <4>1. delivered_ids[a] \cup {m.id} \in SUBSET Nat
        BY <1>1, <2>3 DEF QueuesTyped
      <4> QED BY <1>1, <2>2, <4>1 DEF QueuesTyped
    <3> QED BY <1>1, <2>2, <3>1, <3>2 DEF QueuesTyped
  <2>5. StatsTyped'
    <3>1. Append(log[a], m.seq) \in Seq(Nat)
      BY <1>1, <2>3 DEF StatsTyped
    <3>2. log' \in [Actors -> Seq(Nat)]
      BY <1>1, <2>2, <3>1 DEF StatsTyped
    <3> QED BY <1>1, <2>2, <3>2 DEF StatsTyped
  <2>6. StackTyped'
    <3>1. [Tick(After(a)) EXCEPT !.run = a, !.msg = m] \in Frame
      BY <1>4, <2>1 DEF Tick, Frame, TickFrame
    <3>2. Append(Pop, [Tick(After(a)) EXCEPT !.run = a, !.msg = m]) \in Seq(Frame)
      BY <1>4, <3>1, FrameLemma
    <3> QED BY <1>5, <2>2, <3>2 DEF StackTyped
  <2> QED BY <1>1, <1>3, <2>2, <2>4, <2>5, <2>6, SameParts
<1> QED BY <1>6, <1>7, <1>8 DEF Visit

LEMMA CallTyped ==
    ASSUME TypeOK, NEW a \in Actors, NEW c \in Calls, Call(a, c)
    PROVE  QueuesTyped' /\ CodeTyped' /\ StackTyped' /\ CallsTyped' /\ StatsTyped'
<1>1. CallsTyped /\ StackTyped
  BY TypeParts
<1>2. 0 \in Nat /\ c \in 0 .. MaxCalls /\ CallTicks \in 0 .. CallTicks
  BY RuntimeAssumption DEF Calls
<1>3. QueuesTyped' /\ CodeTyped' /\ StatsTyped'
  BY <1>2, EnqueueTyped DEF Call
<1>4. StackTyped'
  <2> DEFINE f == [kind |-> "call", call |-> c, left |-> CallTicks]
  <2>1. f \in Frame
    BY <1>2 DEF Frame, CallFrame
  <2>2. stack' = Append(stack, f)
    BY DEF Call
  <2> HIDE DEF f
  <2> QED BY <1>1, <2>1, <2>2, FrameLemma DEF StackTyped
<1>5. CallsTyped'
  BY <1>1 DEF Call, CallsTyped
<1> QED BY <1>3, <1>4, <1>5

LEMMA WaitTyped ==
    ASSUME TypeOK, TickStart \/ TickEnd \/ CallTick \/ CallReturn \/ Reply \/ BehaviorReturn
    PROVE  QueuesTyped' /\ CodeTyped' /\ StackTyped' /\ CallsTyped' /\ StatsTyped'
<1>1. QueuesTyped /\ CodeTyped /\ StackTyped /\ CallsTyped /\ StatsTyped
  BY TypeParts
<1>2. CASE TickStart
  <2>1. <<Tick(First)>> \in Seq(Frame)
    BY FrameLemma
  <2> QED BY <1>1, <1>2, <2>1, SameParts DEF TickStart, StackTyped
<1>3. CASE TickEnd
  <2>1. Pop \in Seq(Frame)
    BY <1>3, FrameLemma DEF TickEnd, Walking
  <2> QED BY <1>1, <1>3, <2>1, SameParts DEF TickEnd, StackTyped
<1>4. CASE CallTick
  <2>1. Top \in CallFrame /\ Pop \in Seq(Frame) /\ Tick(First) \in Frame
    BY <1>4, FrameLemma DEF CallTick, Waiting
  <2>2. [Top EXCEPT !.left = @ - 1] \in CallFrame
    <3>1. Top.left \in 0 .. CallTicks /\ Top.left > 0 /\ CallTicks \in Nat
      BY <1>4, <2>1, RuntimeAssumption DEF CallTick, CallFrame
    <3>2. Top.left - 1 \in 0 .. CallTicks
      BY <3>1
    <3> HIDE DEF Top
    <3> QED BY <2>1, <3>2 DEF CallFrame
  <2>3. [Top EXCEPT !.left = @ - 1] \in Frame
    BY <2>2 DEF Frame
  <2>4. Pop \o <<[Top EXCEPT !.left = @ - 1], Tick(First)>> \in Seq(Frame)
    BY <2>1, <2>3, FrameLemma
  <2> QED BY <1>1, <1>4, <2>4, SameParts DEF CallTick, StackTyped
<1>5. CASE CallReturn
  <2>1. Pop \in Seq(Frame)
    BY <1>5, FrameLemma DEF CallReturn, Waiting
  <2>2. CallsTyped' /\ StackTyped'
    BY <1>1, <1>5, <2>1 DEF CallReturn, CallsTyped, StackTyped
  <2> QED BY <1>1, <1>5, <2>2, SameParts DEF CallReturn
<1>6. CASE Reply
  <2>1. Top \in TickFrame
    BY <1>6, FrameLemma DEF Reply, InBehavior
  <2>2. Top.msg.call \in Calls
    BY <1>6, <2>1, RuntimeAssumption DEF Reply, OwesReply, TickFrame, Message, Calls
  <2>3. CallsTyped'
    BY <1>1, <1>6, <2>2 DEF Reply, CallsTyped
  <2> QED BY <1>1, <1>6, <2>3, SameParts DEF Reply
<1>7. CASE BehaviorReturn
  <2>1. Top \in TickFrame /\ Pop \in Seq(Frame)
    BY <1>7, FrameLemma DEF BehaviorReturn, InBehavior
  <2>2. Tick(Top.at) \in Frame
    BY <2>1, FrameLemma DEF TickFrame
  <2>3. Append(Pop, Tick(Top.at)) \in Seq(Frame)
    BY <2>1, <2>2, FrameLemma
  <2>4. StackTyped' /\ StatsTyped'
    BY <1>1, <1>7, <2>3 DEF BehaviorReturn, StackTyped, StatsTyped
  <2> QED BY <1>1, <1>7, <2>4, SameParts DEF BehaviorReturn
<1> QED BY <1>2, <1>3, <1>4, <1>5, <1>6, <1>7

LEMMA RuntimeTypeStep == TypeOK /\ Tree!ListIsLive /\ [Next]_vars => TypeOK'
<1> SUFFICES ASSUME TypeOK, Tree!ListIsLive, [Next]_vars PROVE TypeOK'
  OBVIOUS
<1> DEFINE Typed == QueuesTyped' /\ CodeTyped' /\ StackTyped' /\ CallsTyped' /\ StatsTyped'
<1>1. QueuesTyped /\ CodeTyped /\ StackTyped /\ CallsTyped /\ StatsTyped /\ program \in Programs
  BY TypeParts
<1>2. Tree!TypeOK' /\ program' \in Programs
  BY <1>1, TreeInvStep DEF TreeInv, TypeOK, Next, vars
<1>3. ASSUME NEW a \in Actors, New(a) PROVE Typed
  <2>1. CodeTyped'
    BY <1>1, <1>3 DEF New, CodeTyped
  <2> QED BY <1>1, <1>3, <2>1, SameParts DEF New
<1>4. ASSUME NEW a \in Actors, Destroy(a) \/ DestroySelf(a) PROVE Typed
  BY <1>4, DiscardTyped DEF Destroy, DestroySelf
<1>5. ASSUME NEW a \in Actors, Send(a) PROVE Typed
  <2>1. next_msg_id[a] \in Nat /\ 0 \in 0 .. MaxCalls
    BY <1>1, RuntimeAssumption DEF QueuesTyped
  <2>2. QueuesTyped' /\ CodeTyped' /\ StatsTyped'
    BY <1>5, <2>1, EnqueueTyped DEF Send
  <2> QED BY <1>1, <1>5, <2>2, SameParts DEF Send
<1>6. ASSUME NEW a \in Actors, NEW c \in Calls, Call(a, c) PROVE Typed
  BY <1>6, CallTyped
<1>7. ASSUME NEW a \in Actors, NEW n \in Limits, SetLimit(a, n) PROVE Typed
  <2>1. n \in Nat /\ DefaultLimit \in Nat
    BY RuntimeAssumption
  <2>2. QueuesTyped'
    BY <1>1, <1>7, <2>1 DEF SetLimit, QueuesTyped
  <2> QED BY <1>1, <1>7, <2>2, SameParts DEF SetLimit
<1>8. ASSUME NEW a \in Actors, NEW id \in 1 .. MaxSends, Probe(a, id) PROVE Typed
  <2>1. delivered_ids[a] \cup {id} \in SUBSET Nat
    BY <1>1 DEF QueuesTyped
  <2>2. QueuesTyped'
    BY <1>1, <1>8, <2>1 DEF Probe, QueuesTyped
  <2> QED BY <1>1, <1>8, <2>2, SameParts DEF Probe
<1>9. ASSUME NEW a \in Actors, NEW b \in Behaviors \cup {NoBehavior}, HotUpgrade(a, b) PROVE Typed
  <2>1. CodeTyped'
    BY <1>1, <1>9 DEF HotUpgrade, CodeTyped
  <2> QED BY <1>1, <1>9, <2>1, SameParts DEF HotUpgrade
<1>10. ASSUME Lifecycle PROVE Typed
  BY <1>1, <1>10, SameParts DEF Lifecycle
<1>11. ASSUME NEW a \in Actors, Visit(a) PROVE Typed
  BY <1>11, VisitTyped
<1>12. ASSUME TickStart \/ TickEnd \/ CallTick \/ CallReturn \/ Reply \/ BehaviorReturn PROVE Typed
  BY <1>12, WaitTyped
<1>13. ASSUME UNCHANGED vars PROVE Typed
  BY <1>1, <1>13, SameParts DEF vars
<1>14. Typed
  <2> HIDE DEF Typed
  <2> QED BY <1>3, <1>4, <1>5, <1>6, <1>7, <1>8, <1>9, <1>10, <1>11, <1>12, <1>13
          DEF Next, Step, Runtime, Typed
<1>15. (/\ program \in Programs /\ Tree!TypeOK /\ QueuesTyped /\ CodeTyped /\ StackTyped
        /\ CallsTyped /\ StatsTyped)'
  BY <1>2, <1>14
<1> QED BY <1>15 DEF TypeOK, QueuesTyped, CodeTyped, StackTyped, CallsTyped, StatsTyped, Frame

LEMMA RuntimeTypeInit == Init => TypeOK /\ Tree!ListIsLive
<1> SUFFICES ASSUME Init PROVE TypeOK /\ Tree!ListIsLive
  OBVIOUS
<1>1. Tree!TypeOK /\ Tree!ListIsLive
  BY TreeInvInit DEF TreeInv
<1>2. <<>> \in Seq(Message) /\ <<>> \in Seq(Nat) /\ <<>> \in Seq(TickFrame \cup CallFrame)
  OBVIOUS
<1>3. DefaultLimit \in Nat
  BY RuntimeAssumption
<1> QED BY <1>1, <1>2, <1>3 DEF Init, TypeOK

(* Type correctness of the runtime with its call stack: a walk's saved     *)
(* pointer is an actor or none, a call waits at most CallTicks, and every  *)
(* reply concerns a call that was made.                                    *)
THEOREM RuntimeTypeCorrect == Spec => []TypeOK
<1>2. TypeOK /\ Tree!ListIsLive /\ [Next]_vars => TypeOK' /\ Tree!ListIsLive'
  BY RuntimeTypeStep, TreeInvStep DEF TreeInv, TypeOK
<1> QED BY <1>2, RuntimeTypeInit, PTL DEF Spec

-----------------------------------------------------------------------------
(* At most once, for every program.  The log l and the queue q of an actor *)
(* that accepted n messages: ordinals grow along the log and then along    *)
(* the queue, up to n.                                                     *)
Once(l, q, n) ==
    /\ \A i, j \in DOMAIN l : i < j => l[i] < l[j]
    /\ \A i, j \in DOMAIN q : i < j => q[i].seq < q[j].seq
    /\ \A i \in DOMAIN l, j \in DOMAIN q : l[i] < q[j].seq
    /\ \A i \in DOMAIN l : l[i] <= n
    /\ \A j \in DOMAIN q : q[j].seq <= n
OnceInv == \A a \in Actors : Once(log[a], mailbox[a], accepted[a])

(* A queue loses its first message: dropped, or handed out.                *)
LEMMA OnceTaken ==
    ASSUME NEW l \in Seq(Nat), NEW q \in Seq(Message), NEW n \in Nat, q # <<>>, Once(l, q, n)
    PROVE  Once(l, Tail(q), n) /\ Once(Append(l, Head(q).seq), Tail(q), n)
<1> DEFINE k == Len(q)
           e == Len(l)
           t == Tail(q)
           v == Head(q).seq
           w == Append(l, v)
<1>1. /\ k \in Nat \ {0} /\ DOMAIN q = 1 .. k /\ DOMAIN t = 1 .. k - 1
      /\ \A i \in 1 .. k - 1 : t[i] = q[i + 1] /\ i + 1 \in 1 .. k
      /\ Head(q) = q[1] /\ 1 \in 1 .. k
  <2>1. k \in Nat \ {0} /\ DOMAIN q = 1 .. k /\ Head(q) = q[1]
    OBVIOUS
  <2>2. Len(t) = k - 1 /\ DOMAIN t = 1 .. Len(t) /\ \A i \in 1 .. k - 1 : t[i] = q[i + 1]
    OBVIOUS
  <2> HIDE DEF k, t
  <2> QED BY <2>1, <2>2
<1>2. \A i \in 1 .. k : q[i].seq \in Nat
  <2>1. \A i \in DOMAIN q : q[i] \in Message
    OBVIOUS
  <2> QED BY <1>1, <2>1 DEF Message
<1>3. v \in Nat /\ v = q[1].seq
  BY <1>1, <1>2
<1> HIDE DEF v
<1>4. /\ e \in Nat /\ DOMAIN l = 1 .. e /\ DOMAIN w = 1 .. e + 1
      /\ w[e + 1] = v /\ \A i \in 1 .. e : w[i] = l[i] /\ l[i] \in Nat
  BY <1>3
<1> HIDE DEF k, e, t, w
<1>5. \A i \in 1 .. e + 1 : i = e + 1 \/ (i \in 1 .. e /\ i < e + 1)
  BY <1>4
<1>a. \A i, j \in DOMAIN q : i < j => q[i].seq < q[j].seq
  BY DEF Once
<1>b. \A i \in DOMAIN l, j \in DOMAIN q : l[i] < q[j].seq
  BY DEF Once
<1>6. \A i, j \in 1 .. k - 1 : i < j => t[i].seq < t[j].seq
  <2> TAKE i, j \in 1 .. k - 1
  <2> HAVE i < j
  <2>1. i + 1 \in DOMAIN q /\ j + 1 \in DOMAIN q /\ i + 1 < j + 1
    BY <1>1
  <2> QED BY <1>1, <1>a, <2>1
<1>7. \A i \in 1 .. e, j \in 1 .. k - 1 : l[i] < t[j].seq
  BY <1>1, <1>4, <1>b
<1>8. \A j \in 1 .. k - 1 : t[j].seq <= n /\ v < t[j].seq
  <2> TAKE j \in 1 .. k - 1
  <2>1. t[j] = q[j + 1] /\ j + 1 \in 1 .. k /\ 1 < j + 1
    BY <1>1
  <2>2. q[1].seq < q[j + 1].seq
    BY <1>1, <1>a, <2>1
  <2>3. q[j + 1].seq <= n
    BY <1>1, <2>1 DEF Once
  <2> QED BY <1>3, <2>1, <2>2, <2>3
<1>9. \A i \in 1 .. e : l[i] < v /\ l[i] <= n
  <2> TAKE i \in 1 .. e
  <2>1. l[i] < q[1].seq
    BY <1>1, <1>4, <1>b
  <2>2. l[i] <= n
    BY <1>4 DEF Once
  <2> QED BY <1>3, <2>1, <2>2
<1>10. Once(l, t, n)
  BY <1>1, <1>4, <1>6, <1>7, <1>8, <1>9 DEF Once
<1>11. v <= n
  BY <1>1, <1>3 DEF Once
<1>12. Once(w, t, n)
  <2>1. \A i \in 1 .. e + 1 : w[i] <= n /\ \A j \in 1 .. k - 1 : w[i] < t[j].seq
    BY <1>4, <1>5, <1>7, <1>8, <1>9, <1>11
  <2>2. ASSUME NEW i \in 1 .. e + 1, NEW j \in 1 .. e + 1, i < j PROVE w[i] < w[j]
    <3>1. i \in 1 .. e /\ w[i] = l[i]
      BY <1>4, <2>2
    <3>2. CASE j = e + 1
      BY <1>4, <1>9, <3>1, <3>2
    <3>3. CASE j \in 1 .. e
      <4>1. i \in DOMAIN l /\ j \in DOMAIN l /\ w[j] = l[j]
        BY <1>4, <3>1, <3>3
      <4>2. \A x, y \in DOMAIN l : x < y => l[x] < l[y]
        BY DEF Once
      <4>3. l[i] < l[j]
        BY <2>2, <4>1, <4>2
      <4> QED BY <3>1, <4>1, <4>3
    <3> QED BY <1>5, <3>2, <3>3
  <2> QED BY <1>1, <1>4, <1>6, <1>8, <2>1, <2>2 DEF Once
<1> QED BY <1>10, <1>12 DEF t, v, w

(* A queue gets the next message.                                          *)
LEMMA OnceAdded ==
    ASSUME NEW l \in Seq(Nat), NEW q \in Seq(Message), NEW n \in Nat, Once(l, q, n),
           NEW m \in Message, m.seq = n + 1
    PROVE  Once(l, Append(q, m), n + 1)
<1> DEFINE k == Len(q)
           w == Append(q, m)
<1>1. /\ k \in Nat /\ DOMAIN q = 1 .. k /\ DOMAIN w = 1 .. k + 1
      /\ w[k + 1] = m /\ \A i \in 1 .. k : w[i] = q[i] /\ q[i] \in Message
  OBVIOUS
<1>2. \A i \in 1 .. k : q[i].seq \in Nat
  BY <1>1 DEF Message
<1>3. \A i \in DOMAIN l : l[i] \in Nat
  OBVIOUS
<1> HIDE DEF k, w
<1>4. \A i \in 1 .. k + 1 : i = k + 1 \/ (i \in 1 .. k /\ i < k + 1)
  BY <1>1
<1>a. /\ \A i \in 1 .. k : q[i].seq <= n
      /\ \A i \in DOMAIN l : l[i] <= n
  BY <1>1 DEF Once
<1>b. \A i \in DOMAIN l, j \in DOMAIN q : l[i] < q[j].seq
  BY DEF Once
<1>5. \A i \in 1 .. k + 1 : w[i].seq <= n + 1
  BY <1>1, <1>2, <1>4, <1>a
<1>6. \A i \in DOMAIN l : l[i] <= n + 1 /\ \A j \in 1 .. k + 1 : l[i] < w[j].seq
  <2> TAKE i \in DOMAIN l
  <2>1. l[i] <= n /\ l[i] \in Nat
    BY <1>3, <1>a
  <2>2. \A j \in 1 .. k : l[i] < q[j].seq
    BY <1>1, <1>b
  <2> QED BY <1>1, <1>4, <2>1, <2>2
<1>7. ASSUME NEW i \in 1 .. k + 1, NEW j \in 1 .. k + 1, i < j
      PROVE  w[i].seq < w[j].seq
  <2>1. i \in 1 .. k /\ w[i] = q[i] /\ q[i].seq <= n
    BY <1>1, <1>7, <1>a
  <2>2. CASE j = k + 1
    BY <1>1, <1>2, <2>1, <2>2
  <2>3. CASE j \in 1 .. k
    <3>1. i \in DOMAIN q /\ j \in DOMAIN q /\ w[j] = q[j]
      BY <1>1, <2>1, <2>3
    <3>2. \A x, y \in DOMAIN q : x < y => q[x].seq < q[y].seq
      BY DEF Once
    <3>3. q[i].seq < q[j].seq
      BY <1>7, <3>1, <3>2
    <3> QED BY <2>1, <3>1, <3>3
  <2> QED BY <1>4, <2>2, <2>3
<1>8. \A i, j \in DOMAIN l : i < j => l[i] < l[j]
  BY DEF Once
<1> QED BY <1>1, <1>5, <1>6, <1>7, <1>8 DEF Once, w

LEMMA OnceEnqueue ==
    ASSUME TypeOK, OnceInv, NEW a \in Actors, NEW id \in Nat, NEW call \in 0 .. MaxCalls,
           Enqueue(a, id, call)
    PROVE  OnceInv'
<1> DEFINE m == [seq |-> accepted[a] + 1, id |-> id, call |-> call]
<1>1. /\ log \in [Actors -> Seq(Nat)] /\ mailbox \in [Actors -> Seq(Message)]
      /\ accepted \in [Actors -> Nat]
  BY DEF TypeOK
<1>2. m \in Message /\ m.seq = accepted[a] + 1
  BY <1>1 DEF Message
<1>3. /\ mailbox' = [mailbox EXCEPT ![a] = Append(mailbox[a], m)]
      /\ accepted' = [accepted EXCEPT ![a] = accepted[a] + 1] /\ log' = log
  BY DEF Enqueue
<1> HIDE DEF m
<1>4. Once(log[a], Append(mailbox[a], m), accepted[a] + 1)
  BY <1>1, <1>2, OnceAdded DEF OnceInv
<1>5. /\ mailbox'[a] = Append(mailbox[a], m) /\ accepted'[a] = accepted[a] + 1
      /\ \A b \in Actors : b # a => mailbox'[b] = mailbox[b] /\ accepted'[b] = accepted[b]
  BY <1>1, <1>3
<1> QED BY <1>3, <1>4, <1>5 DEF OnceInv

(* The walk drops or hands out the first message of the queue.             *)
LEMMA OnceVisit ==
    ASSUME TypeOK, OnceInv, NEW a \in Actors, VisitDuplicate(a) \/ VisitDeliver(a)
    PROVE  OnceInv'
<1>1. /\ log \in [Actors -> Seq(Nat)] /\ mailbox \in [Actors -> Seq(Message)]
      /\ accepted \in [Actors -> Nat] /\ mailbox[a] # <<>>
  BY DEF TypeOK, VisitDuplicate, VisitDeliver, Deliverable
<1>2. /\ mailbox' = [mailbox EXCEPT ![a] = Tail(mailbox[a])] /\ accepted' = accepted
      /\ log' = log \/ log' = [log EXCEPT ![a] = Append(log[a], Head(mailbox[a]).seq)]
  BY DEF VisitDuplicate, VisitDeliver
<1>3. /\ Once(log[a], Tail(mailbox[a]), accepted[a])
      /\ Once(Append(log[a], Head(mailbox[a]).seq), Tail(mailbox[a]), accepted[a])
  BY <1>1, OnceTaken DEF OnceInv
<1>4. /\ mailbox'[a] = Tail(mailbox[a])
      /\ log'[a] = log[a] \/ log'[a] = Append(log[a], Head(mailbox[a]).seq)
      /\ \A b \in Actors : b # a => mailbox'[b] = mailbox[b] /\ log'[b] = log[b]
  BY <1>1, <1>2
<1>5. Once(log'[a], mailbox'[a], accepted[a])
  BY <1>3, <1>4
<1> QED BY <1>2, <1>4, <1>5 DEF OnceInv

LEMMA OnceDiscard ==
    ASSUME TypeOK, OnceInv, NEW a \in Actors, Discard(a) PROVE OnceInv'
<1>1. mailbox' = [mailbox EXCEPT ![a] = <<>>] /\ accepted' = accepted /\ log' = log
  BY DEF Discard
<1>2. mailbox'[a] = <<>> /\ \A b \in Actors : b # a => mailbox'[b] = mailbox[b]
  BY <1>1 DEF TypeOK
<1>3. Once(log[a], <<>>, accepted[a])
  BY DEF OnceInv, Once
<1> QED BY <1>1, <1>2, <1>3 DEF OnceInv

LEMMA OnceStep == TypeOK /\ OnceInv /\ [Next]_vars => OnceInv'
<1> SUFFICES ASSUME TypeOK, OnceInv, [Next]_vars PROVE OnceInv'
  OBVIOUS
<1> DEFINE Same == UNCHANGED <<mailbox, accepted, log>>
<1>1. Same => OnceInv'
  BY DEF OnceInv
<1>2. ASSUME NEW a \in Actors, New(a) PROVE Same
  BY <1>2 DEF New, queueVars, statVars
<1>3. ASSUME NEW a \in Actors, Destroy(a) \/ DestroySelf(a) PROVE OnceInv'
  BY <1>3, OnceDiscard DEF Destroy, DestroySelf
<1>4. CASE Lifecycle
  BY <1>1, <1>4 DEF Lifecycle, queueVars, statVars
<1>5. ASSUME NEW a \in Actors, Send(a) PROVE OnceInv'
  <2>1. next_msg_id[a] \in Nat /\ 0 \in 0 .. MaxCalls
    BY RuntimeAssumption DEF TypeOK
  <2> QED BY <1>5, <2>1, OnceEnqueue DEF Send
<1>6. ASSUME NEW a \in Actors, NEW c \in Calls, Call(a, c) PROVE OnceInv'
  <2>1. c \in 0 .. MaxCalls
    BY RuntimeAssumption DEF Calls
  <2> QED BY <1>6, <2>1, OnceEnqueue DEF Call
<1>7. ASSUME NEW a \in Actors, NEW n \in Limits, SetLimit(a, n) PROVE Same
  BY <1>7 DEF SetLimit, statVars
<1>8. ASSUME NEW a \in Actors, NEW b \in Behaviors \cup {NoBehavior}, HotUpgrade(a, b)
      PROVE  Same
  BY <1>8 DEF HotUpgrade, queueVars, statVars
<1>9. ASSUME NEW a \in Actors, NEW id \in 1 .. MaxSends, Probe(a, id) PROVE Same
  BY <1>9 DEF Probe, statVars
<1>10. CASE Reply \/ BehaviorReturn \/ TickStart
  BY <1>1, <1>10 DEF Reply, BehaviorReturn, TickStart, queueVars, statVars
<1>11. CASE TickEnd \/ CallTick \/ CallReturn
  BY <1>1, <1>11 DEF TickEnd, CallTick, CallReturn, queueVars, statVars
<1>12. ASSUME NEW a \in Actors, Visit(a) PROVE OnceInv'
  <2>1. CASE VisitIdle(a)
    BY <1>1, <2>1 DEF VisitIdle, queueVars, statVars
  <2>2. CASE VisitDuplicate(a) \/ VisitDeliver(a)
    BY <2>2, OnceVisit
  <2> QED BY <1>12, <2>1, <2>2 DEF Visit
<1>13. CASE UNCHANGED vars
  BY <1>1, <1>13 DEF vars, queueVars, statVars
<1> HIDE DEF Same
<1> QED
  BY <1>1, <1>2, <1>3, <1>4, <1>5, <1>6, <1>7, <1>8, <1>9, <1>10, <1>11, <1>12, <1>13
     DEF Next, Step, Runtime

(* At most once and in order, whatever the program asks pny_msg_delivered, *)
(* for every number of actors, messages and calls and every interleaving   *)
(* of ticks and operations.                                                *)
THEOREM DeliveredAtMostOnce == Spec => []AtMostOnce
<1> DEFINE Inv == TypeOK /\ Tree!ListIsLive /\ OnceInv
<1>1. Init => Inv
  <2>1. ASSUME Init PROVE OnceInv
    BY <2>1 DEF Init, OnceInv, Once
  <2> QED BY <2>1, RuntimeTypeInit
<1>2. Inv /\ [Next]_vars => Inv'
  BY RuntimeTypeStep, TreeInvStep, OnceStep DEF TreeInv, TypeOK
<1>3. Inv => AtMostOnce
  BY DEF OnceInv, Once, AtMostOnce
<1> HIDE DEF Inv
<1> QED BY <1>1, <1>2, <1>3, PTL DEF Spec

-----------------------------------------------------------------------------
(* The walks of the list.                                                  *)

(* A walk's saved pointer is good, and not the actor whose behavior runs.  *)
FrameOK(f) ==
    f.kind = "tick" =>
        /\ f.at = NoActor \/ f.at \in Tree!Live
        /\ f.run # NoActor => f.at # f.run
FramesOK(s) == \A i \in DOMAIN s : FrameOK(s[i])
Guarded == ~(Uses("call") /\ Uses("self-destroy"))
(* Without calls ticks do not nest.                                        *)
Flat(s) == Len(s) <= 1 /\ \A i \in DOMAIN s : s[i].kind = "tick"
WalkInv ==
    /\ TypeOK /\ Tree!ListIsLive
    /\ Guarded => FramesOK(stack)
    /\ ~Uses("call") => Flat(stack)

LEMMA StackLemma ==
    ASSUME TypeOK, FramesOK(stack), stack # <<>>
    PROVE  /\ FrameOK(Top) /\ FramesOK(Pop)
           /\ \A f : FrameOK(f) => FramesOK(Append(Pop, f))
           /\ \A f, g : FrameOK(f) /\ FrameOK(g) => FramesOK(Pop \o <<f, g>>)
<1> DEFINE n == Len(stack)
<1>1. stack \in Seq(Frame) /\ n \in Nat \ {0} /\ DOMAIN stack = 1 .. n
  BY DEF TypeOK, Frame
<1>2. /\ Pop \in Seq(Frame) /\ Len(Pop) = n - 1 /\ DOMAIN Pop = 1 .. n - 1
      /\ \A i \in 1 .. n - 1 : Pop[i] = stack[i] /\ i \in 1 .. n
  BY <1>1 DEF Pop
<1>3. FrameOK(Top)
  BY <1>1 DEF FramesOK, Top
<1>4. FramesOK(Pop)
  BY <1>1, <1>2 DEF FramesOK
<1> HIDE DEF n
<1>5. ASSUME NEW f, FrameOK(f) PROVE FramesOK(Append(Pop, f))
  <2>1. /\ DOMAIN Append(Pop, f) = 1 .. n /\ Append(Pop, f)[n] = f
        /\ \A i \in 1 .. n - 1 : Append(Pop, f)[i] = Pop[i]
    BY <1>1, <1>2
  <2>2. \A i \in 1 .. n : i = n \/ i \in 1 .. n - 1
    BY <1>1
  <2> QED BY <1>2, <1>4, <1>5, <2>1, <2>2 DEF FramesOK
<1>6. ASSUME NEW f, NEW g, FrameOK(f), FrameOK(g) PROVE FramesOK(Pop \o <<f, g>>)
  <2>1. /\ DOMAIN (Pop \o <<f, g>>) = 1 .. n + 1
        /\ (Pop \o <<f, g>>)[n] = f /\ (Pop \o <<f, g>>)[n + 1] = g
        /\ \A i \in 1 .. n - 1 : (Pop \o <<f, g>>)[i] = Pop[i]
    BY <1>1, <1>2
  <2>2. \A i \in 1 .. n + 1 : i = n \/ i = n + 1 \/ i \in 1 .. n - 1
    BY <1>1
  <2> QED BY <1>2, <1>4, <1>6, <2>1, <2>2 DEF FramesOK
<1> QED BY <1>3, <1>4, <1>5, <1>6

LEMMA FlatLemma ==
    ASSUME TypeOK, Flat(stack), stack # <<>>
    PROVE  Len(stack) = 1 /\ Top = stack[1] /\ Top.kind = "tick" /\ Pop = <<>>
           /\ \A f : f.kind = "tick" => Flat(Append(Pop, f))
<1>1. stack \in Seq(Frame) /\ Len(stack) = 1
  <2> DEFINE n == Len(stack)
  <2>1. stack \in Seq(Frame)
    BY DEF TypeOK, Frame
  <2>2. n \in Nat /\ n # 0
    BY <2>1
  <2>3. n <= 1
    BY DEF Flat
  <2> HIDE DEF n
  <2>4. n = 1
    BY <2>2, <2>3
  <2> QED BY <2>1, <2>4 DEF n
<1>2. Top = stack[1] /\ Top.kind = "tick"
  BY <1>1 DEF Top, Flat
<1>3. Pop = <<>>
  BY <1>1 DEF Pop
<1>4. ASSUME NEW f, f.kind = "tick" PROVE Flat(Append(Pop, f))
  BY <1>3, <1>4 DEF Flat
<1> QED BY <1>1, <1>2, <1>3, <1>4

(* The next actor of the list is another one.                              *)
LEMMA NextLemma ==
    ASSUME TypeOK, Tree!ListIsLive
    PROVE  /\ First = NoActor \/ First \in Tree!Live
           /\ \A a \in Tree!Live : /\ After(a) = NoActor \/ After(a) \in Tree!Live
                                  /\ After(a) # a /\ a # NoActor
<1>1. /\ actors \in Seq(Actors) /\ \A k \in DOMAIN actors : actors[k] \in Tree!Live
      /\ \A a \in Tree!Live : \E k \in DOMAIN actors : actors[k] = a
      /\ \A i, j \in DOMAIN actors : actors[i] = actors[j] => i = j
      /\ Tree!Live \subseteq Actors
  BY DEF TypeOK, Tree!TypeOK, Tree!ListIsLive, Tree!Range, Tree!Live
<1>2. First = NoActor \/ First \in Tree!Live
  BY <1>1 DEF First
<1>3. ASSUME NEW a \in Tree!Live
      PROVE  /\ After(a) = NoActor \/ After(a) \in Tree!Live
             /\ After(a) # a /\ a # NoActor
  <2> DEFINE i == CHOOSE k \in DOMAIN actors : actors[k] = a
  <2>1. i \in DOMAIN actors /\ actors[i] = a
    BY <1>1
  <2> HIDE DEF i
  <2>2. i < Len(actors) => i + 1 \in DOMAIN actors /\ i + 1 # i
    BY <1>1, <2>1
  <2>3. a # NoActor
    BY <1>1, RuntimeAssumption
  <2>4. CASE i < Len(actors)
    <3>1. After(a) = actors[i + 1]
      BY <2>4 DEF After, i
    <3> QED BY <1>1, <2>1, <2>2, <2>3, <2>4, <3>1
  <2>5. CASE ~(i < Len(actors))
    BY <2>3, <2>5 DEF After, i
  <2> QED BY <2>4, <2>5
<1> QED BY <1>2, <1>3

(* Only destruction takes actors off the list.                             *)
LEMMA LiveKept ==
    ASSUME TypeOK, Tree!ListIsLive, Tree!TypeOK', Tree!ListIsLive',
           \/ UNCHANGED lifeVars \/ Lifecycle \/ \E a \in Actors : New(a)
    PROVE  Tree!Live \subseteq Tree!Live'
<1>1. /\ actors \in Seq(Actors) /\ actors' \in Seq(Actors)
      /\ Tree!Live = Tree!Range(actors) /\ Tree!Live' = Tree!Range(actors')
  BY DEF TypeOK, Tree!TypeOK, Tree!ListIsLive, Tree!Range
<1>2. ASSUME UNCHANGED actors PROVE Tree!Live \subseteq Tree!Live'
  BY <1>1, <1>2
<1>3. CASE UNCHANGED lifeVars
  BY <1>2, <1>3 DEF lifeVars
<1>4. CASE Lifecycle
  BY <1>2, <1>4 DEF Lifecycle, Tree!Start, Tree!Stop, Tree!MarkCrashed, Tree!HandleCrash,
     Tree!HandleCrashExhausted, Tree!HandleCrashRestart, Tree!SuperviseRegister
<1>5. ASSUME NEW a \in Actors, New(a) PROVE Tree!Live \subseteq Tree!Live'
  BY <1>5 DEF New, Tree!New, Tree!Live, TypeOK, Tree!TypeOK, Tree!States
<1> QED BY <1>3, <1>4, <1>5

(* A step that keeps the stack and every actor.                            *)
LEMMA QuietWalk ==
    ASSUME WalkInv, TypeOK', Tree!ListIsLive', UNCHANGED <<program, stack>>,
           Tree!Live \subseteq Tree!Live'
    PROVE  WalkInv'
<1>1. Uses("call")' = Uses("call") /\ Guarded' = Guarded
  BY DEF Uses, Guarded
<1>2. \A f : FrameOK(f) => FrameOK(f)'
  BY DEF FrameOK
<1>3. FramesOK(stack) => FramesOK(stack)'
  BY <1>2 DEF FramesOK
<1> QED BY <1>1, <1>3 DEF WalkInv, Flat

(* A step of the walk or of a call: the actors stay, the stack changes.    *)
LEMMA StackStep ==
    ASSUME WalkInv, TypeOK', Tree!ListIsLive', UNCHANGED <<program, lifeVars>>,
           Guarded => FramesOK(stack'), ~Uses("call") => Flat(stack')
    PROVE  WalkInv'
<1>1. Uses("call")' = Uses("call") /\ Guarded' = Guarded
  BY DEF Uses, Guarded
<1>2. \A f : FrameOK(f)' <=> FrameOK(f)
  BY DEF FrameOK, lifeVars, Tree!Live
<1>3. FramesOK(stack') => FramesOK(stack)'
  BY <1>2 DEF FramesOK
<1> QED BY <1>1, <1>3 DEF WalkInv, Flat

(* The stack with a walk in the place of the top frame.                    *)
LEMMA WalkGoesOn ==
    ASSUME WalkInv, TypeOK', Tree!ListIsLive', UNCHANGED <<program, lifeVars>>,
           stack # <<>>, NEW f, stack' = Append(Pop, f), f.kind = "tick",
           Guarded => FrameOK(f)
    PROVE  WalkInv'
<1>1. Guarded => FramesOK(stack')
  BY StackLemma DEF WalkInv
<1>2. ~Uses("call") => Flat(stack')
  BY FlatLemma DEF WalkInv
<1> QED BY <1>1, <1>2, StackStep

LEMMA WalkEnds ==
    ASSUME WalkInv, TypeOK', Tree!ListIsLive', UNCHANGED <<program, lifeVars>>,
           stack # <<>>, stack' = Pop
    PROVE  WalkInv'
<1>1. Guarded => FramesOK(stack')
  BY StackLemma DEF WalkInv
<1>2. ~Uses("call") => Flat(stack')
  BY FlatLemma DEF WalkInv, Flat
<1> QED BY <1>1, <1>2, StackStep

LEMMA WalkVisit ==
    ASSUME WalkInv, TypeOK', Tree!ListIsLive', UNCHANGED program, NEW a \in Actors, Visit(a)
    PROVE  WalkInv'
<1>1. stack # <<>> /\ a \in Tree!Live /\ UNCHANGED lifeVars
  BY DEF Visit, VisitIdle, VisitDuplicate, VisitDeliver, Visiting, Walking
<1>2. /\ After(a) = NoActor \/ After(a) \in Tree!Live
      /\ After(a) # a /\ a # NoActor
  BY <1>1, NextLemma DEF WalkInv
<1>3. CASE stack' = Append(Pop, Tick(After(a)))
  <2> DEFINE f == Tick(After(a))
  <2>1. f.kind = "tick" /\ FrameOK(f)
    BY <1>2 DEF FrameOK, Tick
  <2> HIDE DEF f
  <2>2. stack' = Append(Pop, f)
    BY <1>3 DEF f
  <2> QED BY <1>1, <2>1, <2>2, WalkGoesOn
<1>4. CASE stack' = Append(Pop, [Tick(After(a)) EXCEPT !.run = a, !.msg = Head(mailbox[a])])
  <2> DEFINE f == [Tick(After(a)) EXCEPT !.run = a, !.msg = Head(mailbox[a])]
  <2>1. f.kind = "tick" /\ FrameOK(f)
    BY <1>2 DEF FrameOK, Tick
  <2> HIDE DEF f
  <2>2. stack' = Append(Pop, f)
    BY <1>4 DEF f
  <2> QED BY <1>1, <2>1, <2>2, WalkGoesOn
<1>5. \/ stack' = Append(Pop, Tick(After(a)))
      \/ stack' = Append(Pop, [Tick(After(a)) EXCEPT !.run = a, !.msg = Head(mailbox[a])])
  BY DEF Visit, VisitIdle, VisitDuplicate, VisitDeliver
<1> QED BY <1>3, <1>4, <1>5

(* A behavior destroys the actor it runs for: its walk has saved another   *)
(* one, and, where self-destruction is guarded, it is the only walk.       *)
LEMMA WalkDestroy ==
    ASSUME WalkInv, TypeOK', Tree!ListIsLive', UNCHANGED program,
           NEW a \in Actors, Destroy(a) \/ DestroySelf(a)
    PROVE  WalkInv'
<1>1. UNCHANGED stack
  BY DEF Destroy, DestroySelf, Discard
<1>2. Uses("call")' = Uses("call") /\ Guarded' = Guarded
  BY DEF Uses, Guarded
<1>3. ~Uses("call") => Flat(stack)'
  BY <1>1 DEF WalkInv, Flat
<1>4. CASE Destroy(a)
  <2>1. FramesOK(stack)'
    BY <1>1, <1>4 DEF Destroy, HostRuns, FramesOK
  <2> QED BY <1>2, <1>3, <2>1 DEF WalkInv
<1>5. CASE DestroySelf(a) /\ Guarded
  <2>1. Flat(stack) /\ FramesOK(stack) /\ stack # <<>> /\ Top.run = a
    BY <1>5 DEF WalkInv, DestroySelf, InBehavior, Guarded
  <2>2. Len(stack) = 1 /\ Top = stack[1] /\ Top.kind = "tick"
    BY <2>1, FlatLemma DEF WalkInv
  <2>3. DOMAIN stack = {1}
    BY <2>2 DEF WalkInv, TypeOK
  <2>4. /\ Top.at = NoActor \/ Top.at \in Tree!Live
        /\ Top.at # a
    <3>1. FrameOK(Top) /\ a # NoActor
      BY <2>1, StackLemma, RuntimeAssumption DEF WalkInv
    <3> QED BY <2>1, <2>2, <3>1 DEF FrameOK
  <2>5. \A b \in Tree!Live : b # a => b \in Tree!Live'
    BY <1>5 DEF DestroySelf, Discard, Tree!Destroy, Tree!Live, WalkInv, TypeOK, Tree!TypeOK
  <2>6. stack[1].at = NoActor \/ stack[1].at \in Tree!Live'
    BY <2>2, <2>4, <2>5
  <2>7. stack[1].run # NoActor => stack[1].at # stack[1].run
    BY <2>1, <2>2, <2>4
  <2>8. FrameOK(stack[1])'
    BY <1>1, <2>6, <2>7 DEF FrameOK
  <2>9. FramesOK(stack)'
    BY <1>1, <2>3, <2>8 DEF FramesOK
  <2> QED BY <1>2, <1>3, <2>9 DEF WalkInv
<1>6. CASE ~Guarded
  BY <1>2, <1>3, <1>6 DEF WalkInv
<1> QED BY <1>4, <1>5, <1>6

(* Calls put their frame on the stack, and nested walks above it.          *)
LEMMA WalkCalls ==
    ASSUME WalkInv, TypeOK', Tree!ListIsLive', UNCHANGED program,
           CallTick \/ \E a \in Actors, c \in Calls : Call(a, c)
    PROVE  WalkInv'
<1>1. \A f : f.kind = "call" => FrameOK(f)
  BY DEF FrameOK
<1>2. FrameOK(Tick(First))
  BY NextLemma DEF WalkInv, FrameOK, Tick
<1>3. CASE CallTick
  <2>1. stack # <<>> /\ Top.kind = "call" /\ UNCHANGED lifeVars /\ Top \in CallFrame
    BY <1>3, FrameLemma DEF CallTick, Waiting, WalkInv
  <2>2. Uses("call")
    BY <2>1, FlatLemma DEF WalkInv
  <2> DEFINE f == [Top EXCEPT !.left = @ - 1]
             g == Tick(First)
  <2>3. f.kind = "call"
    <3> HIDE DEF Top
    <3> QED BY <2>1 DEF CallFrame
  <2>4. stack' = Pop \o <<f, g>>
    BY <1>3 DEF CallTick
  <2>5. FrameOK(f) /\ FrameOK(g)
    BY <1>1, <1>2, <2>3
  <2> HIDE DEF f, g
  <2>6. Guarded => FramesOK(stack')
    BY <2>1, <2>4, <2>5, StackLemma DEF WalkInv
  <2> QED BY <2>1, <2>2, <2>6, StackStep
<1>4. ASSUME NEW a \in Actors, NEW c \in Calls, Call(a, c) PROVE WalkInv'
  <2>1. UNCHANGED lifeVars /\ Uses("call")
    BY <1>4 DEF Call, Enqueue
  <2> DEFINE f == [kind |-> "call", call |-> c, left |-> CallTicks]
  <2>2. stack' = Append(stack, f)
    BY <1>4 DEF Call
  <2>3. FrameOK(f)
    BY <1>1
  <2> HIDE DEF f
  <2>4. FramesOK(stack) => FramesOK(stack')
    <3>1. stack \in Seq(Frame)
      BY DEF WalkInv, TypeOK, Frame
    <3>2. /\ DOMAIN Append(stack, f) = 1 .. Len(stack) + 1
          /\ Append(stack, f)[Len(stack) + 1] = f
          /\ DOMAIN stack = 1 .. Len(stack)
          /\ \A i \in DOMAIN stack : Append(stack, f)[i] = stack[i]
          /\ \A i \in 1 .. Len(stack) + 1 : i = Len(stack) + 1 \/ i \in DOMAIN stack
      BY <3>1
    <3> QED BY <2>2, <2>3, <3>2 DEF FramesOK
  <2> QED BY <2>1, <2>4, StackStep DEF WalkInv
<1> QED BY <1>3, <1>4

LEMMA WalkStep == WalkInv /\ [Next]_vars => WalkInv'
<1> SUFFICES ASSUME WalkInv, [Next]_vars PROVE WalkInv'
  OBVIOUS
<1>1. TypeOK' /\ Tree!ListIsLive' /\ Tree!TypeOK' /\ UNCHANGED program
  BY RuntimeTypeStep, TreeInvStep DEF TreeInv, TypeOK, WalkInv, Next, vars
<1>2. ASSUME UNCHANGED stack,
             \/ UNCHANGED lifeVars \/ Lifecycle \/ \E a \in Actors : New(a)
      PROVE  WalkInv'
  <2>1. Tree!Live \subseteq Tree!Live'
    BY <1>1, <1>2, LiveKept DEF WalkInv
  <2> QED BY <1>1, <1>2, <2>1, QuietWalk
<1>3. ASSUME NEW a \in Actors, New(a) PROVE WalkInv'
  BY <1>2, <1>3 DEF New
<1>4. ASSUME NEW a \in Actors, Destroy(a) \/ DestroySelf(a) PROVE WalkInv'
  BY <1>1, <1>4, WalkDestroy
<1>5. ASSUME NEW a \in Actors, Send(a) PROVE WalkInv'
  BY <1>2, <1>5 DEF Send, Enqueue
<1>6. ASSUME CallTick \/ \E a \in Actors, c \in Calls : Call(a, c) PROVE WalkInv'
  BY <1>1, <1>6, WalkCalls
<1>7. ASSUME NEW a \in Actors, NEW n \in Limits, SetLimit(a, n) PROVE WalkInv'
  BY <1>2, <1>7 DEF SetLimit
<1>8. ASSUME NEW a \in Actors, NEW id \in 1 .. MaxSends, Probe(a, id) PROVE WalkInv'
  BY <1>2, <1>8 DEF Probe
<1>9. ASSUME NEW a \in Actors, NEW b \in Behaviors \cup {NoBehavior}, HotUpgrade(a, b)
      PROVE  WalkInv'
  BY <1>2, <1>9 DEF HotUpgrade
<1>10. ASSUME Lifecycle PROVE WalkInv'
  BY <1>2, <1>10 DEF Lifecycle
<1>11. ASSUME NEW a \in Actors, Visit(a) PROVE WalkInv'
  BY <1>1, <1>11, WalkVisit
<1>12. ASSUME Reply PROVE WalkInv'
  BY <1>2, <1>12 DEF Reply
<1>13. ASSUME TickEnd \/ CallReturn PROVE WalkInv'
  <2>1. stack # <<>> /\ stack' = Pop /\ UNCHANGED lifeVars
    BY <1>13 DEF TickEnd, CallReturn, Walking, Waiting
  <2> QED BY <1>1, <2>1, WalkEnds
<1>14. ASSUME BehaviorReturn PROVE WalkInv'
  <2> DEFINE f == Tick(Top.at)
  <2>1. /\ stack # <<>> /\ stack' = Append(Pop, f) /\ UNCHANGED lifeVars
        /\ Top.kind = "tick" /\ f.kind = "tick"
    BY <1>14 DEF BehaviorReturn, InBehavior, Tick
  <2>2. Guarded => FrameOK(Top)
    BY <2>1, StackLemma DEF WalkInv
  <2>3. Guarded => FrameOK(f)
    BY <2>1, <2>2 DEF FrameOK, Tick
  <2> HIDE DEF f
  <2> QED BY <1>1, <2>1, <2>3, WalkGoesOn
<1>15. ASSUME TickStart PROVE WalkInv'
  <2>1. UNCHANGED lifeVars /\ stack' = <<Tick(First)>>
    BY <1>15 DEF TickStart
  <2>2. FrameOK(Tick(First)) /\ Tick(First).kind = "tick"
    BY NextLemma DEF WalkInv, FrameOK, Tick
  <2>3. FramesOK(stack') /\ Flat(stack')
    BY <2>1, <2>2 DEF FramesOK, Flat
  <2> QED BY <1>1, <2>1, <2>3, StackStep
<1>16. ASSUME UNCHANGED vars PROVE WalkInv'
  BY <1>2, <1>16 DEF vars
<1> QED BY <1>3, <1>4, <1>5, <1>6, <1>7, <1>8, <1>9, <1>10, <1>11, <1>12, <1>13, <1>14, <1>15,
           <1>16 DEF Next, Step, Runtime

(* A walk of the list always goes on at an actor that still exists, for    *)
(* any number of actors, nested ticks and destructions, unless a program   *)
(* mixes synchronous calls with behaviors that destroy their own actor.    *)
THEOREM WalksStayInList == Spec => []WalkStaysInList
<1>1. Init => WalkInv
  <2> SUFFICES ASSUME Init PROVE WalkInv
    OBVIOUS
  <2>1. TypeOK /\ Tree!ListIsLive
    BY RuntimeTypeInit
  <2>2. stack = <<>>
    BY DEF Init
  <2> QED BY <2>1, <2>2 DEF WalkInv, FramesOK, Flat
<1>2. WalkInv => WalkStaysInList
  BY DEF WalkInv, WalkStaysInList, FramesOK, FrameOK, Guarded
<1> QED BY <1>1, <1>2, WalkStep, PTL DEF Spec

-----------------------------------------------------------------------------
(* An actor is given a message only by the visit that has applied the      *)
(* pending upgrade in the same turn of the walk, whoever requested it and  *)
(* in whatever nesting of ticks.                                           *)
THEOREM UpgradesComeFirst == Spec => UpgradeBeforeNextMessage
<1>1. ASSUME TypeOK, [Next]_vars, NEW a \in Actors, log'[a] # log[a]
      PROVE  /\ new_behavior'[a] = NoBehavior
             /\ new_behavior[a] # NoBehavior => behavior'[a] = new_behavior[a]
  <2>1. \E b \in Actors : VisitDeliver(b)
    BY <1>1 DEF Next, Step, Runtime, Visit, VisitIdle, VisitDuplicate, New, Destroy, DestroySelf,
       Discard, Send, Call, Enqueue, SetLimit, Probe, HotUpgrade, Lifecycle, Reply, BehaviorReturn,
       TickStart, TickEnd, CallTick, CallReturn, vars, statVars
  <2>2. PICK b \in Actors : VisitDeliver(b)
    BY <2>1
  <2>3. b = a
    BY <1>1, <2>2 DEF VisitDeliver, TypeOK
  <2>4. Upgrade(a)
    BY <2>2, <2>3 DEF VisitDeliver
  <2> QED BY <1>1, <2>4 DEF Upgrade, TypeOK
<1>2. TypeOK /\ [Next]_vars
      => \A a \in Actors : log'[a] # log[a] =>
            /\ new_behavior'[a] = NoBehavior
            /\ new_behavior[a] # NoBehavior => behavior'[a] = new_behavior[a]
  BY <1>1
<1> QED BY <1>2, RuntimeTypeCorrect, PTL DEF Spec, UpgradeBeforeNextMessage

-----------------------------------------------------------------------------
(* The statistics.                                                         *)

(* As many pairs as there are messages, f telling how many each actor has. *)
Pairs(f) == UNION {{a} \X (1 .. f[a]) : a \in Actors}
Unread == [a \in Actors |-> Len(mailbox[a]) + discarded[a]]
HandsOf(s) == {i \in DOMAIN s : s[i].kind = "tick" /\ s[i].run # NoActor}

StatsInv == TypeOK /\ Tree!ListIsLive /\ IsFiniteSet(Undelivered) /\ StatsBalance

LEMMA PairsProperties ==
    ASSUME NEW f \in [Actors -> Nat], IsFiniteSet(Pairs(f)), NEW a \in Actors, NEW g,
           g = [f EXCEPT ![a] = @ + 1]
    PROVE  IsFiniteSet(Pairs(g)) /\ Cardinality(Pairs(g)) = Cardinality(Pairs(f)) + 1
<1> DEFINE e == <<a, f[a] + 1>>
<1>1. e \notin Pairs(f)
  BY DEF Pairs
<1>2. Pairs(g) = Pairs(f) \cup {e}
  <2>1. ASSUME NEW x \in Pairs(g) PROVE x \in Pairs(f) \cup {e}
    <3>1. PICK b \in Actors, n \in Nat : n \in 1 .. g[b] /\ x = <<b, n>>
      BY DEF Pairs
    <3>2. b # a \/ n # f[a] + 1 => n \in 1 .. f[b]
      BY <3>1
    <3>3. n \in 1 .. f[b] => x \in Pairs(f)
      BY <3>1 DEF Pairs
    <3> QED BY <3>1, <3>2, <3>3
  <2>2. ASSUME NEW x \in Pairs(f) PROVE x \in Pairs(g)
    <3>1. PICK b \in Actors, n \in Nat : n \in 1 .. f[b] /\ x = <<b, n>>
      BY DEF Pairs
    <3>2. f[b] \in Nat /\ (g[b] = f[b] \/ g[b] = f[b] + 1)
      OBVIOUS
    <3>3. n \in 1 .. g[b]
      BY <3>1, <3>2
    <3> QED BY <3>1, <3>3 DEF Pairs
  <2>3. e \in Pairs(g)
    <3>1. f[a] + 1 \in 1 .. g[a]
      OBVIOUS
    <3> QED BY <3>1 DEF Pairs
  <2> QED BY <2>1, <2>2, <2>3
<1>3. IsFiniteSet(Pairs(f))
  OBVIOUS
<1> HIDE DEF e
<1>4. /\ IsFiniteSet(Pairs(f) \cup {e})
      /\ Cardinality(Pairs(f) \cup {e}) = Cardinality(Pairs(f)) + 1
  BY <1>1, <1>3, FS_AddElement
<1> QED BY <1>2, <1>4

(* One message less: the other way round.                                  *)
LEMMA PairsLess ==
    ASSUME NEW f \in [Actors -> Nat], IsFiniteSet(Pairs(f)), NEW a \in Actors, f[a] > 0, NEW g,
           g = [f EXCEPT ![a] = @ - 1]
    PROVE  IsFiniteSet(Pairs(g)) /\ Cardinality(Pairs(g)) = Cardinality(Pairs(f)) - 1
<1>0. f[a] - 1 \in Nat /\ (f[a] - 1) + 1 = f[a]
  OBVIOUS
<1>1. g \in [Actors -> Nat] /\ f = [g EXCEPT ![a] = @ + 1]
  BY <1>0
<1>2. Pairs(g) \subseteq Pairs(f)
  <2> SUFFICES ASSUME NEW x \in Pairs(g) PROVE x \in Pairs(f)
    OBVIOUS
  <2>1. PICK b \in Actors, n \in Nat : n \in 1 .. g[b] /\ x = <<b, n>>
    BY DEF Pairs
  <2>2. f[b] \in Nat /\ (g[b] = f[b] \/ g[b] = f[b] - 1)
    OBVIOUS
  <2>3. n \in 1 .. f[b]
    BY <2>1, <2>2
  <2> QED BY <2>1, <2>3 DEF Pairs
<1>3. IsFiniteSet(Pairs(g))
  BY <1>2, FS_Subset
<1>4. Cardinality(Pairs(f)) = Cardinality(Pairs(g)) + 1
  BY <1>1, <1>3, PairsProperties
<1>5. Cardinality(Pairs(g)) \in Nat
  BY <1>3, FS_CardinalityType
<1> QED BY <1>3, <1>4, <1>5

(* What an actor has that was not delivered, and when that changes.        *)
LEMMA UnreadCounted == TypeOK => Undelivered = Pairs(Unread) /\ Unread \in [Actors -> Nat]
<1> SUFFICES ASSUME TypeOK PROVE Undelivered = Pairs(Unread) /\ Unread \in [Actors -> Nat]
  OBVIOUS
<1>1. \A a \in Actors : mailbox[a] \in Seq(Message) /\ discarded[a] \in Nat
  BY DEF TypeOK
<1>2. \A a \in Actors : Len(mailbox[a]) \in Nat
  BY <1>1
<1> QED BY <1>1, <1>2 DEF Undelivered, Pairs, Unread

LEMMA UnreadLemma ==
    ASSUME TypeOK
    PROVE  /\ UNCHANGED <<mailbox, discarded>> => Unread' = Unread
           /\ \A a \in Actors, m \in Message :
                  mailbox' = [mailbox EXCEPT ![a] = Append(@, m)] /\ UNCHANGED discarded
                      => Unread' = [Unread EXCEPT ![a] = @ + 1]
           /\ \A a \in Actors :
                  mailbox[a] # <<>> /\ mailbox' = [mailbox EXCEPT ![a] = Tail(@)] /\ UNCHANGED discarded
                      => Unread' = [Unread EXCEPT ![a] = @ - 1] /\ Unread[a] > 0
           /\ \A a \in Actors : Discard(a) => Unread' = Unread
<1>1. mailbox \in [Actors -> Seq(Message)] /\ discarded \in [Actors -> Nat]
  BY DEF TypeOK
<1>2. \A a \in Actors : Len(mailbox[a]) \in Nat /\ mailbox[a] \in Seq(Message)
  BY <1>1
<1>4. UNCHANGED <<mailbox, discarded>> => Unread' = Unread
  BY DEF Unread
<1>5. ASSUME NEW a \in Actors, NEW m \in Message,
             mailbox' = [mailbox EXCEPT ![a] = Append(@, m)], UNCHANGED discarded
      PROVE  Unread' = [Unread EXCEPT ![a] = @ + 1]
  <2>1. Len(Append(mailbox[a], m)) = Len(mailbox[a]) + 1
    BY <1>2
  <2>2. Len(mailbox'[a]) = Len(mailbox[a]) + 1 /\ \A b \in Actors : b # a => mailbox'[b] = mailbox[b]
    BY <1>1, <1>5, <2>1
  <2> DEFINE f == Unread
             g == [b \in Actors |-> Len(mailbox'[b]) + discarded[b]]
  <2>3. Unread' = g
    BY <1>5 DEF Unread
  <2>0. \A b \in Actors : f[b] = Len(mailbox[b]) + discarded[b] /\ discarded[b] \in Nat
    BY <1>1 DEF Unread
  <2>4. \A b \in Actors : g[b] = IF b = a THEN f[b] + 1 ELSE f[b]
    <3>1. \A b \in Actors : g[b] = Len(mailbox'[b]) + discarded[b]
      OBVIOUS
    <3> HIDE DEF f, g
    <3>2. ASSUME NEW b \in Actors PROVE g[b] = IF b = a THEN f[b] + 1 ELSE f[b]
      <4>1. Len(mailbox[b]) \in Nat /\ discarded[b] \in Nat
        BY <1>2, <2>0
      <4>2. Len(mailbox'[b]) = IF b = a THEN Len(mailbox[b]) + 1 ELSE Len(mailbox[b])
        BY <2>2
      <4>3. f[b] = Len(mailbox[b]) + discarded[b] /\ g[b] = Len(mailbox'[b]) + discarded[b]
        BY <2>0, <3>1
      <4> QED BY <4>1, <4>2, <4>3
    <3> QED BY <3>2
  <2>5. DOMAIN f = Actors /\ f \in [Actors -> Nat]
    BY <1>1, <1>2 DEF Unread
  <2>6. DOMAIN g = Actors
    OBVIOUS
  <2> HIDE DEF f, g
  <2>7. g = [f EXCEPT ![a] = @ + 1]
    <3> DEFINE h == [f EXCEPT ![a] = @ + 1]
    <3>1. DOMAIN h = Actors /\ \A b \in Actors : h[b] = g[b]
      BY <2>4, <2>5
    <3>2. g = [b \in Actors |-> g[b]] /\ h = [b \in Actors |-> h[b]]
      BY <2>6, <3>1 DEF g
    <3> QED BY <3>1, <3>2
  <2> QED BY <2>3, <2>7 DEF f
<1>6. ASSUME NEW a \in Actors, mailbox[a] # <<>>, mailbox' = [mailbox EXCEPT ![a] = Tail(@)],
             UNCHANGED discarded
      PROVE  Unread' = [Unread EXCEPT ![a] = @ - 1] /\ Unread[a] > 0
  <2>1. Len(Tail(mailbox[a])) = Len(mailbox[a]) - 1 /\ Len(mailbox[a]) > 0
    BY <1>2, <1>6
  <2>2. Len(mailbox'[a]) = Len(mailbox[a]) - 1 /\ \A b \in Actors : b # a => mailbox'[b] = mailbox[b]
    BY <1>1, <1>6, <2>1
  <2> DEFINE f == Unread
             g == [b \in Actors |-> Len(mailbox'[b]) + discarded[b]]
  <2>3. Unread' = g
    BY <1>6 DEF Unread
  <2>0. \A b \in Actors : f[b] = Len(mailbox[b]) + discarded[b] /\ discarded[b] \in Nat
    BY <1>1 DEF Unread
  <2>4. \A b \in Actors : g[b] = IF b = a THEN f[b] - 1 ELSE f[b]
    <3>1. \A b \in Actors : g[b] = Len(mailbox'[b]) + discarded[b]
      OBVIOUS
    <3> HIDE DEF f, g
    <3>2. ASSUME NEW b \in Actors PROVE g[b] = IF b = a THEN f[b] - 1 ELSE f[b]
      <4>1. Len(mailbox[b]) \in Nat /\ discarded[b] \in Nat
        BY <1>2, <2>0
      <4>2. Len(mailbox'[b]) = IF b = a THEN Len(mailbox[b]) - 1 ELSE Len(mailbox[b])
        BY <2>2
      <4>3. f[b] = Len(mailbox[b]) + discarded[b] /\ g[b] = Len(mailbox'[b]) + discarded[b]
        BY <2>0, <3>1
      <4> QED BY <4>1, <4>2, <4>3
    <3> QED BY <3>2
  <2>5. DOMAIN f = Actors /\ f \in [Actors -> Nat] /\ f[a] > 0
    BY <1>1, <1>2, <2>1 DEF Unread
  <2>6. DOMAIN g = Actors
    OBVIOUS
  <2> HIDE DEF f, g
  <2>7. g = [f EXCEPT ![a] = @ - 1]
    <3> DEFINE h == [f EXCEPT ![a] = @ - 1]
    <3>1. DOMAIN h = Actors /\ \A b \in Actors : h[b] = g[b]
      BY <2>4, <2>5
    <3>2. g = [b \in Actors |-> g[b]] /\ h = [b \in Actors |-> h[b]]
      BY <2>6, <3>1 DEF g
    <3> QED BY <3>1, <3>2
  <2> QED BY <2>3, <2>5, <2>7 DEF f
<1>7. ASSUME NEW a \in Actors, Discard(a) PROVE Unread' = Unread
  <2>1. /\ mailbox' = [mailbox EXCEPT ![a] = <<>>]
        /\ discarded' = [discarded EXCEPT ![a] = @ + Len(mailbox[a])]
    BY <1>7 DEF Discard
  <2>2. Len(mailbox'[a]) = 0 /\ \A b \in Actors : b # a => mailbox'[b] = mailbox[b]
    BY <1>1, <2>1
  <2> QED BY <1>1, <1>2, <2>1, <2>2 DEF Unread
<1> QED BY <1>4, <1>5, <1>6, <1>7

(* The behaviors at work when the stack's top is replaced.                 *)
LEMMA HandsLemma ==
    ASSUME TypeOK
    PROVE  /\ InHand = HandsOf(stack) /\ IsFiniteSet(InHand) /\ Cardinality(InHand) \in Nat
           /\ stack # <<>> =>
                /\ Len(stack) \notin HandsOf(Pop)
                /\ IsFiniteSet(HandsOf(Pop)) /\ Cardinality(HandsOf(Pop)) \in Nat
                /\ InHand = HandsOf(Pop) \cup (IF InBehavior THEN {Len(stack)} ELSE {})
                /\ \A f : HandsOf(Append(Pop, f)) = HandsOf(Pop) \cup
                        (IF f.kind = "tick" /\ f.run # NoActor THEN {Len(stack)} ELSE {})
                /\ \A f, g : f.kind = "call" /\ g.kind = "tick" /\ g.run = NoActor =>
                        HandsOf(Pop \o <<f, g>>) = HandsOf(Pop)
           /\ \A f : f.kind = "call" => HandsOf(Append(stack, f)) = InHand
<1> DEFINE n == Len(stack)
<1>1. stack \in Seq(Frame) /\ n \in Nat /\ DOMAIN stack = 1 .. n
  BY DEF TypeOK, Frame
<1>2. InHand = HandsOf(stack)
  BY DEF InHand, HandsOf
<1>3. IsFiniteSet(1 .. n)
  BY <1>1, FS_Interval
<1>4. InHand \subseteq 1 .. n
  BY <1>1 DEF InHand
<1>5. IsFiniteSet(InHand) /\ Cardinality(InHand) \in Nat
  BY <1>3, <1>4, FS_Subset, FS_CardinalityType
<1>6. ASSUME NEW f, f.kind = "call" PROVE HandsOf(Append(stack, f)) = InHand
  <2>1. /\ DOMAIN Append(stack, f) = 1 .. n + 1 /\ Append(stack, f)[n + 1] = f
        /\ \A i \in 1 .. n : Append(stack, f)[i] = stack[i]
    BY <1>1
  <2>2. \A i : i \in 1 .. n + 1 <=> i \in 1 .. n \/ i = n + 1
    BY <1>1
  <2> QED BY <1>1, <1>2, <1>6, <2>1, <2>2 DEF HandsOf
<1>7. ASSUME stack # <<>>
      PROVE  /\ n \notin HandsOf(Pop)
             /\ IsFiniteSet(HandsOf(Pop)) /\ Cardinality(HandsOf(Pop)) \in Nat
             /\ InHand = HandsOf(Pop) \cup (IF InBehavior THEN {n} ELSE {})
             /\ \A f : HandsOf(Append(Pop, f)) = HandsOf(Pop) \cup
                     (IF f.kind = "tick" /\ f.run # NoActor THEN {n} ELSE {})
             /\ \A f, g : f.kind = "call" /\ g.kind = "tick" /\ g.run = NoActor =>
                     HandsOf(Pop \o <<f, g>>) = HandsOf(Pop)
  <2>1. n \in Nat \ {0}
    BY <1>1, <1>7
  <2>2. /\ Pop \in Seq(Frame) /\ Len(Pop) = n - 1 /\ DOMAIN Pop = 1 .. n - 1
        /\ \A i \in 1 .. n - 1 : Pop[i] = stack[i] /\ i \in 1 .. n
    BY <1>1, <2>1 DEF Pop
  <2>3. \A i : i \in 1 .. n <=> i \in 1 .. n - 1 \/ i = n
    BY <2>1
  <2>4. n \notin 1 .. n - 1
    BY <2>1
  <2>5. n \notin HandsOf(Pop)
    BY <2>2, <2>4 DEF HandsOf
  <2>6. HandsOf(Pop) \subseteq InHand
    BY <1>1, <1>2, <2>2 DEF HandsOf
  <2>7. IsFiniteSet(HandsOf(Pop)) /\ Cardinality(HandsOf(Pop)) \in Nat
    BY <1>5, <2>6, FS_Subset, FS_CardinalityType
  <2>8. InHand = HandsOf(Pop) \cup (IF InBehavior THEN {n} ELSE {})
    <3>1. InBehavior <=> stack[n].kind = "tick" /\ stack[n].run # NoActor
      BY <1>7 DEF InBehavior, Top
    <3> QED BY <1>1, <2>2, <2>3, <3>1 DEF InHand, HandsOf
  <2> HIDE DEF n
  <2>9. ASSUME NEW f
        PROVE  HandsOf(Append(Pop, f)) = HandsOf(Pop) \cup
                   (IF f.kind = "tick" /\ f.run # NoActor THEN {n} ELSE {})
    <3>1. /\ DOMAIN Append(Pop, f) = 1 .. n /\ Append(Pop, f)[n] = f
          /\ \A i \in 1 .. n - 1 : Append(Pop, f)[i] = Pop[i]
      BY <2>1, <2>2
    <3> QED BY <2>2, <2>3, <3>1 DEF HandsOf
  <2>10. ASSUME NEW f, NEW g, f.kind = "call", g.kind = "tick", g.run = NoActor
         PROVE  HandsOf(Pop \o <<f, g>>) = HandsOf(Pop)
    <3>1. /\ DOMAIN (Pop \o <<f, g>>) = 1 .. n + 1
          /\ (Pop \o <<f, g>>)[n] = f /\ (Pop \o <<f, g>>)[n + 1] = g
          /\ \A i \in 1 .. n - 1 : (Pop \o <<f, g>>)[i] = Pop[i]
      BY <2>1, <2>2
    <3>2. \A i : i \in 1 .. n + 1 <=> i \in 1 .. n - 1 \/ i = n \/ i = n + 1
      BY <2>1
    <3>3. "call" # "tick"
      OBVIOUS
    <3> QED BY <2>2, <2>10, <3>1, <3>2, <3>3 DEF HandsOf
  <2> QED BY <2>5, <2>7, <2>8, <2>9, <2>10
<1> QED BY <1>2, <1>5, <1>6, <1>7

(* A step that keeps what is queued, in hand and counted.                  *)
LEMMA StatsKept ==
    ASSUME StatsInv, UNCHANGED <<messages_sent, messages_delivered>>, InHand' = InHand,
           Undelivered' = Undelivered, TypeOK', Tree!ListIsLive'
    PROVE  StatsInv'
  BY DEF StatsInv, StatsBalance

LEMMA StatsEnqueue ==
    ASSUME StatsInv, TypeOK', Tree!ListIsLive', NEW a \in Actors, NEW id \in Nat,
           NEW call \in 0 .. MaxCalls, Enqueue(a, id, call), InHand' = InHand
    PROVE  StatsInv'
<1> DEFINE m == [seq |-> accepted[a] + 1, id |-> id, call |-> call]
<1>1. m \in Message
  <2>1. TypeOK
    BY DEF StatsInv
  <2>2. accepted[a] \in Nat
    BY <2>1 DEF TypeOK
  <2> QED BY <2>2 DEF Message
<1>2. /\ mailbox' = [mailbox EXCEPT ![a] = Append(@, m)] /\ UNCHANGED <<discarded, messages_delivered>>
      /\ messages_sent' = messages_sent + 1
  BY DEF Enqueue
<1> HIDE DEF m
<1>3. Unread' = [Unread EXCEPT ![a] = @ + 1]
  BY <1>1, <1>2, UnreadLemma DEF StatsInv
<1>4. Undelivered = Pairs(Unread) /\ Unread \in [Actors -> Nat] /\ Undelivered' = Pairs(Unread')
  <2>1. TypeOK => Undelivered = Pairs(Unread) /\ Unread \in [Actors -> Nat]
    BY UnreadCounted
  <2>2. TypeOK' => (Undelivered = Pairs(Unread) /\ Unread \in [Actors -> Nat])'
    BY UnreadCounted, PTL
  <2> QED BY <2>1, <2>2 DEF StatsInv, Pairs
<1>5. IsFiniteSet(Undelivered') /\ Cardinality(Undelivered') = Cardinality(Undelivered) + 1
  BY <1>3, <1>4, PairsProperties DEF StatsInv
<1>6. Cardinality(Undelivered) \in Nat /\ Cardinality(InHand) \in Nat
  BY FS_CardinalityType, HandsLemma DEF StatsInv
<1>7. messages_sent \in Nat /\ messages_delivered \in Nat
  BY DEF StatsInv, TypeOK
<1> QED BY <1>2, <1>5, <1>6, <1>7 DEF StatsInv, StatsBalance

LEMMA StatsVisit ==
    ASSUME StatsInv, TypeOK', Tree!ListIsLive', NEW a \in Actors, Visit(a)
    PROVE  StatsInv'
<1>1. Visiting(a) /\ stack # <<>> /\ ~InBehavior
  BY DEF Visit, VisitIdle, VisitDuplicate, VisitDeliver, Visiting, Walking, InBehavior
<1>2. /\ InHand = HandsOf(Pop) /\ Cardinality(InHand) \in Nat /\ IsFiniteSet(InHand)
      /\ Len(stack) \notin InHand
  BY <1>1, HandsLemma DEF StatsInv
<1>3. InHand' = HandsOf(stack')
  BY DEF InHand, HandsOf
<1>4. ASSUME stack' = Append(Pop, Tick(After(a))) PROVE InHand' = InHand
  <2>1. Tick(After(a)).kind = "tick" /\ Tick(After(a)).run = NoActor
    BY DEF Tick
  <2> QED BY <1>1, <1>2, <1>3, <1>4, <2>1, HandsLemma DEF StatsInv
<1>5. ASSUME stack' = Append(Pop, [Tick(After(a)) EXCEPT !.run = a, !.msg = Head(mailbox[a])])
      PROVE  Cardinality(InHand') = Cardinality(InHand) + 1
  <2> DEFINE f == [Tick(After(a)) EXCEPT !.run = a, !.msg = Head(mailbox[a])]
  <2>1. f.kind = "tick" /\ f.run # NoActor
    BY RuntimeAssumption DEF Tick
  <2> HIDE DEF f
  <2>2. stack' = Append(Pop, f)
    BY <1>5 DEF f
  <2>3. InHand' = InHand \cup {Len(stack)}
    BY <1>1, <1>2, <1>3, <2>1, <2>2, HandsLemma DEF StatsInv
  <2> QED BY <1>2, <2>3, FS_AddElement
<1>6. /\ Undelivered = Pairs(Unread) /\ Unread \in [Actors -> Nat] /\ Undelivered' = Pairs(Unread')
      /\ Cardinality(Undelivered) \in Nat /\ IsFiniteSet(Undelivered)
  <2>1. TypeOK => Undelivered = Pairs(Unread) /\ Unread \in [Actors -> Nat]
    BY UnreadCounted
  <2>2. TypeOK' => (Undelivered = Pairs(Unread) /\ Unread \in [Actors -> Nat])'
    BY UnreadCounted, PTL
  <2>3. IsFiniteSet(Undelivered) /\ Cardinality(Undelivered) \in Nat
    BY FS_CardinalityType DEF StatsInv
  <2> QED BY <2>1, <2>2, <2>3 DEF StatsInv, Pairs
<1>7. messages_sent \in Nat /\ messages_delivered \in Nat
  BY DEF StatsInv, TypeOK
<1>8. ASSUME mailbox[a] # <<>>, mailbox' = [mailbox EXCEPT ![a] = Tail(@)], UNCHANGED discarded
      PROVE  IsFiniteSet(Undelivered') /\ Cardinality(Undelivered') = Cardinality(Undelivered) - 1
  <2>1. Unread' = [Unread EXCEPT ![a] = @ - 1] /\ Unread[a] > 0
    BY <1>8, UnreadLemma DEF StatsInv
  <2> QED BY <1>6, <2>1, PairsLess
<1>9. CASE VisitIdle(a)
  <2>1. UNCHANGED <<mailbox, discarded, messages_sent, messages_delivered>> /\ InHand' = InHand
    BY <1>4, <1>9 DEF VisitIdle, queueVars, statVars
  <2>2. Undelivered' = Undelivered
    BY <2>1 DEF Undelivered
  <2> QED BY <2>1, <2>2, StatsKept
<1>10. CASE VisitDuplicate(a)
  <2>1. /\ mailbox[a] # <<>> /\ mailbox' = [mailbox EXCEPT ![a] = Tail(@)] /\ UNCHANGED discarded
        /\ messages_delivered' = messages_delivered + 1 /\ UNCHANGED messages_sent
        /\ stack' = Append(Pop, Tick(After(a)))
    BY <1>10 DEF VisitDuplicate, Deliverable
  <2> QED BY <1>2, <1>4, <1>6, <1>7, <1>8, <2>1 DEF StatsInv, StatsBalance
<1>11. CASE VisitDeliver(a)
  <2>1. /\ mailbox[a] # <<>> /\ mailbox' = [mailbox EXCEPT ![a] = Tail(@)] /\ UNCHANGED discarded
        /\ UNCHANGED messages_sent
        /\ \/ /\ messages_delivered' = messages_delivered + 1
              /\ stack' = Append(Pop, Tick(After(a)))
           \/ /\ messages_delivered' = messages_delivered
              /\ stack' = Append(Pop, [Tick(After(a)) EXCEPT !.run = a, !.msg = Head(mailbox[a])])
    BY <1>11 DEF VisitDeliver, Deliverable
  <2>2. IsFiniteSet(Undelivered') /\ Cardinality(Undelivered') = Cardinality(Undelivered) - 1
    BY <1>8, <2>1
  <2>3. \/ messages_delivered' = messages_delivered + 1 /\ Cardinality(InHand') = Cardinality(InHand)
        \/ messages_delivered' = messages_delivered /\ Cardinality(InHand') = Cardinality(InHand) + 1
    BY <1>4, <1>5, <2>1
  <2>4. messages_sent' = messages_sent
    BY <2>1
  <2>5. messages_sent = messages_delivered + Cardinality(InHand) + Cardinality(Undelivered)
    BY DEF StatsInv, StatsBalance
  <2>6. messages_sent' = messages_delivered' + Cardinality(InHand') + Cardinality(Undelivered')
    BY <1>2, <1>6, <1>7, <2>2, <2>3, <2>4, <2>5
  <2> QED BY <2>2, <2>6 DEF StatsInv, StatsBalance
<1> QED BY <1>9, <1>10, <1>11 DEF Visit

LEMMA StatsStep == StatsInv /\ [Next]_vars => StatsInv'
<1> SUFFICES ASSUME StatsInv, [Next]_vars PROVE StatsInv'
  OBVIOUS
<1>1. TypeOK' /\ Tree!ListIsLive'
  BY RuntimeTypeStep, TreeInvStep DEF TreeInv, TypeOK, StatsInv
<1>2. ASSUME UNCHANGED <<stack, mailbox, discarded, messages_sent, messages_delivered>> PROVE StatsInv'
  BY <1>1, <1>2, StatsKept DEF InHand, Undelivered
<1>3. ASSUME UNCHANGED <<mailbox, discarded, messages_sent, messages_delivered>>, HandsOf(stack') = HandsOf(stack)
      PROVE  StatsInv'
  BY <1>1, <1>3, StatsKept DEF InHand, HandsOf, Undelivered
<1>4. ASSUME NEW a \in Actors, Destroy(a) \/ DestroySelf(a) PROVE StatsInv'
  <2>1. Discard(a)
    BY <1>4 DEF Destroy, DestroySelf
  <2>2. Unread' = Unread /\ UNCHANGED <<stack, messages_sent, messages_delivered>>
    BY <2>1, UnreadLemma DEF StatsInv, Discard
  <2>3. TypeOK => Undelivered = Pairs(Unread)
    BY UnreadCounted
  <2>4. TypeOK' => (Undelivered = Pairs(Unread) /\ Unread \in [Actors -> Nat])'
    BY UnreadCounted, PTL
  <2>5. Undelivered' = Undelivered
    BY <1>1, <2>2, <2>3, <2>4 DEF Pairs, StatsInv
  <2>6. InHand' = InHand
    BY <2>2 DEF InHand
  <2> QED BY <1>1, <2>2, <2>5, <2>6, StatsKept
<1>5. ASSUME NEW a \in Actors, Send(a) PROVE StatsInv'
  <2>1. next_msg_id[a] \in Nat /\ 0 \in 0 .. MaxCalls /\ InHand' = InHand
    BY <1>5, RuntimeAssumption DEF StatsInv, TypeOK, Send, InHand
  <2> QED BY <1>1, <1>5, <2>1, StatsEnqueue DEF Send
<1>6. ASSUME NEW a \in Actors, NEW c \in Calls, Call(a, c) PROVE StatsInv'
  <2> DEFINE f == [kind |-> "call", call |-> c, left |-> CallTicks]
  <2>1. f.kind = "call" /\ stack' = Append(stack, f) /\ c \in 0 .. MaxCalls /\ 0 \in Nat
    BY <1>6, RuntimeAssumption DEF Call, Calls
  <2> HIDE DEF f
  <2>2. InHand' = HandsOf(stack')
    BY DEF InHand, HandsOf
  <2>3. InHand' = InHand
    BY <2>1, <2>2, HandsLemma DEF StatsInv
  <2> QED BY <1>1, <1>6, <2>1, <2>3, StatsEnqueue DEF Call
<1>7. ASSUME NEW a \in Actors, New(a) \/ (\E n \in Limits : SetLimit(a, n)) \/ (\E id \in 1 .. MaxSends : Probe(a, id))
                               \/ (\E b \in Behaviors \cup {NoBehavior} : HotUpgrade(a, b))
      PROVE  StatsInv'
  BY <1>2, <1>7 DEF New, SetLimit, Probe, HotUpgrade, queueVars, statVars
<1>8. ASSUME Lifecycle \/ Reply PROVE StatsInv'
  BY <1>2, <1>8 DEF Lifecycle, Reply, queueVars, statVars
<1>9. ASSUME NEW a \in Actors, Visit(a) PROVE StatsInv'
  BY <1>1, <1>9, StatsVisit
<1>10. ASSUME TickStart PROVE StatsInv'
  <2>1. stack = <<>> /\ stack' = <<Tick(First)>> /\ Tick(First).run = NoActor
    BY <1>10 DEF TickStart, HostRuns, Tick
  <2>2. HandsOf(stack') = {} /\ HandsOf(stack) = {}
    BY <2>1 DEF HandsOf
  <2> QED BY <1>3, <1>10, <2>2 DEF TickStart, queueVars, statVars
<1>11. ASSUME TickEnd \/ CallReturn PROVE StatsInv'
  <2>1. stack # <<>> /\ ~InBehavior /\ stack' = Pop
    BY <1>11 DEF TickEnd, CallReturn, Walking, Waiting, InBehavior
  <2>2. HandsOf(stack') = HandsOf(stack)
    BY <2>1, HandsLemma DEF StatsInv
  <2> QED BY <1>3, <1>11, <2>2 DEF TickEnd, CallReturn, queueVars, statVars
<1>12. ASSUME CallTick PROVE StatsInv'
  <2> DEFINE f == [Top EXCEPT !.left = @ - 1]
             g == Tick(First)
  <2>1. stack # <<>> /\ ~InBehavior /\ Top \in CallFrame
    BY <1>12, FrameLemma DEF CallTick, Waiting, InBehavior, StatsInv
  <2>2. f.kind = "call"
    <3> HIDE DEF Top
    <3> QED BY <2>1 DEF CallFrame
  <2>3. g.kind = "tick" /\ g.run = NoActor
    BY DEF Tick
  <2>4. stack' = Pop \o <<f, g>>
    BY <1>12 DEF CallTick
  <2> HIDE DEF f, g
  <2>5. HandsOf(stack') = HandsOf(stack)
    BY <2>1, <2>2, <2>3, <2>4, HandsLemma DEF StatsInv
  <2> QED BY <1>3, <1>12, <2>5 DEF CallTick, queueVars, statVars
<1>13. ASSUME BehaviorReturn PROVE StatsInv'
  <2>1. /\ stack # <<>> /\ InBehavior /\ stack' = Append(Pop, Tick(Top.at))
        /\ messages_delivered' = messages_delivered + 1 /\ UNCHANGED <<mailbox, discarded, messages_sent>>
    BY <1>13 DEF BehaviorReturn, InBehavior, queueVars
  <2>2. Tick(Top.at).run = NoActor
    BY DEF Tick
  <2>3. InHand' = HandsOf(stack')
    BY DEF InHand, HandsOf
  <2>4. /\ InHand' = HandsOf(Pop) /\ InHand = HandsOf(Pop) \cup {Len(stack)}
        /\ Len(stack) \notin HandsOf(Pop) /\ IsFiniteSet(HandsOf(Pop)) /\ Cardinality(HandsOf(Pop)) \in Nat
    BY <2>1, <2>2, <2>3, HandsLemma DEF StatsInv
  <2>5. Cardinality(InHand) = Cardinality(InHand') + 1
    BY <2>4, FS_AddElement
  <2>6. Undelivered' = Undelivered
    BY <2>1 DEF Undelivered
  <2>7. Cardinality(Undelivered) \in Nat /\ messages_sent \in Nat /\ messages_delivered \in Nat
    BY FS_CardinalityType DEF StatsInv, TypeOK
  <2>8. StatsBalance'
    BY <2>1, <2>4, <2>5, <2>6, <2>7 DEF StatsInv, StatsBalance
  <2> QED BY <1>1, <2>6, <2>8 DEF StatsInv
<1>14. ASSUME UNCHANGED vars PROVE StatsInv'
  BY <1>2, <1>14 DEF vars, queueVars, statVars
<1> QED BY <1>4, <1>5, <1>6, <1>7, <1>8, <1>9, <1>10, <1>11, <1>12, <1>13, <1>14 DEF Next, Step, Runtime

(* The counters of the runtime balance at every moment, in the middle of   *)
(* walks and nested ticks too: what was sent was delivered, is in the      *)
(* hands of a behavior, is queued, or was freed with its actor.            *)
THEOREM StatisticsBalance == Spec => []StatsBalance
<1>1. Init => StatsInv
  <2> SUFFICES ASSUME Init PROVE StatsInv
    OBVIOUS
  <2>1. TypeOK /\ Tree!ListIsLive
    BY RuntimeTypeInit
  <2>2. /\ stack = <<>> /\ mailbox = [a \in Actors |-> <<>>] /\ discarded = [a \in Actors |-> 0]
        /\ messages_sent = 0 /\ messages_delivered = 0
    BY DEF Init
  <2>3. Undelivered = {}
    <3>1. \A a \in Actors : Len(mailbox[a]) + discarded[a] = 0
      BY <2>2
    <3>2. \A a \in Actors : {a} \X (1 .. Len(mailbox[a]) + discarded[a]) = {}
      BY <3>1
    <3> QED BY <3>2 DEF Undelivered
  <2>4. InHand = {}
    BY <2>2 DEF InHand
  <2> QED BY <2>1, <2>2, <2>3, <2>4, FS_EmptySet DEF StatsInv, StatsBalance
<1>2. StatsInv => StatsBalance
  BY DEF StatsInv
<1> QED BY <1>1, <1>2, StatsStep, PTL DEF Spec

-----------------------------------------------------------------------------
(* Synchronous calls.                                                      *)

(* The programs PromptCallsAnswered is about.                              *)
Quiet == program \subseteq {"call", "upgrade"}

(* Actor a stands in the list at b or behind it.                           *)
Ahead(a, b) == \E i, j \in DOMAIN actors : i <= j /\ actors[i] = b /\ actors[j] = a

(* A behavior above frame p has the message of call c in its hands.        *)
HandsHold(c, p) ==
    \E q \in DOMAIN stack : /\ q > p /\ stack[q].kind = "tick" /\ stack[q].run # NoActor
                            /\ stack[q].msg.call = c

(* The message of call c is queued, and the call's remaining ticks reach   *)
(* it, one more when the tick under way has not come to the callee yet.    *)
Slack(a, p) == IF p < Len(stack) /\ Ahead(a, stack[p + 1].at) THEN 1 ELSE 0
Queued(c, p) ==
    \E a \in Tree!Live : \E k \in DOMAIN mailbox[a] :
        /\ mailbox[a][k].call = c /\ actor_state[a] = "RUNNING"
        /\ k <= stack[p].left + Slack(a, p)

Pending(p) == stack[p].kind = "call" /\ reply[stack[p].call] = "waiting" /\ stack[p].call \in prompt
Reached(p) == Pending(p) => HandsHold(stack[p].call, p) \/ Queued(stack[p].call, p)

(* One frame for a call that has not returned, a tick above each waiting   *)
(* call, and what the results say.                                         *)
CallFrames ==
    /\ \A i \in DOMAIN stack : stack[i].kind = "call" => reply[stack[i].call] \in {"waiting", "done"}
    /\ \A i, j \in DOMAIN stack :
           stack[i].kind = "call" /\ stack[j].kind = "call" /\ stack[i].call = stack[j].call => i = j
    /\ \A i \in DOMAIN stack : stack[i].kind = "call" /\ i < Len(stack) => stack[i + 1].kind = "tick"
Replies ==
    /\ \A c \in Calls : reply[c] = "done" => c \in answered
    /\ \A c \in Calls : result[c] = "success" => reply[c] = "freed"
    /\ \A c \in prompt : reply[c] # "unused" /\ (result[c] = "success" => c \in answered)
Numbered == \A a \in Actors : \A k \in DOMAIN mailbox[a] : mailbox[a][k].call # 0 => mailbox[a][k].id = 0
Coded == \A a \in Tree!Live : behavior[a] # NoBehavior

Calm == CallFrames /\ Replies /\ Numbered /\ Coded /\ \A p \in DOMAIN stack : Reached(p)
CallInv == TypeOK /\ Tree!ListIsLive /\ (Quiet => Calm)

LEMMA AheadLemma ==
    ASSUME TypeOK, Tree!ListIsLive
    PROVE  /\ \A a \in Tree!Live : Ahead(a, First)
           /\ \A a : ~Ahead(a, NoActor)
           /\ \A a, b \in Tree!Live : a # b /\ Ahead(a, b) => Ahead(a, After(b))
<1>1. /\ actors \in Seq(Actors) /\ DOMAIN actors = 1 .. Len(actors) /\ Len(actors) \in Nat
      /\ \A a \in Tree!Live : \E k \in DOMAIN actors : actors[k] = a
      /\ \A i, j \in DOMAIN actors : actors[i] = actors[j] => i = j
  BY DEF TypeOK, Tree!TypeOK, Tree!ListIsLive, Tree!Range
<1>2. ASSUME NEW a \in Tree!Live PROVE Ahead(a, First)
  <2>1. PICK j \in DOMAIN actors : actors[j] = a
    BY <1>1
  <2>2. 1 \in DOMAIN actors /\ 1 <= j /\ actors # <<>> /\ First = actors[1]
    BY <1>1, <2>1 DEF First
  <2> QED BY <2>1, <2>2 DEF Ahead
<1>3. \A a : ~Ahead(a, NoActor)
  <2>1. \A i \in DOMAIN actors : actors[i] \in Actors
    BY <1>1
  <2> QED BY <2>1, RuntimeAssumption DEF Ahead
<1>4. ASSUME NEW a \in Tree!Live, NEW b \in Tree!Live, a # b, Ahead(a, b) PROVE Ahead(a, After(b))
  <2>1. PICK i \in DOMAIN actors, j \in DOMAIN actors : i <= j /\ actors[i] = b /\ actors[j] = a
    BY <1>4 DEF Ahead
  <2>2. i = CHOOSE k \in DOMAIN actors : actors[k] = b
    BY <1>1, <2>1
  <2>3. i # j /\ i + 1 <= j /\ i < Len(actors) /\ i + 1 \in DOMAIN actors
    BY <1>1, <1>4, <2>1
  <2>4. After(b) = actors[i + 1]
    BY <2>2, <2>3 DEF After
  <2> QED BY <2>1, <2>3, <2>4 DEF Ahead
<1> QED BY <1>2, <1>3, <1>4

(* New actors come in front of the others.                                 *)
LEMMA AheadGrows ==
    ASSUME TypeOK, UNCHANGED actors \/ \E x \in Actors : actors' = <<x>> \o actors
    PROVE  \A a, b : Ahead(a, b) => Ahead(a, b)'
<1> SUFFICES ASSUME NEW a, NEW b, Ahead(a, b) PROVE Ahead(a, b)'
  OBVIOUS
<1>1. CASE UNCHANGED actors
  BY <1>1 DEF Ahead
<1>2. CASE \E x \in Actors : actors' = <<x>> \o actors
  <2>1. PICK x \in Actors : actors' = <<x>> \o actors
    BY <1>2
  <2>2. PICK i \in DOMAIN actors, j \in DOMAIN actors : i <= j /\ actors[i] = b /\ actors[j] = a
    BY DEF Ahead
  <2>3. actors \in Seq(Actors) /\ <<x>> \in Seq(Actors)
    BY DEF TypeOK, Tree!TypeOK
  <2>4. /\ DOMAIN actors' = 1 .. Len(actors) + 1 /\ Len(actors) \in Nat /\ DOMAIN actors = 1 .. Len(actors)
        /\ \A k \in 1 .. Len(actors) : actors'[k + 1] = actors[k]
    BY <2>1, <2>3
  <2>5. /\ i + 1 \in DOMAIN actors' /\ j + 1 \in DOMAIN actors' /\ i + 1 <= j + 1
        /\ actors'[i + 1] = b /\ actors'[j + 1] = a
    BY <2>2, <2>4
  <2> QED BY <2>5 DEF Ahead
<1> QED BY <1>1, <1>2

(* The stack after each kind of change.                                    *)
LEMMA StackShapes ==
    ASSUME TypeOK
    PROVE  /\ stack \in Seq(Frame) /\ Len(stack) \in Nat /\ DOMAIN stack = 1 .. Len(stack)
           /\ \A f : /\ DOMAIN Append(stack, f) = 1 .. Len(stack) + 1 /\ Len(Append(stack, f)) = Len(stack) + 1
                     /\ Append(stack, f)[Len(stack) + 1] = f
                     /\ \A i \in 1 .. Len(stack) : Append(stack, f)[i] = stack[i]
           /\ stack # <<>> =>
                /\ Len(stack) > 0 /\ Top = stack[Len(stack)]
                /\ Len(Pop) = Len(stack) - 1 /\ DOMAIN Pop = 1 .. Len(stack) - 1
                /\ \A i \in 1 .. Len(stack) - 1 : Pop[i] = stack[i]
                /\ \A f : /\ DOMAIN Append(Pop, f) = 1 .. Len(stack) /\ Len(Append(Pop, f)) = Len(stack)
                          /\ Append(Pop, f)[Len(stack)] = f
                          /\ \A i \in 1 .. Len(stack) - 1 : Append(Pop, f)[i] = stack[i]
                /\ \A f, g : /\ DOMAIN (Pop \o <<f, g>>) = 1 .. Len(stack) + 1
                             /\ Len(Pop \o <<f, g>>) = Len(stack) + 1
                             /\ (Pop \o <<f, g>>)[Len(stack)] = f /\ (Pop \o <<f, g>>)[Len(stack) + 1] = g
                             /\ \A i \in 1 .. Len(stack) - 1 : (Pop \o <<f, g>>)[i] = stack[i]
<1> DEFINE n == Len(stack)
<1>1. stack \in Seq(Frame) /\ n \in Nat /\ DOMAIN stack = 1 .. n
  BY DEF TypeOK, Frame
<1>2. \A f : /\ DOMAIN Append(stack, f) = 1 .. n + 1 /\ Len(Append(stack, f)) = n + 1
             /\ Append(stack, f)[n + 1] = f
             /\ \A i \in 1 .. n : Append(stack, f)[i] = stack[i]
  BY <1>1
<1>3. ASSUME stack # <<>>
      PROVE  /\ n > 0 /\ Top = stack[n]
             /\ Len(Pop) = n - 1 /\ DOMAIN Pop = 1 .. n - 1
             /\ \A i \in 1 .. n - 1 : Pop[i] = stack[i]
             /\ \A f : /\ DOMAIN Append(Pop, f) = 1 .. n /\ Len(Append(Pop, f)) = n
                       /\ Append(Pop, f)[n] = f
                       /\ \A i \in 1 .. n - 1 : Append(Pop, f)[i] = stack[i]
             /\ \A f, g : /\ DOMAIN (Pop \o <<f, g>>) = 1 .. n + 1
                          /\ Len(Pop \o <<f, g>>) = n + 1
                          /\ (Pop \o <<f, g>>)[n] = f /\ (Pop \o <<f, g>>)[n + 1] = g
                          /\ \A i \in 1 .. n - 1 : (Pop \o <<f, g>>)[i] = stack[i]
  <2>1. n > 0
    BY <1>1, <1>3
  <2>2. /\ Pop \in Seq(Frame) /\ Len(Pop) = n - 1 /\ DOMAIN Pop = 1 .. n - 1
        /\ \A i \in 1 .. n - 1 : Pop[i] = stack[i]
    BY <1>1, <2>1 DEF Pop
  <2>3. Top = stack[n]
    BY DEF Top
  <2> HIDE DEF n
  <2>4. ASSUME NEW f
        PROVE  /\ DOMAIN Append(Pop, f) = 1 .. n /\ Len(Append(Pop, f)) = n
               /\ Append(Pop, f)[n] = f
               /\ \A i \in 1 .. n - 1 : Append(Pop, f)[i] = stack[i]
    BY <1>1, <2>1, <2>2
  <2>5. ASSUME NEW f, NEW g
        PROVE  /\ DOMAIN (Pop \o <<f, g>>) = 1 .. n + 1
               /\ Len(Pop \o <<f, g>>) = n + 1
               /\ (Pop \o <<f, g>>)[n] = f /\ (Pop \o <<f, g>>)[n + 1] = g
               /\ \A i \in 1 .. n - 1 : (Pop \o <<f, g>>)[i] = stack[i]
    BY <1>1, <2>1, <2>2
  <2> QED BY <2>1, <2>2, <2>3, <2>4, <2>5
<1> QED BY <1>1, <1>2, <1>3

LEMMA SlackKept ==
    ASSUME TypeOK, UNCHANGED actors \/ \E x \in Actors : actors' = <<x>> \o actors,
           NEW p \in DOMAIN stack,
           p < Len(stack) => p < Len(stack') /\ stack'[p + 1].at = stack[p + 1].at
    PROVE  \A a : Slack(a, p) = 1 => Slack(a, p)' = 1
<1> SUFFICES ASSUME NEW a, Slack(a, p) = 1 PROVE Slack(a, p)' = 1
  OBVIOUS
<1> DEFINE b == stack[p + 1].at
<1>1. p < Len(stack) /\ Ahead(a, b)
  BY DEF Slack
<1>2. PICK x : x = b
  OBVIOUS
<1>3. Ahead(a, x)'
  BY <1>1, <1>2, AheadGrows
<1>4. p < Len(stack') /\ x = stack'[p + 1].at
  BY <1>1, <1>2
<1>5. (p < Len(stack) /\ Ahead(a, stack[p + 1].at))'
  BY <1>3, <1>4 DEF Ahead
<1> QED BY <1>5 DEF Slack

(* What a step may do and leave the call of frame p within reach.          *)
QueuesStay ==
    \A b \in Tree!Live :
        /\ b \in Tree!Live' /\ (actor_state[b] = "RUNNING" => actor_state'[b] = "RUNNING")
        /\ \A k \in DOMAIN mailbox[b] : k \in DOMAIN mailbox'[b] /\ mailbox'[b][k] = mailbox[b][k]
SlackStays(p) ==
    \A b \in Tree!Live : mailbox[b] # <<>> /\ actor_state[b] = "RUNNING" /\ Slack(b, p) = 1 => Slack(b, p)' = 1
HandsStay(p) == \A c : c = stack[p].call /\ Pending(p)' /\ HandsHold(c, p) => HandsHold(c, p)'
FrameStays(p) == p \in DOMAIN stack' /\ stack'[p] = stack[p] /\ (Pending(p)' => Pending(p))

LEMMA PendingTypes ==
    ASSUME TypeOK, NEW p \in DOMAIN stack, Pending(p)
    PROVE  stack[p].left \in Nat /\ stack[p].call \in Calls /\ p \in Nat
<1>1. stack[p] \in Frame /\ stack[p].kind = "call" /\ p \in Nat
  BY DEF Pending, TypeOK, Frame
<1>2. stack[p] \in CallFrame
  BY <1>1 DEF Frame, TickFrame
<1> QED BY <1>1, <1>2, RuntimeAssumption DEF CallFrame

LEMMA StaysReached ==
    ASSUME TypeOK, NEW p \in DOMAIN stack, Reached(p),
           FrameStays(p), QueuesStay, SlackStays(p), HandsStay(p)
    PROVE  Reached(p)'
<1> SUFFICES ASSUME Pending(p)' PROVE (HandsHold(stack[p].call, p) \/ Queued(stack[p].call, p))'
  BY DEF Reached
<1>0. PICK c : c = stack[p].call
  OBVIOUS
<1>1. Pending(p) /\ stack'[p].call = c /\ stack'[p] = stack[p]
  BY <1>0 DEF FrameStays
<1>2. HandsHold(c, p) => HandsHold(c, p)'
  BY <1>0 DEF HandsStay
<1>3. ASSUME Queued(c, p) PROVE Queued(c, p)'
  <2>1. PICK a \in Tree!Live : \E k \in DOMAIN mailbox[a] :
            /\ mailbox[a][k].call = c /\ actor_state[a] = "RUNNING"
            /\ k <= stack[p].left + Slack(a, p)
    BY <1>3 DEF Queued
  <2>2. PICK k \in DOMAIN mailbox[a] :
            /\ mailbox[a][k].call = c /\ actor_state[a] = "RUNNING"
            /\ k <= stack[p].left + Slack(a, p)
    BY <2>1
  <2>3. a \in Tree!Live' /\ actor_state'[a] = "RUNNING" /\ k \in DOMAIN mailbox'[a]
        /\ mailbox'[a][k].call = c
    BY <2>2 DEF QueuesStay
  <2>4. mailbox[a] # <<>> /\ k \in Nat
    <3>1. mailbox[a] \in Seq(Message)
      BY DEF TypeOK, Tree!Live
    <3> QED BY <3>1
  <2>5. Slack(a, p) \in {0, 1} /\ Slack(a, p)' \in {0, 1} /\ (Slack(a, p) = 1 => Slack(a, p)' = 1)
    BY <2>2, <2>4 DEF SlackStays, Slack
  <2>6. k <= stack'[p].left + Slack(a, p)'
    BY <1>1, <2>2, <2>4, <2>5, PendingTypes
  <2> QED BY <2>3, <2>6 DEF Queued
<1>4. HandsHold(c, p)' \/ Queued(c, p)'
  BY <1>0, <1>1, <1>2, <1>3 DEF Reached
<1> QED BY <1>1, <1>4 DEF HandsHold, Queued, Slack

(* A step without calls, messages or walks.                                *)
LEMMA CalmKept ==
    ASSUME CallInv, Quiet, TypeOK', Tree!ListIsLive',
           UNCHANGED <<stack, mailbox, reply, result, answered, prompt>>,
           UNCHANGED actors \/ \E x \in Actors : actors' = <<x>> \o actors,
           \A a \in Tree!Live : a \in Tree!Live' /\ (actor_state[a] = "RUNNING" => actor_state'[a] = "RUNNING"),
           \A a \in Tree!Live' : behavior'[a] # NoBehavior
    PROVE  Calm'
<1>1. TypeOK /\ Calm
  BY DEF CallInv
<1>2. CallFrames' /\ Replies' /\ Numbered' /\ Coded'
  BY <1>1 DEF Calm, CallFrames, Replies, Numbered, Coded
<1>3. ASSUME NEW p \in DOMAIN stack' PROVE Reached(p)'
  <2>1. p \in DOMAIN stack /\ Reached(p) /\ FrameStays(p)
    BY <1>1 DEF Calm, Pending, FrameStays
  <2>2. \A a : Slack(a, p) = 1 => Slack(a, p)' = 1
    BY <1>1, <2>1, SlackKept
  <2>3. SlackStays(p)
    BY <2>2 DEF SlackStays
  <2>4. QueuesStay /\ HandsStay(p)
    BY DEF QueuesStay, HandsStay, HandsHold
  <2> QED BY <1>1, <2>1, <2>3, <2>4, StaysReached
<1> QED BY <1>2, <1>3 DEF Calm

(* A message queued by a send or a call; a call's frame comes on top.      *)
LEMMA CalmEnqueue ==
    ASSUME CallInv, Quiet, TypeOK', NEW a \in Actors,
           Send(a) \/ \E c \in Calls : Call(a, c)
    PROVE  Calm'
<1>1. TypeOK /\ Calm /\ Tree!ListIsLive /\ stack \in Seq(Frame) /\ DOMAIN stack = 1 .. Len(stack)
      /\ Len(stack) \in Nat
  BY StackShapes DEF CallInv
<1>2. Accepts(a) /\ InControl /\ UNCHANGED <<lifeVars, behavior, answered, result>>
  BY DEF Send, Call, Enqueue, codeVars, callVars
<1>3. PICK m : /\ mailbox' = [mailbox EXCEPT ![a] = Append(@, m)]
               /\ (m.call # 0 => m.id = 0)
               /\ \/ UNCHANGED <<stack, reply, prompt>>
                  \/ \E c \in Calls : Call(a, c) /\ m.call = c
  <2>1. CASE Send(a)
    <3>1. PICK m : m = [seq |-> accepted[a] + 1, id |-> next_msg_id[a], call |-> 0]
      OBVIOUS
    <3>2. mailbox' = [mailbox EXCEPT ![a] = Append(@, m)] /\ m.call = 0 /\ UNCHANGED <<stack, reply, prompt>>
      BY <2>1, <3>1 DEF Send, Enqueue, callVars
    <3> QED BY <3>2
  <2>2. CASE \E c \in Calls : Call(a, c)
    <3>1. PICK c \in Calls : Call(a, c)
      BY <2>2
    <3>2. PICK m : m = [seq |-> accepted[a] + 1, id |-> 0, call |-> c]
      OBVIOUS
    <3>3. mailbox' = [mailbox EXCEPT ![a] = Append(@, m)]
      BY <3>1, <3>2 DEF Call, Enqueue
    <3>4. m.id = 0 /\ m.call = c
      BY <3>2
    <3>5. \E d \in Calls : Call(a, d) /\ m.call = d
      BY <3>1, <3>4
    <3> QED BY <3>3, <3>4, <3>5
  <2> QED BY <2>1, <2>2
<1>4. /\ mailbox \in [Actors -> Seq(Message)] /\ mailbox[a] \in Seq(Message) /\ Len(mailbox[a]) \in Nat
      /\ mailbox'[a] = Append(mailbox[a], m) /\ \A b \in Actors : b # a => mailbox'[b] = mailbox[b]
  BY <1>1, <1>3 DEF TypeOK
<1>5. /\ DOMAIN mailbox'[a] = 1 .. Len(mailbox[a]) + 1 /\ mailbox'[a][Len(mailbox[a]) + 1] = m
      /\ DOMAIN mailbox[a] = 1 .. Len(mailbox[a])
      /\ \A k \in 1 .. Len(mailbox[a]) : mailbox'[a][k] = mailbox[a][k]
  BY <1>4
<1>6. Tree!Live' = Tree!Live /\ actor_state' = actor_state
  BY <1>2 DEF lifeVars, Tree!Live
<1>7. QueuesStay
  <2> SUFFICES ASSUME NEW b \in Tree!Live, NEW k \in DOMAIN mailbox[b]
               PROVE  k \in DOMAIN mailbox'[b] /\ mailbox'[b][k] = mailbox[b][k]
    BY <1>6 DEF QueuesStay
  <2>1. CASE b = a
    BY <1>4, <1>5, <2>1
  <2>2. CASE b # a
    BY <1>4, <2>2 DEF Tree!Live
  <2> QED BY <2>1, <2>2
<1>8. Coded'
  BY <1>1, <1>2, <1>6 DEF Calm, Coded
<1>9. Numbered'
  <2> SUFFICES ASSUME NEW b \in Actors, NEW k \in DOMAIN mailbox'[b], mailbox'[b][k].call # 0
               PROVE  mailbox'[b][k].id = 0
    BY DEF Numbered
  <2>1. CASE b # a \/ k # Len(mailbox[a]) + 1
    <3>1. k \in DOMAIN mailbox[b] /\ mailbox'[b][k] = mailbox[b][k]
      BY <1>4, <1>5, <2>1
    <3> QED BY <1>1, <3>1 DEF Calm, Numbered
  <2>2. CASE b = a /\ k = Len(mailbox[a]) + 1
    BY <1>3, <1>5, <2>2
  <2> QED BY <2>1, <2>2
<1>10. CASE UNCHANGED <<stack, reply, prompt>>
  <2>1. CallFrames' /\ Replies'
    BY <1>1, <1>2, <1>10 DEF Calm, CallFrames, Replies
  <2>2. ASSUME NEW p \in DOMAIN stack' PROVE Reached(p)'
    <3>1. p \in DOMAIN stack /\ Reached(p) /\ FrameStays(p) /\ HandsStay(p)
      BY <1>1, <1>10, <2>2 DEF Calm, Pending, FrameStays, HandsStay, HandsHold
    <3>2. \A b : Slack(b, p) = 1 => Slack(b, p)' = 1
      BY <1>1, <1>2, <1>10, <3>1, SlackKept DEF lifeVars
    <3>3. SlackStays(p)
      BY <3>2 DEF SlackStays
    <3> QED BY <1>1, <1>7, <3>1, <3>3, StaysReached
  <2> QED BY <1>8, <1>9, <2>1, <2>2 DEF Calm
<1>11. ASSUME NEW c \in Calls, Call(a, c), m.call = c PROVE Calm'
  <2>0. PICK n \in Nat : n = Len(stack) /\ DOMAIN stack = 1 .. n
    BY <1>1
  <2>1. PICK f : f = [kind |-> "call", call |-> c, left |-> CallTicks]
    OBVIOUS
  <2>2. /\ stack' = Append(stack, f) /\ reply[c] = "unused" /\ reply' = [reply EXCEPT ![c] = "waiting"]
        /\ prompt' = IF actor_state[a] = "RUNNING" /\ Len(mailbox[a]) < CallTicks
                     THEN prompt \cup {c} ELSE prompt
        /\ f.kind = "call" /\ f.call = c /\ f.left = CallTicks
    BY <1>11, <2>1 DEF Call
  <2>3. /\ DOMAIN stack' = 1 .. n + 1 /\ Len(stack') = n + 1 /\ stack'[n + 1] = f
        /\ \A i \in 1 .. n : stack'[i] = stack[i]
    <3> DEFINE g == Append(stack, f)
    <3>1. /\ DOMAIN g = 1 .. n + 1 /\ Len(g) = n + 1 /\ g[n + 1] = f
          /\ \A i \in 1 .. n : g[i] = stack[i]
      BY <1>1, <2>0, StackShapes
    <3> QED BY <2>2, <3>1
  <2>4. /\ reply \in [Calls -> {"unused", "waiting", "done", "freed"}] /\ result \in [Calls -> {"none", "success"}]
        /\ prompt \subseteq Calls
    BY <1>1 DEF TypeOK
  <2>5. \A i \in 1 .. n + 1 : i \in 1 .. n \/ i = n + 1
    BY <2>0
  <2>6. \A i \in 1 .. n : stack[i].kind = "call" => stack[i].call \in Calls /\ stack[i].call # c
    <3>1. \A i \in 1 .. n : stack[i] \in Frame
      BY <1>1, <2>0
    <3>2. \A i \in 1 .. n : stack[i].kind = "call" => stack[i].call \in Calls
      BY <3>1 DEF Frame, TickFrame, CallFrame
    <3> QED BY <1>1, <2>0, <2>2, <3>2 DEF Calm, CallFrames
  <2>7. n \in 1 .. n => stack[n].kind = "tick"
    BY <1>1, <1>2, <2>0 DEF InControl, HostRuns, InBehavior, Top
  <2>8. CallFrames'
    <3>1. \A i \in DOMAIN stack' : stack'[i].kind = "call" => reply'[stack'[i].call] \in {"waiting", "done"}
      BY <1>1, <2>0, <2>2, <2>3, <2>4, <2>5, <2>6 DEF Calm, CallFrames
    <3>2. \A i, j \in DOMAIN stack' :
              stack'[i].kind = "call" /\ stack'[j].kind = "call" /\ stack'[i].call = stack'[j].call => i = j
      BY <1>1, <2>0, <2>2, <2>3, <2>5, <2>6 DEF Calm, CallFrames
    <3>3. \A i \in DOMAIN stack' : stack'[i].kind = "call" /\ i < Len(stack') => stack'[i + 1].kind = "tick"
      <4> SUFFICES ASSUME NEW i \in 1 .. n + 1, stack'[i].kind = "call", i < n + 1 PROVE stack'[i + 1].kind = "tick"
        BY <2>3
      <4>1. i \in 1 .. n
        BY <2>0
      <4>2. i # n
        BY <2>3, <2>7, <4>1
      <4>3. i < n /\ i + 1 \in 1 .. n
        BY <2>0, <4>1, <4>2
      <4> QED BY <1>1, <2>0, <2>3, <4>1, <4>3 DEF Calm, CallFrames
    <3> QED BY <3>1, <3>2, <3>3 DEF CallFrames
  <2>9. Replies'
    BY <1>1, <1>2, <2>2, <2>4 DEF Calm, Replies
  <2>10. ASSUME NEW p \in 1 .. n PROVE Reached(p)'
    <3>1. p \in DOMAIN stack /\ p \in DOMAIN stack' /\ stack'[p] = stack[p] /\ Reached(p)
      BY <1>1, <2>0, <2>3, <2>5, <2>10 DEF Calm
    <3>2. Pending(p)' => Pending(p)
      BY <2>2, <2>3, <2>4, <2>6, <3>1 DEF Pending
    <3>3. p < Len(stack) => p < Len(stack') /\ stack'[p + 1].at = stack[p + 1].at
      BY <2>0, <2>3
    <3>4. \A b : Slack(b, p) = 1 => Slack(b, p)' = 1
      BY <1>1, <1>2, <3>1, <3>3, SlackKept DEF lifeVars
    <3>5. \A q \in DOMAIN stack : q \in DOMAIN stack' /\ stack'[q] = stack[q]
      BY <2>0, <2>3, <2>5
    <3>6. SlackStays(p) /\ HandsStay(p) /\ FrameStays(p)
      BY <3>1, <3>2, <3>4, <3>5 DEF SlackStays, HandsStay, HandsHold, FrameStays
    <3> QED BY <1>1, <1>7, <3>1, <3>6, StaysReached
  <2>11. PICK top : top = n + 1
    OBVIOUS
  <2>12. Reached(top)'
    <3> SUFFICES ASSUME Pending(top)' PROVE Queued(stack[top].call, top)'
      BY DEF Reached
    <3>1. actor_state[a] = "RUNNING" /\ Len(mailbox[a]) < CallTicks
      <4>1. c \in prompt'
        BY <2>2, <2>3, <2>11 DEF Pending
      <4>2. c \notin prompt
        BY <1>1, <2>2, <2>4 DEF Calm, Replies
      <4> QED BY <2>2, <4>1, <4>2
    <3>2. a \in Tree!Live' /\ actor_state'[a] = "RUNNING"
      BY <1>2, <1>6, <3>1 DEF Accepts
    <3>3. /\ Len(mailbox[a]) + 1 \in DOMAIN mailbox'[a]
          /\ mailbox'[a][Len(mailbox[a]) + 1].call = stack'[top].call
      BY <1>4, <1>5, <1>11, <2>2, <2>3, <2>11
    <3>4. Len(mailbox[a]) + 1 <= stack'[top].left + Slack(a, top)'
      <4>1. Slack(a, top)' = 0
        BY <2>0, <2>3, <2>11 DEF Slack
      <4>2. Len(mailbox[a]) + 1 <= CallTicks
        BY <1>4, <3>1, RuntimeAssumption
      <4> QED BY <2>2, <2>3, <2>11, <4>1, <4>2, RuntimeAssumption
    <3> QED BY <3>2, <3>3, <3>4 DEF Queued
  <2>13. \A p \in DOMAIN stack' : Reached(p)'
    BY <2>3, <2>5, <2>10, <2>11, <2>12
  <2> QED BY <1>8, <1>9, <2>8, <2>9, <2>13 DEF Calm
<1> QED BY <1>3, <1>10, <1>11

(* Steps that leave the actors and their queues alone.                     *)
LEMMA NothingMoves ==
    ASSUME TypeOK, Calm, UNCHANGED <<lifeVars, mailbox>>
    PROVE  QueuesStay /\ Numbered' /\ (UNCHANGED behavior => Coded')
           /\ \A a, b : Ahead(a, b) => Ahead(a, b)'
BY DEF Calm, QueuesStay, Numbered, Coded, Ahead, lifeVars, Tree!Live

LEMMA UpgradeKeepsCode ==
    ASSUME TypeOK, Coded, NEW a \in Actors, Upgrade(a), UNCHANGED lifeVars
    PROVE  Coded'
<1>1. Tree!Live' = Tree!Live /\ Tree!Live \subseteq Actors
  BY DEF lifeVars, Tree!Live
<1>2. ASSUME NEW b \in Tree!Live PROVE behavior'[b] # NoBehavior
  <2>1. behavior[b] # NoBehavior /\ behavior \in [Actors -> Behaviors \cup {NoBehavior}] /\ b \in Actors
    BY <1>1 DEF Coded, TypeOK
  <2>2. CASE b = a
    BY <2>1, <2>2 DEF Upgrade
  <2>3. CASE b # a
    BY <2>1, <2>3 DEF Upgrade
  <2> QED BY <2>2, <2>3
<1> QED BY <1>1, <1>2 DEF Coded

(* The walk on top of the stack goes on.                                   *)
LEMMA TopReplaced ==
    ASSUME TypeOK, CallFrames, stack # <<>>, Top.kind = "tick", NEW f, f.kind = "tick",
           stack' = Append(Pop, f), UNCHANGED <<reply, prompt>>
    PROVE  /\ CallFrames'
           /\ DOMAIN stack' = DOMAIN stack /\ Len(stack') = Len(stack) /\ stack'[Len(stack)] = f
           /\ \A p \in DOMAIN stack : p # Len(stack) => stack'[p] = stack[p]
           /\ \A p \in DOMAIN stack' : Pending(p)' => p \in DOMAIN stack /\ p < Len(stack) /\ FrameStays(p)
<1>0. Len(stack) \in Nat /\ DOMAIN stack = 1 .. Len(stack) /\ Len(stack) > 0 /\ Top = stack[Len(stack)]
  BY StackShapes
<1>1. PICK n \in Nat : n = Len(stack) /\ DOMAIN stack = 1 .. n /\ n > 0 /\ stack[n].kind = "tick"
  BY <1>0
<1>2. /\ DOMAIN stack' = 1 .. n /\ Len(stack') = n /\ stack'[n] = f
      /\ \A i \in 1 .. n - 1 : stack'[i] = stack[i]
  <2> DEFINE g == Append(Pop, f)
  <2>1. /\ DOMAIN g = 1 .. n /\ Len(g) = n /\ g[n] = f
        /\ \A i \in 1 .. n - 1 : g[i] = stack[i]
    BY <1>1, StackShapes
  <2> QED BY <2>1
<1>3. \A i \in 1 .. n : stack'[i].kind = stack[i].kind /\ (stack[i].kind = "call" => stack'[i] = stack[i])
  <2> SUFFICES ASSUME NEW i \in 1 .. n
               PROVE  stack'[i].kind = stack[i].kind /\ (stack[i].kind = "call" => stack'[i] = stack[i])
    OBVIOUS
  <2>1. CASE i = n
    BY <1>1, <1>2, <2>1
  <2>2. CASE i # n
    BY <1>1, <1>2, <2>2
  <2> QED BY <2>1, <2>2
<1>4. CallFrames'
  <2>1. \A i \in DOMAIN stack' : stack'[i].kind = "call" => reply'[stack'[i].call] \in {"waiting", "done"}
    BY <1>1, <1>2, <1>3 DEF CallFrames
  <2>2. \A i, j \in DOMAIN stack' :
           stack'[i].kind = "call" /\ stack'[j].kind = "call" /\ stack'[i].call = stack'[j].call => i = j
    BY <1>1, <1>2, <1>3 DEF CallFrames
  <2>3. \A i \in DOMAIN stack' : stack'[i].kind = "call" /\ i < Len(stack') => stack'[i + 1].kind = "tick"
    <3> SUFFICES ASSUME NEW i \in 1 .. n, stack'[i].kind = "call", i < n PROVE stack'[i + 1].kind = "tick"
      BY <1>2
    <3>1. i + 1 \in 1 .. n
      BY <1>1
    <3> QED BY <1>1, <1>3, <3>1 DEF CallFrames
  <2> QED BY <2>1, <2>2, <2>3 DEF CallFrames
<1>5. ASSUME NEW p \in 1 .. n, Pending(p)' PROVE p < n /\ FrameStays(p)
  <2>1. stack'[p].kind = "call"
    BY <1>5 DEF Pending
  <2>2. p # n
    BY <1>2, <2>1
  <2>3. p < n /\ stack'[p] = stack[p]
    BY <1>1, <1>2, <2>2
  <2> QED BY <1>2, <2>3 DEF FrameStays, Pending
<1>6. \A p \in DOMAIN stack : p # n => stack'[p] = stack[p]
  BY <1>1, <1>2
<1> QED BY <1>1, <1>2, <1>4, <1>5, <1>6

(* It goes on without passing an actor that has something to take, and     *)
(* without dropping a call from its hands.                                 *)
LEMMA CalmWalk ==
    ASSUME CallInv, Quiet, TypeOK', stack # <<>>, Top.kind = "tick", NEW f, f.kind = "tick",
           stack' = Append(Pop, f), UNCHANGED <<lifeVars, mailbox, callVars>>, Coded',
           \A b \in Tree!Live : mailbox[b] # <<>> /\ actor_state[b] = "RUNNING" /\ Ahead(b, Top.at)
               => Ahead(b, f.at),
           Top.run = NoActor \/ Top.msg.call = 0 \/ reply[Top.msg.call] # "waiting"
    PROVE  Calm'
<1>1. TypeOK /\ Calm /\ CallFrames /\ UNCHANGED <<reply, prompt, result, answered>>
  BY DEF CallInv, Calm, callVars
<1>2. QueuesStay /\ Numbered' /\ \A a, b : Ahead(a, b) => Ahead(a, b)'
  BY <1>1, NothingMoves
<1>3. Replies'
  BY <1>1 DEF Calm, Replies
<1>4. PICK n \in Nat : n = Len(stack) /\ DOMAIN stack = 1 .. n /\ n > 0 /\ Top = stack[n]
  BY <1>1, StackShapes
<1>5. /\ CallFrames' /\ DOMAIN stack' = 1 .. n /\ Len(stack') = n /\ stack'[n] = f
      /\ \A p \in 1 .. n : p # n => stack'[p] = stack[p]
      /\ \A p \in DOMAIN stack' : Pending(p)' => p < n /\ FrameStays(p)
  BY <1>1, <1>4, TopReplaced
<1>6. ASSUME NEW p \in DOMAIN stack', Pending(p)' PROVE Reached(p)'
  <2>1. p \in DOMAIN stack /\ p < n /\ FrameStays(p) /\ Reached(p) /\ Pending(p) /\ stack[p].call \in Calls
    BY <1>1, <1>4, <1>5, <1>6, PendingTypes DEF Calm, FrameStays
  <2>2. SlackStays(p)
    <3> SUFFICES ASSUME NEW b \in Tree!Live, mailbox[b] # <<>>, actor_state[b] = "RUNNING", Slack(b, p) = 1
                 PROVE  Slack(b, p)' = 1
      BY DEF SlackStays
    <3>1. PICK x : x = stack[p + 1].at
      OBVIOUS
    <3>2. PICK y : y = stack'[p + 1].at
      OBVIOUS
    <3>3. Ahead(b, x)
      BY <3>1 DEF Slack
    <3>4. Ahead(b, y)
      <4>1. CASE p + 1 = n
        BY <1>4, <1>5, <3>1, <3>2, <3>3, <4>1
      <4>2. CASE p + 1 # n
        <5>1. p + 1 \in 1 .. n
          BY <1>4, <2>1
        <5> QED BY <1>5, <3>1, <3>2, <3>3, <4>2, <5>1
      <4> QED BY <4>1, <4>2
    <3>5. Ahead(b, y)'
      BY <1>2, <3>4
    <3>6. p < Len(stack') /\ Ahead(b, stack[p + 1].at)'
      BY <1>5, <2>1, <3>2, <3>5 DEF Ahead
    <3> QED BY <3>6 DEF Slack
  <2>3. HandsStay(p)
    <3> SUFFICES ASSUME NEW c, c = stack[p].call, HandsHold(c, p) PROVE HandsHold(c, p)'
      BY DEF HandsStay
    <3>1. PICK q \in DOMAIN stack : /\ q > p /\ stack[q].kind = "tick" /\ stack[q].run # NoActor
                                    /\ stack[q].msg.call = c
      BY DEF HandsHold
    <3>2. q # n
      <4>1. c # 0 /\ reply[c] = "waiting"
        BY <2>1 DEF Pending, Calls
      <4> QED BY <1>4, <3>1, <4>1
    <3> QED BY <1>4, <1>5, <3>1, <3>2 DEF HandsHold
  <2> QED BY <1>1, <1>2, <2>1, <2>2, <2>3, StaysReached
<1>7. \A p \in DOMAIN stack' : Reached(p)'
  BY <1>6 DEF Reached
<1> QED BY <1>2, <1>3, <1>5, <1>7 DEF Calm

LEMMA CalmVisitIdle ==
    ASSUME CallInv, Quiet, TypeOK', NEW a \in Actors, VisitIdle(a)
    PROVE  Calm'
<1>1. TypeOK /\ Calm /\ Tree!ListIsLive
  BY DEF CallInv
<1>2. PICK f : f = Tick(After(a))
  OBVIOUS
<1>3. f.kind = "tick" /\ f.at = After(a)
  BY <1>2 DEF Tick
<1>4. /\ stack # <<>> /\ Top.kind = "tick" /\ Top.run = NoActor /\ Top.at = a /\ a \in Tree!Live
      /\ stack' = Append(Pop, f) /\ UNCHANGED <<lifeVars, mailbox, callVars>> /\ ~Deliverable(a)
  BY <1>2 DEF VisitIdle, Visiting, Walking, queueVars
<1>5. Coded'
  BY <1>1, <1>4, UpgradeKeepsCode DEF Calm, VisitIdle
<1>6. \A b \in Tree!Live : mailbox[b] # <<>> /\ actor_state[b] = "RUNNING" /\ Ahead(b, Top.at)
          => Ahead(b, f.at)
  BY <1>1, <1>3, <1>4, AheadLemma DEF Deliverable
<1> QED BY <1>3, <1>4, <1>5, <1>6, CalmWalk

LEMMA CalmBehaviorReturn ==
    ASSUME CallInv, Quiet, TypeOK', BehaviorReturn
    PROVE  Calm'
<1>1. TypeOK /\ Calm /\ Tree!ListIsLive
  BY DEF CallInv
<1>2. PICK f : f = Tick(Top.at)
  OBVIOUS
<1>3. f.kind = "tick" /\ f.at = Top.at
  BY <1>2 DEF Tick
<1>4. /\ stack # <<>> /\ Top.kind = "tick"
      /\ stack' = Append(Pop, f) /\ UNCHANGED <<lifeVars, mailbox, behavior, callVars>>
  BY <1>2 DEF BehaviorReturn, InBehavior, queueVars, codeVars
<1>5. Top.msg.call = 0 \/ reply[Top.msg.call] # "waiting"
  BY DEF BehaviorReturn, OwesReply, Uses, Quiet
<1>6. Coded'
  BY <1>1, <1>4, NothingMoves
<1>7. \A b \in Tree!Live : mailbox[b] # <<>> /\ actor_state[b] = "RUNNING" /\ Ahead(b, Top.at)
          => Ahead(b, f.at)
  BY <1>3
<1> QED BY <1>3, <1>4, <1>5, <1>6, <1>7, CalmWalk

(* A message is taken: the calls behind it come one nearer, and its own    *)
(* call, if any, is in the hands of the walk.                              *)
LEMMA CalmTake ==
    ASSUME CallInv, Quiet, TypeOK', NEW a \in Actors, Visiting(a), Deliverable(a), NEW f,
           f.kind = "tick", f.at = After(a), Coded', UNCHANGED <<lifeVars, callVars>>,
           stack' = Append(Pop, f), mailbox' = [mailbox EXCEPT ![a] = Tail(@)],
           Head(mailbox[a]).call = 0 \/ (f.run # NoActor /\ f.msg = Head(mailbox[a]))
    PROVE  Calm'
<1>1. TypeOK /\ Calm /\ CallFrames /\ Tree!ListIsLive /\ UNCHANGED <<reply, prompt, result, answered>>
  BY DEF CallInv, Calm, callVars
<1>2. stack # <<>> /\ Top.kind = "tick" /\ Top.run = NoActor /\ Top.at = a /\ a \in Tree!Live
  BY DEF Visiting, Walking
<1>3. Tree!Live' = Tree!Live /\ UNCHANGED <<actors, actor_state>>
  BY DEF lifeVars, Tree!Live
<1>4. PICK n \in Nat : n = Len(stack) /\ DOMAIN stack = 1 .. n /\ n > 0 /\ Top = stack[n]
  BY <1>1, <1>2, StackShapes
<1>5. /\ CallFrames' /\ DOMAIN stack' = 1 .. n /\ Len(stack') = n /\ stack'[n] = f
      /\ \A p \in 1 .. n : p # n => stack'[p] = stack[p]
      /\ \A p \in DOMAIN stack' : Pending(p)' => p < n /\ FrameStays(p)
  BY <1>1, <1>2, <1>4, TopReplaced
<1>6. Replies'
  BY <1>1 DEF Calm, Replies
<1>7. /\ mailbox \in [Actors -> Seq(Message)] /\ mailbox[a] \in Seq(Message) /\ mailbox[a] # <<>>
      /\ actor_state[a] = "RUNNING"
      /\ mailbox'[a] = Tail(mailbox[a]) /\ \A b \in Actors : b # a => mailbox'[b] = mailbox[b]
  BY <1>1 DEF TypeOK, Deliverable
<1>8. /\ DOMAIN mailbox[a] = 1 .. Len(mailbox[a]) /\ DOMAIN mailbox'[a] = 1 .. Len(mailbox[a]) - 1
      /\ \A k \in 1 .. Len(mailbox[a]) - 1 : mailbox'[a][k] = mailbox[a][k + 1]
      /\ Head(mailbox[a]) = mailbox[a][1] /\ Len(mailbox[a]) \in Nat
  BY <1>7
<1>9. Numbered'
  <2> SUFFICES ASSUME NEW b \in Actors, NEW k \in DOMAIN mailbox'[b], mailbox'[b][k].call # 0
               PROVE  mailbox'[b][k].id = 0
    BY DEF Numbered
  <2>1. CASE b # a
    BY <1>1, <1>7, <2>1 DEF Calm, Numbered
  <2>2. CASE b = a
    <3>1. k + 1 \in DOMAIN mailbox[a] /\ mailbox'[a][k] = mailbox[a][k + 1]
      BY <1>8, <2>2
    <3> QED BY <1>1, <2>2, <3>1 DEF Calm, Numbered
  <2> QED BY <2>1, <2>2
<1>10. ASSUME NEW p \in DOMAIN stack', Pending(p)' PROVE Reached(p)'
  <2>1. p \in DOMAIN stack /\ p < n /\ FrameStays(p) /\ Reached(p) /\ Pending(p)
        /\ stack'[p] = stack[p]
    BY <1>1, <1>4, <1>5, <1>10 DEF Calm, FrameStays
  <2>2. PICK c : c = stack[p].call
    OBVIOUS
  <2>3. stack[p].left \in Nat /\ c \in Calls /\ c # 0
    BY <1>1, <2>1, <2>2, PendingTypes DEF Calls
  <2>4. CASE HandsHold(c, p)
    <3>1. PICK q \in DOMAIN stack : /\ q > p /\ stack[q].kind = "tick" /\ stack[q].run # NoActor
                                    /\ stack[q].msg.call = c
      BY <2>4 DEF HandsHold
    <3>2. q # n /\ q \in DOMAIN stack' /\ stack'[q] = stack[q]
      BY <1>2, <1>4, <1>5, <3>1
    <3>3. HandsHold(c, p)'
      BY <3>1, <3>2 DEF HandsHold
    <3> QED BY <2>1, <2>2, <3>3 DEF Reached, HandsHold
  <2>5. CASE Queued(c, p)
    <3>1. PICK b \in Tree!Live : \E k \in DOMAIN mailbox[b] :
            /\ mailbox[b][k].call = c /\ actor_state[b] = "RUNNING"
            /\ k <= stack[p].left + Slack(b, p)
      BY <2>5 DEF Queued
    <3>2. PICK k \in DOMAIN mailbox[b] :
            /\ mailbox[b][k].call = c /\ actor_state[b] = "RUNNING"
            /\ k <= stack[p].left + Slack(b, p)
      BY <3>1
    <3>3. Slack(b, p) \in {0, 1} /\ Slack(b, p)' \in {0, 1} /\ b \in Actors
      BY DEF Slack, Tree!Live
    <3>4. CASE b # a
      <4>1. Slack(b, p) = 1 => Slack(b, p)' = 1
        <5> SUFFICES ASSUME Slack(b, p) = 1 PROVE Slack(b, p)' = 1
          OBVIOUS
        <5>1. PICK x : x = stack[p + 1].at
          OBVIOUS
        <5>2. PICK y : y = stack'[p + 1].at
          OBVIOUS
        <5>3. Ahead(b, x)
          BY <5>1 DEF Slack
        <5>4. Ahead(b, y)
          <6>1. CASE p + 1 = n
            <7>1. x = a /\ y = After(a)
              BY <1>2, <1>4, <1>5, <5>1, <5>2, <6>1
            <7>2. \A u, v \in Tree!Live : u # v /\ Ahead(u, v) => Ahead(u, After(v))
              BY <1>1, AheadLemma
            <7> QED BY <1>2, <3>4, <5>3, <7>1, <7>2
          <6>2. CASE p + 1 # n
            <7>1. p + 1 \in 1 .. n
              BY <1>4, <2>1
            <7> QED BY <1>5, <5>1, <5>2, <5>3, <6>2, <7>1
          <6> QED BY <6>1, <6>2
        <5>5. p < Len(stack') /\ Ahead(b, stack[p + 1].at)'
          BY <1>3, <1>5, <2>1, <5>2, <5>4 DEF Ahead
        <5> QED BY <5>5 DEF Slack
      <4>2. b \in Tree!Live' /\ actor_state'[b] = "RUNNING" /\ k \in DOMAIN mailbox'[b]
            /\ mailbox'[b][k].call = c
        BY <1>3, <1>7, <3>2, <3>3, <3>4
      <4>3. k \in Nat
        <5>1. mailbox[b] \in Seq(Message)
          BY <1>7, <3>3
        <5> QED BY <5>1
      <4>4. k <= stack'[p].left + Slack(b, p)'
        BY <2>1, <2>3, <3>2, <3>3, <4>1, <4>3
      <4>5. Queued(c, p)'
        BY <4>2, <4>4 DEF Queued
      <4> QED BY <2>1, <2>2, <4>5 DEF Reached, Queued, Slack
    <3>5. CASE b = a /\ k = 1
      <4>1. f.run # NoActor /\ f.msg.call = c
        BY <1>8, <2>3, <3>2, <3>5
      <4>2. n \in DOMAIN stack' /\ n > p /\ stack'[n] = f
        BY <1>4, <1>5, <2>1
      <4>3. HandsHold(c, p)'
        BY <4>1, <4>2 DEF HandsHold
      <4> QED BY <2>1, <2>2, <4>3 DEF Reached, HandsHold
    <3>6. CASE b = a /\ k # 1
      <4>1. k \in 1 .. Len(mailbox[a])
        BY <1>8, <3>6
      <4>2. PICK j : j = k - 1
        OBVIOUS
      <4>3. j \in DOMAIN mailbox'[a] /\ j + 1 = k /\ j \in Nat
        BY <1>8, <3>6, <4>1, <4>2
      <4>4. mailbox'[a][j] = mailbox[a][k]
        BY <1>8, <4>3
      <4>5. j <= stack'[p].left + Slack(a, p)'
        BY <2>1, <2>3, <3>2, <3>3, <3>6, <4>3
      <4>6. Queued(c, p)'
        BY <1>2, <1>3, <1>7, <3>2, <3>6, <4>3, <4>4, <4>5 DEF Queued
      <4> QED BY <2>1, <2>2, <4>6 DEF Reached, Queued, Slack
    <3> QED BY <3>4, <3>5, <3>6
  <2> QED BY <2>1, <2>2, <2>4, <2>5 DEF Reached
<1>11. \A p \in DOMAIN stack' : Reached(p)'
  BY <1>10 DEF Reached
<1> QED BY <1>5, <1>6, <1>9, <1>11 DEF Calm

LEMMA CalmVisitDuplicate ==
    ASSUME CallInv, Quiet, TypeOK', NEW a \in Actors, VisitDuplicate(a)
    PROVE  Calm'
<1>1. TypeOK /\ Calm
  BY DEF CallInv
<1>2. PICK f : f = Tick(After(a))
  OBVIOUS
<1>3. f.kind = "tick" /\ f.at = After(a)
  BY <1>2 DEF Tick
<1>4. /\ Visiting(a) /\ Deliverable(a) /\ stack' = Append(Pop, f) /\ UNCHANGED <<lifeVars, callVars>>
      /\ mailbox' = [mailbox EXCEPT ![a] = Tail(@)] /\ Duplicate(a)
  BY <1>2 DEF VisitDuplicate
<1>5. Coded'
  BY <1>1, <1>4, UpgradeKeepsCode DEF Calm, VisitDuplicate
<1>6. Head(mailbox[a]).call = 0
  <2>1. mailbox[a] \in Seq(Message) /\ mailbox[a] # <<>>
    BY <1>1, <1>4 DEF TypeOK, Deliverable
  <2>2. 1 \in DOMAIN mailbox[a] /\ Head(mailbox[a]) = mailbox[a][1] /\ Head(mailbox[a]) \in Message
    BY <2>1
  <2>3. Head(mailbox[a]).id # 0
    BY <1>4, <2>2 DEF Duplicate, Message
  <2> QED BY <1>1, <2>2, <2>3 DEF Calm, Numbered
<1>7. Head(mailbox[a]).call = 0 \/ (f.run # NoActor /\ f.msg = Head(mailbox[a]))
  BY <1>6
<1> QED BY <1>3, <1>4, <1>5, <1>7, CalmTake

LEMMA CalmVisitDeliver ==
    ASSUME CallInv, Quiet, TypeOK', NEW a \in Actors, VisitDeliver(a)
    PROVE  Calm'
<1>1. TypeOK /\ Calm
  BY DEF CallInv
<1>2. PICK f : f = [Tick(After(a)) EXCEPT !.run = a, !.msg = Head(mailbox[a])]
  OBVIOUS
<1>3. f.kind = "tick" /\ f.at = After(a) /\ f.run # NoActor /\ f.msg = Head(mailbox[a])
  BY <1>2, RuntimeAssumption DEF Tick
<1>4. Coded'
  BY <1>1, UpgradeKeepsCode DEF Calm, VisitDeliver
<1>5. behavior'[a] # NoBehavior
  BY <1>4 DEF Coded, VisitDeliver, Visiting, lifeVars, Tree!Live
<1>6. /\ Visiting(a) /\ Deliverable(a) /\ stack' = Append(Pop, f) /\ UNCHANGED <<lifeVars, callVars>>
      /\ mailbox' = [mailbox EXCEPT ![a] = Tail(@)]
  BY <1>2, <1>5 DEF VisitDeliver
<1> QED BY <1>3, <1>4, <1>6, CalmTake

(* The top frame is done: a walk at its end, or a call.                    *)
LEMMA CalmPop ==
    ASSUME CallInv, Quiet, TypeOK', stack # <<>>, stack' = Pop, Replies',
           UNCHANGED <<lifeVars, mailbox, behavior, prompt>>,
           \A i \in DOMAIN stack : i < Len(stack) /\ stack[i].kind = "call"
               => reply'[stack[i].call] = reply[stack[i].call],
           Top.kind = "call" \/ (Top.run = NoActor /\ Top.at = NoActor)
    PROVE  Calm'
<1>1. TypeOK /\ Calm /\ CallFrames /\ Tree!ListIsLive
  BY DEF CallInv, Calm
<1>2. QueuesStay /\ Numbered' /\ Coded' /\ \A a, b : Ahead(a, b) => Ahead(a, b)'
  BY <1>1, NothingMoves
<1>3. PICK n \in Nat : n = Len(stack) /\ DOMAIN stack = 1 .. n /\ n > 0 /\ Top = stack[n]
  BY <1>1, StackShapes
<1>4. Len(stack') = n - 1 /\ DOMAIN stack' = 1 .. n - 1 /\ \A i \in 1 .. n - 1 : stack'[i] = stack[i]
  BY <1>1, <1>3, StackShapes
<1>5. \A i \in 1 .. n - 1 : i \in DOMAIN stack /\ i < n
  BY <1>3
<1>6. CallFrames'
  <2>1. \A i \in DOMAIN stack' : stack'[i].kind = "call" => reply'[stack'[i].call] \in {"waiting", "done"}
    BY <1>1, <1>3, <1>4, <1>5 DEF CallFrames
  <2>2. \A i, j \in DOMAIN stack' :
           stack'[i].kind = "call" /\ stack'[j].kind = "call" /\ stack'[i].call = stack'[j].call => i = j
    BY <1>1, <1>4, <1>5 DEF CallFrames
  <2>3. \A i \in DOMAIN stack' : stack'[i].kind = "call" /\ i < Len(stack') => stack'[i + 1].kind = "tick"
    <3> SUFFICES ASSUME NEW i \in 1 .. n - 1, stack'[i].kind = "call", i < n - 1 PROVE stack'[i + 1].kind = "tick"
      BY <1>4
    <3>1. i + 1 \in 1 .. n - 1
      BY <1>3
    <3> QED BY <1>1, <1>3, <1>4, <1>5, <3>1 DEF CallFrames
  <2> QED BY <2>1, <2>2, <2>3 DEF CallFrames
<1>7. ASSUME NEW p \in DOMAIN stack', Pending(p)' PROVE Reached(p)'
  <2>1. p \in DOMAIN stack /\ p < n /\ FrameStays(p) /\ Reached(p) /\ Pending(p) /\ stack'[p] = stack[p]
    BY <1>1, <1>3, <1>4, <1>5, <1>7 DEF Calm, FrameStays, Pending
  <2>2. SlackStays(p)
    <3> SUFFICES ASSUME NEW b \in Tree!Live, Slack(b, p) = 1 PROVE Slack(b, p)' = 1
      BY DEF SlackStays
    <3>1. PICK x : x = stack[p + 1].at
      OBVIOUS
    <3>2. Ahead(b, x)
      BY <3>1 DEF Slack
    <3>3. p + 1 # n
      <4>1. ASSUME p + 1 = n PROVE FALSE
        <5>1. Top.kind = "tick"
          BY <1>1, <1>3, <2>1, <4>1 DEF CallFrames, Pending
        <5>2. x = NoActor
          BY <1>3, <3>1, <4>1, <5>1
        <5> QED BY <1>1, <3>2, <5>2, AheadLemma
      <4> QED BY <4>1
    <3>4. p + 1 \in 1 .. n - 1 /\ p < n - 1
      BY <1>3, <2>1, <3>3
    <3>5. x = stack'[p + 1].at /\ Ahead(b, x)' /\ p < Len(stack')
      BY <1>2, <1>4, <3>1, <3>2, <3>4
    <3>6. Ahead(b, stack[p + 1].at)'
      BY <3>5 DEF Ahead
    <3> QED BY <3>5, <3>6 DEF Slack
  <2>3. HandsStay(p)
    <3> SUFFICES ASSUME NEW c, HandsHold(c, p) PROVE HandsHold(c, p)'
      BY DEF HandsStay
    <3>1. PICK q \in DOMAIN stack : /\ q > p /\ stack[q].kind = "tick" /\ stack[q].run # NoActor
                                    /\ stack[q].msg.call = c
      BY DEF HandsHold
    <3>2. q # n
      BY <1>3, <3>1
    <3>3. q \in DOMAIN stack' /\ stack'[q] = stack[q]
      BY <1>3, <1>4, <3>2
    <3> QED BY <3>1, <3>3 DEF HandsHold
  <2> QED BY <1>1, <1>2, <2>1, <2>2, <2>3, StaysReached
<1>8. \A p \in DOMAIN stack' : Reached(p)'
  BY <1>7 DEF Reached
<1> QED BY <1>2, <1>6, <1>8 DEF Calm

LEMMA CalmTickEnd == ASSUME CallInv, Quiet, TypeOK', TickEnd PROVE Calm'
<1>1. TypeOK /\ Calm
  BY DEF CallInv
<1>2. /\ stack # <<>> /\ stack' = Pop /\ Top.run = NoActor /\ Top.at = NoActor
      /\ UNCHANGED <<lifeVars, mailbox, behavior, prompt, reply, result, answered>>
  BY DEF TickEnd, Walking, queueVars, codeVars, callVars
<1>3. Replies'
  BY <1>1, <1>2 DEF Calm, Replies
<1> QED BY <1>2, <1>3, CalmPop

(* A call returns: answered, or out of ticks, which a pending call is not  *)
(* because nothing is left between it and its message.                     *)
LEMMA CalmCallReturn == ASSUME CallInv, Quiet, TypeOK', CallReturn PROVE Calm'
<1>1. TypeOK /\ Calm /\ CallFrames /\ Replies
  BY DEF CallInv, Calm
<1>2. PICK c : c = Top.call
  OBVIOUS
<1>3. /\ stack # <<>> /\ stack' = Pop /\ Top.kind = "call" /\ (reply[c] = "done" \/ Top.left = 0)
      /\ result' = [result EXCEPT ![c] = "success"] /\ reply' = [reply EXCEPT ![c] = "freed"]
      /\ UNCHANGED <<lifeVars, mailbox, behavior, prompt, answered>>
  BY <1>2 DEF CallReturn, Waiting, queueVars, codeVars
<1>4. PICK n \in Nat : n = Len(stack) /\ DOMAIN stack = 1 .. n /\ n > 0 /\ Top = stack[n]
  BY <1>1, <1>3, StackShapes
<1>5. /\ reply \in [Calls -> {"unused", "waiting", "done", "freed"}] /\ result \in [Calls -> {"none", "success"}]
      /\ prompt \subseteq Calls
  BY <1>1 DEF TypeOK
<1>6. \A i \in 1 .. n : stack[i].kind = "call" => stack[i].call \in Calls
  <2>1. \A i \in 1 .. n : stack[i] \in Frame
    BY <1>1, <1>4, StackShapes
  <2> QED BY <2>1 DEF Frame, TickFrame, CallFrame
<1>7. c \in Calls /\ reply[c] \in {"waiting", "done"}
  BY <1>1, <1>2, <1>3, <1>4, <1>6 DEF CallFrames
<1>8. c \in prompt => c \in answered
  <2>1. CASE reply[c] = "done"
    BY <1>1, <1>7, <2>1 DEF Replies
  <2>2. ASSUME reply[c] = "waiting", c \in prompt PROVE FALSE
    <3>1. n \in DOMAIN stack /\ Pending(n) /\ stack[n].call = c
      BY <1>2, <1>3, <1>4, <2>2 DEF Pending
    <3>2. HandsHold(c, n) \/ Queued(c, n)
      BY <1>1, <3>1 DEF Calm, Reached
    <3>3. ~HandsHold(c, n)
      BY <1>4 DEF HandsHold
    <3>4. PICK b \in Tree!Live : \E k \in DOMAIN mailbox[b] : k <= stack[n].left + Slack(b, n)
      BY <3>2, <3>3 DEF Queued
    <3>5. Slack(b, n) = 0 /\ stack[n].left = 0
      BY <1>3, <1>4, <2>2 DEF Slack
    <3>6. \A k \in DOMAIN mailbox[b] : k \in Nat /\ k > 0
      <4>1. mailbox[b] \in Seq(Message)
        BY <1>1 DEF TypeOK, Tree!Live
      <4> QED BY <4>1
    <3> QED BY <3>4, <3>5, <3>6
  <2> QED BY <1>7, <2>1, <2>2
<1>9. Replies'
  <2>1. \A d \in Calls : d # c => reply'[d] = reply[d] /\ result'[d] = result[d]
    BY <1>3, <1>5
  <2>2. reply'[c] = "freed" /\ result'[c] = "success"
    BY <1>3, <1>5, <1>7
  <2> QED BY <1>1, <1>3, <1>5, <1>8, <2>1, <2>2 DEF Replies
<1>10. ASSUME NEW i \in DOMAIN stack, i < Len(stack), stack[i].kind = "call"
       PROVE  reply'[stack[i].call] = reply[stack[i].call]
  <2>1. stack[i].call # c
    BY <1>1, <1>2, <1>3, <1>4, <1>10 DEF CallFrames
  <2> QED BY <1>3, <1>4, <1>5, <1>6, <1>10, <2>1
<1> QED BY <1>3, <1>9, <1>10, CalmPop

(* A tick inside the wait: one turn less, and a walk that will come to     *)
(* every live actor.                                                       *)
LEMMA CalmCallTick == ASSUME CallInv, Quiet, TypeOK', CallTick PROVE Calm'
<1>1. TypeOK /\ Calm /\ CallFrames /\ Tree!ListIsLive
  BY DEF CallInv, Calm
<1>2. PICK f : f = [Top EXCEPT !.left = @ - 1]
  OBVIOUS
<1>3. PICK g : g = Tick(First)
  OBVIOUS
<1>4. /\ stack # <<>> /\ stack' = Pop \o <<f, g>> /\ Top.kind = "call" /\ Top.left > 0
      /\ UNCHANGED <<lifeVars, mailbox, behavior, prompt, reply, result, answered, actors>>
  BY <1>2, <1>3 DEF CallTick, Waiting, queueVars, codeVars, callVars, lifeVars
<1>5. PICK n \in Nat : n = Len(stack) /\ DOMAIN stack = 1 .. n /\ n > 0 /\ Top = stack[n]
  BY <1>1, <1>4, StackShapes
<1>6. f.kind = "call" /\ f.call = Top.call /\ f.left = Top.left - 1 /\ Top.left \in Nat
  <2>1. Top \in Frame
    BY <1>1, <1>5, StackShapes
  <2>2. Top \in CallFrame
    BY <1>4, <2>1 DEF Frame, TickFrame
  <2> QED BY <1>2, <2>2, RuntimeAssumption DEF CallFrame
<1>7. g.kind = "tick" /\ g.at = First
  BY <1>3 DEF Tick
<1>8. /\ DOMAIN stack' = 1 .. n + 1 /\ Len(stack') = n + 1 /\ stack'[n] = f /\ stack'[n + 1] = g
      /\ \A i \in 1 .. n - 1 : stack'[i] = stack[i]
  <2> DEFINE h == Pop \o <<f, g>>
  <2>1. /\ DOMAIN h = 1 .. n + 1 /\ Len(h) = n + 1 /\ h[n] = f /\ h[n + 1] = g
        /\ \A i \in 1 .. n - 1 : h[i] = stack[i]
    BY <1>1, <1>4, <1>5, StackShapes
  <2> QED BY <1>4, <2>1
<1>9. QueuesStay /\ Numbered' /\ Coded' /\ \A a, b : Ahead(a, b) => Ahead(a, b)'
  BY <1>1, <1>4, NothingMoves
<1>10. Replies'
  BY <1>1, <1>4 DEF Calm, Replies
<1>11. \A i \in 1 .. n + 1 : i = n + 1 \/ (i \in 1 .. n /\ stack'[i].kind = stack[i].kind
                                         /\ stack'[i].call = stack[i].call)
  <2> SUFFICES ASSUME NEW i \in 1 .. n + 1, i # n + 1
               PROVE  i \in 1 .. n /\ stack'[i].kind = stack[i].kind /\ stack'[i].call = stack[i].call
    OBVIOUS
  <2>1. i \in 1 .. n
    BY <1>5
  <2>2. CASE i = n
    BY <1>4, <1>5, <1>6, <1>8, <2>1, <2>2
  <2>3. CASE i # n
    <3>1. i \in 1 .. n - 1
      BY <1>5, <2>1, <2>3
    <3> QED BY <1>8, <2>1, <3>1
  <2> QED BY <2>2, <2>3
<1>12. CallFrames'
  <2>1. \A i \in DOMAIN stack' : stack'[i].kind = "call" => reply'[stack'[i].call] \in {"waiting", "done"}
    BY <1>1, <1>4, <1>5, <1>7, <1>8, <1>11 DEF CallFrames
  <2>2. \A i, j \in DOMAIN stack' :
           stack'[i].kind = "call" /\ stack'[j].kind = "call" /\ stack'[i].call = stack'[j].call => i = j
    BY <1>1, <1>5, <1>7, <1>8, <1>11 DEF CallFrames
  <2>3. \A i \in DOMAIN stack' : stack'[i].kind = "call" /\ i < Len(stack') => stack'[i + 1].kind = "tick"
    <3> SUFFICES ASSUME NEW i \in 1 .. n + 1, stack'[i].kind = "call", i < n + 1 PROVE stack'[i + 1].kind = "tick"
      BY <1>8
    <3>1. CASE i = n
      BY <1>7, <1>8, <3>1
    <3>2. CASE i # n
      <4>1. i \in 1 .. n /\ i < n /\ i + 1 \in 1 .. n + 1 /\ i + 1 # n + 1
        BY <1>5, <3>2
      <4>2. stack[i].kind = "call" /\ stack'[i + 1].kind = stack[i + 1].kind
        BY <1>11, <4>1
      <4> QED BY <1>1, <1>5, <4>1, <4>2 DEF CallFrames
    <3> QED BY <3>1, <3>2
  <2> QED BY <2>1, <2>2, <2>3 DEF CallFrames
<1>13. ASSUME NEW p \in 1 .. n - 1, Pending(p)' PROVE Reached(p)'
  <2>0. p \in DOMAIN stack /\ p \in DOMAIN stack' /\ p < n /\ stack'[p] = stack[p]
    BY <1>5, <1>8
  <2>1. p \in DOMAIN stack /\ p < n /\ FrameStays(p) /\ Reached(p) /\ Pending(p) /\ stack'[p] = stack[p]
    BY <1>1, <1>4, <1>13, <2>0 DEF Calm, FrameStays, Pending
  <2>2. p + 1 \in 1 .. n - 1
    <3>1. stack[p + 1].kind = "tick"
      BY <1>1, <1>5, <2>1 DEF CallFrames, Pending
    <3>2. p + 1 # n
      BY <1>4, <1>5, <3>1
    <3> QED BY <1>5, <2>1, <3>2
  <2>3. p < Len(stack) => p < Len(stack') /\ stack'[p + 1].at = stack[p + 1].at
    BY <1>5, <1>8, <2>1, <2>2
  <2>4. \A b : Slack(b, p) = 1 => Slack(b, p)' = 1
    BY <1>1, <1>4, <2>1, <2>3, SlackKept
  <2>5. HandsStay(p)
    <3> SUFFICES ASSUME NEW c, HandsHold(c, p) PROVE HandsHold(c, p)'
      BY DEF HandsStay
    <3>1. PICK q \in DOMAIN stack : /\ q > p /\ stack[q].kind = "tick" /\ stack[q].run # NoActor
                                    /\ stack[q].msg.call = c
      BY DEF HandsHold
    <3>2. q # n
      BY <1>4, <1>5, <3>1
    <3>3. q \in DOMAIN stack' /\ stack'[q] = stack[q]
      BY <1>5, <1>8, <3>2
    <3> QED BY <3>1, <3>3 DEF HandsHold
  <2>6. SlackStays(p)
    BY <2>4 DEF SlackStays
  <2> QED BY <1>1, <1>9, <2>1, <2>5, <2>6, StaysReached
<1>14. ASSUME Pending(n)' PROVE Reached(n)'
  <2>1. PICK c : c = Top.call
    OBVIOUS
  <2>2. n \in DOMAIN stack /\ Pending(n) /\ stack[n].call = c /\ stack'[n].call = c
    BY <1>4, <1>5, <1>6, <1>8, <1>14, <2>1 DEF Pending
  <2>3. HandsHold(c, n) \/ Queued(c, n)
    BY <1>1, <2>2 DEF Calm, Reached
  <2>4. ~HandsHold(c, n)
    BY <1>5 DEF HandsHold
  <2>5. PICK b \in Tree!Live : \E k \in DOMAIN mailbox[b] :
            /\ mailbox[b][k].call = c /\ actor_state[b] = "RUNNING"
            /\ k <= stack[n].left + Slack(b, n)
    BY <2>3, <2>4 DEF Queued
  <2>6. PICK k \in DOMAIN mailbox[b] :
            /\ mailbox[b][k].call = c /\ actor_state[b] = "RUNNING"
            /\ k <= stack[n].left + Slack(b, n)
    BY <2>5
  <2>7. Slack(b, n) = 0
    BY <1>5 DEF Slack
  <2>8. Slack(b, n)' = 1
    <3>1. PICK x : x = First
      OBVIOUS
    <3>2. Ahead(b, x)'
      BY <1>1, <1>9, <3>1, AheadLemma
    <3>3. x = stack'[n + 1].at /\ n < Len(stack')
      BY <1>7, <1>8, <1>5, <3>1
    <3>4. Ahead(b, stack[n + 1].at)'
      BY <3>2, <3>3 DEF Ahead
    <3> QED BY <3>3, <3>4 DEF Slack
  <2>9. k \in Nat
    <3>1. mailbox[b] \in Seq(Message)
      BY <1>1 DEF TypeOK, Tree!Live
    <3> QED BY <3>1
  <2>10. k <= stack'[n].left + Slack(b, n)'
    BY <1>4, <1>5, <1>6, <1>8, <2>6, <2>7, <2>8, <2>9
  <2>11. b \in Tree!Live' /\ actor_state'[b] = "RUNNING" /\ k \in DOMAIN mailbox'[b]
         /\ mailbox'[b][k].call = c
    BY <1>4, <2>6 DEF lifeVars, Tree!Live
  <2>12. Queued(c, n)'
    BY <2>10, <2>11 DEF Queued
  <2> QED BY <2>2, <2>12 DEF Reached, Queued, Slack
<1>15. PICK top : top = n + 1
  OBVIOUS
<1>16. ~Pending(top)'
  BY <1>7, <1>8, <1>15 DEF Pending
<1>17. \A p \in DOMAIN stack' : p \in 1 .. n - 1 \/ p = n \/ p = top
  BY <1>5, <1>8, <1>15
<1>18. \A p \in DOMAIN stack' : Reached(p)'
  BY <1>13, <1>14, <1>16, <1>17 DEF Reached
<1> QED BY <1>9, <1>10, <1>12, <1>18 DEF Calm

LEMMA CalmTickStart == ASSUME CallInv, Quiet, TypeOK', TickStart PROVE Calm'
<1>1. TypeOK /\ Calm
  BY DEF CallInv
<1>2. PICK f : f = Tick(First)
  OBVIOUS
<1>3. /\ stack' = <<f>> /\ f.kind = "tick"
      /\ UNCHANGED <<lifeVars, mailbox, behavior, prompt, reply, result, answered>>
  BY <1>2 DEF TickStart, Tick, queueVars, codeVars, callVars
<1>4. Numbered' /\ Coded' /\ Replies'
  BY <1>1, <1>3, NothingMoves DEF Calm, Replies
<1>5. DOMAIN stack' = {1} /\ stack'[1] = f
  BY <1>3
<1>6. CallFrames' /\ \A p \in DOMAIN stack' : Reached(p)'
  BY <1>3, <1>5 DEF CallFrames, Reached, Pending
<1> QED BY <1>4, <1>6 DEF Calm

LEMMA CalmReply == ASSUME CallInv, Quiet, TypeOK', Reply PROVE Calm'
<1>1. TypeOK /\ Calm
  BY DEF CallInv
<1>2. PICK c : c = Top.msg.call
  OBVIOUS
<1>3. /\ UNCHANGED <<lifeVars, mailbox, behavior, prompt, result, stack, actors>>
      /\ reply[c] = "waiting" /\ reply' = [reply EXCEPT ![c] = "done"] /\ answered' = answered \cup {c}
  BY <1>2 DEF Reply, OwesReply, queueVars, codeVars, lifeVars
<1>4. /\ reply \in [Calls -> {"unused", "waiting", "done", "freed"}] /\ result \in [Calls -> {"none", "success"}]
      /\ prompt \subseteq Calls
  BY <1>1 DEF TypeOK
<1>5. QueuesStay /\ Numbered' /\ Coded'
  BY <1>1, <1>3, NothingMoves
<1>6. \A d \in Calls : IF d = c THEN reply'[d] = "done" ELSE reply'[d] = reply[d]
  BY <1>3, <1>4
<1>7. Replies'
  BY <1>1, <1>3, <1>4, <1>6 DEF Calm, Replies
<1>8. \A i \in DOMAIN stack : stack[i].kind = "call" => stack[i].call \in Calls
  <2>0. stack \in Seq(Frame) /\ DOMAIN stack = 1 .. Len(stack)
    BY <1>1, StackShapes
  <2>1. \A i \in DOMAIN stack : stack[i] \in Frame
    BY <2>0
  <2> QED BY <2>1 DEF Frame, TickFrame, CallFrame
<1>9. CallFrames'
  BY <1>1, <1>3, <1>6, <1>8 DEF Calm, CallFrames
<1>10. ASSUME NEW p \in DOMAIN stack' PROVE Reached(p)'
  <2>1. p \in DOMAIN stack /\ Reached(p)
    BY <1>1, <1>3, <1>10 DEF Calm
  <2>2. FrameStays(p)
    BY <1>3, <1>6, <1>8, <2>1 DEF FrameStays, Pending
  <2>3. \A b : Slack(b, p) = 1 => Slack(b, p)' = 1
    BY <1>1, <1>3, <2>1, SlackKept
  <2>4. SlackStays(p) /\ HandsStay(p)
    BY <1>3, <2>3 DEF SlackStays, HandsStay, HandsHold
  <2> QED BY <1>1, <1>5, <2>1, <2>2, <2>4, StaysReached
<1> QED BY <1>5, <1>7, <1>9, <1>10 DEF Calm

(* Steps that only add actors, start them or ask for an upgrade.           *)
LEMMA CalmLife ==
    ASSUME CallInv, Quiet, TypeOK', Tree!ListIsLive',
           Lifecycle \/ \E a \in Actors : New(a) \/ \E b \in Behaviors \cup {NoBehavior} : HotUpgrade(a, b)
    PROVE  Calm'
<1>1. TypeOK /\ Calm /\ Tree!ListIsLive /\ Coded
  BY DEF CallInv, Calm
<1>2. ASSUME Lifecycle PROVE Calm'
  <2>1. Tree!Start /\ UNCHANGED <<behavior, stack, mailbox, reply, result, answered, prompt>>
    BY <1>2 DEF Lifecycle, Quiet, Uses, queueVars, codeVars, callVars
  <2>2. UNCHANGED actors /\ \A a \in Actors : actor_state'[a] \in {actor_state[a], "RUNNING"}
    BY <2>1 DEF Tree!Start
  <2>3. \A a \in Actors : a \in Tree!Live' => a \in Tree!Live
    <3>1. \A a \in Tree!Range(actors) : a \in Tree!Live
      BY <1>1 DEF Tree!ListIsLive
    <3>2. \A a \in Actors : actor_state'[a] # actor_state[a] => a \in Tree!Range(actors)
      BY <2>1 DEF Tree!Start
    <3> QED BY <3>1, <3>2 DEF Tree!Live
  <2>4. \A a \in Tree!Live : a \in Tree!Live' /\ (actor_state[a] = "RUNNING" => actor_state'[a] = "RUNNING")
    BY <2>2 DEF Tree!Live, Tree!States
  <2>5. \A a \in Tree!Live' : behavior'[a] # NoBehavior
    BY <1>1, <2>1, <2>3 DEF Coded, Tree!Live
  <2> QED BY <2>1, <2>2, <2>4, <2>5, CalmKept
<1>3. ASSUME NEW a \in Actors, New(a) PROVE Calm'
  <2>1. /\ Tree!New(a) /\ UNCHANGED <<stack, mailbox, reply, result, answered, prompt>>
        /\ \E b \in Behaviors : behavior' = [behavior EXCEPT ![a] = b]
    BY <1>3 DEF New, Quiet, Uses, queueVars, callVars
  <2>2. actors' = <<a>> \o actors /\ actor_state[a] = "ABSENT"
        /\ actor_state' = [actor_state EXCEPT ![a] = "INIT"]
    BY <2>1 DEF Tree!New
  <2>3. \A b \in Tree!Live : b # a /\ actor_state'[b] = actor_state[b]
    BY <1>1, <2>2 DEF Tree!Live, Tree!States, TypeOK, Tree!TypeOK
  <2>4. \A b \in Tree!Live : b \in Tree!Live' /\ (actor_state[b] = "RUNNING" => actor_state'[b] = "RUNNING")
    BY <2>3 DEF Tree!Live
  <2>5. \A b \in Tree!Live' : behavior'[b] # NoBehavior
    <3> SUFFICES ASSUME NEW b \in Actors, b \in Tree!Live' PROVE behavior'[b] # NoBehavior
      BY DEF Tree!Live
    <3>1. behavior \in [Actors -> Behaviors \cup {NoBehavior}] /\ (b # a => actor_state'[b] = actor_state[b])
      BY <1>1, <2>2 DEF TypeOK, Tree!TypeOK
    <3>2. CASE b = a
      BY <2>1, <3>1, <3>2, RuntimeAssumption
    <3>3. CASE b # a
      BY <1>1, <2>1, <2>2, <3>1, <3>3 DEF Coded, Tree!Live
    <3> QED BY <3>2, <3>3
  <2> QED BY <2>1, <2>2, <2>4, <2>5, CalmKept
<1>4. ASSUME NEW a \in Actors, NEW b \in Behaviors \cup {NoBehavior}, HotUpgrade(a, b) PROVE Calm'
  <2>1. UNCHANGED <<lifeVars, actors, actor_state, behavior, stack, mailbox, reply, result, answered, prompt>>
    BY <1>4 DEF HotUpgrade, queueVars, callVars, lifeVars
  <2>2. Tree!Live' = Tree!Live
    BY <2>1 DEF Tree!Live
  <2> QED BY <1>1, <2>1, <2>2, CalmKept DEF Coded
<1> QED BY <1>2, <1>3, <1>4

LEMMA CallStep == CallInv /\ [Next]_vars => CallInv'
<1> SUFFICES ASSUME CallInv, [Next]_vars PROVE CallInv'
  OBVIOUS
<1>1. TypeOK' /\ Tree!ListIsLive'
  BY RuntimeTypeStep, TreeInvStep DEF TreeInv, TypeOK, CallInv
<1>2. program' = program
  BY DEF Next, vars
<1> SUFFICES ASSUME Quiet PROVE Calm'
  BY <1>1, <1>2 DEF CallInv, Quiet
<1>3. ASSUME NEW a \in Actors, Destroy(a) \/ DestroySelf(a) \/ (\E n \in Limits : SetLimit(a, n))
                               \/ (\E id \in 1 .. MaxSends : Probe(a, id))
      PROVE  FALSE
  BY <1>3 DEF Destroy, DestroySelf, SetLimit, Probe, Uses, Quiet
<1>4. ASSUME NEW a \in Actors, Send(a) \/ \E c \in Calls : Call(a, c) PROVE Calm'
  BY <1>1, <1>4, CalmEnqueue
<1>5. ASSUME Lifecycle \/ \E a \in Actors : New(a) \/ \E b \in Behaviors \cup {NoBehavior} : HotUpgrade(a, b)
      PROVE  Calm'
  BY <1>1, <1>5, CalmLife
<1>6. ASSUME NEW a \in Actors, Visit(a) PROVE Calm'
  BY <1>1, <1>6, CalmVisitIdle, CalmVisitDuplicate, CalmVisitDeliver DEF Visit
<1>7. ASSUME TickStart \/ TickEnd \/ CallTick \/ CallReturn \/ Reply \/ BehaviorReturn PROVE Calm'
  BY <1>1, <1>7, CalmTickStart, CalmTickEnd, CalmCallTick, CalmCallReturn, CalmReply, CalmBehaviorReturn
<1>8. ASSUME UNCHANGED vars PROVE Calm'
  <2>1. UNCHANGED <<lifeVars, actors, actor_state, behavior, stack, mailbox, reply, result, answered, prompt>>
    BY <1>8 DEF vars, queueVars, callVars, lifeVars, codeVars
  <2>2. Tree!Live' = Tree!Live
    BY <2>1 DEF Tree!Live
  <2> QED BY <1>1, <2>1, <2>2, CalmKept DEF Coded, CallInv, Calm
<1> QED BY <1>3, <1>4, <1>5, <1>6, <1>7, <1>8 DEF Next, Step, Runtime

(* A synchronous call to a running actor with fewer messages before it     *)
(* than the wait has ticks has its answer when it returns, if behaviors    *)
(* answer what they are asked and nobody stops, crashes or destroys        *)
(* actors: whatever calls wait inside calls.                               *)
THEOREM PromptCallsGetAnswers == Spec => []PromptCallsAnswered
<1>1. Init => CallInv
  <2> SUFFICES ASSUME Init PROVE CallInv
    OBVIOUS
  <2>1. TypeOK /\ Tree!ListIsLive
    BY RuntimeTypeInit
  <2>2. /\ stack = <<>> /\ mailbox = [a \in Actors |-> <<>>] /\ prompt = {}
        /\ reply = [c \in Calls |-> "unused"] /\ result = [c \in Calls |-> "none"]
        /\ actor_state = [a \in Actors |-> "ABSENT"]
    BY DEF Init, Tree!Init
  <2>3. Tree!Live = {}
    BY <2>2 DEF Tree!Live, Tree!States
  <2>4. CallFrames /\ Replies /\ Numbered /\ Coded /\ \A p \in DOMAIN stack : Reached(p)
    BY <2>2, <2>3 DEF CallFrames, Replies, Numbered, Coded
  <2> QED BY <2>1, <2>4 DEF CallInv, Calm
<1>2. CallInv => PromptCallsAnswered
  BY DEF CallInv, Quiet, Calm, Replies, PromptCallsAnswered
<1> QED BY <1>1, <1>2, CallStep, PTL DEF Spec
=============================================================================
