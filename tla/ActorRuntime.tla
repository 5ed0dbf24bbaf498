----------------------------- MODULE ActorRuntime -----------------------------
(***************************************************************************)
(* Messages, scheduler ticks and synchronous calls of the C runtime        *)
(* (src/src/ponypp/runtime.c), composed with the lifecycle and trees of    *)
(* Supervision.                                                            *)
(*                                                                         *)
(* The runtime is single threaded, but not sequential in the simple sense: *)
(* pny_scheduler_tick walks the actor list and runs a behavior in the      *)
(* middle of the walk, and a behavior that makes a synchronous call runs   *)
(* whole ticks inside it.  `stack' is that C call stack: walks of the list *)
(* (frames of kind "tick") and calls waiting for a reply ("call").  The    *)
(* top frame executes; the host program executes when the stack is empty,  *)
(* and a behavior when the top frame is a tick holding a message.          *)
(***************************************************************************)
EXTENDS Integers, Sequences, FiniteSets, SequencesExt

CONSTANTS
    Actors, NoActor, Strategies, RestartArgs, MaxChildren, SizeMod,  \* Supervision
    Behaviors,    \* behavior functions
    NoBehavior,   \* the NULL function pointer
    Limits,       \* arguments of pny_backpressure_set_limit
    DefaultLimit, \* max_messages of a new actor (65536 in the code)
    CallTicks,    \* ticks a synchronous call waits (1000 in the code)
    Programs,     \* programs, each given by the optional operations it uses
    MaxSends,     \* bound: messages one actor accepts
    MaxCalls      \* bound: synchronous calls

ASSUME RuntimeAssumption ==
    /\ NoActor \notin Actors
    /\ Strategies \subseteq {"ONE_FOR_ONE", "ONE_FOR_ALL", "REST_FOR_ONE",
                             "SIMPLE_ONE_FOR_ONE", "RESTART", "NONE"}
    /\ RestartArgs \subseteq Int /\ MaxChildren \in Nat /\ SizeMod \in Nat \ {0}
    /\ NoBehavior \notin Behaviors /\ Behaviors # {}
    /\ Limits \subseteq Nat
    /\ DefaultLimit \in Nat \ {0}
    /\ CallTicks \in Nat /\ MaxSends \in Nat /\ MaxCalls \in Nat
    /\ \A p \in Programs :
           p \subseteq {"call", "ignore-call", "supervise", "crash", "stop", "destroy",
                        "self-destroy", "upgrade", "limit", "no-behavior", "probe"}

VARIABLES
    program,        \* the program that runs; never changes
    actors, actor_state, supervise, children, running, actors_alive, restarts, wiped,
    mailbox,        \* PnyActor.messages .. messages_tail; its length is message_count
    max_messages,   \* PnyActor.max_messages
    next_msg_id,    \* PnyActor.next_msg_id
    delivered_ids,  \* PnyActor.delivered_ids, as a set
    behavior,       \* PnyActor.behavior
    new_behavior,   \* PnyActor.new_behavior
    stack,          \* the C call stack: ticks and calls in progress, last on top
    reply,          \* the PnyReply of each call: unused, waiting, done or freed
    result,         \* what pny_actor_call returned: success is the value 0
    messages_sent, messages_delivered, messages_dead_letter,  \* RuntimeStats
    accepted,       \* history: messages an actor has accepted
    log,            \* history: messages taken out for delivery, in order
    discarded,      \* history: messages freed unread by pny_actor_destroy
    answered,       \* history: calls answered while their caller waited
    prompt          \* history: calls made to a RUNNING actor whose queue the
                    \* wait can outlast

lifeVars == <<actors, actor_state, supervise, children, running,
              actors_alive, restarts, wiped>>
queueVars == <<mailbox, max_messages, next_msg_id, delivered_ids>>
codeVars == <<behavior, new_behavior>>
callVars == <<reply, result, answered, prompt>>
statVars == <<messages_sent, messages_delivered, messages_dead_letter,
              accepted, log, discarded>>
vars == <<program, lifeVars, queueVars, codeVars, stack, callVars, statVars>>

Uses(op) == op \in program

Tree == INSTANCE Supervision

Calls == 1 .. MaxCalls
(* A message: its ordinal among those its actor accepted, its msg_id (0    *)
(* for a call: pny_actor_call never assigns one), and its call (0: none).  *)
Message == [seq : Nat, id : Nat, call : 0 .. MaxCalls]
NoMsg == [seq |-> 0, id |-> 0, call |-> 0]

(* A walk of the list: the saved next pointer, and the actor and message   *)
(* whose behavior the walk is in the middle of.                            *)
TickFrame == [kind : {"tick"}, at : Actors \cup {NoActor},
              run : Actors \cup {NoActor}, msg : Message]
CallFrame == [kind : {"call"}, call : Calls, left : 0 .. CallTicks]

Top == stack[Len(stack)]
Pop == SubSeq(stack, 1, Len(stack) - 1)
Tick(at) == [kind |-> "tick", at |-> at, run |-> NoActor, msg |-> NoMsg]

InBehavior == stack # <<>> /\ Top.kind = "tick" /\ Top.run # NoActor
HostRuns == stack = <<>>
InControl == HostRuns \/ InBehavior
Walking == stack # <<>> /\ Top.kind = "tick" /\ Top.run = NoActor
Waiting == stack # <<>> /\ Top.kind = "call"

First == IF actors = <<>> THEN NoActor ELSE Head(actors)
(* Variant with a bug: the walk stops one actor early.                     *)
AfterButLast(a) ==
    LET i == CHOOSE k \in DOMAIN actors : actors[k] = a
    IN  IF i < Len(actors) - 1 THEN actors[i + 1] ELSE NoActor

After(a) ==
    LET i == CHOOSE k \in DOMAIN actors : actors[k] = a
    IN  IF i < Len(actors) THEN actors[i + 1] ELSE NoActor

Init ==
    /\ program \in Programs
    /\ Tree!Init
    /\ mailbox = [a \in Actors |-> <<>>]
    /\ max_messages = [a \in Actors |-> DefaultLimit]
    /\ next_msg_id = [a \in Actors |-> 1]
    /\ delivered_ids = [a \in Actors |-> {}]
    /\ behavior = [a \in Actors |-> NoBehavior]
    /\ new_behavior = [a \in Actors |-> NoBehavior]
    /\ stack = <<>>
    /\ reply = [c \in Calls |-> "unused"]
    /\ result = [c \in Calls |-> "none"]
    /\ messages_sent = 0 /\ messages_delivered = 0 /\ messages_dead_letter = 0
    /\ accepted = [a \in Actors |-> 0]
    /\ log = [a \in Actors |-> <<>>]
    /\ discarded = [a \in Actors |-> 0]
    /\ answered = {} /\ prompt = {}

(* pny_actor_new; the owner then assigns a behavior, or none.              *)
New(a) ==
    /\ InControl
    /\ Tree!New(a)
    /\ \E b \in Behaviors \cup (IF Uses("no-behavior") THEN {NoBehavior} ELSE {}) :
           behavior' = [behavior EXCEPT ![a] = b]
    /\ UNCHANGED <<queueVars, new_behavior, stack, callVars, statVars>>

(* pny_actor_destroy: the queue is freed, message by message, unread.      *)
Discard(a) ==
    /\ Tree!Destroy(a)
    /\ mailbox' = [mailbox EXCEPT ![a] = <<>>]
    /\ discarded' = [discarded EXCEPT ![a] = @ + Len(mailbox[a])]
    /\ UNCHANGED <<max_messages, next_msg_id, delivered_ids, codeVars, stack, callVars,
                   messages_sent, messages_delivered, messages_dead_letter,
                   accepted, log>>

Destroy(a) == Uses("destroy") /\ HostRuns /\ Discard(a)
(* A behavior destroys the actor it runs for.                              *)
DestroySelf(a) ==
    Uses("self-destroy") /\ InBehavior /\ Top.run = a /\ Discard(a)

(* Lifecycle operations leave messages, walks and calls alone.             *)
Lifecycle ==
    /\ InControl
    /\ \/ Tree!Start
       \/ Uses("stop") /\ Tree!Stop
       \/ Uses("crash") /\ \E a \in Actors :
              Tree!MarkCrashed(a) \/ Tree!HandleCrash(a)
       \/ Uses("supervise") /\ \E p, c \in Actors, s \in Strategies, m \in RestartArgs :
              Tree!SuperviseRegister(p, c, s, m)
    /\ UNCHANGED <<queueVars, codeVars, stack, callVars, statVars>>

(* pny_backpressure_set_limit: 0 stands for the default.  Messages already *)
(* queued stay.                                                            *)
SetLimit(a, n) ==
    /\ Uses("limit") /\ InControl /\ a \in Tree!Live
    /\ max_messages' = [max_messages EXCEPT ![a] = IF n > 0 THEN n ELSE DefaultLimit]
    /\ UNCHANGED <<lifeVars, mailbox, next_msg_id, delivered_ids, codeVars, stack,
                   callVars, statVars>>

(* pny_hot_upgrade: the pending behavior is replaced, or cancelled by NULL. *)
HotUpgrade(a, b) ==
    /\ Uses("upgrade") /\ InControl /\ a \in Tree!Live
    /\ new_behavior' = [new_behavior EXCEPT ![a] = b]
    /\ UNCHANGED <<lifeVars, queueVars, behavior, stack, callVars, statVars>>

(* pny_msg_delivered called by the host: asking records the id.            *)
Probe(a, id) ==
    /\ Uses("probe") /\ HostRuns /\ a \in Tree!Live
    /\ delivered_ids' = [delivered_ids EXCEPT ![a] = @ \cup {id}]
    /\ UNCHANGED <<lifeVars, mailbox, max_messages, next_msg_id, codeVars, stack,
                   callVars, statVars>>

(* The common guard of send and call; when it fails an error code is       *)
(* returned and nothing changes.                                           *)
Accepts(a) ==
    /\ a \in Tree!Live
    /\ actor_state[a] \in {"RUNNING", "INIT"}
    /\ Len(mailbox[a]) < max_messages[a]

(* Variant with a bug: the message is linked in at the head.               *)
EnqueueAtHead(a, id, call) ==
    /\ accepted[a] < MaxSends
    /\ mailbox' = [mailbox EXCEPT ![a] =
           <<[seq |-> accepted[a] + 1, id |-> id, call |-> call]>> \o @]
    /\ accepted' = [accepted EXCEPT ![a] = @ + 1]
    /\ messages_sent' = messages_sent + 1
    /\ UNCHANGED <<lifeVars, max_messages, delivered_ids, codeVars,
                   messages_delivered, messages_dead_letter, log, discarded>>

Enqueue(a, id, call) ==
    /\ accepted[a] < MaxSends
    /\ mailbox' = [mailbox EXCEPT ![a] =
           Append(@, [seq |-> accepted[a] + 1, id |-> id, call |-> call])]
    /\ accepted' = [accepted EXCEPT ![a] = @ + 1]
    /\ messages_sent' = messages_sent + 1
    /\ UNCHANGED <<lifeVars, max_messages, delivered_ids, codeVars,
                   messages_delivered, messages_dead_letter, log, discarded>>

(* Variant with a bug: next_msg_id is read but not advanced.               *)
SendSameId(a) ==
    /\ InControl /\ Accepts(a)
    /\ Enqueue(a, next_msg_id[a], 0)
    /\ UNCHANGED <<next_msg_id, stack, callVars>>

(* pny_actor_send, by the host or by a behavior.                           *)
Send(a) ==
    /\ InControl /\ Accepts(a)
    /\ Enqueue(a, next_msg_id[a], 0)
    /\ next_msg_id' = [next_msg_id EXCEPT ![a] = @ + 1]
    /\ UNCHANGED <<stack, callVars>>

(* pny_actor_call up to its wait loop.                                     *)
Call(a, c) ==
    /\ Uses("call") /\ InControl /\ Accepts(a)
    /\ reply[c] = "unused" /\ \A d \in 1 .. c - 1 : reply[d] # "unused"
    /\ Enqueue(a, 0, c)
    /\ reply' = [reply EXCEPT ![c] = "waiting"]
    /\ stack' = Append(stack, [kind |-> "call", call |-> c, left |-> CallTicks])
    /\ prompt' = IF actor_state[a] = "RUNNING" /\ Len(mailbox[a]) < CallTicks
                 THEN prompt \cup {c} ELSE prompt
    /\ UNCHANGED <<next_msg_id, result, answered>>

(* Variants with a bug: the wait loop does not test its counter, or does   *)
(* not count.                                                              *)
CallTickUntested ==
    /\ Waiting /\ reply[Top.call] # "done"
    /\ stack' = Pop \o <<[Top EXCEPT !.left = @ - 1], Tick(First)>>
    /\ UNCHANGED <<lifeVars, queueVars, codeVars, callVars, statVars>>
CallTickUncounted ==
    /\ Waiting /\ reply[Top.call] # "done" /\ Top.left > 0
    /\ stack' = Append(stack, Tick(First))
    /\ UNCHANGED <<lifeVars, queueVars, codeVars, callVars, statVars>>

(* One turn of the wait loop: a whole nested tick is run.                  *)
CallTick ==
    /\ Waiting /\ reply[Top.call] # "done" /\ Top.left > 0
    /\ stack' = Pop \o <<[Top EXCEPT !.left = @ - 1], Tick(First)>>
    /\ UNCHANGED <<lifeVars, queueVars, codeVars, callVars, statVars>>

(* Variant with a bug: the caller gives up one tick early.                 *)
CallReturnEarly ==
    /\ Waiting /\ (reply[Top.call] = "done" \/ Top.left <= 1)
    /\ result' = [result EXCEPT ![Top.call] = "success"]
    /\ reply' = [reply EXCEPT ![Top.call] = "freed"]
    /\ stack' = Pop
    /\ UNCHANGED <<lifeVars, queueVars, codeVars, answered, prompt, statVars>>

(* The end of pny_actor_call, answered or out of ticks: reply->error is    *)
(* returned, which nothing sets, and the reply is freed.                   *)
CallReturn ==
    /\ Waiting /\ (reply[Top.call] = "done" \/ Top.left = 0)
    /\ result' = [result EXCEPT ![Top.call] = "success"]
    /\ reply' = [reply EXCEPT ![Top.call] = "freed"]
    /\ stack' = Pop
    /\ UNCHANGED <<lifeVars, queueVars, codeVars, answered, prompt, statVars>>

(* pny_actor_reply, by the behavior that handles the call's message.  When *)
(* the caller has given up, the write goes to freed memory: no caller sees *)
(* it, and the model follows it no further.                                *)
OwesReply == Top.msg.call # 0 /\ reply[Top.msg.call] = "waiting"

Reply ==
    /\ InBehavior /\ OwesReply
    /\ reply' = [reply EXCEPT ![Top.msg.call] = "done"]
    /\ answered' = answered \cup {Top.msg.call}
    /\ UNCHANGED <<lifeVars, queueVars, codeVars, stack, result, prompt, statVars>>

(* pny_scheduler_tick called by the host.                                  *)
TickStart ==
    /\ HostRuns
    /\ stack' = <<Tick(First)>>
    /\ UNCHANGED <<lifeVars, queueVars, codeVars, callVars, statVars>>

TickEnd ==
    /\ Walking /\ Top.at = NoActor
    /\ stack' = Pop
    /\ UNCHANGED <<lifeVars, queueVars, codeVars, callVars, statVars>>

(* Variant with a bug: an upgrade waits until the queue is empty.          *)
UpgradeWhenIdle(a) ==
    IF mailbox[a] # <<>> THEN UNCHANGED codeVars
    ELSE /\ behavior' = IF new_behavior[a] = NoBehavior THEN behavior
                        ELSE [behavior EXCEPT ![a] = new_behavior[a]]
         /\ new_behavior' = [new_behavior EXCEPT ![a] = NoBehavior]

(* The body of the walk for one actor: the next pointer is saved before    *)
(* anything runs, a pending upgrade is applied, one message is taken.      *)
Upgrade(a) ==
    /\ behavior' = IF new_behavior[a] = NoBehavior THEN behavior
                   ELSE [behavior EXCEPT ![a] = new_behavior[a]]
    /\ new_behavior' = [new_behavior EXCEPT ![a] = NoBehavior]

Visiting(a) == Walking /\ Top.at = a /\ a \in Tree!Live

Deliverable(a) == mailbox[a] # <<>> /\ actor_state[a] = "RUNNING"

VisitIdle(a) ==
    /\ Visiting(a) /\ ~Deliverable(a)
    /\ Upgrade(a)
    /\ stack' = Append(Pop, Tick(After(a)))
    /\ UNCHANGED <<lifeVars, queueVars, callVars, statVars>>

(* pny_msg_delivered answers 1: counted as delivered, and dropped.         *)
Duplicate(a) == Head(mailbox[a]).id > 0 /\ Head(mailbox[a]).id \in delivered_ids[a]

(* Variant with a bug: what the filter stops goes back into the queue.     *)
VisitDuplicateRequeued(a) ==
    /\ Visiting(a) /\ Deliverable(a) /\ Duplicate(a)
    /\ Upgrade(a)
    /\ mailbox' = [mailbox EXCEPT ![a] = Append(Tail(@), Head(@))]
    /\ messages_delivered' = messages_delivered
    /\ stack' = Append(Pop, Tick(After(a)))
    /\ UNCHANGED <<lifeVars, max_messages, next_msg_id, delivered_ids, callVars,
                   messages_sent, messages_dead_letter, accepted, log, discarded>>

VisitDuplicate(a) ==
    /\ Visiting(a) /\ Deliverable(a) /\ Duplicate(a)
    /\ Upgrade(a)
    /\ mailbox' = [mailbox EXCEPT ![a] = Tail(@)]
    /\ messages_delivered' = messages_delivered + 1
    /\ stack' = Append(Pop, Tick(After(a)))
    /\ UNCHANGED <<lifeVars, max_messages, next_msg_id, delivered_ids, callVars,
                   messages_sent, messages_dead_letter, accepted, log, discarded>>

(* Variant with a bug: the next pointer is not saved before the behavior.  *)
VisitDeliverUnsaved(a) ==
    /\ Visiting(a) /\ Deliverable(a) /\ ~Duplicate(a)
    /\ Upgrade(a)
    /\ LET m == Head(mailbox[a]) IN
       /\ mailbox' = [mailbox EXCEPT ![a] = Tail(@)]
       /\ delivered_ids' = IF m.id > 0
              THEN [delivered_ids EXCEPT ![a] = @ \cup {m.id}] ELSE delivered_ids
       /\ log' = [log EXCEPT ![a] = Append(@, m.seq)]
       /\ messages_delivered' = messages_delivered
       /\ stack' = Append(Pop, [Tick(a) EXCEPT !.run = a, !.msg = m])
    /\ UNCHANGED <<lifeVars, max_messages, next_msg_id, callVars,
                   messages_sent, messages_dead_letter, accepted, discarded>>

(* A message is taken: its behavior starts to run, or it is dropped when   *)
(* the actor has none.                                                     *)
VisitDeliver(a) ==
    /\ Visiting(a) /\ Deliverable(a) /\ ~Duplicate(a)
    /\ Upgrade(a)
    /\ LET m == Head(mailbox[a]) IN
       /\ mailbox' = [mailbox EXCEPT ![a] = Tail(@)]
       /\ delivered_ids' = IF m.id > 0
              THEN [delivered_ids EXCEPT ![a] = @ \cup {m.id}] ELSE delivered_ids
       /\ log' = [log EXCEPT ![a] = Append(@, m.seq)]
       /\ IF behavior'[a] = NoBehavior
          THEN /\ messages_delivered' = messages_delivered + 1
               /\ stack' = Append(Pop, Tick(After(a)))
          ELSE /\ messages_delivered' = messages_delivered
               /\ stack' = Append(Pop, [Tick(After(a)) EXCEPT !.run = a, !.msg = m])
    /\ UNCHANGED <<lifeVars, max_messages, next_msg_id, callVars,
                   messages_sent, messages_dead_letter, accepted, discarded>>

(* Variant with a bug: a message that was in a behavior is not counted.    *)
BehaviorReturnUncounted ==
    /\ InBehavior
    /\ OwesReply => Uses("ignore-call")
    /\ stack' = Append(Pop, Tick(Top.at))
    /\ UNCHANGED <<lifeVars, queueVars, codeVars, callVars, statVars>>

(* The behavior returns to the walk, which goes on from the saved pointer. *)
(* A behavior answers a call before it returns (runtime.h:121) unless the  *)
(* program has "ignore-call" behaviors.                                    *)
BehaviorReturn ==
    /\ InBehavior
    /\ OwesReply => Uses("ignore-call")
    /\ messages_delivered' = messages_delivered + 1
    /\ stack' = Append(Pop, Tick(Top.at))
    /\ UNCHANGED <<lifeVars, queueVars, codeVars, callVars, messages_sent,
                   messages_dead_letter, accepted, log, discarded>>

Visit(a) == VisitIdle(a) \/ VisitDuplicate(a) \/ VisitDeliver(a)
Runtime == TickEnd \/ CallTick \/ CallReturn \/ \E a \in Actors : Visit(a)

Step ==
    \/ \E a \in Actors : New(a) \/ Destroy(a) \/ DestroySelf(a) \/ Send(a)
    \/ \E a \in Actors, c \in Calls : Call(a, c)
    \/ \E a \in Actors, n \in Limits : SetLimit(a, n)
    \/ \E a \in Actors, id \in 1 .. MaxSends : Probe(a, id)
    \/ \E a \in Actors, b \in Behaviors \cup {NoBehavior} : HotUpgrade(a, b)
    \/ Lifecycle \/ Reply \/ BehaviorReturn \/ TickStart \/ Runtime

Next == Step /\ UNCHANGED program

Spec == Init /\ [][Next]_vars

(* The runtime's own code always runs on, the host keeps ticking (the      *)
(* loop of every host program), and a behavior answers and returns.        *)
Fairness ==
    /\ WF_vars(Runtime /\ UNCHANGED program)
    /\ WF_vars(TickStart /\ UNCHANGED program)
    /\ WF_vars(Reply /\ UNCHANGED program)
    /\ WF_vars(BehaviorReturn /\ UNCHANGED program)
FairSpec == Spec /\ Fairness

-----------------------------------------------------------------------------
(* Type invariant.                                                         *)
TypeOK ==
    /\ program \in Programs
    /\ Tree!TypeOK
    /\ mailbox \in [Actors -> Seq(Message)]
    /\ max_messages \in [Actors -> Nat]
    /\ next_msg_id \in [Actors -> Nat]
    /\ delivered_ids \in [Actors -> SUBSET Nat]
    /\ behavior \in [Actors -> Behaviors \cup {NoBehavior}]
    /\ new_behavior \in [Actors -> Behaviors \cup {NoBehavior}]
    /\ stack \in Seq(TickFrame \cup CallFrame)
    /\ reply \in [Calls -> {"unused", "waiting", "done", "freed"}]
    /\ result \in [Calls -> {"none", "success"}]
    /\ messages_sent \in Nat /\ messages_delivered \in Nat
    /\ messages_dead_letter \in Nat
    /\ accepted \in [Actors -> Nat]
    /\ log \in [Actors -> Seq(Nat)]
    /\ discarded \in [Actors -> Nat]
    /\ answered \subseteq Calls /\ prompt \subseteq Calls

(* Exactly once and in order: whatever ticks, nested ticks, calls, stops   *)
(* and starts interleave, the messages an actor has been handed are the    *)
(* first ones it accepted, in the order of acceptance, each once, and the  *)
(* rest are still queued in that order (or were freed with the actor).     *)
(* A program that itself asks pny_msg_delivered about queued messages      *)
(* makes the tick drop them (runtime.c:615 records what is asked).         *)
InOrder ==
    ~Uses("probe") => \A a \in Actors :
        /\ accepted[a] = Len(log[a]) + Len(mailbox[a]) + discarded[a]
        /\ \A i \in DOMAIN log[a] : log[a][i] = i
        /\ \A i \in DOMAIN mailbox[a] : mailbox[a][i].seq = Len(log[a]) + i

(* At most once and in order, for every program: also one that asks        *)
(* pny_msg_delivered about queued messages, and so loses them, is handed   *)
(* the others once each in the order of acceptance, before any that is     *)
(* still queued.                                                           *)
AtMostOnce ==
    \A a \in Actors :
        /\ \A i, j \in DOMAIN log[a] : i < j => log[a][i] < log[a][j]
        /\ \A i, j \in DOMAIN mailbox[a] : i < j => mailbox[a][i].seq < mailbox[a][j].seq
        /\ \A i \in DOMAIN log[a], j \in DOMAIN mailbox[a] : log[a][i] < mailbox[a][j].seq

(* The exactly-once filter of the tick (pny_msg_delivered) never mistakes  *)
(* a queued message for one already delivered: sends get fresh ids, and    *)
(* calls, which have none, are not filtered.                               *)
NoFalseDuplicate ==
    ~Uses("probe") => \A a \in Actors : \A i \in DOMAIN mailbox[a] :
        mailbox[a][i].id > 0 => mailbox[a][i].id \notin delivered_ids[a]

(* The statistics balance at every moment, in nested ticks as well: what   *)
(* was sent is delivered, in a behavior's hands, queued or freed unread.   *)
InHand == {i \in DOMAIN stack : stack[i].kind = "tick" /\ stack[i].run # NoActor}
Undelivered == UNION {{a} \X (1 .. Len(mailbox[a]) + discarded[a]) : a \in Actors}
StatsBalance ==
    messages_sent = messages_delivered + Cardinality(InHand) + Cardinality(Undelivered)

(* A walk goes on at an actor that still exists: the pointer saved before  *)
(* a behavior ran was not freed meanwhile.  It holds for behaviors that    *)
(* destroy their own actor, unless calls nest a tick in which the next     *)
(* actor of the outer walk destroys itself.                                *)
WalkStaysInList ==
    ~(Uses("call") /\ Uses("self-destroy")) =>
        \A i \in DOMAIN stack : stack[i].kind = "tick" =>
            stack[i].at = NoActor \/ stack[i].at \in Tree!Live

(* No message is handed to superseded code: when an actor is given a       *)
(* message, an upgrade requested before that moment is in force, though    *)
(* it may have been requested from a nested tick or by the actor itself.   *)
UpgradeBeforeNextMessage ==
    [][\A a \in Actors : log'[a] # log[a] =>
          /\ new_behavior'[a] = NoBehavior
          /\ new_behavior[a] # NoBehavior => behavior'[a] = new_behavior[a]]_vars

(* A synchronous call to a running actor is answered before it returns, if *)
(* fewer messages were queued before it than the wait has ticks, and       *)
(* behaviors answer: every nested tick takes one message off the callee's  *)
(* queue, also when the callee is itself waiting in a call.                *)
PromptCallsAnswered ==
    program \subseteq {"call", "upgrade"} =>
        \A c \in prompt : result[c] = "success" => c \in answered

(* Every message accepted by an actor that stays RUNNING is delivered.     *)
EventuallyDelivered ==
    \A a \in Actors :
        <>[](actor_state[a] = "RUNNING") =>
            \A n \in 1 .. MaxSends : accepted[a] >= n ~> Len(log[a]) >= n

(* Every synchronous call returns, answered or not.                        *)
CallsReturn == \A c \in Calls : reply[c] = "waiting" ~> reply[c] = "freed"

(* An actor handles one message at a time (book/ch06-actor-model.md:68).   *)
OneMessageAtATime ==
    \A i, j \in InHand : stack[i].run = stack[j].run => i = j
=============================================================================
