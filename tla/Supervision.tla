----------------------------- MODULE Supervision -----------------------------
(***************************************************************************)
(* Actor lifecycle and supervision trees of the C runtime                  *)
(* (src/src/ponypp/runtime.c): creating and destroying actors, starting    *)
(* and stopping the scheduler, registering a child with a supervisor and   *)
(* the restart strategies.                                                 *)
(*                                                                         *)
(* The runtime keeps raw pointers: a supervisor's children array and a     *)
(* child's SuperviseMeta are not updated when the other side is destroyed. *)
(* The model keeps those stale references; a crash whose handling would    *)
(* follow one is outside the model (RefsLive).                             *)
(***************************************************************************)
EXTENDS Integers, Sequences, FiniteSets, SequencesExt, Lists

CONSTANTS
    Actors,       \* identities of PnyActor blocks; a destroyed one is never reused
    NoActor,      \* the NULL PnyActor pointer
    Strategies,   \* the SuperviseStrategy values the host passes
    RestartArgs,  \* the max_restarts arguments the host passes
    MaxChildren,  \* bound: entries of all children arrays together
    SizeMod       \* 2^w of the size_t counter stats.actors_alive

ASSUME SupervisionAssumption ==
    /\ NoActor \notin Actors
    /\ Strategies \subseteq {"ONE_FOR_ONE", "ONE_FOR_ALL", "REST_FOR_ONE",
                             "SIMPLE_ONE_FOR_ONE", "RESTART", "NONE"}
    /\ RestartArgs \subseteq Int
    /\ MaxChildren \in Nat
    /\ SizeMod \in Nat \ {0}

VARIABLES
    actors,        \* scheduler.actors: the linked list, head first
    actor_state,   \* PnyActor.actor_state, "ABSENT" before malloc, "FREED" after free
    supervise,     \* PnyActor.supervise: NoMeta or a SuperviseMeta
    children,      \* PnyActor.children[0 .. child_count - 1]
    running,       \* scheduler.running
    actors_alive,  \* stats.actors_alive
    restarts,      \* stats.restarts
    wiped          \* history: restarts whose charge to a child was erased

treeVars == <<actors, actor_state, supervise, children, running,
              actors_alive, restarts, wiped>>

States == {"INIT", "RUNNING", "STOPPING", "STOPPED", "CRASHED", "RESTARTING"}
NoMeta == [supervisor |-> NoActor]
Meta == [supervisor : Actors, strategy : Strategies,
         max_restarts : Nat, restart_count : Nat]

Live == {a \in Actors : actor_state[a] \in States}
Supervised(a) == supervise[a] # NoMeta
IsSupervisor(a) == children[a] # <<>>
(* The restarts an actor is charged with (SuperviseMeta.restart_count).    *)
Charge(a) == IF Supervised(a) THEN supervise[a].restart_count ELSE 0

Init ==
    /\ actors = <<>>
    /\ actor_state = [a \in Actors |-> "ABSENT"]
    /\ supervise = [a \in Actors |-> NoMeta]
    /\ children = [a \in Actors |-> <<>>]
    /\ running = FALSE
    /\ actors_alive = 0
    /\ restarts = 0
    /\ wiped = 0

(* pny_actor_new: INIT, prepended to the list.  It is not counted alive.   *)
New(a) ==
    /\ actor_state[a] = "ABSENT"
    /\ actor_state' = [actor_state EXCEPT ![a] = "INIT"]
    /\ actors' = <<a>> \o actors
    /\ UNCHANGED <<supervise, children, running, actors_alive, restarts, wiped>>

(* Variants with a bug: the counter does not wrap, the list head is not    *)
(* moved on when the first actor goes.                                     *)
DestroyUnwrapped(a) ==
    /\ a \in Live
    /\ actor_state' = [actor_state EXCEPT ![a] = "FREED"]
    /\ \E i \in DOMAIN actors : actors[i] = a /\ actors' = RemoveAt(actors, i)
    /\ supervise' = [supervise EXCEPT ![a] = NoMeta]
    /\ children' = [children EXCEPT ![a] = <<>>]
    /\ actors_alive' = actors_alive - 1
    /\ wiped' = wiped + Charge(a)
    /\ UNCHANGED <<running, restarts>>
DestroyKeepsHead(a) ==
    /\ a \in Live
    /\ actor_state' = [actor_state EXCEPT ![a] = "FREED"]
    /\ \E i \in DOMAIN actors :
           actors[i] = a /\ actors' = IF i = 1 THEN actors ELSE RemoveAt(actors, i)
    /\ supervise' = [supervise EXCEPT ![a] = NoMeta]
    /\ children' = [children EXCEPT ![a] = <<>>]
    /\ actors_alive' = (actors_alive - 1 + SizeMod) % SizeMod
    /\ wiped' = wiped + Charge(a)
    /\ UNCHANGED <<running, restarts>>

(* pny_actor_destroy: unlinked and freed with its own metadata and array;  *)
(* references other actors hold stay; the counter wraps below zero.        *)
Destroy(a) ==
    /\ a \in Live
    /\ actor_state' = [actor_state EXCEPT ![a] = "FREED"]
    /\ \E i \in DOMAIN actors : actors[i] = a /\ actors' = RemoveAt(actors, i)
    /\ supervise' = [supervise EXCEPT ![a] = NoMeta]
    /\ children' = [children EXCEPT ![a] = <<>>]
    /\ actors_alive' = (actors_alive - 1 + SizeMod) % SizeMod
    /\ wiped' = wiped + Charge(a)
    /\ UNCHANGED <<running, restarts>>

(* Variant with a bug: the last pass starts only actors in INIT.           *)
StartCountInitOnly(a) ==
    IF IsSupervisor(a) \/ Supervised(a)
    THEN (IF IsSupervisor(a) THEN 1 ELSE 0) + (IF Supervised(a) THEN 1 ELSE 0)
    ELSE IF actor_state[a] = "INIT" THEN 1 ELSE 0

(* How often pny_scheduler_start counts an actor: once in the supervisor   *)
(* pass, once in the child pass, and in the last pass only if it is in no  *)
(* tree and not RUNNING yet.                                               *)
StartCount(a) ==
    IF IsSupervisor(a) \/ Supervised(a)
    THEN (IF IsSupervisor(a) THEN 1 ELSE 0) + (IF Supervised(a) THEN 1 ELSE 0)
    ELSE IF actor_state[a] # "RUNNING" THEN 1 ELSE 0

StartTotal ==
    LET listed(n) == {i \in DOMAIN actors : StartCount(actors[i]) >= n}
    IN  Cardinality(listed(1)) + Cardinality(listed(2))

Started(a) == StartCount(a) > 0

(* pny_scheduler_start: supervisors, then children, then the others.       *)
Start ==
    /\ running' = TRUE
    /\ actor_state' = [a \in Actors |->
           IF a \in Range(actors) /\ Started(a)
           THEN "RUNNING" ELSE actor_state[a]]
    /\ actors_alive' = (actors_alive + StartTotal) % SizeMod
    /\ UNCHANGED <<actors, supervise, children, restarts, wiped>>

(* pny_scheduler_stop: every listed actor, whatever its state.             *)
Stop ==
    /\ running' = FALSE
    /\ actor_state' = [a \in Actors |->
           IF a \in Range(actors) THEN "STOPPING" ELSE actor_state[a]]
    /\ UNCHANGED <<actors, supervise, children, actors_alive, restarts, wiped>>

(* Entries of all children arrays: what MaxChildren bounds.                *)
Registrations ==
    Cardinality({e \in Actors \X (1 .. MaxChildren) : e[2] \in DOMAIN children[e[1]]})

(* Variant with a bug: the old array is not copied into the new one.       *)
SuperviseRegisterUncopied(p, c, strategy, max) ==
    /\ {p, c} \subseteq Live
    /\ Registrations < MaxChildren
    /\ supervise' = [supervise EXCEPT ![c] =
           [supervisor |-> p, strategy |-> strategy,
            max_restarts |-> IF max > 0 THEN max ELSE 3,
            restart_count |-> 0]]
    /\ children' = [children EXCEPT ![p] = <<c>>]
    /\ wiped' = wiped + Charge(c)
    /\ UNCHANGED <<actors, actor_state, running, actors_alive, restarts>>

(* pny_supervise_register: the child's metadata is replaced, restart_count *)
(* included; the child is appended to the parent's array without looking   *)
(* for an earlier registration.                                            *)
SuperviseRegister(p, c, strategy, max) ==
    /\ {p, c} \subseteq Live
    /\ Registrations < MaxChildren
    /\ supervise' = [supervise EXCEPT ![c] =
           [supervisor |-> p, strategy |-> strategy,
            max_restarts |-> IF max > 0 THEN max ELSE 3,
            restart_count |-> 0]]
    /\ children' = [children EXCEPT ![p] = Append(@, c)]
    /\ wiped' = wiped + Charge(c)
    /\ UNCHANGED <<actors, actor_state, running, actors_alive, restarts>>

(* The host marks an actor crashed before it reports it; the runtime only  *)
(* reads this state (send returns -7).                                     *)
MarkCrashed(a) ==
    /\ a \in Live
    /\ actor_state' = [actor_state EXCEPT ![a] = "CRASHED"]
    /\ UNCHANGED <<actors, supervise, children, running, actors_alive, restarts, wiped>>

(* Variant with a bug: REST_FOR_ONE walks the scheduler's list instead of   *)
(* the supervisor's children.                                              *)
RestartSetFromList(a) ==
    LET after == {actors[i] : i \in {k \in DOMAIN actors :
                                     \E j \in 1 .. k - 1 : actors[j] = a}}
    IN  CASE supervise[a].strategy \in {"ONE_FOR_ONE", "SIMPLE_ONE_FOR_ONE"} -> {a}
          [] supervise[a].strategy = "ONE_FOR_ALL" ->
                 Range(children[supervise[a].supervisor])
          [] supervise[a].strategy \in {"REST_FOR_ONE", "RESTART"} -> {a} \cup after
          [] supervise[a].strategy = "NONE" -> {}

(* The actors a strategy moves to RESTARTING: the loops over               *)
(* supervisor->children skip nobody but what the strategy says.            *)
RestartSet(a) ==
    LET siblings == children[supervise[a].supervisor]
        after == {siblings[i] : i \in {k \in DOMAIN siblings :
                                       \E j \in 1 .. k - 1 : siblings[j] = a}}
    IN  CASE supervise[a].strategy \in {"ONE_FOR_ONE", "SIMPLE_ONE_FOR_ONE"} -> {a}
          [] supervise[a].strategy = "ONE_FOR_ALL" -> Range(siblings)
          [] supervise[a].strategy \in {"REST_FOR_ONE", "RESTART"} -> {a} \cup after
          [] supervise[a].strategy = "NONE" -> {}

Exhausted(a) == supervise[a].restart_count >= supervise[a].max_restarts

(* What the group strategies dereference has not been destroyed.           *)
RefsLive(a) ==
    supervise[a].strategy \in {"ONE_FOR_ALL", "REST_FOR_ONE", "RESTART"} =>
        {supervise[a].supervisor} \cup Range(children[supervise[a].supervisor]) \subseteq Live

(* pny_supervisor_handle_crash with the restart budget used up.            *)
HandleCrashExhausted(a) ==
    /\ a \in Live /\ Supervised(a) /\ Exhausted(a)
    /\ actor_state' = [actor_state EXCEPT ![a] = "STOPPED"]
    /\ UNCHANGED <<actors, supervise, children, running, actors_alive, restarts, wiped>>

(* Variant with a bug: a restart of a whole group is counted, but the      *)
(* crashed child is not charged with it.                                   *)
HandleCrashRestartUncharged(a) ==
    /\ a \in Live /\ Supervised(a) /\ ~Exhausted(a) /\ RefsLive(a)
    /\ supervise' = [supervise EXCEPT ![a].restart_count =
           IF supervise[a].strategy = "ONE_FOR_ALL" THEN @ ELSE @ + 1]
    /\ restarts' = restarts + 1
    /\ actor_state' = [b \in Actors |->
           IF b \in RestartSet(a) THEN "RESTARTING"
           ELSE IF b = a /\ supervise[a].strategy = "NONE" THEN "STOPPED"
           ELSE actor_state[b]]
    /\ UNCHANGED <<actors, children, running, actors_alive, wiped>>

(* pny_supervisor_handle_crash with budget left: only the crashed child is *)
(* charged; nobody is moved on from RESTARTING here.                       *)
HandleCrashRestart(a) ==
    /\ a \in Live /\ Supervised(a) /\ ~Exhausted(a) /\ RefsLive(a)
    /\ supervise' = [supervise EXCEPT ![a].restart_count = @ + 1]
    /\ restarts' = restarts + 1
    /\ actor_state' = [b \in Actors |->
           IF b \in RestartSet(a) THEN "RESTARTING"
           ELSE IF b = a /\ supervise[a].strategy = "NONE" THEN "STOPPED"
           ELSE actor_state[b]]
    /\ UNCHANGED <<actors, children, running, actors_alive, wiped>>

HandleCrash(a) == HandleCrashExhausted(a) \/ HandleCrashRestart(a)

Next ==
    \/ \E a \in Actors : New(a) \/ Destroy(a) \/ MarkCrashed(a) \/ HandleCrash(a)
    \/ Start
    \/ Stop
    \/ \E p, c \in Actors, s \in Strategies, m \in RestartArgs :
           SuperviseRegister(p, c, s, m)

Spec == Init /\ [][Next]_treeVars

-----------------------------------------------------------------------------
(* Type invariant.                                                         *)
TypeOK ==
    /\ actors \in Seq(Actors)
    /\ actor_state \in [Actors -> States \cup {"ABSENT", "FREED"}]
    /\ supervise \in [Actors -> Meta \cup {NoMeta}]
    /\ children \in [Actors -> Seq(Actors)]
    /\ running \in BOOLEAN
    /\ actors_alive \in 0 .. SizeMod - 1
    /\ restarts \in Nat
    /\ wiped \in Nat

(* The scheduler's list holds exactly the actors that exist, each once,    *)
(* through any order of creations and destructions: pny_actor_new prepends *)
(* and pny_actor_destroy unlinks.                                          *)
ListIsLive ==
    /\ Range(actors) = Live
    /\ \A i, j \in DOMAIN actors : actors[i] = actors[j] => i = j

(* The two directions of a tree agree: an actor whose supervisor still     *)
(* exists is in that supervisor's children array, so that the ONE_FOR_ALL  *)
(* and REST_FOR_ONE loops find it, however often it was re-registered.     *)
TreeAgrees ==
    \A c \in Actors : Supervised(c) =>
        /\ c \in Live /\ actor_state[supervise[c].supervisor] # "ABSENT"
        /\ supervise[c].supervisor \in Live
               => c \in Range(children[supervise[c].supervisor])

(* No child is ever restarted on its own account more often than allowed,  *)
(* and the books balance: every restart the statistics count is charged to *)
(* exactly one child of the scheduler's list, or its charge was erased     *)
(* when the child was registered again or destroyed.                       *)
Charges == Total([i \in DOMAIN actors |-> Charge(actors[i])])
RestartBudget ==
    /\ \A a \in Actors : Supervised(a) =>
           supervise[a].restart_count <= supervise[a].max_restarts
    /\ restarts = Charges + wiped

(* A crash never disturbs an actor outside the group of its supervisor:    *)
(* no strategy moves an actor to RESTARTING that is neither the crashed    *)
(* actor nor a child registered with its supervisor.                       *)
CrashStaysInGroup ==
    [][\A a, b \in Actors :
          HandleCrashRestart(a) /\ actor_state'[b] # actor_state[b]
              => b = a \/ b \in Range(children[supervise[a].supervisor])]_treeVars

(* The three passes of pny_scheduler_start forget nobody: whatever the     *)
(* trees look like and whatever state an actor was left in, a start leaves *)
(* every actor in the list RUNNING.                                        *)
StartReachesEveryActor ==
    [][~running /\ running' => \A a \in Live : actor_state'[a] = "RUNNING"]_treeVars

(* A child that used up its restarts is stopped, and no crash of another   *)
(* actor starts it again (the branch at runtime.c:447-451 stops it).       *)
ExhaustedStaysStopped ==
    [][\A a \in Actors :
          Supervised(a) /\ Exhausted(a) /\ actor_state[a] = "STOPPED"
              => actor_state'[a] # "RESTARTING"]_treeVars
=============================================================================
