------------------------------- MODULE ActorList -------------------------------
(***************************************************************************)
(* The scheduler's list of actors with its pointers, and the registry of   *)
(* the first actors (runtime.c 50-127).  Supervision knows the list as a   *)
(* sequence; here the links that pny_actor_new, pny_actor_register and     *)
(* pny_actor_destroy write are kept, and compared with that sequence.      *)
(* An actor is its id, which next_id never gives out twice; 0 is NULL.     *)
(***************************************************************************)
EXTENDS Naturals, Sequences, SequencesExt

CONSTANTS
    RegistrySize,   \* scheduler.max_actors, 1024 in the code
    ListedMax       \* bound: actors created

ASSUME ActorListAssumption == RegistrySize \in Nat /\ ListedMax \in Nat

VARIABLES
    alNextId,       \* scheduler.next_id
    alHead,         \* scheduler.actors
    alNext, alPrev, \* the links of each actor
    alRegistry,     \* scheduler.registry, whose entries outlive their actors
    alOrder,        \* history: the existing actors, newest first
    alBeyond        \* history: an actor the registry has no place for was registered

actorListVars == <<alNextId, alHead, alNext, alPrev, alRegistry, alOrder, alBeyond>>

Ids == 1 .. ListedMax
Pointers == Ids \cup {0}

ActorListInit ==
    /\ alNextId = 1 /\ alHead = 0
    /\ alNext = [a \in Ids |-> 0] /\ alPrev = [a \in Ids |-> 0]
    /\ alRegistry = [i \in 1 .. RegistrySize |-> 0]
    /\ alOrder = <<>> /\ alBeyond = FALSE

(* a becomes the head of the list; its own prev is NULL.                   *)
LinkFirst(a) ==
    /\ alNext' = [alNext EXCEPT ![a] = alHead]
    /\ alPrev' = [b \in Ids |-> IF b = a THEN 0 ELSE IF b = alHead THEN a ELSE alPrev[b]]
    /\ alHead' = a

NewActor ==
    /\ alNextId <= ListedMax
    /\ LinkFirst(alNextId)
    /\ alRegistry' = [i \in DOMAIN alRegistry |-> IF i = alNextId THEN i ELSE alRegistry[i]]
    /\ alNextId' = alNextId + 1
    /\ alOrder' = <<alNextId>> \o alOrder
    /\ UNCHANGED alBeyond

Registered(a) == a \in DOMAIN alRegistry /\ alRegistry[a] = a

(* pny_actor_register of an actor in the list, which should change         *)
(* nothing: the registry knows it, or its links tell.                      *)
Register(a) ==
    /\ a \in Range(alOrder)
    /\ IF ~Registered(a) /\ alNext[a] = 0 /\ alHead # a THEN LinkFirst(a)
       ELSE UNCHANGED <<alHead, alNext, alPrev>>
    /\ alBeyond' = (alBeyond \/ a > RegistrySize)
    /\ UNCHANGED <<alNextId, alRegistry, alOrder>>

(* pny_actor_destroy: unlinked; its entry in the registry stays.           *)
Unlink(a) ==
    /\ a \in Range(alOrder)
    /\ alHead' = IF alPrev[a] = 0 THEN alNext[a] ELSE alHead
    /\ alNext' = [b \in Ids |-> IF b = a THEN 0 ELSE IF b = alPrev[a] THEN alNext[a] ELSE alNext[b]]
    /\ alPrev' = [b \in Ids |-> IF b = a THEN 0 ELSE IF b = alNext[a] THEN alPrev[a] ELSE alPrev[b]]
    /\ \E i \in DOMAIN alOrder : alOrder[i] = a /\ alOrder' = RemoveAt(alOrder, i)
    /\ UNCHANGED <<alNextId, alRegistry, alBeyond>>

(* A registration the registry cannot judge may tie the list into a ring,  *)
(* in which actors cannot be destroyed safely: the model ends there.       *)
ActorListNext == ~alBeyond /\ (NewActor \/ \E a \in Ids : Register(a) \/ Unlink(a))

ActorListSpec == ActorListInit /\ [][ActorListNext]_actorListVars

-----------------------------------------------------------------------------
ActorListTypeOK ==
    /\ alNextId \in 1 .. ListedMax + 1 /\ alHead \in Pointers
    /\ alNext \in [Ids -> Pointers] /\ alPrev \in [Ids -> Pointers]
    /\ alRegistry \in [1 .. RegistrySize -> Pointers]
    /\ alOrder \in Seq(Ids) /\ alBeyond \in BOOLEAN

(* The actor at a place of the list, and NULL before and after it.         *)
Nth(s, i) == IF i \in DOMAIN s THEN s[i] ELSE 0

(* As long as only actors the registry has a place for are registered      *)
(* again, following next from the head visits the existing actors, newest  *)
(* first, each once and to an end, and prev leads back: whichever actors   *)
(* are created, registered and destroyed in between (runtime.c:90-112).    *)
ListLinked ==
    ~alBeyond => /\ alHead = Nth(alOrder, 1)
                 /\ \A i \in DOMAIN alOrder : /\ alNext[alOrder[i]] = Nth(alOrder, i + 1)
                                              /\ alPrev[alOrder[i]] = Nth(alOrder, i - 1)
=============================================================================
