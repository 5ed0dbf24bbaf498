------------------------------- MODULE Distributed -------------------------------
(***************************************************************************)
(* The distributed layer of distributed.c: the framing of messages on a    *)
(* connection, with the system calls that fail or come back short; the     *)
(* table of remote actors; and the supervisor of remote actors with its    *)
(* heartbeats, time-outs and restart budgets.  A stream is a sequence of   *)
(* two-byte units: magic 1 and 2, the length n as 10 + n and 20 + n, and   *)
(* unit k of the payload of message m as 100 * m + k.                      *)
(***************************************************************************)
EXTENDS Integers, Sequences, FiniteSets, SequencesExt, Lists

CONSTANTS
    NetLens,        \* payload lengths, in units; 1..9
    NetMax,         \* PNY_DIST_MAX_PACKET, in units
    NetBuf,         \* the receiver's buf_size, in units
    NetMsgs,        \* bound: messages sent on the connection
    SupNames,       \* names of remote actors: 1..n
    SupStrategies,  \* the strategies a supervisor may have
    SupMax,         \* max_restarts given to dist_supervisor_new
    SupCrashes,     \* bound: crash notices
    SupTicks        \* bound: time, in units of the time-out

ASSUME DistAssumption ==
    /\ NetLens \subseteq 1..9 /\ NetMax \in Nat /\ NetBuf \in Nat /\ NetMsgs \in Nat
    /\ SupNames \subseteq Nat /\ SupMax \in Int
    /\ SupStrategies \subseteq {"one_for_one", "one_for_all", "rest_for_one"}

VARIABLES
    netStream,      \* units sent and not read
    netOut,         \* units of the frame in hand the sender has not sent
    netOpen,        \* whether the sender still has the connection
    netSent,        \* history: messages whose send succeeded, in order
    netTried,       \* messages tried so far
    netRecv,        \* what dist_recv is doing: idle, or has the payload length
    netGot,         \* payload units read by the call under way
    netReceived,    \* history: payloads dist_recv returned
    supStrategy,
    supActors,      \* the supervised actors in order of registration
    supRestarts,    \* global_restarts
    supNow,         \* the clock
    supNoticed,     \* history: per actor, crashes noticed and refused
    supSince        \* history: global_restarts when each actor registered

netVars == <<netStream, netOut, netOpen, netSent, netTried, netRecv, netGot, netReceived>>
supVars == <<supStrategy, supActors, supRestarts, supNow, supNoticed, supSince>>
distributedVars == <<netVars, supVars>>

DistributedInit ==
    /\ netStream = <<>> /\ netOut = <<>> /\ netOpen = TRUE /\ netSent = <<>> /\ netTried = 0
    /\ netRecv = -1 /\ netGot = <<>> /\ netReceived = <<>>
    /\ supStrategy \in SupStrategies
    /\ supActors = <<>> /\ supRestarts = 0 /\ supNow = 0
    /\ supNoticed = <<>> /\ supSince = <<>>

-----------------------------------------------------------------------------
(* The sender: dist_send on a connection that dist_runtime_send opened and *)
(* frees after a failure.                                                  *)

Payload(m, n) == [k \in 1..n |-> 100 * m + k]
Frame(m, n) == <<1, 2, 10 + n, 20 + n>> \o Payload(m, n)

DistSend(n) ==
    /\ netOpen /\ netOut = <<>> /\ netTried < NetMsgs
    /\ n <= NetMax
    /\ netTried' = netTried + 1
    /\ netOut' = Frame(netTried + 1, n)
    /\ UNCHANGED <<netStream, netOpen, netSent, netRecv, netGot, netReceived, supVars>>

(* send(2) takes some of the units; of the header, all of a word or fail.  *)
SendSome(k) ==
    /\ netOut # <<>> /\ k <= Len(netOut)
    /\ netOut[1] < 100 => k = 2
    /\ netStream' = netStream \o SubSeq(netOut, 1, k)
    /\ netOut' = SubSeq(netOut, k + 1, Len(netOut))
    /\ netSent' = IF netOut' = <<>> THEN Append(netSent, netTried) ELSE netSent
    /\ UNCHANGED <<netOpen, netTried, netRecv, netGot, netReceived, supVars>>

(* Variant with a bug: the connection is kept, and the next message tried. *)
SendFailsKept(k) ==
    /\ netOut # <<>> /\ (netOut[1] > 99 => k = 0)
    /\ netStream' = netStream \o SubSeq(netOut, 1, k)
    /\ netOut' = <<>>
    /\ UNCHANGED <<netOpen, netSent, netTried, netRecv, netGot, netReceived, supVars>>

(* A send fails, perhaps with one unit of a header word gone out.          *)
SendFails(k) ==
    /\ netOut # <<>> /\ (netOut[1] > 99 => k = 0)
    /\ netStream' = netStream \o SubSeq(netOut, 1, k)
    /\ netOut' = <<>>
    /\ netOpen' = FALSE
    /\ UNCHANGED <<netSent, netTried, netRecv, netGot, netReceived, supVars>>

-----------------------------------------------------------------------------
(* The receiver calls dist_recv again and again, after errors too.         *)

Prefix4 == SubSeq(netStream, 1, 2)
Rest(k) == SubSeq(netStream, k + 1, Len(netStream))

(* The header: two words.  A wrong magic fails with it read; a length over *)
(* the buffer fails with the payload unread.                               *)
RecvHeader ==
    /\ netRecv = -1 /\ Len(netStream) >= 2
    /\ IF Prefix4 # <<1, 2>>
       THEN netStream' = Rest(2) /\ UNCHANGED netRecv
       ELSE /\ Len(netStream) >= 4
            /\ netStream' = Rest(4)
            /\ netRecv' = IF netStream[3] - 10 > NetBuf THEN -1 ELSE netStream[3] - 10
    /\ netGot' = <<>>
    /\ UNCHANGED <<netOut, netOpen, netSent, netTried, netReceived, supVars>>

(* The time-out of recv(2), five seconds: what had come is read and lost.  *)
RecvTimesOut(k) ==
    /\ k <= Len(netStream)
    /\ netRecv = -1 => k <= 1 \/ (k \in {2, 3} /\ Prefix4 = <<1, 2>>)
    /\ netRecv > -1 => k = 0
    /\ k > 0 \/ netRecv > -1
    /\ Len(netStream) = k
    /\ netStream' = Rest(k)
    /\ netRecv' = -1 /\ netGot' = <<>>
    /\ UNCHANGED <<netOut, netOpen, netSent, netTried, netReceived, supVars>>

RecvSome(k) ==
    /\ netRecv > -1 /\ k <= Len(netStream) /\ k <= netRecv - Len(netGot)
    /\ netStream' = Rest(k)
    /\ LET got == netGot \o SubSeq(netStream, 1, k) IN
       IF Len(got) = netRecv
       THEN netReceived' = Append(netReceived, got) /\ netRecv' = -1 /\ netGot' = <<>>
       ELSE netGot' = got /\ UNCHANGED <<netReceived, netRecv>>
    /\ UNCHANGED <<netOut, netOpen, netSent, netTried, supVars>>

-----------------------------------------------------------------------------
(* The supervisor of remote actors.                                        *)

Budget == IF SupMax > 0 THEN SupMax ELSE 3
Supervised == {supActors[i].name : i \in DOMAIN supActors}

SupRegister(n) ==
    /\ n \notin Supervised
    /\ supActors' = Append(supActors, [name |-> n, state |-> "running", restarts |-> 0, beat |-> supNow])
    /\ supNoticed' = Append(supNoticed, [all |-> 0, refused |-> 0])
    /\ supSince' = Append(supSince, supRestarts)
    /\ UNCHANGED <<supStrategy, supRestarts, supNow, netVars>>

SupHeartbeat(i) ==
    /\ supActors' = [supActors EXCEPT ![i].beat = supNow,
                                      ![i].state = IF @ = "restarting" THEN "running" ELSE @]
    /\ UNCHANGED <<supStrategy, supRestarts, supNow, supNoticed, supSince, netVars>>

(* Which others the strategy restarts along with actor i.                  *)
Along(i) ==
    CASE supStrategy = "one_for_one" -> {}
      [] supStrategy = "one_for_all" -> DOMAIN supActors \ {i}
      [] supStrategy = "rest_for_one" -> {j \in DOMAIN supActors : j > i}

(* The count goes up before it is compared: at most Budget are accepted.   *)
Accepted(a) == a.restarts + 1 <= Budget

SupNotifyCrash(i) ==
    /\ \A j \in DOMAIN supNoticed : supNoticed[j].all < SupCrashes
    /\ supNoticed' = [supNoticed EXCEPT ![i].all = @ + 1, ![i].refused = IF Accepted(supActors[i]) THEN @ ELSE @ + 1]
    /\ IF Accepted(supActors[i])
       THEN /\ supRestarts' = supRestarts + 1
            /\ supActors' = [j \in DOMAIN supActors |->
                                IF j \in Along(i) \cup {i}
                                THEN [supActors[j] EXCEPT !.state = "restarting", !.restarts = @ + 1]
                                ELSE supActors[j]]
       ELSE /\ supActors' = [supActors EXCEPT ![i].state = "crashed", ![i].restarts = @ + 1]
            /\ UNCHANGED supRestarts
    /\ UNCHANGED <<supStrategy, supNow, supSince, netVars>>

(* dist_supervisor_check_timeouts with a time-out of one unit.             *)
SupCheckTimeouts ==
    /\ supActors' = [j \in DOMAIN supActors |->
                        IF supActors[j].state = "running" /\ supNow - supActors[j].beat > 1
                        THEN [supActors[j] EXCEPT !.state = "crashed"] ELSE supActors[j]]
    /\ UNCHANGED <<supStrategy, supRestarts, supNow, supNoticed, supSince, netVars>>

SupTick ==
    /\ supNow < SupTicks
    /\ supNow' = supNow + 1
    /\ UNCHANGED <<supStrategy, supActors, supRestarts, supNoticed, supSince, netVars>>

(* dist_supervisor_pending_restarts: the first max, in order.              *)
PendingRestarts(max) ==
    LET pending == Kept(supActors, {i \in DOMAIN supActors : supActors[i].state = "restarting"})
    IN SubSeq(pending, 1, IF Len(pending) < max THEN Len(pending) ELSE max)

-----------------------------------------------------------------------------
NetNext ==
    \/ RecvHeader
    \/ \E n \in NetLens : DistSend(n)
    \/ \E k \in 1..9 : SendSome(k) \/ RecvSome(k)
    \/ \E k \in 0..3 : RecvTimesOut(k)
    \/ \E k \in 0..1 : SendFails(k)

SupNext ==
    \/ SupCheckTimeouts \/ SupTick
    \/ \E n \in SupNames : SupRegister(n)
    \/ \E i \in DOMAIN supActors : SupHeartbeat(i) \/ SupNotifyCrash(i)

DistributedNext == NetNext \/ SupNext

DistributedSpec == DistributedInit /\ [][DistributedNext]_distributedVars

-----------------------------------------------------------------------------
(* Whatever sends and receives came back short, failed or timed out, each  *)
(* payload received is one that was sent, whole, and they come in the      *)
(* order they were sent, none twice.                                       *)
FramesIntact ==
    /\ \A i \in DOMAIN netReceived :
        \E m \in Range(netSent), n \in NetLens : netReceived[i] = Payload(m, n) /\ n <= NetBuf
    /\ \A i, j \in DOMAIN netReceived : i < j => netReceived[i][1] < netReceived[j][1]

(* The counts add up whatever the order of crashes, heartbeats, time-outs  *)
(* and registrations: an actor's restarts are the crashes it was blamed    *)
(* for and, as the strategy says, those of the others it was restarted     *)
(* with; the actors accept Budget crashes at most of their own; and an     *)
(* actor that used its budget up by itself stays crashed.                  *)
SupervisorCounts ==
    /\ \A i \in DOMAIN supActors :
        LET own == supNoticed[i].all  accepted == own - supNoticed[i].refused IN
        /\ accepted <= Budget
        /\ supStrategy = "one_for_one" =>
            /\ supActors[i].restarts = own
            /\ supActors[i].restarts > Budget => supActors[i].state = "crashed"
        /\ supStrategy = "one_for_all" =>
            supActors[i].restarts = supRestarts - supSince[i] + supNoticed[i].refused
        /\ supStrategy = "rest_for_one" /\ i = 1 => supActors[i].restarts = own
    /\ supRestarts = Total([i \in DOMAIN supNoticed |-> supNoticed[i].all - supNoticed[i].refused])
    /\ \A a \in {PendingRestarts(2)[i] : i \in DOMAIN PendingRestarts(2)} : a.restarts > 0

(* Frames arrive whole or not at all, and the remote supervisor restarts   *)
(* within its budget and its strategy (distributed.c).                     *)
DistributedSound == FramesIntact /\ SupervisorCounts
=============================================================================
