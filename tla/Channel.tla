-------------------------------- MODULE Channel --------------------------------
(***************************************************************************)
(* The blocking channel of the standard library (PnyChan in stdlib.c): a   *)
(* ring of pointers under one mutex, and two condition variables.          *)
(*                                                                         *)
(* Everything an operation does it does with the mutex, so that a critical *)
(* section is one step: from taking the mutex, at the call or after a wake *)
(* up, to releasing it by returning or waiting.  A thread that was called  *)
(* or woken competes for the mutex with all others; a signal wakes any one *)
(* waiter, and a waiter may also wake for no reason.                       *)
(***************************************************************************)
EXTENDS Naturals, Sequences, FiniteSets

CONSTANTS
    ChanThreads,
    ChanCap,        \* slots: the argument of pny_chan_new, or 1 for 0
    ChanSends,      \* bound: items are 1 .. ChanSends, each sent once
    ChanRecvs       \* bound: calls of recv

ASSUME ChanAssumption ==
    /\ ChanCap \in Nat \ {0} /\ ChanSends \in Nat /\ ChanRecvs \in Nat
    /\ IsFiniteSet(ChanThreads)

VARIABLES
    chBuf,          \* buf; 0 is NULL
    chHead, chTail, chLen,
    chClosed,
    chPc,           \* what each thread is doing
    chItem,         \* the item a sender holds
    chSent,         \* history: items in the order they were accepted
    chRecvd,        \* history: items in the order they were handed out
    chCalls         \* calls of send and of recv so far

channelVars == <<chBuf, chHead, chTail, chLen, chClosed, chPc, chItem, chSent, chRecvd, chCalls>>

ChanSlots == 0 .. ChanCap - 1
Senders == {t \in ChanThreads : chPc[t] = "send"}          \* want the mutex
Receivers == {t \in ChanThreads : chPc[t] = "recv"}
WaitNotFull == {t \in ChanThreads : chPc[t] = "not_full"}  \* in pthread_cond_wait
WaitNotEmpty == {t \in ChanThreads : chPc[t] = "not_empty"}

ChannelInit ==
    /\ chBuf = [i \in ChanSlots |-> 0]
    /\ chHead = 0 /\ chTail = 0 /\ chLen = 0
    /\ chClosed = FALSE
    /\ chPc = [t \in ChanThreads |-> "idle"]
    /\ chItem = [t \in ChanThreads |-> 0]
    /\ chSent = <<>> /\ chRecvd = <<>>
    /\ chCalls = [send |-> 0, recv |-> 0]

-----------------------------------------------------------------------------
CallSend(t) ==
    /\ chPc[t] = "idle"
    /\ chCalls.send < ChanSends
    /\ chCalls' = [chCalls EXCEPT !.send = @ + 1]
    /\ chItem' = [chItem EXCEPT ![t] = chCalls.send + 1]
    /\ chPc' = [chPc EXCEPT ![t] = "send"]
    /\ UNCHANGED <<chBuf, chHead, chTail, chLen, chClosed, chSent, chRecvd>>

CallRecv(t) ==
    /\ chPc[t] = "idle"
    /\ chCalls.recv < ChanRecvs
    /\ chCalls' = [chCalls EXCEPT !.recv = @ + 1]
    /\ chPc' = [chPc EXCEPT ![t] = "recv"]
    /\ UNCHANGED <<chBuf, chHead, chTail, chLen, chClosed, chItem, chSent, chRecvd>>

(* pthread_cond_signal: pcs is what the threads do, waiting the set of     *)
(* waiters, one of which goes on to op.                                    *)
Signalled(pcs, waiting, op) ==
    IF waiting = {} THEN {pcs} ELSE {[pcs EXCEPT ![w] = op] : w \in waiting}

SendWait(t) ==
    /\ chPc[t] = "send" /\ chLen = ChanCap /\ ~chClosed
    /\ chPc' = [chPc EXCEPT ![t] = "not_full"]
    /\ UNCHANGED <<chBuf, chHead, chTail, chLen, chClosed, chItem, chSent, chRecvd, chCalls>>

SendRefused(t) ==
    /\ chPc[t] = "send" /\ chClosed
    /\ chPc' = [chPc EXCEPT ![t] = "idle"]
    /\ chItem' = [chItem EXCEPT ![t] = 0]
    /\ UNCHANGED <<chBuf, chHead, chTail, chLen, chClosed, chSent, chRecvd, chCalls>>

(* Variant with a bug: the receivers are signalled only when the channel   *)
(* was empty.                                                              *)
SendPutQuiet(t) ==
    /\ chPc[t] = "send" /\ chLen < ChanCap /\ ~chClosed
    /\ chBuf' = [chBuf EXCEPT ![chTail] = chItem[t]]
    /\ chTail' = (chTail + 1) % ChanCap
    /\ chLen' = chLen + 1
    /\ chSent' = Append(chSent, chItem[t])
    /\ chItem' = [chItem EXCEPT ![t] = 0]
    /\ chPc' \in Signalled([chPc EXCEPT ![t] = "idle"],
                           IF chLen = 0 THEN WaitNotEmpty ELSE {}, "recv")
    /\ UNCHANGED <<chHead, chClosed, chRecvd, chCalls>>

SendPut(t) ==
    /\ chPc[t] = "send" /\ chLen < ChanCap /\ ~chClosed
    /\ chBuf' = [chBuf EXCEPT ![chTail] = chItem[t]]
    /\ chTail' = (chTail + 1) % ChanCap
    /\ chLen' = chLen + 1
    /\ chSent' = Append(chSent, chItem[t])
    /\ chItem' = [chItem EXCEPT ![t] = 0]
    /\ chPc' \in Signalled([chPc EXCEPT ![t] = "idle"], WaitNotEmpty, "recv")
    /\ UNCHANGED <<chHead, chClosed, chRecvd, chCalls>>

RecvWait(t) ==
    /\ chPc[t] = "recv" /\ chLen = 0 /\ ~chClosed
    /\ chPc' = [chPc EXCEPT ![t] = "not_empty"]
    /\ UNCHANGED <<chBuf, chHead, chTail, chLen, chClosed, chItem, chSent, chRecvd, chCalls>>

(* Also after the channel was closed: what is in it is still handed out.   *)
RecvTake(t) ==
    /\ chPc[t] = "recv" /\ chLen > 0
    /\ chBuf' = [chBuf EXCEPT ![chHead] = 0]
    /\ chHead' = (chHead + 1) % ChanCap
    /\ chLen' = chLen - 1
    /\ chRecvd' = Append(chRecvd, chBuf[chHead])
    /\ chPc' \in Signalled([chPc EXCEPT ![t] = "idle"], WaitNotFull, "send")
    /\ UNCHANGED <<chTail, chClosed, chItem, chSent, chCalls>>

RecvClosed(t) ==
    /\ chPc[t] = "recv" /\ chLen = 0 /\ chClosed
    /\ chPc' = [chPc EXCEPT ![t] = "idle"]
    /\ UNCHANGED <<chBuf, chHead, chTail, chLen, chClosed, chItem, chSent, chRecvd, chCalls>>

(* Variant with a bug: only the senders are told.                          *)
CloseSenders(t) ==
    /\ chPc[t] = "idle" /\ ~chClosed
    /\ chClosed' = TRUE
    /\ chPc' = [u \in ChanThreads |-> IF u \in WaitNotFull THEN "send" ELSE chPc[u]]
    /\ UNCHANGED <<chBuf, chHead, chTail, chLen, chItem, chSent, chRecvd, chCalls>>

Close(t) ==
    /\ chPc[t] = "idle" /\ ~chClosed
    /\ chClosed' = TRUE
    /\ chPc' = [u \in ChanThreads |-> IF u \in WaitNotFull THEN "send"
                                      ELSE IF u \in WaitNotEmpty THEN "recv" ELSE chPc[u]]
    /\ UNCHANGED <<chBuf, chHead, chTail, chLen, chItem, chSent, chRecvd, chCalls>>

(* A wake up without a signal, which POSIX permits.                        *)
WakeUp(t) ==
    /\ t \in WaitNotFull \cup WaitNotEmpty
    /\ chPc' = [chPc EXCEPT ![t] = IF t \in WaitNotFull THEN "send" ELSE "recv"]
    /\ UNCHANGED <<chBuf, chHead, chTail, chLen, chClosed, chItem, chSent, chRecvd, chCalls>>

Running(t) == \/ SendWait(t) \/ SendRefused(t) \/ SendPut(t)
              \/ RecvWait(t) \/ RecvTake(t) \/ RecvClosed(t)

ChannelNext ==
    \E t \in ChanThreads : CallSend(t) \/ CallRecv(t) \/ Running(t) \/ Close(t) \/ WakeUp(t)

(* Threads that want the mutex get it in the end.                          *)
ChannelFairness == \A t \in ChanThreads : WF_channelVars(Running(t))
ChannelSpec == ChannelInit /\ [][ChannelNext]_channelVars
FairChannelSpec == ChannelSpec /\ ChannelFairness
-----------------------------------------------------------------------------
ChannelTypeOK ==
    /\ chBuf \in [ChanSlots -> 0 .. ChanSends]
    /\ chHead \in ChanSlots /\ chTail \in ChanSlots /\ chLen \in 0 .. ChanCap
    /\ chClosed \in BOOLEAN
    /\ chPc \in [ChanThreads -> {"idle", "send", "recv", "not_full", "not_empty"}]
    /\ chItem \in [ChanThreads -> 0 .. ChanSends]
    /\ chSent \in Seq(1 .. ChanSends) /\ chRecvd \in Seq(1 .. ChanSends)
    /\ chCalls \in [send : 0 .. ChanSends, recv : 0 .. ChanRecvs]

(* What was sent is what was received followed by what the ring holds,     *)
(* each item once and in order, whatever the interleaving, the wake ups    *)
(* and the moment of close (pny_chan_send, pny_chan_recv).                 *)
ChannelFifo ==
    /\ chTail = (chHead + chLen) % ChanCap
    /\ chSent = chRecvd \o [i \in 1 .. chLen |-> chBuf[(chHead + i - 1) % ChanCap]]

(* No wake up is lost: while a receiver waits, every item in the ring has  *)
(* a receiver of its own on its way to the mutex; while a sender waits,    *)
(* every free slot has a sender on its way; and nobody waits on a closed   *)
(* channel.  Each send signals one receiver, and each receive one sender.  *)
NoLostWakeup ==
    /\ WaitNotEmpty # {} => (~chClosed /\ chLen <= Cardinality(Receivers))
    /\ WaitNotFull # {} => (~chClosed /\ ChanCap - chLen <= Cardinality(Senders))

(* Closing a channel lets every thread that is inside an operation return. *)
CloseReleases ==
    \A t \in ChanThreads : (chClosed /\ chPc[t] # "idle") ~> (chPc[t] = "idle")
=============================================================================
