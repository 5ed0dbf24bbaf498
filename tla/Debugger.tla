-------------------------------- MODULE Debugger --------------------------------
(***************************************************************************)
(* The debug adapter of debugger.c: requests of an editor, calls of the    *)
(* embedding program, and notices from the running program, each handled   *)
(* in one step.  The text of a message is left out: an outgoing one is a   *)
(* record of its sequence number and what it says.                         *)
(***************************************************************************)
EXTENDS Integers, Sequences, FiniteSets, SequencesExt, FiniteSetsExt, Lists

CONSTANTS
    DapFiles, DapLines, DapMethods, DapActorIds,
    DapSteps,       \* bound: the commands tried of next, stepIn and stepOut
    DapMaxBps,      \* bound: breakpoints ever set
    DapMaxNotes,    \* bound: actors and messages ever announced, each
    DapMaxSeq,      \* bound: messages the adapter sends
    DapMaxHits      \* bound: hits ever reported, where a check reports one

ASSUME DapAssumption ==
    /\ DapLines \subseteq Nat /\ DapActorIds \subseteq Nat
    /\ DapSteps \subseteq {"next", "stepIn", "stepOut"}

VARIABLES
    dapState,       \* idle, initialized, running, stopped, terminated
    dapBps,         \* the list of breakpoints, newest first
    dapNextBp, dapBpCount,
    dapPaused, dapStepMode,
    dapActors, dapMessages,
    dapSeq,
    dapOut,         \* the messages the last step sent
    dapReq,         \* history: the request the last step handled
    dapReports,     \* history: stopped events sent, and checks answered yes
    dapForgotten    \* history: hits of breakpoints since removed

bpVars == <<dapBps, dapNextBp, dapBpCount, dapForgotten>>
noteVars == <<dapActors, dapMessages>>
runVars == <<dapState, dapPaused, dapStepMode>>
debuggerVars == <<runVars, bpVars, noteVars, dapSeq, dapOut, dapReq, dapReports>>

NoReq == [command |-> "none"]

DebuggerInit ==
    /\ dapState = "idle" /\ dapPaused = FALSE /\ dapStepMode = "none"
    /\ dapBps = <<>> /\ dapNextBp = 1 /\ dapBpCount = 0 /\ dapForgotten = 0
    /\ dapActors = <<>> /\ dapMessages = <<>>
    /\ dapSeq = 1 /\ dapOut = <<>> /\ dapReq = NoReq /\ dapReports = 0

-----------------------------------------------------------------------------
(* dap_send_response and dap_send_event.                                   *)
Response(ok, body) == [type |-> "response", ok |-> ok, body |-> body, actors |-> <<>>, messages |-> <<>>]
Event(name) == [type |-> "event", name |-> name]

Sends(msgs) ==
    /\ dapSeq + Len(msgs) <= DapMaxSeq
    /\ dapOut' = [i \in DOMAIN msgs |-> [seq |-> dapSeq + i - 1, msg |-> msgs[i]]]
    /\ dapSeq' = dapSeq + Len(msgs)
    /\ dapReports' = dapReports + Cardinality({i \in DOMAIN msgs : msgs[i] = Event("stopped")})

Silent == dapOut' = <<>> /\ UNCHANGED <<dapSeq, dapReports>>

NewBp(kind, file, line, arg) ==
    [id |-> dapNextBp, kind |-> kind, file |-> file, line |-> line, arg |-> arg,
     enabled |-> TRUE, hits |-> 0]

HitsOf(bps) == Total([i \in DOMAIN bps |-> bps[i].hits])

-----------------------------------------------------------------------------
(* Requests, as dap_process_message tells them apart.                      *)

HandleInitialize ==
    /\ dapState' = "initialized"
    /\ Sends(<<Response(TRUE, "capabilities"), Event("initialized")>>)
    /\ UNCHANGED <<dapPaused, dapStepMode, bpVars, noteVars>>

HandleLaunch(program) ==
    /\ IF program THEN dapState' = "running" ELSE UNCHANGED dapState
    /\ Sends(<<Response(program, "none")>>)
    /\ UNCHANGED <<dapPaused, dapStepMode, bpVars, noteVars>>

(* Only the first line of the request is read.  A request without a line   *)
(* changes nothing; a line of 0 clears the file and sets none.             *)
HandleSetBreakpoints(file, line) ==
    LET others == Kept(dapBps, {i \in DOMAIN dapBps : dapBps[i].file # file})
        gone == Kept(dapBps, {i \in DOMAIN dapBps : dapBps[i].file = file})
    IN /\ line > 0 => dapNextBp <= DapMaxBps
       /\ IF line < 0 THEN UNCHANGED bpVars
          ELSE /\ dapBps' = IF line > 0 THEN <<NewBp("line", file, line, "none")>> \o others ELSE others
               /\ dapNextBp' = dapNextBp + (IF line > 0 THEN 1 ELSE 0)
               /\ dapBpCount' = dapBpCount - Len(gone) + (IF line > 0 THEN 1 ELSE 0)
               /\ dapForgotten' = dapForgotten + HitsOf(gone)
       /\ Sends(<<Response(TRUE, IF line < 0 THEN "none" ELSE IF line > 0 THEN "verified" ELSE "unverified")>>)
       /\ UNCHANGED <<runVars, noteVars>>

(* continue, next, stepIn and stepOut leave the state alone.               *)
Resumes(step, msgs) ==
    /\ dapStepMode' = step
    /\ dapPaused' = FALSE
    /\ Sends(msgs)
    /\ UNCHANGED <<dapState, bpVars, noteVars>>

HandleContinue == Resumes("none", <<Response(TRUE, "continued"), Event("continued")>>)
HandleStep(step) == Resumes(step, <<Response(TRUE, "none")>>)

HandleDisconnect ==
    /\ dapState' = "terminated"
    /\ Sends(<<Response(TRUE, "none"), Event("terminated")>>)
    /\ UNCHANGED <<dapPaused, dapStepMode, bpVars, noteVars>>

(* stackTrace, variables, threads, actors, messages, configurationDone,    *)
(* and any other command, which is refused.  The lists of frames and of    *)
(* variables are never filled.                                             *)
HandleQuery(response) == Sends(<<response>>) /\ UNCHANGED <<runVars, bpVars, noteVars>>

MessagesFor(a) == SelectSeq(dapMessages, LAMBDA m : a < 0 \/ m.to = a)

(* dap_process_message inside dap_run, whose loop ends when terminated.    *)
ProcessMessage(req) ==
    /\ dapState # "terminated"
    /\ dapReq' = req
    /\ CASE req.command = "initialize" -> HandleInitialize
         [] req.command = "launch" -> HandleLaunch(req.program)
         [] req.command = "setBreakpoints" -> HandleSetBreakpoints(req.file, req.line)
         [] req.command = "continue" -> HandleContinue
         [] req.command \in {"next", "stepIn", "stepOut"} -> HandleStep(req.command)
         [] req.command = "disconnect" -> HandleDisconnect
         [] req.command = "actors" -> HandleQuery([Response(TRUE, "actors") EXCEPT !.actors = dapActors])
         [] req.command = "messages" -> HandleQuery([Response(TRUE, "messages") EXCEPT !.messages = MessagesFor(req.actor)])
         [] req.command \in {"stackTrace", "variables"} -> HandleQuery(Response(TRUE, "empty"))
         [] OTHER -> HandleQuery(Response(req.command # "unsupported", "none"))

Requests ==
    {[command |-> "launch", program |-> p] : p \in BOOLEAN}
    \cup {[command |-> "setBreakpoints", file |-> f, line |-> l] : f \in DapFiles, l \in DapLines \cup {-1, 0}}
    \cup {[command |-> "messages", actor |-> a] : a \in DapActorIds \cup {-1}}
    \cup {[command |-> c] : c \in DapSteps \cup {"initialize", "continue", "disconnect", "actors", "stackTrace",
                                  "variables", "threads", "configurationDone", "unsupported"}}

-----------------------------------------------------------------------------
(* Calls of the embedding program.                                         *)

SetBreakpoint(kind, file, line, arg) ==
    /\ dapNextBp <= DapMaxBps
    /\ dapBps' = <<NewBp(kind, file, line, arg)>> \o dapBps
    /\ dapNextBp' = dapNextBp + 1
    /\ dapBpCount' = dapBpCount + 1
    /\ dapReq' = NoReq /\ Silent
    /\ UNCHANGED <<dapForgotten, runVars, noteVars>>

RemoveBreakpoint(id) ==
    /\ \E i \in DOMAIN dapBps :
        /\ dapBps[i].id = id
        /\ dapBps' = RemoveAt(dapBps, i)
        /\ dapForgotten' = dapForgotten + dapBps[i].hits
    /\ dapBpCount' = dapBpCount - 1
    /\ dapReq' = NoReq /\ Silent
    /\ UNCHANGED <<dapNextBp, runVars, noteVars>>

EnableBreakpoint(id, on) ==
    /\ \E i \in DOMAIN dapBps :
        dapBps[i].id = id /\ dapBps' = [dapBps EXCEPT ![i].enabled = on]
    /\ dapReq' = NoReq /\ Silent
    /\ UNCHANGED <<dapNextBp, dapBpCount, dapForgotten, runVars, noteVars>>

Control(paused, step) ==
    /\ dapPaused' = paused
    /\ dapStepMode' = step
    /\ dapReq' = NoReq /\ Silent
    /\ UNCHANGED <<dapState, bpVars, noteVars>>

-----------------------------------------------------------------------------
(* Notices from the running program.                                       *)

LineMatches(file, line) ==
    {i \in DOMAIN dapBps : dapBps[i].enabled /\ dapBps[i].kind = "line"
                           /\ dapBps[i].line = line /\ dapBps[i].file = file}
ArgMatches(kind, arg) ==
    {i \in DOMAIN dapBps : dapBps[i].enabled /\ dapBps[i].kind = kind /\ dapBps[i].arg = arg}

(* Variant with a bug: all that match count it.                            *)
HitCountedAll(matches) ==
    [i \in DOMAIN dapBps |-> IF i \in matches THEN [dapBps[i] EXCEPT !.hits = @ + 1] ELSE dapBps[i]]

(* The first that matches counts the hit.                                  *)
HitCounted(matches) == [dapBps EXCEPT ![Min(matches)].hits = @ + 1]

(* What a matching breakpoint does; msgs go out before it.                 *)
StopsAt(matches, msgs) ==
    IF matches = {}
    THEN Sends(msgs) /\ UNCHANGED <<bpVars, runVars>>
    ELSE /\ dapBps' = HitCounted(matches)
         /\ dapPaused' = TRUE
         /\ dapState' = "stopped"
         /\ Sends(Append(msgs, Event("stopped")))
         /\ UNCHANGED <<dapNextBp, dapBpCount, dapForgotten, dapStepMode>>

(* dap_check_breakpoint and its two companions, called from outside: a yes *)
(* counts a hit, and neither stops the program nor tells the editor.       *)
CheckBreakpoint(matches) ==
    /\ IF matches = {} THEN UNCHANGED <<bpVars, dapReports>>
       ELSE /\ dapReports < DapMaxHits
            /\ dapBps' = HitCounted(matches)
            /\ dapReports' = dapReports + 1
            /\ UNCHANGED <<dapNextBp, dapBpCount, dapForgotten>>
    /\ dapOut' = <<>> /\ dapReq' = NoReq
    /\ UNCHANGED <<dapSeq, runVars, noteVars>>

Asked ==
    {LineMatches(f, l) : f \in DapFiles, l \in DapLines} \cup {ArgMatches("message", m) : m \in DapMethods}
    \cup {ArgMatches("actor", a) : a \in DapActorIds}

NotifyBreakpoint(file, line) ==
    /\ dapState = "running"
    /\ StopsAt(LineMatches(file, line), <<>>)
    /\ dapReq' = NoReq
    /\ UNCHANGED noteVars

NotifyActorCreated(a) ==
    /\ Len(dapActors) < DapMaxNotes
    /\ dapActors' = Append(dapActors, a)
    /\ Sends(<<Event("actor")>>)
    /\ dapReq' = NoReq
    /\ UNCHANGED <<dapMessages, bpVars, runVars>>

(* Whatever the state is, terminated included.                             *)
NotifyMessage(from, to, method) ==
    /\ Len(dapMessages) < DapMaxNotes
    /\ dapMessages' = Append(dapMessages, [id |-> Len(dapMessages) + 1, from |-> from, to |-> to, method |-> method])
    /\ StopsAt(ArgMatches("message", method), <<>>)
    /\ dapReq' = NoReq
    /\ UNCHANGED dapActors

DebuggerNext ==
    \/ \E req \in Requests : ProcessMessage(req)
    \/ \E f \in DapFiles, l \in DapLines : SetBreakpoint("line", f, l, "none") \/ NotifyBreakpoint(f, l)
    \/ \E m \in DapMethods :
        \/ \E kind \in {"function", "message"} : SetBreakpoint(kind, "none", 0, m)
        \/ \E a, b \in DapActorIds : NotifyMessage(a, b, m)
    \/ \E a \in DapActorIds : SetBreakpoint("actor", "none", 0, a) \/ NotifyActorCreated(a)
    \/ \E matches \in Asked : CheckBreakpoint(matches)
    \/ \E id \in 1..DapMaxBps : RemoveBreakpoint(id) \/ \E on \in BOOLEAN : EnableBreakpoint(id, on)
    \/ \E c \in {<<FALSE, "none">>, <<FALSE, "next">>, <<TRUE, "none">>} : Control(c[1], c[2])

DebuggerSpec == DebuggerInit /\ [][DebuggerNext]_debuggerVars

-----------------------------------------------------------------------------
(* Every hit is reported once and counted once: by one breakpoint, still   *)
(* there or removed, for each stopped event the editor is sent and each    *)
(* check answered yes; identifiers are never reused; the count is that of  *)
(* the list.                                                               *)
BreakpointsAgree ==
    /\ HitsOf(dapBps) + dapForgotten = dapReports
    /\ dapBpCount = Len(dapBps)
    /\ \A i, j \in DOMAIN dapBps : i < j => dapBps[i].id > dapBps[j].id
    /\ \A i \in DOMAIN dapBps : dapBps[i].id < dapNextBp

(* A request is answered once and first, and what is sent is numbered      *)
(* without gaps; after setBreakpoints a file has that breakpoint alone.    *)
RequestsAnswered ==
    /\ \A i \in DOMAIN dapOut :
        /\ dapOut[i].seq = dapSeq - Len(dapOut) + i - 1
        /\ (dapOut[i].msg.type = "response") <=> (i = 1 /\ dapReq # NoReq)
    /\ dapReq # NoReq => dapOut # <<>>
    /\ (dapReq.command = "setBreakpoints" /\ dapReq.line >= 0) =>
        {dapBps[i].line : i \in {j \in DOMAIN dapBps : dapBps[j].file = dapReq.file}} = {dapReq.line} \ {0}

DebuggerStops == BreakpointsAgree /\ RequestsAnswered
=============================================================================
