------------------------------ MODULE MCServices ------------------------------
(***************************************************************************)
(* The parts of the runtime library that share no state, side by side: a   *)
(* behaviour exercises the one that part names and leaves the others as    *)
(* they start.                                                             *)
(***************************************************************************)
EXTENDS Concurrency, Scheduling, Collectors, Containers, Debugger, Distributed,
        Incremental, Strings

(* The two semispaces lie side by side, the second first.                  *)
MCGcBase == <<7, 2>>

VARIABLE part

PartNames == {"channel", "promise", "containers", "io", "lists", "heap", "wasm", "debugger",
              "net", "supervisor", "incremental", "strings", "actors"}

(* Where a part may start in several ways, the others see one of them.     *)
MCInit ==
    /\ part \in PartNames
    /\ ChannelInit /\ PromiseInit /\ SchedulerExtInit /\ WasmGcInit /\ DebuggerInit
    /\ ActorListInit
    /\ ContainersInit /\ (part # "containers" => dsKind = "stack")
    /\ HeapGcInit /\ (part # "heap" => gcLayer = "heap")
    /\ DistributedInit /\ (part # "supervisor" => supStrategy = "one_for_one")
    /\ IncrInit /\ (part # "incremental" => \A f \in IncrFiles : disk[f] = "A")
    /\ StringsInit /\ (part # "strings" => str = StrNew(<<>>))

MCNext ==
    /\ \/ part = "channel" /\ ChannelNext
       \/ part = "promise" /\ PromiseNext
       \/ part = "containers" /\ ContainersNext
       \/ part = "io" /\ IoNext
       \/ part = "lists" /\ ListsNext
       \/ part = "heap" /\ HeapGcNext
       \/ part = "wasm" /\ WasmGcNext
       \/ part = "debugger" /\ DebuggerNext
       \/ part = "net" /\ NetNext
       \/ part = "supervisor" /\ SupNext
       \/ part = "incremental" /\ IncrNext
       \/ part = "strings" /\ StringsNext
       \/ part = "actors" /\ ActorListNext
    /\ part # "channel" => UNCHANGED channelVars
    /\ part # "promise" => UNCHANGED promiseVars
    /\ part # "containers" => UNCHANGED containerVars
    /\ part \notin {"io", "lists"} => UNCHANGED schedulerExtVars
    /\ part # "heap" => UNCHANGED heapGcVars
    /\ part # "wasm" => UNCHANGED wasmGcVars
    /\ part # "debugger" => UNCHANGED debuggerVars
    /\ part \notin {"net", "supervisor"} => UNCHANGED distributedVars
    /\ part # "incremental" => UNCHANGED incrVars
    /\ part # "strings" => UNCHANGED strVars
    /\ part # "actors" => UNCHANGED actorListVars
    /\ UNCHANGED part

servicesVars == <<part, channelVars, promiseVars, containerVars, schedulerExtVars, heapGcVars, wasmGcVars,
                  debuggerVars, distributedVars, incrVars, strVars, actorListVars>>

MCSpec == MCInit /\ [][MCNext]_servicesVars /\ ChannelFairness

-----------------------------------------------------------------------------
F(k, m) == [kind |-> k, mut |-> m]
MCLayouts == {<<F("i32", TRUE), F("i64", TRUE)>>, <<F("i64", TRUE), F("i32", TRUE)>>, <<F("ref", TRUE), F("i64", FALSE)>>}

Line(directive, path) == [directive |-> directive, path |-> path]
MCLines == [c \in IncrContents |->
              IF c = "A" THEN <<Line("use", "d"), Line("other", "z")>>
              ELSE <<Line("import", "d"), Line("#include", "z"), Line("use", "")>>]

MCStrArgs == {<<>>, <<97>>, <<97, 97>>, <<65, 32>>}
=============================================================================
