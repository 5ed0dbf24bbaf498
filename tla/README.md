# Verification of the Pony++ runtime and compiler

TLA+ specifications of the Pony++ C code, the TLC configurations that
model-check them, and TLAPS proofs about them. Paths below are relative to the
repository root.

## 1. Inventory

Pony++ is an actor language: a compiler that emits C or Wasm, and a C runtime.

| Part | Source | State | Operations | What makes it correct | Status |
|---|---|---|---|---|---|
| Lifecycle, supervision | `src/ponypp/runtime.c` 50-127, 372-488 | list of actors, states, children arrays, restart counters | new, destroy, start, stop, register, handle_crash | list = existing actors; the two directions of a tree agree; budgets; a crash stays in its group | modelled |
| Actor list and registry | `runtime.c` 50-127 | `next`/`prev` links, `registry`, `next_id` | new, register, destroy | the links lead through every actor, once, to an end | modelled |
| Messaging, ticks, calls | `runtime.c` 129-370, 584-653 | mailboxes, ids, delivered ids, the C stack of nested ticks, statistics | send, call, reply, tick, upgrade, limits | exactly once, in order; balanced statistics; calls return; upgrades between messages | partly |
| M:N scheduler | `runtime.c` 697-1025 | worker deques, global queue, worker threads | enqueue, local pop, steal, worker loop, start, stop | no message lost or run twice; deques stay in their bounds | partly |
| MPMC queue | `src/ponypp/mpmc.c` | two positions, slots with sequence numbers, two counters | enqueue, dequeue, size | a bounded FIFO; slots never accessed by two threads; non-blocking | modelled |
| Channels, promises, futures | `src/ponypp/stdlib.c` 1244-1460 | ring, mutex, conditions; value, `done`, callback | send, recv, close; fulfill, then, wait | FIFO; no lost wake up; the callback runs once with the value | modelled |
| Collections, strings | `stdlib.c`, `regex.c` | rings, hash chains, linked lists, arrays, buffers with capacities | their operations | agree with the mathematical containers; never write beyond their memory | partly |
| Copying collector, actor heaps | `src/ponypp/gc.c`, `runtime.c` 1126-1182 | two semispaces, roots, memory limit | alloc, collect, flip, roots | what a collection that met older references only reaches survives, its pointers are updated; objects lie side by side | modelled |
| Scheduler extensions | `src/ponypp/scheduler_ext.c` | I/O thread pool, priority queue, references, degradation mode | submit, worker loop, shutdown, push, pop | every accepted task runs once; highest priority first | modelled |
| Distributed layer | `src/ponypp/distributed.c` | connections, remote actors, heartbeats, remote children | send, receive, crash, heartbeat, time-out check | frames arrive whole and in order; restart budgets | partly |
| Incremental compilation | `src/incremental.c` | entries with hashes and dependencies, index file | open, store, check, clear, close | nothing stale is reused, also after a crash | modelled |
| Wasm GC heap | `src/wasm_gc.c` | object list, handles, roots | alloc, get, set, mark, sweep | no object of a root is freed, and none twice; fields keep what was stored | modelled |
| Debugger | `src/debugger.c` | breakpoints, state, outgoing messages | requests, notices, checks from outside | each hit is reported and counted once; requests are answered | modelled |
| Encodings | `runtime.c` 497-580, `stdlib.c`, `wasm.c` | buffers | write, read | what is written is read back, up to named losses; a cut-off text is refused | partly |
| Lexer, parser | `lexer.c`, `parser.c`, `ast.c` | token position | one function per rule | the tree that was spelled comes back | modelled |
| Types, checks | `types.c`, `typecheck.c`, `capabilities.c` | reference counts, type environment | verdicts on programs | names resolve whatever the order; counts exact | partly |
| Packages, versions | `pkg.c`, `version_compat.c` | manifest, package list, API table | parse, add, remove, compare | total order, and where the two orders part; sections that are reopened add up | partly |
| Code generators | `wasm.c`, `codegen.c`, interpreter in `wamr.c` | output | translate a method | the output is valid and means what the source means | partly |
| Tools, wrappers | `ffi.c`, `http.c`, `crypto_*.c`, `network.c`, driver, profiler, ... | mostly external | calls into libraries | | not modelled |

How they interact: compiled programs and host programs call the runtime
directly (there is no message loop but the host's own `pny_scheduler_tick`
calls); behaviors are callbacks that the tick runs and that may call every
runtime function again, ticks included; M:N workers run the same behaviors from
several threads and share the actors without a lock; channels, promises and the
I/O pool are used by threads of their own; the garbage collector works on
per-actor heaps; the distributed layer has restart logic of its own next to the
runtime's. The compiler is a pipeline: tokens, trees, two checks, one of two
code generators.

What is hard in this code is listed, at its line, under `hazards` in
`PROJECT.json`: re-entrant ticks, references kept across destruction, waits
with a budget, restart logic that touches other actors, lock-free positions
and counters that are updated one after the other, worker threads, plain reads
of flags that a mutex protects elsewhere, rings that grow while they wrap,
collectors that find references by their value, and code that has to be valid
whatever way branches and loops are nested.

## 2. Modules

| Module | What it is |
|---|---|
| `Supervision` | lifecycle and supervision trees: the abstract view of the runtime that knows no messages |
| `ActorRuntime` | the single-threaded runtime with messages, ticks, calls; `Tree == INSTANCE Supervision` provides its lifecycle actions, so what `Supervision` shows of the lifecycle carries over |
| `ActorList` | the links and the registry behind the list that `Supervision` knows as a sequence |
| `BoundedFifo` | abstract: what `mpmc.h` promises to threads |
| `MpmcQueue` | the lock-free queue, one step per atomic access; implements `BoundedFifo` by a refinement mapping |
| `TaskPool` | abstract: tasks accepted, held by one thread, finished |
| `WorkStealing` | the M:N scheduler; implements `TaskPool` |
| `SchedulerExt` | the I/O pool (implements `TaskPool` too), priority queue, reference list, degradation mode |
| `Channel`, `Promise` | the blocking and the callback parts of the standard library |
| `Containers`, `Strings` | rings, hash chains, lists, arrays and strings with their memory, each next to the value it stands for |
| `HeapGc`, `WasmGc` | the copying collector with the actor heaps on top of it; the mark and sweep heap of the Wasm runtime |
| `Debugger`, `Distributed`, `Incremental` | the debug adapter, the remote layer, the compilation cache |
| `Codecs`, `Json`, `Packages` | encodings, JSON, manifests and versions, as operators with their inverses or reference definitions |
| `Lexer`, `Parser`, `Syntax` | `lexer.c`; `parser.c`; the reference that spells trees as tokens |
| `Checks`, `Types` | the type and capability checks; reference counts of types |
| `Methods`, `WasmGen`, `CGen` | what method bodies mean, and what the two code generators make of them |
| `Concurrency`, `Scheduling`, `Collectors` | side by side: channels and promises; I/O pool, priority queue, references and actor list; the two collectors |
| `Lists` | recursive functions for two loops several components have: dropping elements at some places, adding numbers up |
| `...Proofs`, `ListFacts` | theorems and proofs (section 4) |
| `MC...` | model values and symmetry sets for TLC; `MCServices` and `MCCompiler` put parts side by side |

Definitions carry the names of the fields and functions they stand for
(`actor_state`, `next_msg_id`, `enqueue_pos`, `worker_count`, ...);
`PROJECT.json` maps each to its lines. Definitions that a comment calls a
"variant with a bug" belong to no specification: each is one definition as a
plausible slip would have it, and `mutants` in `PROJECT.json` says which
property notices.

### Supervision

State: the scheduler's list (`actors`, newest first), the state of each
`PnyActor` (with ABSENT and FREED for memory not yet, or no longer, there), the
supervision metadata, the `children` arrays, `actors_alive` with the width of
`size_t`, and the count of restarts. `wiped` is a history: the charges that went
with a child that was destroyed or registered again, so that `RestartBudget` can
say that every counted restart was charged to somebody. Actions: `New`, `Destroy`, `Start`,
`Stop`, `SuperviseRegister`, `HandleCrash` (budget used up, or restart by the
crashed child's strategy) and the host's marking of a crashed actor. Pointers
stay in `children` and in the metadata after their target is destroyed, as in
the code. A crash whose handling would follow such a pointer reads freed memory;
`RefsLive` excludes it (it concerns the group strategies only), so nothing
here is claimed about it. Rejected calls
(NULL arguments) change nothing and have no action.

### ActorRuntime

A `stack` of frames is the C call stack: a `tick` frame is a walk over the
list, with the saved `next` pointer and the actor whose behavior is running; a
`call` frame is the wait loop of `pny_actor_call`. Only the top frame acts.
Whoever is in control, the host or the behavior on top, may call the API
again, so that ticks nest inside behaviors inside ticks. `Send`, `Call`,
`Reply`, `CallTick`, `CallReturn`, `TickStart`, the visits of the walk
(`VisitIdle`, `VisitDuplicate`, `VisitDeliver`), `BehaviorReturn`,
`HotUpgrade`, `SetLimit`, `Probe` and the operations of `Supervision` cover
`runtime.c` 129-413 and the parts of 584-653 that change state. `program` is
the set of optional operations a program uses; it is chosen at the start and
never changes. A property that needs a restriction on programs states it by
`Uses`: `InOrder` is about programs that do not ask the exactly-once filter,
`AtMostOnce` says what programs that do ask (and lose messages) still get. The
lifecycle is not modelled a second time here, so nothing is gained, and nothing
claimed, by calling the runtime a refinement of `Supervision`. Method names and
arguments, gas, allocation failure, the message pool and diagnostics are
abstracted away.

### MpmcQueue and BoundedFifo

Each load, store and compare-exchange of `pny_mpmc_enqueue`, `dequeue` and
`size` is an action of the calling thread; the plain accesses of a slot's data
are actions too. A weak compare-exchange may fail on the expected value. The
code's acquire and release orderings are read as sequential consistency, which
the checks of slot exclusivity (no two plain accesses of one slot meet) support
but do not prove. Under the refinement mapping an enqueue takes effect at its
compare-exchange, and the mapped item is the value a reserved slot is about to
receive. `BoundedFifo` allows a refusal when the queue is full or empty, or
when another operation is under way: that is what this algorithm can promise.

### WorkStealing and TaskPool

Threads are the workers and the host. A deque operation under its mutex is one
step. Accesses to the actor that no lock protects (`behavior`, `new_behavior`)
are steps of their own, and the copy of `new_behavior` may use the value tested
or read the field again: both are outcomes of a build of this code. Starting
may fail for any worker; stopping sets flags and joins one worker after the
other; destruction frees what is queued. `pny_mn_run_tick` is the host loop
`TickStart` .. `HostReturn`. A message is its identity, since the API keeps
neither its number nor its addressee. The host is assumed to stop only what it
started, to tick only while no worker thread runs, to destroy only when
stopped, and to leave the list and the actors' states alone while workers run;
without these the code races with itself in ways C gives no meaning to.

### ActorList

`pny_actor_new`, `pny_actor_register` and `pny_actor_destroy` as they write
`next`, `prev` and the registry, compared with the sequence `order` of existing
actors. Registering is idempotent only for actors the registry has a place for
or that have a neighbour; a listed tail actor beyond it (id above 1024) is
linked in again, and the model ends there (section 5).

### Channel, Promise

A critical section of the channel is one step. A wait puts the thread among the
waiters of a condition; a signal moves any one of them back to the mutex, a
broadcast all, and any waiter may wake for no reason. `NoLostWakeup` is the
counting argument behind the code's single signals. In `Promise` only the
section the mutex protects is one step; the reads and writes of `done`,
`callback` and `ctx` outside it are steps of their own. `PromiseKept` states
what remains true of the races: with one thread that fulfils, a callback runs
at most once and with that thread's value; a callback registered before the
value came has run once `fulfill` has returned; nobody waits for a promise that
is done.

### Containers, Strings

The memory a container keeps (ring positions, capacities, chains, links) next
to the mathematical value. A grown ring is copied as the code copies it. The
reference definitions of strings are written over sequences and know nothing of
capacities. The two calls that never return (section 5) are not among the
operations.

### SchedulerExt, HeapGc, WasmGc

The pool's critical sections are steps of workers and of the thread that shuts
it down; the end of a shutdown takes no lock and is three steps (threads joined,
list freed, list emptied) between which tasks may be submitted. The pool
implements `TaskPool`. In `HeapGc` an address is the number of a word, an object
carries its birth number, and `gcShadow` what the program last wrote:
`GcSurvival` compares the two over everything reachable in a heap used directly.
A program in which a collection met a reference to a later object or to the
object itself, or two live objects with equal contents, is marked, because the
code leaves such references as they are or redirects them wrongly (section 5),
and only the shape of its table is claimed afterwards. So it is with an actor's
heap, whose second flip leaves the copies in to-space. `WasmGc` keeps the union
of a structure's fields as memory, so that writes of different width overlap as
in C; `FieldsHold` excepts fields whose layout shares bytes. What a root refers
to survives; the code does not follow references in fields, and no property
claims it does: an object that only a field refers to is swept.

### Debugger, Distributed, Incremental

Each request, call of the host or notice of the program is one step of
`Debugger`. `dap_check_breakpoint` and its two companions, which the notices use
and programs may call themselves, count a hit without stopping anybody
(`CheckBreakpoint`); `dapReports` counts stopped events and checks answered yes
together. `Distributed` has two independent machines: the framing of
messages, with sends and receives that come back short or fail at any byte, and
the remote supervisor with its clock. `Incremental` keeps the cache in memory,
the index file of the last close, and files that change; a process may die
between any two operations.

### Codecs, Json, Packages, Checks, Types

Mostly operators, with a small state that builds their input step by step, so
that histories such as reopened manifest sections, re-registered names, or a
buffer of several items occur. A word is the set of its bits, which makes a
shift a translation; borders of every encoding are among the words. What does
not come back is part of the definitions, not left out of the inputs: a binary
above 65535 bytes gets a header its reader does not know (`HasReader`), a
message cut at 11 to 14 bytes passes the length check and takes its fields from
whatever lies behind the buffer (`Deserialize`), a double is written in six
digits (`Printed`) and one without a fraction comes back as an integer, an
infinite one not at all (`Rounded`, `Unreadable`). `VersionsOrdered` describes two
orders, since the package manager's reads no prerelease tags, and says where
they part. `ChecksAgree` is about names: which of them the type checker
resolves and that the order of declarations does not matter; it does not claim
that a program that passes is well typed (section 5).

### Lexer, Parser, Syntax

`Parser` has one operator per C function. The functions call each other in
circles; to keep one recursive declaration they go through one operator,
`Rule(name, position)`, which stands for a call. `Syntax` grows a tree by
putting it into contexts and spells it in both block styles;
`ParserInverts` feeds the spelling to the parser. Sources that make the parser
loop for ever (section 5) are no spelling of a tree.

### Methods, WasmGen, CGen

A method body is grown by a statement at a time or wrapped in a branch or loop.
`Methods` gives its meaning with arithmetic of `MethodBits` bits. `WasmGen`
translates it as `wasm.c` does, validates the result as WebAssembly does (stack
heights through blocks and branches) and runs it; it also runs it as the
interpreter of `wamr.c` does. `CGen` translates it to C trees as `codegen.c`
does and gives them C's meaning. `Translatable` and `CTranslatable` say which bodies a
generator translates by their meaning, the rest is in section 5; validity is
claimed of far more bodies than these.

## 3. Runs

| Run | Instance | What it shows |
|---|---|---|
| `supervision` | 3 actors, 4 strategies, budget 1, arrays of 2, `size_t` of 2 values | list and trees stay consistent, budgets hold, a crash stays in its group, a start reaches everyone |
| `supervision_exhausted` | the same | finding: a child stopped for good is set to RESTARTING by a sibling's crash |
| `runtime` | 2 actors, 2 behaviors, 2 messages each, 2 calls, queue limits 1 and 2, three kinds of program | exactly once and in order, balanced statistics, prompt calls answered, walks stay in the list, upgrades between messages, nothing twice even for programs that ask the filter |
| `runtime_liveness` | 2 actors, 2 messages each, 1 call, behaviors that may not answer | accepted messages are delivered, calls return |
| `runtime_reentrant` | 2 actors | finding: an actor waiting in a call handles its next message inside the first |
| `mpmc` | 3 threads, 2 slots, 3 enqueues, 2 values | the queue implements `BoundedFifo`, slots are exclusive, statistics exact when quiescent |
| `mpmc_live` | 2 threads, one of which may stop anywhere | operations of the other return |
| `mpmc_size` | 3 threads | finding: the size wraps below zero |
| `work_stealing` | 1 or 2 workers and the host, deques of 2, 3 messages, 1 start | deque shape, one owner per message, nothing runs after a stop, accepted messages are handled |
| `work_stealing_upgrade` | the same, 2 messages | finding: two workers that apply one upgrade call NULL |
| `services` | the thirteen parts of the library, each on its own: 4 threads on a channel of 2, 3 on a promise, containers of up to 4 elements, 2 I/O workers and 3 tasks, 3 objects on a heap of 5 words, ... | channels and promises under threads, containers and strings against their values, I/O pool and refinement of `TaskPool`, what each collector keeps, debugger, framing and remote supervision, the cache across crashes, links of the actor list; a close releases all threads |
| `compiler` | the ten algorithms, each on its own: words around every border of the encodings, pairs of tokens, trees of two contexts, manifests of four lines, programs of two declarations, methods of three statements | encodings decode back but for named losses, the parser inverts the spelling, names resolve as declared in any order, manifests and versions, both generators' code is valid and means what the source means |

Why these bounds. Group restarts need a supervisor and two children, hence three
actors; every strategy, re-registration and re-use of a full array occurs with
arrays of two. A nested tick interferes with an outer walk as soon as there are
two actors, and with itself when two calls nest; two messages per queue show
order, limits and the upgrade between messages, and with `CallTicks` at the
queue limit a call's message is reached at the last tick of its wait. Two slots and
three enqueues make the ring wrap and a position be used twice; three threads
allow one to be overtaken by a whole lap of the others. Deques of two slots wrap
with three messages, and the third overflows. `size_t` counters are given few
values so that their wrap-around happens.

`services` and `compiler` each hold parts that call nothing of one another and
share no memory in the code. A variable `part` (`stage`) chosen at the start
names the part that runs; the others stay as they are, so a state of the run is
a state of one part, and a property of one part is checked in every state of
it. Where a part may start in several ways, the others see one of them. A
counter-example in one part is not hidden by another, and no behaviour of a
part is lost by the absence of the others. The bounds: four threads on a ring
of two let two wait on each side while a third has been signalled; three
threads and four calls on a promise let two fulfil while a third registers or
waits; a ring container of
capacity two grows twice with four elements, and wraps before it does; three
births on two semispaces of five words force automatic collections with
garbage between live objects (the code's spaces are multiples of 512 words, and
the size matters only in that it is reached; the second space lies below the
first); one hit and one kind of step command let a debugger's count meet a
removed breakpoint (`DapMaxHits`, `DapSteps`); six operations on two files let the cache crash
between a store and its close and be opened again; payloads of three units
against a buffer of two show both refused and partial frames. Arithmetic of
three bits has all the signed and unsigned borders a comparison or a division
can confuse, and three statements or wrappers nest a branch in a loop next to a
local variable.

Fairness. `runtime_liveness` assumes that the host keeps ticking, which is the
main loop of every host program in the repository, that a C function that is
running continues, and that a behavior returns. Nothing is assumed of answers
to calls that a program ignores. `mpmc_live` assumes that the reliable thread
runs and that its weak compare-exchange does not fail spuriously for ever;
nothing of the other thread. `work_stealing` assumes that threads run and that
behaviors and host calls return; the number of messages is bounded, without
which the newest-first order of the owner's end can starve an old message. In
`services` only the channel has fairness: a thread that was called or woken
gets the mutex and finishes its critical section (`ChannelFairness`); a thread
that nothing wakes is not assumed to move.

## 4. Proofs

All theorems hold for every value of the constants that meets the module's
`...Assumption`; TLC checks the same formulas on the instances of section 3.

`SupervisionProofs`: `TypeCorrect`, `ListCorrect`, `TreeCorrect`,
`BudgetCorrect`. The inductive invariant is the conjunction of `TypeOK`,
`ListIsLive`, `TreeAgrees` and `RestartBudget`: destroying an actor keeps the
list right only because it stands there once, and that a listed actor exists is
needed for a crash to be charged to it. The books of `RestartBudget` are a
`Total` over the list, which a creation, a destruction and a charge change at
one place each. `StartIsComplete` and
`CrashesStayInGroups` are the action properties `StartReachesEveryActor` and
`CrashStaysInGroup` from this invariant: the last pass of a start goes through
the list, hence through every actor.

`ListFacts` holds the lemmas several components share. It shows how a recursive
function can be reasoned about without the library's induction theorems: a set
of numbers has a least element (`LeastNat`, from the well-foundedness of the
numbers, a fact without operator parameters), so a property stated as a set of
numbers that contains 0 and goes on from each number to the next holds of all
(`Upwards`). From it follow what `Kept` selects and in what order
(`KeptSelects`, `KeptSplits`) and how `Total` changes when an element is
appended, removed or changed.

`ActorRuntimeProofs`:

- `DeliveredAtMostOnce`: `AtMostOnce`, for programs that ask the filter too.
  `OnceInv` says of each actor that what was delivered rises, that what is
  queued rises above it, and that none of it was sent later than the last
  message accepted; a dropped duplicate only leaves a gap. The invariants of the
  lifecycle are taken over by the lemma `TreeSteps`: a step of the runtime is a
  step of `Supervision` or leaves its state alone.
- `DeliveredInOrder` and `FilterSparesNewMessages`: `InOrder` and
  `NoFalseDuplicate` for every number of actors, messages and nested ticks.
  `InOrder` is not inductive: that no queued message is dropped as a duplicate
  depends on ids. The invariant `QueueInv` adds that ids grow along each queue,
  above every delivered id and below `next_msg_id` (`IdsGrow`), and that only
  freed actors have discarded messages (`Ordered`); the latter needs the
  lifecycle invariant of the first module. `ProgramInv` restricts it to
  programs without probes.
- `RuntimeTypeCorrect`: `TypeOK`, the call stack included. The next actor of a
  walk is an actor because the list holds only existing ones, so the invariant
  is `TypeOK` with `ListIsLive`.
- `WalksStayInList`: `WalkStaysInList`. `WalkInv` adds that a walk never saves
  the actor whose behavior it runs, and that without calls there is at most one
  walk (`Flat`): so a behavior that destroys its own actor takes away no saved
  pointer. With calls, and without self-destruction, actors are destroyed only
  when the stack is empty.
- `UpgradesComeFirst`: `UpgradeBeforeNextMessage`. Types suffice, because a
  visit applies the upgrade and hands out the message in one step.
- `StatisticsBalance`: `StatsBalance`, in the middle of nested walks too. The
  undelivered messages are counted as pairs of an actor and a number
  (`Undelivered`), so that a queue that grows or loses a message by one changes
  the set by one pair (`PairsProperties`) and a destroyed actor's queue moves to
  `discarded` without changing it.
- `PromptCallsGetAnswers`: `PromptCallsAnswered`, for any number of calls nested
  in behaviors of other calls. The invariant (`CallInv`) says of every frame of
  a waiting call that a walk above it is running the callee on its message
  (`HandsHold`), or that the message stands in the callee's queue at a place no
  later than the ticks left, one later while the walk of the current tick has
  not come to the callee (`Queued`, `Slack`). A walk delivers to each running
  actor it passes, so place and ticks shrink together, also for the calls that
  wait below other calls.

`MpmcProofs`: `TypeCorrect`, `SlotsAreExclusive` and `QuiescentSizeCorrect`, for
any number of threads and any capacity from 2. The sequence number of a slot
tells who may touch it: a thread past its compare-exchange holds the position
its slot's number says (`HeldByWriter`, `HeldByReader`), no two threads hold one
position (`ReservedOnce`), and the slots between the two positions are full,
the others free (`FreeForWriter`, `FullForReader`). Two positions held at once
lie less than a lap apart, which is where the capacity enters (`SlotLemma`).
`CountInv` says that the statistics differ from the positions by the operations
between compare-exchange and count.

Of the same module: `QueueImplementsFifo`, the refinement `ImplementsFifo`, for
any number of threads and pointers, any capacity from 2 and runs of any length.
`FifoInv` describes the window of one lap from `dequeue_pos`: below
`enqueue_pos` a slot is full or its writer is on the way (`Filled`), from there
on it is free or its reader is (`Freed`), holders stay inside the window
(`HoldersInside`), and sequence numbers never fall behind (`Ahead`). Positions
of one lap have different slots (`SlotsOfALap`), so passing a slot on changes
one position. With that a reservation is `Put` or `Take` (`PutStep`,
`TakeStep`), and a refusal needs a full or empty queue or another thread that
holds the slot (`RefuseStep`): a thread that merely comes late finds a larger
number, by `Ahead`, and tries again.

`WorkStealingProofs`: `StealingTypeCorrect`, `StealingDequesCorrect`,
`StealingStopCorrect` and `StealingImplementsPool`, for any number of workers,
messages and slots. The invariant `StealingInv` has three parts. `ControlInv`
says thread by thread what its place in the code implies of its locals, and
`HostOK` what the host knows of workers it has started, joined or failed to
start; with it alone, stopping is right. `DequesOK`: the messages of a deque are
those between `head` and `tail`, wrap-around included. `OnePlace`: a message is
fresh, in one slot of one deque, in one hand, being spilled, or freed, and only
one of these. The refinement then goes by the shape of a step (`PoolStep`): a
step takes, puts, spills, refuses, admits, frees, drops or moves nothing. That
an accepted message finds the abstract pool below its capacity follows by an
injection of the waiting messages into the slots.

`ConcurrencyProofs`: `ChannelIsFifo`, `ChannelTypeCorrect` and `WakeupsAreKept`.
The invariant `ChannelInv` joins the types, that the occupied part of the ring
holds items (`Loaded`), and that what was sent is what was received followed by
the ring. `WakeupsAreKept` counts threads: a signal adds one to those on their
way, and each of them takes at most one item or slot.

`PromisesAreKept` has one invariant for the races of a promise (`PromiseInv`):
what a thread in the middle of `fulfill` or `then` has read and written
(`Begun`, `Given`); with one thread that fulfils, that it alone has set the value
and that each run of a callback is its own (`OneFulfiller`); with one
registration, where the callback and its context are between the unlocked writes
(`OnlyRegistration`). `ConcurrencyIsSafe` is the conjunction the run checks.

`ListStaysLinked`, in the same module, is about `ActorList`. The links are right
as long as ids are fresh and the registry knows every actor it has a place for:
only then does registering again change nothing.

Also there: `IoPoolImplementsTaskPool` and `PoolDrains`, for any number of I/O
threads and tasks, starts and shutdowns. `IoInv` says that a
thread holds a task exactly while it runs it (`IoHands`), that a task is listed
once (`IoListed`), when there are threads and what those that left have seen
(`IoPhases`), and that somebody is awake while there is something to do
(`IoAwake`): a submission's signal cannot be lost, because a thread goes to
sleep only with the mutex, over an empty list.

`ListsStaySound` is about the queue by priority and the list of references:
`ListsInv` says that the queue is sorted by priority and, within one, by arrival
(`PrioSorted`), so the place an insertion finds is behind its equals, and that a
reference is listed as often as it was added and not taken back (`RefCounted`).
`SchedulerIsSafe` is the conjunction the run checks.

The last part of the module is about `Containers`, for any elements and any
number of them.

- `RingsAreQueues`: `RingAgrees`. A ring is described by where it wraps
  (`RingHolds`): its i-th item lies at `Wrapped(head + i, cap)`, and `tail` is
  the place after the last one. The copy of `Grow` starts at `head` and ends
  before it, so a full ring keeps its order whatever its head was; a copy of
  the slots as they lie would not. `Wrapped` replaces the remainder: both
  positions are less than twice the capacity.
- `TablesAreSets`: `TablesAgree`, for maps, sets, groups and stacks. `TableHolds`
  says that each chain holds entries of its own bucket and no key twice, and that
  an entry stands in its chain exactly if the pair belongs to the value; a put
  replaces at the first entry with the key, a removal leaves the others in place,
  and the size is that of the chains together. `ArrayInv` says of a stack that
  its array is the value read backwards, and of a group that its array has each
  member once, though the last one moves into the hole of one that leaves.
- `ListsAreSequences`: `ListAgrees`. The invariant names the nodes in order:
  along some walk `P` from NULL to NULL the links of each node lead to its
  neighbours, the data spell the value, and the nodes of the walk are those
  allocated (`Spells`). An entered node splices the walk (`Spliced`), one that
  leaves is cut out of it (`Unspliced`), at the ends as in the middle, and
  reversal walks it backwards (`BackOf`). The sort moves data only: a
  comparison exchanges two places at most (`BubbleSpells`), a pass carries the
  greatest of the unsettled elements to its end (`BubbleLeads`, `PassSorts`),
  and after all passes the data rise (`SortSorts`). That this is the value that
  `Ascending` chooses, equal elements or not, follows by counting: of two rising
  rearrangements of one sequence neither is higher than the other at any place
  (`RisesNoHigher`, `RisesNoLower`).

`ContainersAreSound` is the conjunction the run checks.

`CollectorProofs`: `HeapsAreSafe`, from one theorem for each collector.

- `GarbageIsCollected`: `GcSurvival`. What the runs check speaks of the objects
  that can be reached (`LiveIds`), which a step changes in ways that are hard to
  follow. The invariant `GcInv` says instead that some set of objects contains
  what the slots denote, is closed under what the program wrote, and that the
  objects of it say what was written (`Survival`); such a set serves again after
  a collection, and grows by one object with an allocation. Besides, the
  objects of from-space lie side by side and to-space is empty (`WellLaid`),
  for both layers. A collection keeps it by these steps: marking is the least
  closed set of objects with the roots (`MarkedCloses`, `MarkedLeast`), so all
  of it is in that set (`MarkedLives`); the copies lie side by side, one for
  each marked object (`CopyTurn`); a word that is the address of a marked object
  is the address of its copy from that object's turn on, and not before
  (`WordsTurn`). An object is copied as it is at its own turn: its words are
  right if they refer to objects whose turn has come, which is what `Tame` asks,
  and then they do not change afterwards (`DataSettles`). Therefore a root,
  which looks for the first copy with its object's contents, finds that object's
  copy and no other, as long as no two marked objects have equal contents
  (`RootFollows`). Both conditions of `Tame` are used, and neither can be
  dropped (section 5).
- `WasmHeapIsSafe`: `WasmGcSafety`, the half about `wasm_gc.c`.
  `WgcInv` relates references, objects, roots and counters: a reference to an
  object knows its length (`HandlesRight`); bytes of fields that overlap no
  other field hold what was stored last (`FieldsRight`); a reference is on the
  array of roots as often as it was added and not taken back, although removing
  one moves the last into the hole, and while it is, its object stays on the
  heap's list (`RootedRight`); an object stands on that list once, and the
  counters tell how many do (`CountsRight`).

`ServicesProofs`:

- `CacheIsSound` and `DependenciesFit`. `IncrInv` says that the entries and the
  map of what was stored last agree, one entry for each path (`Agree`), for the
  open cache and for the index on disk: a crash falls back to the second.
- `EditorIsTold`: `DebuggerStops`. A hit is counted where it is reported, in a
  stopped event or in the answer to a check. A removed breakpoint takes its hits with it
  and `HitsOf` is a `Total`, so the sum changes by what each operation does at
  one place; replacing the breakpoints of a file splits the list in two whose
  sums add up (`KeptSplits`).
- `TypesStayCounted`: `RefCountsExact`. `TypesInv` adds that a type is made of
  older types only: a new one is a part of none, and one whose last reference
  goes is a part of no live one, so releasing its parts takes one reference for
  each place and no other count changes.
- `VersionOrderIsTotal`: `VersionsOrdered`, for versions of any numbers, tags and
  build metadata. A comparison is decided by the first field that differs
  (`CompareIs`), so it is a total order of versions without their build
  metadata; a version read back from its text is equal to it (`TextParses`), and
  compatibility follows the order. The package manager's comparison is that of
  the three numbers alone (`PkgOrder`), from which the versions on which the two
  orders part follow.
- `ManifestIsSound`: `ManifestSound`. `PackagesInv` says of every line read so
  far in which section it stood (`SecOf`) and of the manifest that each key has
  the value of the last line that gives it one in a section of that name
  (`ValOf`), also when a dependency's section is opened a second time. Of the
  package list it says that the versions under a name are the ones added last:
  removing takes the first of the name and keeps the order of the others. The
  API table has each name once. `PackagesAreSound` is the conjunction with
  `VersionsOrdered` that the run checks.
- `DistributionIsSound`: `DistributedSound`. For the framing, `NetInv` describes
  the units on their way as one row from the peer's partial frame through the
  stream, each unit with the message it belongs to, its place in the frame and
  the frame's length (`InARow`): a frame goes on to its end before the next
  begins, later frames belong to later messages, and a frame is cut off only at
  the end of a connection that was given up. Then whatever pieces a receive
  takes, the header it read and the payload it waits for are of one frame. For
  the remote supervisor, `SupInv` says of each actor that its restarts are at
  least its own accepted crashes, that these stay in the budget, and under each
  strategy what else they are; the supervisor's count is the `Total` of the
  accepted ones.

The assumptions on constants are type correctness of the model's own parameters
(layouts are sequences of fields, values are positive, lines have a directive
and a path) and the code's fixed facts: a slot array of at least two, a payload
of at least one unit and shorter than the header's places can tell apart, the
three strategies. For the copying collector they are that the two semispaces do
not overlap, that neither begins at the addresses 0 and 1 (NULL and the number
that stands for data that is no reference), and that an object has a word of
data at least: spaces and objects are of every size, those of the code
(multiples of 512 words) among them.

Only model-checked: all liveness properties and fairness (`EventuallyDelivered`,
`CallsReturn`, `NonBlocking`, `AcceptedIsHandled`, `CloseReleases`), which are
beyond the prover; the strings (`StringsAgree`); and of `compiler` the
encodings (`RoundTrips`), parser and checks (`FrontEndFaithful`) and the two
code generators (`BackEndsFaithful`), whose modules compute by `RECURSIVE`
operators or need an induction over texts and trees. Type correctness of the
queue is the other way round: `MpmcProofs` proves it for every instance, and
the run `mpmc` spends its properties on the rest.

## 5. Differences between code and documents

Four are shown by runs (`findings`). Others were met while modelling, and are
described here because they need no exploration to see. The models follow the
code; where a property excludes one of these cases, its definition or the
comment above it says so.

Runtime (`src/ponypp/runtime.c`, `mpmc.c`):

- `actors_alive` counts a supervisor that is itself supervised twice
  (`runtime.c` 378 and 386), and repeated starts count trees again;
  `tests/gtest_runtime.cpp:197` reads it as a number of actors.
- A call whose wait runs out returns 0, as an answered one does
  (`runtime.c:311`; `docs/04-phase2-multi-actor.md:166` promises a timeout
  message).
- Destroying an actor frees its queue and counts no dead letters
  (`runtime.c:116`; `docs/04-phase2-multi-actor.md:164`).
- `pny_msg_delivered`, a check according to `runtime.h:256`, records the id it
  is asked about (`runtime.c:615`): asked about a queued message, it makes the
  tick drop it.
- Nothing moves an actor on from RESTARTING but a new start by the host
  (`runtime.c:457`; `doc/02-refactored-design.md:473`).
- Registering again a listed tail actor with an id above 1024 ties the list into
  a ring, so that walks never end; the comment at `runtime.c:92` promises that
  repeated registration is harmless.
- `pny_mpmc_dequeue` also returns NULL when the oldest slot is reserved but not
  yet written, though a later element is in the queue (`mpmc.h:40`).
- A worker of the M:N scheduler delivers a message to the first RUNNING actor
  of the list, not to the one it was enqueued for (`runtime.c:961-965`), and
  with one worker `pny_mn_run_tick` never looks at the global deque
  (`runtime.c:869`).
- `pny_msg_deserialize` asks for 11 bytes and reads 15 before it looks at the
  size again (539-552).
- `pny_actor_gc_collect` flips twice and passes roots that are local copies
  (around `runtime.c:1166`); the automatic collection of `pny_actor_gc_alloc`
  discards the object it is about to return.

Standard library (`src/ponypp/stdlib.c`):

- `pny_atomic_cas` (1385) is two plain accesses. `pny_promise_fulfill` (1418)
  tests `done` without the lock, so two may return 0 (`stdlib.h:376` says -1), a
  value is leaked and the callback runs twice; a `then` that races a fulfil may
  lose its callback (1440-1445). `pny_future_wait` takes one wait for the whole
  (`stdlib.h:388`), so a spurious wake up answers -1.
- `pny_chan_new(0)` has a buffer of one (`stdlib.h:348`: unbuffered);
  `pny_chan_closed` reads its flag without the mutex.
- Setting and removing list elements frees their data although element size 0
  stores the caller's pointer; sorting does nothing for element size 0 and
  swaps at most 64 bytes; `map_has` denies a key whose value is NULL.
- `str_grow` (184) with capacity 0 and `pny_str_replace` (278) with an empty
  pattern loop for ever; `pny_str_split` (333) is a stub.
- JSON keeps the low byte of a `\u` escape, writes numbers by `%g`, ignores
  text after the value, and refuses strings above 4095 characters: a double of
  more than six digits is rounded, `1.0` comes back as an integer, and an infinite
  one is written as `inf`, which does not parse (2383). MessagePack
  writes `0xc6` (1791) but does not read it (1844): a binary above 65535 bytes is
  lost. The size
  check of the base64 decoder (2720) counts whole groups, and input without
  padding is decoded to its end all the same.

Scheduler extensions, collectors, distribution:

- Tasks submitted after a shutdown began are accepted and may never be run
  (`scheduler_ext.c` 209-229); the list is freed without its mutex (252-260), so
  that a submission beside it writes behind freed memory; when a thread cannot be created the pool
  says it is initialised (200-204).
- `gc.c` 294-347: references to objects that were allocated later, or to the
  object itself, are not updated, and roots are recognised by contents
  (`gc.h:8` promises that every
  pointer into from-space is updated). `wasm_gc.c` 372-382 does not follow
  references in fields though its comment says so; fields of a union overlap
  (33).
- `distributed.c` 536-546 sets a crashed actor without restarts left back to
  RESTARTING when a sibling crashes (comment at 521); a clock that goes
  back makes every heartbeat late, by unsigned subtraction (581).
- `debugger.c` 360-383: continue, next and step do not set RUNNING, so line
  breakpoints are ignored after the first stop (785); the step mode is never
  read; a message sets STOPPED even after termination (865); a response above
  4096 bytes is cut but announced whole (120-135).

Compiler:

- `lexer.c`: `'\xNN'` is a string token (around 338); strings above 4095 are
  cut; `3.foo` is `3.` and `foo`.
- `parser.c`: keywords are recognised by their text only (31-34); a match arm
  `a | 2 => b` is a bit-wise or (524); `0..n` loses the range (705-720); default
  parameters are dropped; type arguments and extern parameters it cannot read make
  it loop for ever (134, 1552); an actor without braces takes the declarations that follow it (1424).
- `typecheck.c` resolves names and does nothing else: of a field it looks at the
  first child (307-310), so that `count: U32 = "hello"` passes, which its line 6
  says is refused, and it never checks parameters and arguments (4-8);
  `capabilities.c` tells iso and trn by the names of variables and knows none of
  the rules of its lines 4-7; `type_free` does not free all it holds (`types.c`).
- `pkg.c` 268-282 reads `^` and `~` as `>=`, and compares three numbers only
  (257-267): `1.0.0-a` meets `^1.0.0`, though `semver_compare` has it lower
  (`version_compat.c:109`); a full API table refuses to
  register a known name again (`version_compat.c:171`); reading the index doubles
  dependencies (`incremental.c` 113-135), and `is_cached` does not look at them.
- `wasm.c`: break and continue emit nothing: the code for them expects a node
  (comment at 848) the parser does not make (`parser.c` 604-617); `and`, `or` evaluate both
  sides bit-wise; `%` and bit operations give 0; counting loops and sends emit a
  drop on an empty stack; constructor calls pass no arguments (677-687); at most
  four parameters are registered (1324-1336); `x += e` on a field makes a local
  (1233-1252); U32 division is signed. The interpreter of `wamr.c` reads locals
  as 0, passes over branches and stops at the first `end`.
- `codegen.c`: a body of several statements discards its last value and returns
  0 (1967-1997), where `wasm.c` returns it; a body of one assignment returns the
  assigned value; expression statements are not evaluated (1508-1510); an
  assignment to a name that is both local and field goes to the field, a read to
  the local (1481, 1211-1216); U32 division is signed.

## 6. Not modelled, and why

Of modelled parts:

- Memory that cannot be had (`malloc` returning NULL) outside the parts that
  say so, gas, the message pool, diagnostics, and formatting.
- Freed memory that is used again: a late answer to a call whose caller has
  given up (`runtime.c:318`), children of a destroyed supervisor
  (`runtime.c:104`). C gives the accesses no meaning; the models exclude them by
  name (`OwesReply`, `RefsLive`) and claim nothing of them.
- Two workers inside one actor's behavior at the same moment
  (`runtime.c:976`): the model lets it happen, and what user code then does to
  its data is not part of the runtime.
- Floating-point text, UTF-8, weak memory beyond what exclusive slots show.
- Code generation for strings, records, sends and the program frame, the
  sections of a Wasm module, and the bodies of library functions: emission of
  fixed text.

Parts left out, with the reason (`components` has one entry each): the
cross-component supervisor (a counter and a loop, which nothing calls with live
actors), the browser runtime (its protocol lives in JavaScript), FFI and wrappers
of system libraries (one external call each), the driver and tools (process and
file I/O), profiler and statistics (sums), DWARF and WIT output (tables of fixed
layout), the compiler and library written in Pony++ itself, tests, examples and
vendored code.

What would come next: messages and strings in `Methods`; the composition of
`WorkStealing` with lifecycle operations, once the code synchronises them.
