--------------------------------- MODULE HeapGc ---------------------------------
(***************************************************************************)
(* The copying collector of gc.c, and the heap of an actor built on it in  *)
(* runtime.c.  Two semispaces, each with a table of its objects; objects   *)
(* are one header word and some words of data; an address is the number of *)
(* a word of memory.  A collection is one step: nothing else runs.         *)
(*                                                                         *)
(* An object carries the number it was born with, and gcShadow what the    *)
(* program last wrote into it: history variables the collector never reads.*)
(***************************************************************************)
EXTENDS Integers, Sequences, FiniteSets

CONSTANTS
    GcSlots,        \* root variables of the program
    GcState,        \* the slot that is an actor's state_data
    GcSpace,        \* words of a semispace (a multiple of 512 in the code)
    GcBase,         \* where calloc put the first word of each semispace
    GcFields,       \* words of data an object may have
    GcBirths,       \* bound: objects allocated
    GcLayers        \* "heap": gc.c used directly; "actor": through runtime.c

ASSUME GcAssumption ==
    /\ GcState \in GcSlots
    /\ GcSpace \in Nat \ {0} /\ GcFields \subseteq Nat \ {0} /\ GcBirths \in Nat
    /\ GcBase \in [1..2 -> Nat \ {0, 1}]
    /\ GcBase[1] + GcSpace <= GcBase[2] \/ GcBase[2] + GcSpace <= GcBase[1]
    /\ GcLayers \subseteq {"heap", "actor"}

VARIABLES
    gcLayer,
    gcFrom,         \* which of the two spaces is from_space
    gcTable,        \* from_objects and to_objects: [id, at, data]
    gcUsed,         \* from_used and to_used
    gcRoots,        \* the address in each slot, 0 for NULL
    gcShadow,       \* history: per object, what its fields denote
    gcHeld,         \* history: the object each slot denotes, 0 for none
    gcTame          \* history: see Tame

heapGcVars == <<gcLayer, gcFrom, gcTable, gcUsed, gcRoots, gcShadow, gcHeld, gcTame>>

Other(s) == 3 - s
DataAddr(s, o) == GcBase[s] + o.at + 1
Size(o) == 1 + Len(o.data)

HeapGcInit ==
    /\ gcLayer \in GcLayers
    /\ gcFrom = 1
    /\ gcTable = <<(<<>>), (<<>>)>>
    /\ gcUsed = <<0, 0>>
    /\ gcRoots = [r \in GcSlots |-> 0]
    /\ gcShadow = <<>>
    /\ gcHeld = [r \in GcSlots |-> 0]
    /\ gcTame = TRUE

-----------------------------------------------------------------------------
(* The heap as the collector sees it: h.from, h.table, h.used, and roots.  *)

TheHeap == [from |-> gcFrom, table |-> gcTable, used |-> gcUsed]

(* gc_obj_header: the object whose data starts at d, as space and index.   *)
Headers(h, d) ==
    UNION {{<<s, i>> : i \in {j \in DOMAIN h.table[s] : DataAddr(s, h.table[s][j]) = d}} : s \in 1..2}

(* gc_scan_object: a word that lies inside an object of from_space.        *)
Within(h, w, i) ==
    LET o == h.table[h.from][i] IN DataAddr(h.from, o) - 1 <= w /\ w < DataAddr(h.from, o) - 1 + Size(o)

Indices(h) == 1..Len(h.table[h.from])

(* Phases 0 to 2: what is marked, starting from the roots.                 *)
Marked(h, roots) ==
    LET objs == h.table[h.from]
        Step[n \in 0..Len(objs)] ==
            IF n = 0
            THEN {i \in Indices(h) : \E r \in roots : <<h.from, i>> \in Headers(h, r)}
            ELSE Step[n - 1] \cup
                 {j \in Indices(h) : \E i \in Step[n - 1] : \E k \in DOMAIN objs[i].data :
                                         Within(h, objs[i].data[k], j)}
    IN Step[Len(objs)]

Redirected(o, old, new) == [o EXCEPT !.data = [k \in DOMAIN @ |-> IF @[k] = old THEN new ELSE @[k]]]

(* Variant with a bug: the words are not redirected to the copy.           *)
CopyOneUnredirected(h, marked, i) ==
    LET objs == h.table[h.from]
        to == Other(h.from)
        copy == [objs[i] EXCEPT !.at = h.used[to]]
    IN [h EXCEPT !.table[to] = Append(@, copy), !.used[to] = @ + Size(copy)]

(* One turn of phase 3: a marked object is copied as it is, and then every *)
(* marked object of from_space has its words redirected to the copy.  The  *)
(* copies already made are not.                                            *)
CopyOne(h, marked, i) ==
    LET objs == h.table[h.from]
        to == Other(h.from)
        copy == [objs[i] EXCEPT !.at = h.used[to]]
        old == DataAddr(h.from, objs[i])
        new == DataAddr(to, copy)
        redirected == [j \in DOMAIN objs |->
                          IF j \in marked THEN Redirected(objs[j], old, new) ELSE objs[j]]
    IN [h EXCEPT !.table[h.from] = redirected,
                 !.table[to] = Append(@, copy),
                 !.used[to] = @ + Size(copy)]

Copied(h, marked) ==
    LET F[n \in 0..Len(h.table[h.from])] ==
            IF n = 0 THEN h ELSE IF n \in marked THEN CopyOne(F[n - 1], marked, n) ELSE F[n - 1]
    IN F[Len(h.table[h.from])]

(* A root follows its object to the first copy with the same contents.     *)
RootMoved(h, marked, root) ==
    LET known == {p \in Headers(h, root) : p[1] = h.from => p[2] \in marked}
        copies == h.table[Other(h.from)]
        old == CHOOSE p \in known : TRUE
        same == {j \in DOMAIN copies : copies[j].data = h.table[old[1]][old[2]].data}
    IN IF known = {} \/ same = {} THEN root
       ELSE DataAddr(Other(h.from), copies[CHOOSE j \in same : \A k \in same : j <= k])

Flipped(h) ==
    [from |-> Other(h.from),
     table |-> [h.table EXCEPT ![h.from] = <<>>],
     used |-> [h.used EXCEPT ![h.from] = 0]]

(* gc_collect: the heap after it, and the roots array.                     *)
Collected(h, roots) ==
    IF h.used[h.from] = 0 THEN [heap |-> h, roots |-> roots]
    ELSE LET live == {roots[r] : r \in DOMAIN roots} \ {0}
             marked == Marked(h, live)
             copied == Copied(h, marked)
         IN [heap |-> Flipped(copied),
             roots |-> [r \in DOMAIN roots |->
                           IF roots[r] = 0 THEN 0 ELSE RootMoved(copied, marked, roots[r])]]

(* When a collection can do right: what is marked refers only to objects   *)
(* allocated before it, and no two marked objects have the same contents.  *)
Tame(h, roots) ==
    LET objs == h.table[h.from]
        marked == Marked(h, {roots[r] : r \in DOMAIN roots} \ {0})
    IN /\ \A i \in marked : \A j \in marked :
              (\E k \in DOMAIN objs[i].data : Within(h, objs[i].data[k], j)) => j < i
       /\ \A i, j \in marked : i # j => objs[i].data # objs[j].data

-----------------------------------------------------------------------------
(* The program: what it writes are NULL, a number that is no address, and  *)
(* the addresses it holds.                                                 *)
Sources == {"null", "one"} \cup GcSlots
Word(src) == IF src = "null" THEN 0 ELSE IF src = "one" THEN 1 ELSE gcRoots[src]
Meaning(src) == IF src = "null" THEN 0 ELSE IF src = "one" THEN -1 ELSE gcHeld[src]

BecomesHeap(h) == gcFrom' = h.from /\ gcTable' = h.table /\ gcUsed' = h.used

Fits(h, n) == h.used[h.from] + 1 + n <= GcSpace

(* gc_alloc, and the caller's first writes into the object.                *)
WithObject(h, words) ==
    [h EXCEPT !.table[h.from] = Append(@, [id |-> Len(gcShadow) + 1, at |-> h.used[h.from], data |-> words]),
              !.used[h.from] = @ + 1 + Len(words)]

NewAddr(h) == GcBase[h.from] + h.used[h.from] + 1

GcAlloc(r, srcs) ==
    /\ gcLayer = "heap" /\ Len(gcShadow) < GcBirths
    /\ Fits(TheHeap, Len(srcs))
    /\ BecomesHeap(WithObject(TheHeap, [k \in DOMAIN srcs |-> Word(srcs[k])]))
    /\ gcRoots' = [gcRoots EXCEPT ![r] = NewAddr(TheHeap)]
    /\ gcShadow' = Append(gcShadow, [k \in DOMAIN srcs |-> Meaning(srcs[k])])
    /\ gcHeld' = [gcHeld EXCEPT ![r] = Len(gcShadow) + 1]
    /\ UNCHANGED <<gcLayer, gcTame>>

(* The program writes a field of an object it holds.                       *)
GcStore(r, k, src) ==
    /\ \E p \in Headers(TheHeap, gcRoots[r]) :
        /\ p[1] = gcFrom /\ k \in DOMAIN gcTable[gcFrom][p[2]].data
        /\ gcTable[gcFrom][p[2]].id = gcHeld[r]
        /\ gcTable' = [gcTable EXCEPT ![gcFrom][p[2]].data[k] = Word(src)]
    /\ gcShadow' = [gcShadow EXCEPT ![gcHeld[r]][k] = Meaning(src)]
    /\ UNCHANGED <<gcLayer, gcFrom, gcUsed, gcRoots, gcHeld, gcTame>>

GcDrop(r) ==
    /\ gcRoots[r] # 0
    /\ gcRoots' = [gcRoots EXCEPT ![r] = 0]
    /\ gcHeld' = [gcHeld EXCEPT ![r] = 0]
    /\ UNCHANGED <<gcLayer, gcFrom, gcTable, gcUsed, gcShadow, gcTame>>

GcCollect ==
    /\ gcLayer = "heap" /\ gcUsed[gcFrom] > 0
    /\ LET after == Collected(TheHeap, gcRoots)
       IN BecomesHeap(after.heap) /\ gcRoots' = after.roots
    /\ gcTame' = (gcTame /\ Tame(TheHeap, gcRoots))
    /\ UNCHANGED <<gcLayer, gcShadow, gcHeld>>

-----------------------------------------------------------------------------
(* An actor's heap.  Its collection hands gc_collect a copy of state_data  *)
(* as the only root, and flips the spaces once more than gc_collect did.   *)
ActorCollected(h) == Flipped(Collected(h, [s \in {GcState} |-> gcRoots[s]]).heap)

(* gc_should_collect at PNY_GC_AUTO_COLLECT_THRESHOLD.                     *)
ShouldCollect(h) == h.used[h.from] > 0 /\ 100 * h.used[h.from] >= 80 * GcSpace

ActorGcAlloc(r, srcs) ==
    /\ gcLayer = "actor" /\ Len(gcShadow) < GcBirths
    /\ LET n == Len(srcs)
           room == IF Fits(TheHeap, n) THEN TheHeap ELSE ActorCollected(TheHeap)
           filled == WithObject(room, [k \in DOMAIN srcs |-> Word(srcs[k])])
       IN /\ Fits(room, n)
          /\ BecomesHeap(IF ShouldCollect(filled) THEN ActorCollected(filled) ELSE filled)
          /\ gcRoots' = [gcRoots EXCEPT ![r] = NewAddr(room)]
    /\ gcShadow' = Append(gcShadow, [k \in DOMAIN srcs |-> Meaning(srcs[k])])
    /\ gcHeld' = [gcHeld EXCEPT ![r] = Len(gcShadow) + 1]
    /\ UNCHANGED <<gcLayer, gcTame>>

ActorGcCollect ==
    /\ gcLayer = "actor" /\ gcUsed[gcFrom] > 0
    /\ BecomesHeap(ActorCollected(TheHeap))
    /\ UNCHANGED <<gcLayer, gcRoots, gcShadow, gcHeld, gcTame>>

HeapGcNext ==
    \/ GcCollect \/ ActorGcCollect
    \/ \E r \in GcSlots :
        \/ GcDrop(r)
        \/ \E n \in GcFields :
            \/ \E srcs \in [1..n -> Sources] : GcAlloc(r, srcs) \/ ActorGcAlloc(r, srcs)
            \/ \E k \in 1..n, src \in Sources : GcStore(r, k, src)

HeapGcSpec == HeapGcInit /\ [][HeapGcNext]_heapGcVars

-----------------------------------------------------------------------------
(* The object at address a is the one with number id; 0 is NULL.           *)
Denotes(a, id) ==
    IF id = 0 THEN a = 0
    ELSE \E i \in DOMAIN gcTable[gcFrom] :
            gcTable[gcFrom][i].id = id /\ DataAddr(gcFrom, gcTable[gcFrom][i]) = a

(* What the program can still reach, by what it wrote.                     *)
LiveIds ==
    LET Step[n \in 0..Len(gcShadow)] ==
            IF n = 0 THEN {gcHeld[r] : r \in GcSlots} \ {0}
            ELSE Step[n - 1] \cup
                 UNION {{gcShadow[i][k] : k \in DOMAIN gcShadow[i]} \ {0, -1} : i \in Step[n - 1]}
    IN Step[Len(gcShadow)]

SurvivalNow ==
    /\ \A r \in GcSlots : Denotes(gcRoots[r], gcHeld[r])
    /\ \A i \in DOMAIN gcTable[gcFrom] :
        LET o == gcTable[gcFrom][i] IN
        o.id \in LiveIds =>
            \A k \in DOMAIN o.data :
                IF gcShadow[o.id][k] = -1 THEN o.data[k] = 1 ELSE Denotes(o.data[k], gcShadow[o.id][k])

(* A heap used directly (gc.c): a collection moves every object the        *)
(* program can reach, and every root and field follows, as long as no      *)
(* collection met a reference to a later object or two live objects with   *)
(* equal contents (Tame).  gc.h:8 promises it without that condition; the  *)
(* code does not keep the promise then, and nothing is claimed.  Nor is it *)
(* for an actor's heap, whose second flip (runtime.c:1167) leaves the      *)
(* copies in to_space.  Of every heap, whatever happened: the objects of   *)
(* from_space lie side by side, fill what is used, and end within it.      *)
GcSurvival ==
    /\ gcLayer = "heap" /\ gcTame => SurvivalNow
    /\ \A i \in DOMAIN gcTable[gcFrom] :
        LET o == gcTable[gcFrom][i]
        IN o.at + Size(o) = IF i = Len(gcTable[gcFrom]) THEN gcUsed[gcFrom] ELSE gcTable[gcFrom][i + 1].at
    /\ gcUsed[gcFrom] <= GcSpace
=============================================================================
