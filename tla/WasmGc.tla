--------------------------------- MODULE WasmGc ---------------------------------
(***************************************************************************)
(* The built-in heap of wasm_gc.c (its "cheney" backend, which marks and   *)
(* sweeps a linked list): structures, arrays, the handles to them, small   *)
(* integers and host pointers in handles, the array of roots, and the      *)
(* collection.  The 64 fields of an object share one union, so the model   *)
(* keeps an object's memory as 4-byte halves: an i32 at index i is half i, *)
(* anything wider at index i is halves 2i and 2i+1.                        *)
(***************************************************************************)
EXTENDS Naturals, Sequences, FiniteSets, SequencesExt, FiniteSetsExt, Lists

CONSTANTS
    WgcLayouts,     \* field lists given to wgc_struct_new: records kind, mut
    WgcLengths,     \* lengths given to wgc_array_new
    WgcValues,      \* what is stored: 1..n
    WgcMaxRoots,    \* WGC_MAX_ROOTS, 256 in the code
    WgcMaxHandles   \* bound: handles ever made

ASSUME WgcAssumption ==
    /\ WgcMaxRoots \in Nat \ {0} /\ WgcMaxHandles \in Nat
    /\ WgcLayouts \subseteq Seq([kind : {"i32", "i64", "f64", "ref"}, mut : BOOLEAN])
    /\ WgcLengths \subseteq Nat /\ WgcValues \subseteq Nat \ {0}

VARIABLES
    wgcList,        \* the objects in the heap's list, newest first
    wgcObjs,        \* every object made: layout, array, mem
    wgcHandles,     \* every handle made: type, ptr, count, null, freed
    wgcRoots,       \* heap->roots, handles
    wgcStats,       \* obj_count, total_alloc, total_freed, collections
    wgcLast,        \* history: the value last stored in each field
    wgcRooted       \* history: per handle, added minus removed

wasmGcVars == <<wgcList, wgcObjs, wgcHandles, wgcRoots, wgcStats, wgcLast, wgcRooted>>

WasmGcInit ==
    /\ wgcList = <<>> /\ wgcObjs = <<>> /\ wgcHandles = <<>> /\ wgcRoots = <<>>
    /\ wgcStats = [count |-> 0, alloc |-> 0, freed |-> 0, collections |-> 0]
    /\ wgcLast = <<>> /\ wgcRooted = <<>>

-----------------------------------------------------------------------------
(* Field indices here start at 0, as in the code.                          *)
Halves(kind, i) == IF kind = "i32" THEN {i} ELSE {2 * i, 2 * i + 1}

(* What a store of v leaves in half k of the field; no two stores agree.   *)
HalfOf(kind, v, k) == IF kind = "i32" THEN 100 + v ELSE 2 * v + (k % 2)

Stored(mem, kind, i, v) ==
    [k \in DOMAIN mem |-> IF k \in Halves(kind, i) THEN HalfOf(kind, v, k) ELSE mem[k]]

(* The getters, with 0 for anything that is not what was stored.           *)
Loaded(mem, kind, i) ==
    IF \E v \in WgcValues : \A k \in Halves(kind, i) : mem[k] = HalfOf(kind, v, k)
    THEN CHOOSE v \in WgcValues : \A k \in Halves(kind, i) : mem[k] = HalfOf(kind, v, k)
    ELSE 0

ObjHandle(type, o, n) == [type |-> type, ptr |-> o, count |-> n, null |-> FALSE, freed |-> FALSE]

NewObject(type, layout) ==
    LET o == Len(wgcObjs) + 1 IN
    /\ Len(wgcHandles) < WgcMaxHandles
    /\ wgcObjs' = Append(wgcObjs, [layout |-> layout, mem |-> [k \in 0..(2 * Len(layout) - 1) |-> 0]])
    /\ wgcList' = <<o>> \o wgcList
    /\ wgcHandles' = Append(wgcHandles, ObjHandle(type, o, Len(layout)))
    /\ wgcLast' = Append(wgcLast, [i \in 0..(Len(layout) - 1) |-> 0])
    /\ wgcRooted' = Append(wgcRooted, 0)
    /\ wgcStats' = [wgcStats EXCEPT !.count = @ + 1, !.alloc = @ + 1]
    /\ UNCHANGED wgcRoots

StructNew(layout) == layout # <<>> /\ NewObject("struct", layout)

ArrayNew(n) == n > 0 /\ NewObject("array", [i \in 1..n |-> [kind |-> "i32", mut |-> TRUE]])

(* wgc_i31_new and wgc_extern_new: the value is the pointer, no object.    *)
NewImmediate(type, v, null) ==
    /\ Len(wgcHandles) < WgcMaxHandles
    /\ wgcHandles' = Append(wgcHandles, [type |-> type, ptr |-> v, count |-> 0, null |-> null, freed |-> FALSE])
    /\ wgcRooted' = Append(wgcRooted, 0)
    /\ wgcStats' = [wgcStats EXCEPT !.alloc = @ + 1]
    /\ UNCHANGED <<wgcList, wgcObjs, wgcRoots, wgcLast>>

I31New(v) == NewImmediate("i31", v, FALSE)
ExternNew(v) == NewImmediate("extern", v, v = 0)

HasObject(h) == wgcHandles[h].type \in {"struct", "array"}
Alive(o) == o \in Range(wgcList)
Usable(h) == ~wgcHandles[h].freed /\ HasObject(h) /\ Alive(wgcHandles[h].ptr)

(* The setters on a handle whose object lives; the types must agree, and   *)
(* the field of a structure must be mutable.                               *)
FieldSet(h, i, kind, v) ==
    LET o == wgcHandles[h].ptr IN
    /\ Usable(h) /\ i < wgcHandles[h].count
    /\ wgcObjs[o].layout[i + 1].kind = kind
    /\ wgcHandles[h].type = "array" \/ wgcObjs[o].layout[i + 1].mut
    /\ wgcObjs' = [wgcObjs EXCEPT ![o].mem = Stored(@, kind, i, v)]
    /\ wgcLast' = [wgcLast EXCEPT ![o][i] = v]
    /\ UNCHANGED <<wgcList, wgcHandles, wgcRoots, wgcStats, wgcRooted>>

(* wgc_add_root; programs root no handle whose object was collected.       *)
AddRoot(h) ==
    /\ ~wgcHandles[h].freed /\ (HasObject(h) => Alive(wgcHandles[h].ptr))
    /\ Len(wgcRoots) < WgcMaxRoots
    /\ wgcRoots' = Append(wgcRoots, h)
    /\ wgcRooted' = [wgcRooted EXCEPT ![h] = @ + 1]
    /\ UNCHANGED <<wgcList, wgcObjs, wgcHandles, wgcStats, wgcLast>>

(* Variant with a bug: the last entry is dropped without being moved.      *)
WithoutLast(h) == SubSeq(wgcRoots, 1, Len(wgcRoots) - 1)

(* The first entry that matches is overwritten by the last.                *)
WithoutRoot(h) ==
    LET first == Min({i \in DOMAIN wgcRoots : wgcRoots[i] = h})
        moved == [wgcRoots EXCEPT ![first] = wgcRoots[Len(wgcRoots)]]
    IN SubSeq(moved, 1, Len(wgcRoots) - 1)

RemoveRoot(h) ==
    /\ h \in Range(wgcRoots)
    /\ wgcRoots' = WithoutRoot(h)
    /\ wgcRooted' = [wgcRooted EXCEPT ![h] = @ - 1]
    /\ UNCHANGED <<wgcList, wgcObjs, wgcHandles, wgcStats, wgcLast>>

(* wgc_ref_free; programs free no handle that is a root.                   *)
RefFree(h) ==
    /\ ~wgcHandles[h].freed /\ h \notin Range(wgcRoots)
    /\ wgcHandles' = [wgcHandles EXCEPT ![h].freed = TRUE]
    /\ UNCHANGED <<wgcList, wgcObjs, wgcRoots, wgcStats, wgcLast, wgcRooted>>

(* wgc_collect: only what a root's handle points to is marked; references  *)
(* in fields are not followed.                                             *)
MarkedObjects == {wgcHandles[r].ptr : r \in {q \in Range(wgcRoots) : HasObject(q)}}

WgcCollect ==
    LET kept == Kept(wgcList, {i \in DOMAIN wgcList : wgcList[i] \in MarkedObjects}) IN
    /\ kept # wgcList
    /\ wgcList' = kept
    /\ wgcStats' = [wgcStats EXCEPT !.count = @ - (Len(wgcList) - Len(kept)),
                                    !.freed = @ + (Len(wgcList) - Len(kept)),
                                    !.collections = @ + 1]
    /\ UNCHANGED <<wgcObjs, wgcHandles, wgcRoots, wgcLast, wgcRooted>>

(* wgc_ref_eq, 0 standing for the NULL pointer.                            *)
RefEq(a, b) ==
    \/ a = b
    \/ a # 0 /\ b # 0
       /\ \/ wgcHandles[a].null /\ wgcHandles[b].null
          \/ wgcHandles[a].ptr = wgcHandles[b].ptr /\ wgcHandles[a].type = wgcHandles[b].type

WasmGcNext ==
    \/ WgcCollect
    \/ \E l \in WgcLayouts : StructNew(l)
    \/ \E n \in WgcLengths : ArrayNew(n)
    \/ \E v \in WgcValues : I31New(v)
    \/ \E v \in WgcValues \cup {0} : ExternNew(v)
    \/ \E h \in DOMAIN wgcHandles :
        \/ AddRoot(h) \/ RemoveRoot(h) \/ RefFree(h)
        \/ \E i \in 0..2, kind \in {"i32", "i64", "f64", "ref"}, v \in WgcValues : FieldSet(h, i, kind, v)

WasmGcSpec == WasmGcInit /\ [][WasmGcNext]_wasmGcVars

-----------------------------------------------------------------------------
Overlapping(layout, i, j) ==
    Halves(layout[i + 1].kind, i) \cap Halves(layout[j + 1].kind, j) # {}

(* A field reads as what was last stored in it, and an immutable one as 0, *)
(* unless the layout puts it on another field's bytes.                     *)
FieldsHold ==
    \A o \in Range(wgcList) :
        LET layout == wgcObjs[o].layout IN
        \A i \in 0..(Len(layout) - 1) :
            (\A j \in 0..(Len(layout) - 1) : j # i => ~Overlapping(layout, i, j))
                => Loaded(wgcObjs[o].mem, layout[i + 1].kind, i) = wgcLast[o][i]

(* The object of a handle that was made a root more often than it was      *)
(* taken back is in the heap; equality of references is an equivalence.    *)
RootsHold ==
    /\ \A h \in DOMAIN wgcHandles : wgcRooted[h] > 0 /\ HasObject(h) => Alive(wgcHandles[h].ptr)
    /\ \A h \in DOMAIN wgcHandles :
        Cardinality({i \in DOMAIN wgcRoots : wgcRoots[i] = h}) = wgcRooted[h]
    /\ \A a, b, c \in 0..Len(wgcHandles) :
        /\ RefEq(a, b) => RefEq(b, a)
        /\ RefEq(a, b) /\ RefEq(b, c) => RefEq(a, c)

(* No object is freed twice or dropped uncounted.                          *)
CountsHold ==
    /\ wgcStats.count = Len(wgcList) /\ IsInjective(wgcList)
    /\ wgcStats.count + wgcStats.freed = Len(wgcObjs)
    /\ wgcStats.alloc = Len(wgcHandles)

WasmGcSafety == FieldsHold /\ RootsHold /\ CountsHold
=============================================================================
