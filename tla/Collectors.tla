------------------------------ MODULE Collectors ------------------------------
(***************************************************************************)
(* The two collectors: the copying one of gc.c with the actors' heaps, and *)
(* the heap of the WebAssembly runtime.  They have no state in common.     *)
(***************************************************************************)
EXTENDS HeapGc, WasmGc

(* What the two collectors keep.  The copying one (gc.c): what a program   *)
(* can reach, references followed, in heaps used directly and on the       *)
(* histories GcSurvival describes; in an actor's heap (runtime.c           *)
(* 1145-1174) only the shape of the table.  The one of the Wasm runtime:   *)
(* the objects of the roots themselves, their fields and the counts; it    *)
(* does not follow references in fields (wasm_gc.c:376-382), so nothing is *)
(* claimed of an object that only a field refers to.                       *)
HeapsSafe == GcSurvival /\ WasmGcSafety
=============================================================================
