------------------------------ MODULE ServicesProofs ------------------------------
(***************************************************************************)
(* Theorems of the services around the runtime: the incremental cache, the *)
(* debug adapter, the distributed layer, package manifests and versions,   *)
(* and the compiler's table of types.  Each has an inductive invariant     *)
(* that says more than the property: what the cache's entries came from,   *)
(* what a step of the adapter sends, how the units on their way on a       *)
(* connection line up into frames, what the lines of a manifest say, how   *)
(* the references to a type are counted.                                   *)
(***************************************************************************)
EXTENDS Incremental, Debugger, Distributed, Packages, Types, ListFacts

-----------------------------------------------------------------------------
(* The incremental cache.                                                  *)

DepPaths == STRING \cup {NoPath}
Entries == [path : IncrFiles, output : IncrOutputs, hash : IncrContents, deps : Seq(DepPaths)]
StoredMaps == [IncrFiles -> [hash : IncrContents \cup {NoFile}, output : IncrOutputs \cup {NoPath}]]

(* A list of entries and a map of what was stored under each path say the  *)
(* same, one entry for each path.                                          *)
Agree(list, map) ==
    /\ \A i, j \in 1 .. Len(list) : list[i].path = list[j].path => i = j
    /\ \A i \in 1 .. Len(list) : map[list[i].path] = [hash |-> list[i].hash, output |-> list[i].output]
    /\ \A f \in IncrFiles : map[f] # NothingStored[f] => \E i \in 1 .. Len(list) : list[i].path = f

IncrType ==
    /\ disk \in [IncrFiles -> IncrContents \cup {NoFile}]
    /\ incrOpen \in BOOLEAN
    /\ entries \in Seq(Entries) /\ index \in Seq(Entries)
    /\ latest \in StoredMaps /\ saved \in StoredMaps
    /\ answer = NoAnswer \/ answer.path \in IncrFiles

(* The array of an entry's dependencies is never overrun.                  *)
DepsFit ==
    /\ \A i \in 1 .. Len(entries) : Len(entries[i].deps) <= IncrMaxDeps
    /\ \A i \in 1 .. Len(index) : Len(index[i].deps) <= IncrMaxDeps

AnswerTrue == answer.hit => incrOpen /\ latest[answer.path] = [hash |-> answer.content, output |-> answer.output]

IncrInv ==
    /\ IncrType /\ DepsFit
    /\ Agree(index, saved)
    /\ incrOpen => Agree(entries, latest)
    /\ AnswerTrue

(* The entry found for a path is one with that path; 0 says there is none. *)
LEMMA EntryOfLemma ==
    ASSUME entries \in Seq(Entries), NEW f
    PROVE  /\ EntryOf(f) \in 0 .. Len(entries)
           /\ EntryOf(f) = 0 => \A i \in 1 .. Len(entries) : entries[i].path # f
           /\ EntryOf(f) # 0 => EntryOf(f) \in 1 .. Len(entries) /\ entries[EntryOf(f)].path = f
<1> DEFINE I == {i \in 1 .. Len(entries) : entries[i].path = f}
<1>0. Len(entries) \in Nat
  OBVIOUS
<1>1. EntryOf(f) = IF I # {} THEN Min(I) ELSE 0
  BY DEF EntryOf, SelectInSeq
<1>2. CASE I = {}
  BY <1>0, <1>1, <1>2
<1>3. CASE I # {}
  <2>1. I \in SUBSET Nat
    BY <1>0
  <2>2. \E m \in I : \A n \in I : m <= n
    <3> HIDE DEF I
    <3> QED BY <1>3, <2>1, LeastNat
  <2>3. Min(I) \in I
    <3> HIDE DEF I
    <3> QED BY <2>2 DEF Min
  <2>4. EntryOf(f) = Min(I)
    <3> HIDE DEF I
    <3> QED BY <1>1, <1>3
  <2>5. EntryOf(f) \in I
    <3> HIDE DEF I
    <3> QED BY <2>3, <2>4
  <2>6. EntryOf(f) \in 1 .. Len(entries) /\ entries[EntryOf(f)].path = f
    BY <2>5
  <2> QED BY <1>0, <2>6
<1> QED BY <1>2, <1>3

(* A list cut at INCR_MAX_DEPS has at most that many elements.             *)
LEMMA CappedLemma ==
    ASSUME NEW S, NEW s \in Seq(S)
    PROVE  Capped(s) \in Seq(S) /\ Len(Capped(s)) <= IncrMaxDeps
<1>0. IncrMaxDeps \in Nat /\ Len(s) \in Nat
  BY IncrementalAssumption
<1>1. PICK m : m = IF Len(s) <= IncrMaxDeps THEN Len(s) ELSE IncrMaxDeps
  OBVIOUS
<1>2. m \in Nat /\ m <= Len(s) /\ m <= IncrMaxDeps /\ m \in {Len(s), IncrMaxDeps}
  BY <1>0, <1>1
<1>3. Min({Len(s), IncrMaxDeps}) = m
  BY <1>0, <1>2 DEF Min
<1>4. SubSeq(s, 1, m) \in Seq(S) /\ Len(SubSeq(s, 1, m)) = m
  BY <1>0, <1>2, SubSeqProperties
<1> QED BY <1>2, <1>3, <1>4 DEF Capped

(* What a source imports fits the array of an entry.                       *)
LEMMA AnalyzeDepsLemma ==
    ASSUME NEW c \in IncrContents
    PROVE  AnalyzeDeps(c) \in Seq(DepPaths) /\ Len(AnalyzeDeps(c)) <= IncrMaxDeps
<1> DEFINE R == [directive : STRING, path : STRING]
           source == IncrLines[c]
           M == {i \in DOMAIN source : /\ source[i].directive \in {"use", "import", "#include"}
                                      /\ source[i].path # NoPath}
           found == Kept(source, M)
           t == [i \in 1 .. Len(found) |-> found[i].path]
<1>1. source \in Seq(R)
  BY IncrementalAssumption
<1>2. found \in Seq(R)
  <2> HIDE DEF R, M, source
  <2> QED BY <1>1, KeptSelects
<1>3. Len(found) \in Nat /\ \A i \in 1 .. Len(found) : found[i] \in R
  <2> HIDE DEF R, found
  <2> QED BY <1>2, ElementOfSeq
<1>4. t \in Seq(DepPaths)
  <2> HIDE DEF found
  <2>1. \A i \in 1 .. Len(found) : found[i].path \in DepPaths
    BY <1>3 DEF DepPaths
  <2>2. t \in [1 .. Len(found) -> DepPaths]
    BY <2>1
  <2> QED BY <1>3, <2>2
<1>5. AnalyzeDeps(c) = Capped(t)
  BY DEF AnalyzeDeps
<1> HIDE DEF t
<1> QED BY <1>4, <1>5, CappedLemma

(* The entry made for a source has its path, its hash and fitting          *)
(* dependencies.                                                           *)
LEMMA StoredEntryLemma ==
    ASSUME IncrType, NEW f \in IncrFiles, NEW o \in IncrOutputs, disk[f] # NoFile
    PROVE  /\ StoredEntry(f, o) \in Entries /\ Len(StoredEntry(f, o).deps) <= IncrMaxDeps
           /\ StoredEntry(f, o).path = f /\ StoredEntry(f, o).hash = disk[f] /\ StoredEntry(f, o).output = o
<1>1. disk[f] \in IncrContents
  BY DEF IncrType
<1>2. AnalyzeDeps(disk[f]) \in Seq(DepPaths) /\ Len(AnalyzeDeps(disk[f])) <= IncrMaxDeps
  BY <1>1, AnalyzeDepsLemma
<1> QED BY <1>1, <1>2 DEF StoredEntry, Entries

(* An entry read back keeps all but, perhaps, the end of its dependencies. *)
LEMMA ReloadedLemma ==
    ASSUME NEW e \in Entries
    PROVE  /\ Reloaded(e) \in Entries /\ Len(Reloaded(e).deps) <= IncrMaxDeps
           /\ Reloaded(e).path = e.path /\ Reloaded(e).hash = e.hash /\ Reloaded(e).output = e.output
<1> DEFINE blanks == [i \in 1 .. Len(e.deps) |-> NoPath]
           both == blanks \o e.deps
<1>1. e.deps \in Seq(DepPaths) /\ Len(e.deps) \in Nat
  BY DEF Entries
<1>2. blanks \in Seq(DepPaths)
  <2>1. NoPath \in DepPaths
    BY DEF DepPaths
  <2>2. PICK n \in Nat : n = Len(e.deps)
    BY <1>1
  <2>3. [i \in 1 .. n |-> NoPath] \in [1 .. n -> DepPaths]
    BY <2>1
  <2>4. [i \in 1 .. n |-> NoPath] \in Seq(DepPaths)
    BY <2>3
  <2> QED BY <2>2, <2>4
<1>3. both \in Seq(DepPaths)
  BY <1>1, <1>2, ConcatProperties
<1>4. Capped(both) \in Seq(DepPaths) /\ Len(Capped(both)) <= IncrMaxDeps
  <2> HIDE DEF both
  <2> QED BY <1>3, CappedLemma
<1>5. Reloaded(e) = [e EXCEPT !.deps = Capped(both)]
  BY DEF Reloaded
<1> HIDE DEF both
<1> QED BY <1>4, <1>5 DEF Entries

(* The index read back has the entries that were saved, in their order.    *)
LEMMA LoadedLemma ==
    ASSUME index \in Seq(Entries)
    PROVE  /\ LoadedIndex \in Seq(Entries) /\ Len(LoadedIndex) = Len(index)
           /\ \A i \in 1 .. Len(index) :
                /\ Len(LoadedIndex[i].deps) <= IncrMaxDeps
                /\ LoadedIndex[i].path = index[i].path
                /\ LoadedIndex[i].hash = index[i].hash /\ LoadedIndex[i].output = index[i].output
<1>1. Len(index) \in Nat /\ \A i \in 1 .. Len(index) : index[i] \in Entries
  BY ElementOfSeq
<1>2. \A i \in 1 .. Len(index) : LoadedIndex[i] = Reloaded(index[i])
  BY DEF LoadedIndex
<1>3. \A i \in 1 .. Len(index) : Reloaded(index[i]) \in Entries
  BY <1>1, ReloadedLemma
<1>4. LoadedIndex \in Seq(Entries) /\ Len(LoadedIndex) = Len(index)
  BY <1>1, <1>3 DEF LoadedIndex
<1> QED BY <1>1, <1>2, <1>4, ReloadedLemma
-----------------------------------------------------------------------------
NothingType == NothingStored \in StoredMaps

(* The map of a cache that stored nothing is such a map.                   *)
LEMMA NothingLemma == NothingType
BY DEF NothingType, NothingStored, StoredMaps

(* A cache that never stored anything agrees with its map.                 *)
LEMMA IncrStart == ASSUME IncrInit PROVE IncrInv
<1>1. <<>> \in Seq(Entries) /\ Len(<<>>) = 0
  OBVIOUS
<1>2. IncrType
  BY <1>1, NothingLemma DEF IncrInit, IncrType, NothingType
<1>3. Agree(index, saved)
  BY <1>1 DEF IncrInit, Agree
<1>4. DepsFit
  BY <1>1 DEF IncrInit, DepsFit
<1>5. AnswerTrue /\ ~incrOpen
  BY DEF IncrInit, AnswerTrue, NoAnswer
<1> QED BY <1>2, <1>3, <1>4, <1>5 DEF IncrInv

(* Opening reads the index of the last close: paths, digests and outputs   *)
(* as they were written.                                                   *)
LEMMA OpenAgrees == ASSUME IncrInv PROVE Agree(LoadedIndex, saved)
<1>1. index \in Seq(Entries) /\ Agree(index, saved)
  BY DEF IncrInv, IncrType
<1>2. /\ Len(LoadedIndex) = Len(index)
      /\ \A i \in 1 .. Len(index) :
                /\ LoadedIndex[i].path = index[i].path
                /\ LoadedIndex[i].hash = index[i].hash /\ LoadedIndex[i].output = index[i].output
  BY <1>1, LoadedLemma
<1> QED BY <1>1, <1>2 DEF Agree

(* A new path appended to the entries and put in the map keeps them        *)
(* agreed.                                                                 *)
LEMMA AgreeAppended ==
    ASSUME IncrType, Agree(entries, latest), NEW e \in Entries,
           \A i \in 1 .. Len(entries) : entries[i].path # e.path
    PROVE  Agree(Append(entries, e), [latest EXCEPT ![e.path] = [hash |-> e.hash, output |-> e.output]])
<1>1. PICK l \in Nat : l = Len(entries)
  BY DEF IncrType
<1>2. PICK t : t = Append(entries, e)
  OBVIOUS
<1>3. Len(t) = l + 1 /\ t[l + 1] = e /\ \A i \in 1 .. l : t[i] = entries[i]
  BY <1>1, <1>2, AppendProperties DEF IncrType
<1>4. PICK map : map = [latest EXCEPT ![e.path] = [hash |-> e.hash, output |-> e.output]]
  OBVIOUS
<1>5. \A f \in IncrFiles : map[f] = IF f = e.path THEN [hash |-> e.hash, output |-> e.output] ELSE latest[f]
  BY <1>4 DEF IncrType, StoredMaps
<1>6. e.path \in IncrFiles /\ \A i \in 1 .. l : entries[i].path \in IncrFiles
  <2>1. \A i \in 1 .. l : entries[i] \in Entries
    BY <1>1, ElementOfSeq DEF IncrType
  <2> QED BY <2>1 DEF Entries
<1>7. \A i \in 1 .. l + 1 : i \in 1 .. l \/ i = l + 1
  OBVIOUS
<1>8. \A i, j \in 1 .. l + 1 : t[i].path = t[j].path => i = j
  BY <1>1, <1>3, <1>7 DEF Agree
<1>9. \A i \in 1 .. l + 1 : map[t[i].path] = [hash |-> t[i].hash, output |-> t[i].output]
  BY <1>1, <1>3, <1>5, <1>6, <1>7 DEF Agree
<1>10. ASSUME NEW f \in IncrFiles, map[f] # NothingStored[f] PROVE \E i \in 1 .. l + 1 : t[i].path = f
  <2>0. \A i \in 1 .. l : i \in 1 .. l + 1
    BY <1>1
  <2>1. l + 1 \in 1 .. l + 1
    BY <1>1
  <2>2. CASE f = e.path
    BY <1>3, <2>1, <2>2
  <2>3. CASE f # e.path
    <3>1. PICK i \in 1 .. l : entries[i].path = f
      BY <1>1, <1>5, <1>10, <2>3 DEF Agree
    <3> QED BY <1>3, <2>0, <3>1
  <2> QED BY <2>2, <2>3
<1>11. Agree(t, map)
  BY <1>3, <1>8, <1>9, <1>10 DEF Agree
<1> QED BY <1>2, <1>4, <1>11

(* So does the entry of a path replaced by a newer one,                    *)
LEMMA AgreeReplaced ==
    ASSUME IncrType, Agree(entries, latest), NEW e \in Entries,
           NEW k \in 1 .. Len(entries), entries[k].path = e.path
    PROVE  Agree([entries EXCEPT ![k] = e], [latest EXCEPT ![e.path] = [hash |-> e.hash, output |-> e.output]])
<1>1. PICK l \in Nat : l = Len(entries)
  BY DEF IncrType
<1>2. PICK t : t = [entries EXCEPT ![k] = e]
  OBVIOUS
<1>3. Len(t) = l /\ \A i \in 1 .. l : t[i] = IF i = k THEN e ELSE entries[i]
  BY <1>1, <1>2 DEF IncrType
<1>4. PICK map : map = [latest EXCEPT ![e.path] = [hash |-> e.hash, output |-> e.output]]
  OBVIOUS
<1>5. \A f \in IncrFiles : map[f] = IF f = e.path THEN [hash |-> e.hash, output |-> e.output] ELSE latest[f]
  BY <1>4 DEF IncrType, StoredMaps
<1>6. e.path \in IncrFiles /\ \A i \in 1 .. l : entries[i].path \in IncrFiles
  <2>1. \A i \in 1 .. l : entries[i] \in Entries
    BY <1>1, ElementOfSeq DEF IncrType
  <2> QED BY <2>1 DEF Entries
<1>7. \A i \in 1 .. l : t[i].path = entries[i].path
  BY <1>3
<1>8. \A i, j \in 1 .. l : t[i].path = t[j].path => i = j
  BY <1>1, <1>7 DEF Agree
<1>9. \A i \in 1 .. l : map[t[i].path] = [hash |-> t[i].hash, output |-> t[i].output]
  <2> SUFFICES ASSUME NEW i \in 1 .. l PROVE map[t[i].path] = [hash |-> t[i].hash, output |-> t[i].output]
    OBVIOUS
  <2>1. CASE i = k
    BY <1>3, <1>5, <1>6, <2>1
  <2>2. CASE i # k
    <3>1. entries[i].path # e.path
      BY <1>1, <2>2 DEF Agree
    <3>2. t[i] = entries[i]
      BY <1>3, <2>2
    <3> QED BY <1>1, <1>5, <1>6, <3>1, <3>2 DEF Agree
  <2> QED BY <2>1, <2>2
<1>10. ASSUME NEW f \in IncrFiles, map[f] # NothingStored[f] PROVE \E i \in 1 .. l : t[i].path = f
  <2>1. \E i \in 1 .. l : entries[i].path = f
    BY <1>1, <1>5, <1>10 DEF Agree
  <2> QED BY <1>7, <2>1
<1>11. Agree(t, map)
  BY <1>3, <1>8, <1>9, <1>10 DEF Agree
<1> QED BY <1>2, <1>4, <1>11

(* and an entry removed with its path taken from the map.                  *)
LEMMA AgreeRemoved ==
    ASSUME IncrType, Agree(entries, latest), NEW k \in 1 .. Len(entries), NEW f, entries[k].path = f
    PROVE  Agree(RemoveAt(entries, k), [latest EXCEPT ![f] = NothingStored[f]])
<1>1. PICK l \in Nat : l = Len(entries)
  BY DEF IncrType
<1>2. PICK t : t = RemoveAt(entries, k)
  OBVIOUS
<1>3. Len(t) = l - 1 /\ \A i \in 1 .. l - 1 : t[i] = IF i < k THEN entries[i] ELSE entries[i + 1]
  BY <1>1, <1>2, RemoveAtProperties DEF IncrType
<1>4. PICK map : map = [latest EXCEPT ![f] = NothingStored[f]]
  OBVIOUS
<1>5. \A g \in IncrFiles : map[g] = IF g = f THEN NothingStored[f] ELSE latest[g]
  BY <1>4 DEF IncrType, StoredMaps
<1>6. \A i \in 1 .. l : entries[i].path \in IncrFiles
  <2>1. \A i \in 1 .. l : entries[i] \in Entries
    BY <1>1, ElementOfSeq DEF IncrType
  <2> QED BY <2>1 DEF Entries
<1>7. PICK old : old = [i \in 1 .. l - 1 |-> IF i < k THEN i ELSE i + 1]
  OBVIOUS
<1>8. \A i \in 1 .. l - 1 : t[i] = entries[old[i]] /\ old[i] \in 1 .. l /\ old[i] # k
  BY <1>1, <1>3, <1>7
<1>9. \A i, j \in 1 .. l - 1 : old[i] = old[j] => i = j
  BY <1>1, <1>7
<1>10. \A i \in 1 .. l : i # k => \E j \in 1 .. l - 1 : old[j] = i
  <2> SUFFICES ASSUME NEW i \in 1 .. l, i # k PROVE \E j \in 1 .. l - 1 : old[j] = i
    OBVIOUS
  <2>1. CASE i < k
    <3>1. i \in 1 .. l - 1 /\ old[i] = i
      BY <1>1, <1>7, <2>1
    <3> QED BY <3>1
  <2>2. CASE i > k
    <3>1. PICK j \in 1 .. l - 1 : j = i - 1 /\ ~(j < k) /\ j + 1 = i
      BY <1>1, <2>2
    <3>2. old[j] = i
      BY <1>7, <3>1
    <3> QED BY <3>2
  <2> QED BY <1>1, <2>1, <2>2
<1>11. \A i, j \in 1 .. l - 1 : t[i].path = t[j].path => i = j
  BY <1>1, <1>8, <1>9 DEF Agree
<1>12. \A i \in 1 .. l - 1 : map[t[i].path] = [hash |-> t[i].hash, output |-> t[i].output]
  <2> SUFFICES ASSUME NEW i \in 1 .. l - 1 PROVE map[t[i].path] = [hash |-> t[i].hash, output |-> t[i].output]
    OBVIOUS
  <2>1. t[i] = entries[old[i]] /\ old[i] \in 1 .. l /\ entries[old[i]].path # f
    BY <1>1, <1>8 DEF Agree
  <2> QED BY <1>1, <1>5, <1>6, <2>1 DEF Agree
<1>13. ASSUME NEW g \in IncrFiles, map[g] # NothingStored[g] PROVE \E i \in 1 .. l - 1 : t[i].path = g
  <2>1. g # f /\ latest[g] # NothingStored[g]
    BY <1>5, <1>13
  <2>2. PICK i \in 1 .. l : entries[i].path = g
    BY <1>1, <2>1 DEF Agree
  <2>3. PICK j \in 1 .. l - 1 : old[j] = i
    BY <1>10, <2>1, <2>2
  <2> QED BY <1>8, <2>2, <2>3
<1>14. Agree(t, map)
  BY <1>3, <1>11, <1>12, <1>13 DEF Agree
<1> QED BY <1>2, <1>4, <1>14

-----------------------------------------------------------------------------
(* Each step keeps the invariant.                                          *)

FitsOf(list) == \A i \in 1 .. Len(list) : Len(list[i].deps) <= IncrMaxDeps

(* Each operation of the cache, and each edit of a source, preserves the   *)
(* invariant.                                                              *)
LEMMA OpenStep == ASSUME IncrInv, IncrOpenCache PROVE IncrInv'
<1> USE DEF IncrOpenCache
<1>1. LoadedIndex \in Seq(Entries) /\ FitsOf(LoadedIndex)
  BY LoadedLemma DEF IncrInv, IncrType, FitsOf
<1>2. IncrType'
  BY <1>1 DEF IncrInv, IncrType, NoAnswer
<1>3. DepsFit'
  BY <1>1 DEF IncrInv, DepsFit, FitsOf
<1>4. Agree(index, saved)' /\ Agree(entries, latest)'
  BY OpenAgrees DEF IncrInv
<1>5. AnswerTrue'
  BY DEF AnswerTrue, NoAnswer
<1> QED BY <1>2, <1>3, <1>4, <1>5 DEF IncrInv

LEMMA CloseStep == ASSUME IncrInv, IncrClose PROVE IncrInv'
<1> USE DEF IncrClose
<1>0. <<>> \in Seq(Entries) /\ Len(<<>>) = 0
  OBVIOUS
<1>1. IncrType'
  BY <1>0 DEF IncrInv, IncrType, NoAnswer
<1>2. DepsFit'
  BY <1>0 DEF IncrInv, DepsFit
<1>3. Agree(index, saved)'
  BY DEF IncrInv
<1>4. AnswerTrue'
  BY DEF AnswerTrue, NoAnswer
<1> QED BY <1>1, <1>2, <1>3, <1>4 DEF IncrInv

LEMMA CrashStep == ASSUME IncrInv, IncrCrash PROVE IncrInv'
<1> USE DEF IncrCrash
<1>0. <<>> \in Seq(Entries) /\ Len(<<>>) = 0
  OBVIOUS
<1>1. IncrType'
  BY <1>0 DEF IncrInv, IncrType, NoAnswer
<1>2. DepsFit'
  BY <1>0 DEF IncrInv, DepsFit
<1>3. Agree(index, saved)'
  BY DEF IncrInv
<1>4. AnswerTrue'
  BY DEF AnswerTrue, NoAnswer
<1> QED BY <1>1, <1>2, <1>3, <1>4 DEF IncrInv

LEMMA ClearStep == ASSUME IncrInv, IncrClear PROVE IncrInv'
<1> USE DEF IncrClear
<1>0. <<>> \in Seq(Entries) /\ Len(<<>>) = 0
  OBVIOUS
<1>1. IncrType'
  BY <1>0, NothingLemma DEF IncrInv, IncrType, NoAnswer, NothingType
<1>2. DepsFit'
  BY <1>0 DEF IncrInv, DepsFit
<1>3. Agree(<<>>, NothingStored)
  BY <1>0 DEF Agree
<1>4. Agree(index, saved)' /\ Agree(entries, latest)'
  BY <1>3
<1>5. AnswerTrue'
  BY DEF AnswerTrue, NoAnswer
<1> QED BY <1>1, <1>2, <1>4, <1>5 DEF IncrInv

(* A hit names what was last stored, for the file holds that content.      *)
LEMMA IsCachedStep == ASSUME IncrInv, NEW f \in IncrFiles, IncrIsCached(f) PROVE IncrInv'
<1> USE DEF IncrIsCached
<1>1. IncrType'
  BY DEF IncrInv, IncrType
<1>2. DepsFit'
  BY DEF IncrInv, DepsFit
<1>3. Agree(index, saved)' /\ Agree(entries, latest)'
  BY DEF IncrInv
<1>4. AnswerTrue'
  <2>1. answer' = [path |-> f, hit |-> Hit(f), content |-> disk[f], output |-> IncrOutput(f)]
        /\ latest' = latest /\ incrOpen' = incrOpen /\ incrOpen
    OBVIOUS
  <2>2. ASSUME Hit(f) PROVE latest[f] = [hash |-> disk[f], output |-> IncrOutput(f)]
    <3>1. EntryOf(f) # 0 /\ entries[EntryOf(f)].hash = disk[f]
      BY <2>2 DEF Hit
    <3>2. EntryOf(f) \in 1 .. Len(entries) /\ entries[EntryOf(f)].path = f
      BY <3>1, EntryOfLemma DEF IncrInv, IncrType
    <3>3. IncrOutput(f) = entries[EntryOf(f)].output
      BY <3>1 DEF IncrOutput
    <3> QED BY <2>1, <3>1, <3>2, <3>3 DEF IncrInv, Agree
  <2> QED BY <2>1, <2>2 DEF AnswerTrue
<1> QED BY <1>1, <1>2, <1>3, <1>4 DEF IncrInv

LEMMA StoreStep ==
    ASSUME IncrInv, NEW f \in IncrFiles, NEW o \in IncrOutputs, IncrStore(f, o)
    PROVE  IncrInv'
<1> USE DEF IncrStore
<1>0. PICK e : e = StoredEntry(f, o)
  OBVIOUS
<1>1. e \in Entries /\ Len(e.deps) <= IncrMaxDeps /\ e.path = f /\ e.hash = disk[f] /\ e.output = o
  BY <1>0, StoredEntryLemma DEF IncrInv
<1>2. IncrType /\ DepsFit /\ Agree(entries, latest) /\ entries \in Seq(Entries)
  BY DEF IncrInv, IncrType
<1>3. latest' = [latest EXCEPT ![e.path] = [hash |-> e.hash, output |-> e.output]]
  BY <1>1
<1>4. [hash |-> e.hash, output |-> e.output] \in [hash : IncrContents \cup {NoFile}, output : IncrOutputs \cup {NoPath}]
  BY <1>1 DEF Entries
<1>5. latest' \in StoredMaps
  BY <1>1, <1>2, <1>3, <1>4 DEF IncrType, StoredMaps
<1>6. entries' \in Seq(Entries) /\ Agree(entries', latest') /\ FitsOf(entries')
  <2>0. EntryOf(f) = 0 => \A i \in 1 .. Len(entries) : entries[i].path # f
    BY <1>2, EntryOfLemma
  <2>1. CASE EntryOf(f) = 0
    <3>1. entries' = Append(entries, e)
      BY <1>0, <2>1
    <3>2. Agree(Append(entries, e), [latest EXCEPT ![e.path] = [hash |-> e.hash, output |-> e.output]])
      BY <1>1, <1>2, <2>0, <2>1, AgreeAppended
    <3>3. /\ Append(entries, e) \in Seq(Entries) /\ Len(Append(entries, e)) = Len(entries) + 1
          /\ Append(entries, e)[Len(entries) + 1] = e
          /\ \A i \in 1 .. Len(entries) : Append(entries, e)[i] = entries[i]
      BY <1>1, <1>2, AppendProperties
    <3>4. FitsOf(Append(entries, e))
      <4>1. \A i \in 1 .. Len(entries) + 1 : i \in 1 .. Len(entries) \/ i = Len(entries) + 1
        BY <1>2
      <4> QED BY <1>1, <1>2, <3>3, <4>1 DEF FitsOf, DepsFit
    <3> QED BY <1>3, <3>1, <3>2, <3>3, <3>4
  <2>2. CASE EntryOf(f) # 0
    <3>0. PICK k \in 1 .. Len(entries) : k = EntryOf(f) /\ entries[k].path = f
      BY <1>2, <2>2, EntryOfLemma
    <3>1. entries' = [entries EXCEPT ![k] = e]
      BY <1>0, <2>2, <3>0 DEF Restored
    <3>2. Agree([entries EXCEPT ![k] = e], [latest EXCEPT ![e.path] = [hash |-> e.hash, output |-> e.output]])
      BY <1>1, <1>2, <3>0, AgreeReplaced
    <3>3. /\ [entries EXCEPT ![k] = e] \in Seq(Entries) /\ Len([entries EXCEPT ![k] = e]) = Len(entries)
          /\ \A i \in 1 .. Len(entries) : [entries EXCEPT ![k] = e][i] = IF i = k THEN e ELSE entries[i]
      BY <1>1, <1>2
    <3>4. FitsOf([entries EXCEPT ![k] = e])
      BY <1>1, <1>2, <3>3 DEF FitsOf, DepsFit
    <3> QED BY <1>3, <3>1, <3>2, <3>3, <3>4
  <2> QED BY <2>1, <2>2
<1>7. IncrType'
  BY <1>2, <1>5, <1>6 DEF IncrType, NoAnswer
<1>8. DepsFit'
  BY <1>2, <1>6 DEF DepsFit, FitsOf
<1>9. Agree(index, saved)' /\ Agree(entries, latest)'
  BY <1>6 DEF IncrInv
<1>10. AnswerTrue'
  BY DEF AnswerTrue, NoAnswer
<1> QED BY <1>7, <1>8, <1>9, <1>10 DEF IncrInv

LEMMA InvalidateStep == ASSUME IncrInv, NEW f \in IncrFiles, IncrInvalidate(f) PROVE IncrInv'
<1> USE DEF IncrInvalidate
<1>1. IncrType /\ DepsFit /\ Agree(entries, latest) /\ entries \in Seq(Entries) /\ Len(entries) \in Nat
  BY DEF IncrInv, IncrType
<1>2. PICK k \in 1 .. Len(entries) : k = EntryOf(f) /\ entries[k].path = f
  BY <1>1, EntryOfLemma
<1>3. entries' = RemoveAt(entries, k) /\ latest' = [latest EXCEPT ![f] = NothingStored[f]]
  BY <1>2 DEF Invalidated
<1>4. Agree(entries', latest')
  <2>1. Agree(RemoveAt(entries, k), [latest EXCEPT ![f] = NothingStored[f]])
    BY <1>1, <1>2, AgreeRemoved
  <2> QED BY <1>3, <2>1
<1>5. /\ entries' \in Seq(Entries) /\ Len(entries') = Len(entries) - 1
      /\ \A i \in 1 .. Len(entries) - 1 : entries'[i] = IF i < k THEN entries[i] ELSE entries[i + 1]
  BY <1>1, <1>3, RemoveAtProperties
<1>6. FitsOf(entries')
  <2>1. \A i \in 1 .. Len(entries) - 1 : i \in 1 .. Len(entries) /\ i + 1 \in 1 .. Len(entries)
    BY <1>1
  <2> QED BY <1>1, <1>5, <2>1 DEF FitsOf, DepsFit
<1>7. latest' \in StoredMaps
  <2>1. NothingStored[f] \in [hash : IncrContents \cup {NoFile}, output : IncrOutputs \cup {NoPath}]
    BY DEF NothingStored
  <2> QED BY <1>1, <1>3, <2>1 DEF IncrType, StoredMaps
<1>8. IncrType'
  BY <1>1, <1>5, <1>7 DEF IncrType, NoAnswer
<1>9. DepsFit'
  BY <1>1, <1>6 DEF DepsFit, FitsOf
<1>10. Agree(index, saved)' /\ Agree(entries, latest)'
  BY <1>4 DEF IncrInv
<1>11. AnswerTrue'
  BY DEF AnswerTrue, NoAnswer
<1> QED BY <1>8, <1>9, <1>10, <1>11 DEF IncrInv

LEMMA EditStep ==
    ASSUME IncrInv, NEW f \in IncrFiles, NEW c \in IncrContents \cup {NoFile}, IncrEdit(f, c)
    PROVE  IncrInv'
<1> USE DEF IncrEdit
<1>1. IncrType'
  BY DEF IncrInv, IncrType, NoAnswer
<1>2. DepsFit'
  BY DEF IncrInv, DepsFit
<1>3. Agree(index, saved)' /\ (incrOpen => Agree(entries, latest))'
  BY DEF IncrInv
<1>4. AnswerTrue'
  BY DEF AnswerTrue, NoAnswer
<1> QED BY <1>1, <1>2, <1>3, <1>4 DEF IncrInv

LEMMA IncrStutter == ASSUME IncrInv, UNCHANGED incrVars PROVE IncrInv'
<1> USE DEF incrVars
<1>1. IncrType' /\ DepsFit' /\ AnswerTrue'
  BY DEF IncrInv, IncrType, DepsFit, AnswerTrue
<1>2. Agree(index, saved)' /\ (incrOpen => Agree(entries, latest))'
  BY DEF IncrInv
<1> QED BY <1>1, <1>2 DEF IncrInv

LEMMA IncrKeeps == IncrInv /\ [IncrNext]_incrVars => IncrInv'
<1> SUFFICES ASSUME IncrInv, [IncrNext]_incrVars PROVE IncrInv'
  OBVIOUS
<1>1. CASE UNCHANGED incrVars
  BY <1>1, IncrStutter
<1>2. CASE IncrOpenCache \/ IncrClose \/ IncrCrash \/ IncrClear
  BY <1>2, OpenStep, CloseStep, CrashStep, ClearStep
<1>3. ASSUME NEW f \in IncrFiles, IncrIsCached(f) \/ IncrInvalidate(f) PROVE IncrInv'
  BY <1>3, IsCachedStep, InvalidateStep
<1>4. ASSUME NEW f \in IncrFiles, NEW o \in IncrOutputs, IncrStore(f, o) PROVE IncrInv'
  BY <1>4, StoreStep
<1>5. ASSUME NEW f \in IncrFiles, NEW c \in IncrContents \cup {NoFile}, IncrEdit(f, c) PROVE IncrInv'
  BY <1>5, EditStep
<1> QED BY <1>1, <1>2, <1>3, <1>4, <1>5 DEF IncrNext

(* One entry for each path that something was stored under, and none       *)
(* for the others.                                                         *)
LEMMA AgreeSound ==
    ASSUME IncrInv
    PROVE  CacheSound
<1> SUFFICES ASSUME incrOpen PROVE
      /\ \A f \in IncrFiles :
           /\ Cardinality({i \in 1..Len(entries) : entries[i].path = f}) =
                (IF latest[f] = NothingStored[f] THEN 0 ELSE 1)
           /\ EntryOf(f) # 0 => entries[EntryOf(f)].hash = latest[f].hash
           /\ IncrOutput(f) = latest[f].output
      /\ answer.hit => latest[answer.path] = [hash |-> answer.content, output |-> answer.output]
  BY DEF CacheSound
<1>0. entries \in Seq(Entries) /\ Agree(entries, latest) /\ Len(entries) \in Nat
  BY DEF IncrInv, IncrType
<1>1. ASSUME NEW f \in IncrFiles
      PROVE  /\ Cardinality({i \in 1..Len(entries) : entries[i].path = f}) =
                  (IF latest[f] = NothingStored[f] THEN 0 ELSE 1)
             /\ EntryOf(f) # 0 => entries[EntryOf(f)].hash = latest[f].hash
             /\ IncrOutput(f) = latest[f].output
  <2> DEFINE I == {i \in 1..Len(entries) : entries[i].path = f}
  <2>0. NothingStored[f] = [hash |-> NoFile, output |-> NoPath]
    BY DEF NothingStored
  <2>1. CASE EntryOf(f) = 0
    <3>1. \A i \in 1 .. Len(entries) : entries[i].path # f
      BY <1>0, <2>1, EntryOfLemma
    <3>2. latest[f] = NothingStored[f]
      BY <1>0, <3>1 DEF Agree
    <3>3. I = {}
      BY <3>1
    <3>4. Cardinality(I) = 0
      BY <3>3, FS_EmptySet
    <3>5. IncrOutput(f) = NoPath
      BY <2>1 DEF IncrOutput
    <3> QED BY <2>0, <2>1, <3>2, <3>4, <3>5
  <2>2. CASE EntryOf(f) # 0
    <3>1. PICK k \in 1 .. Len(entries) : k = EntryOf(f) /\ entries[k].path = f
      BY <1>0, <2>2, EntryOfLemma
    <3>2. latest[f] = [hash |-> entries[k].hash, output |-> entries[k].output]
      BY <1>0, <3>1 DEF Agree
    <3>3. entries[k].hash \in IncrContents
      <4>1. entries[k] \in Entries
        BY <1>0, ElementOfSeq
      <4> QED BY <4>1 DEF Entries
    <3>4. latest[f] # NothingStored[f]
      BY <2>0, <3>2, <3>3, IncrementalAssumption
    <3>5. I = {k}
      BY <1>0, <3>1 DEF Agree
    <3>6. Cardinality(I) = 1
      BY <3>5, FS_Singleton
    <3>7. IncrOutput(f) = entries[k].output
      BY <2>2, <3>1 DEF IncrOutput
    <3> QED BY <3>1, <3>2, <3>4, <3>6, <3>7
  <2> QED BY <2>1, <2>2
<1> QED BY <1>1 DEF IncrInv, AnswerTrue

(* Across closing, reopening, crashing and clearing, an open cache agrees  *)
(* with the map of what was last stored (incremental.c).                   *)
THEOREM CacheIsSound == IncrSpec => []CacheSound
<1>1. IncrInit => IncrInv
  BY IncrStart
<1>2. IncrInv /\ [IncrNext]_incrVars => IncrInv'
  BY IncrKeeps
<1>3. IncrInv => CacheSound
  BY AgreeSound
<1> QED BY <1>1, <1>2, <1>3, PTL DEF IncrSpec

(* No list of dependencies outgrows its array, though reopening doubles it *)
(* (INCR_MAX_DEPS in incremental.c).                                       *)
THEOREM DependenciesFit == IncrSpec => []DepsFit
<1>1. IncrInit => IncrInv
  BY IncrStart
<1>2. IncrInv /\ [IncrNext]_incrVars => IncrInv'
  BY IncrKeeps
<1>3. IncrInv => DepsFit
  BY DEF IncrInv
<1> QED BY <1>1, <1>2, <1>3, PTL DEF IncrSpec
-----------------------------------------------------------------------------
(* The debug adapter.                                                      *)

Breakpoints == [id : Nat, kind : {"line", "function", "message", "actor"}, file : DapFiles \cup {"none"},
                line : Nat, arg : DapMethods \cup DapActorIds \cup {"none"}, enabled : BOOLEAN, hits : Nat]

DapType ==
    /\ dapBps \in Seq(Breakpoints)
    /\ dapNextBp \in Nat /\ dapBpCount \in Int /\ dapForgotten \in Int
    /\ dapSeq \in Int /\ dapReports \in Int

DapInv == DapType /\ BreakpointsAgree /\ RequestsAnswered

(* What the leaves below need to know of a list of breakpoints.            *)
LEMMA BpsFacts ==
    ASSUME NEW bps \in Seq(Breakpoints)
    PROVE  /\ Len(bps) \in Nat /\ DOMAIN bps = 1 .. Len(bps)
           /\ \A i \in 1 .. Len(bps) : bps[i] \in Breakpoints /\ bps[i].hits \in Int /\ bps[i].id \in Nat
<1>1. Len(bps) \in Nat /\ DOMAIN bps = 1 .. Len(bps) /\ \A i \in 1 .. Len(bps) : bps[i] \in Breakpoints
  BY ElementOfSeq
<1> QED BY <1>1 DEF Breakpoints

(* The hits of a list, as a sum over its elements.                         *)
HitsOfOne == [b \in Breakpoints |-> b.hits]

(* The hits of a list of breakpoints are a total over its places.          *)
LEMMA HitsAdd ==
    ASSUME NEW bps \in Seq(Breakpoints)
    PROVE  /\ HitsOf(bps) = Total(Weighed(bps, HitsOfOne)) /\ HitsOfOne \in [Breakpoints -> Int]
           /\ Weighed(bps, HitsOfOne) \in Seq(Int) /\ Len(Weighed(bps, HitsOfOne)) = Len(bps)
           /\ \A i \in 1 .. Len(bps) : Weighed(bps, HitsOfOne)[i] = bps[i].hits
           /\ HitsOf(bps) \in Int
<1>1. HitsOfOne \in [Breakpoints -> Int]
  <2>1. \A b \in Breakpoints : b.hits \in Int
    BY DEF Breakpoints
  <2> QED BY <2>1 DEF HitsOfOne
<1>2. \A i \in 1 .. Len(bps) : HitsOfOne[bps[i]] = bps[i].hits
  BY BpsFacts DEF HitsOfOne
<1>3. Weighed(bps, HitsOfOne) = [i \in DOMAIN bps |-> bps[i].hits]
  BY <1>2, BpsFacts DEF Weighed
<1>4. HitsOf(bps) = Total(Weighed(bps, HitsOfOne))
  BY <1>3 DEF HitsOf
<1>5. /\ Weighed(bps, HitsOfOne) \in Seq(Int) /\ Len(Weighed(bps, HitsOfOne)) = Len(bps)
      /\ \A i \in 1 .. Len(bps) : Weighed(bps, HitsOfOne)[i] = HitsOfOne[bps[i]]
  BY <1>1, WeighedType
<1>6. Total(Weighed(bps, HitsOfOne)) \in Int
  BY <1>5, TotalType
<1> QED BY <1>1, <1>2, <1>4, <1>5, <1>6

(* A new breakpoint at the front has counted nothing,                      *)
LEMMA HitsPrepended ==
    ASSUME NEW bps \in Seq(Breakpoints), NEW b \in Breakpoints, b.hits = 0
    PROVE  HitsOf(<<b>> \o bps) = HitsOf(bps)
<1>1. PICK t : t = <<b>> \o bps
  OBVIOUS
<1>2. PICK l \in Nat : l = Len(bps)
  OBVIOUS
<1>3. /\ t \in Seq(Breakpoints) /\ Len(t) = l + 1
      /\ \A i \in 1 .. l + 1 : t[i] = IF i = 1 THEN b ELSE bps[i - 1]
  BY <1>1, <1>2, PrependProperties
<1>4. PICK x, y : x = Weighed(bps, HitsOfOne) /\ y = Weighed(t, HitsOfOne)
  OBVIOUS
<1>5. x \in Seq(Int) /\ Len(x) = l /\ HitsOf(bps) = Total(x) /\ \A i \in 1 .. l : x[i] = bps[i].hits
  BY <1>2, <1>4, HitsAdd
<1>6. y \in Seq(Int) /\ Len(y) = l + 1 /\ HitsOf(t) = Total(y) /\ \A i \in 1 .. l + 1 : y[i] = t[i].hits
  BY <1>3, <1>4, HitsAdd
<1>7. \A i \in 1 .. l : y[i + 1] = x[i]
  <2> SUFFICES ASSUME NEW i \in 1 .. l PROVE y[i + 1] = x[i]
    OBVIOUS
  <2>1. i + 1 \in 1 .. l + 1 /\ i + 1 # 1 /\ (i + 1) - 1 = i
    OBVIOUS
  <2>2. t[i + 1] = bps[i]
    BY <1>3, <2>1
  <2> QED BY <1>5, <1>6, <2>1, <2>2
<1>8. y[1] = 0
  BY <1>3, <1>6
<1>9. Total(y) = Total(x) + 0
  <2>1. PICK e \in Int : e = 0
    OBVIOUS
  <2>2. y[1] = e
    BY <1>8, <2>1
  <2>3. Total(y) = Total(x) + e
    BY <1>5, <1>6, <1>7, <2>2, TotalPrepended
  <2> QED BY <2>1, <2>3
<1>10. Total(x) \in Int
  BY <1>5, TotalType
<1> QED BY <1>1, <1>5, <1>6, <1>9, <1>10

(* one that is removed takes its own hits along,                           *)
LEMMA HitsRemoved ==
    ASSUME NEW bps \in Seq(Breakpoints), NEW k \in 1 .. Len(bps)
    PROVE  HitsOf(RemoveAt(bps, k)) = HitsOf(bps) - bps[k].hits
<1>1. PICK t : t = RemoveAt(bps, k)
  OBVIOUS
<1>2. PICK l \in Nat : l = Len(bps)
  OBVIOUS
<1>3. /\ t \in Seq(Breakpoints) /\ Len(t) = l - 1
      /\ \A i \in 1 .. l - 1 : t[i] = IF i < k THEN bps[i] ELSE bps[i + 1]
  BY <1>1, <1>2, RemoveAtProperties
<1>4. PICK x, y : x = Weighed(bps, HitsOfOne) /\ y = Weighed(t, HitsOfOne)
  OBVIOUS
<1>5. x \in Seq(Int) /\ Len(x) = l /\ HitsOf(bps) = Total(x) /\ \A i \in 1 .. l : x[i] = bps[i].hits
  BY <1>2, <1>4, HitsAdd
<1>6. y \in Seq(Int) /\ Len(y) = l - 1 /\ HitsOf(t) = Total(y) /\ \A i \in 1 .. l - 1 : y[i] = t[i].hits
  BY <1>3, <1>4, HitsAdd
<1>7. \A i \in 1 .. l - 1 : y[i] = IF i < k THEN x[i] ELSE x[i + 1]
  <2> SUFFICES ASSUME NEW i \in 1 .. l - 1 PROVE y[i] = IF i < k THEN x[i] ELSE x[i + 1]
    OBVIOUS
  <2>1. i \in 1 .. l /\ i + 1 \in 1 .. l
    OBVIOUS
  <2> QED BY <1>3, <1>5, <1>6, <2>1
<1>8. Total(y) = Total(x) - x[k]
  BY <1>2, <1>5, <1>6, <1>7, TotalRemoved
<1> QED BY <1>1, <1>2, <1>5, <1>6, <1>8

(* and a change at one place changes the sum by that much.                 *)
LEMMA HitsChanged ==
    ASSUME NEW bps \in Seq(Breakpoints), NEW k \in 1 .. Len(bps), NEW t \in Seq(Breakpoints),
           Len(t) = Len(bps), \A i \in 1 .. Len(bps) : i # k => t[i] = bps[i]
    PROVE  HitsOf(t) = HitsOf(bps) + (t[k].hits - bps[k].hits)
<1>2. PICK l \in Nat : l = Len(bps)
  OBVIOUS
<1>4. PICK x, y : x = Weighed(bps, HitsOfOne) /\ y = Weighed(t, HitsOfOne)
  OBVIOUS
<1>5. x \in Seq(Int) /\ Len(x) = l /\ HitsOf(bps) = Total(x) /\ \A i \in 1 .. l : x[i] = bps[i].hits
  BY <1>2, <1>4, HitsAdd
<1>6. y \in Seq(Int) /\ Len(y) = l /\ HitsOf(t) = Total(y) /\ \A i \in 1 .. l : y[i] = t[i].hits
  BY <1>2, <1>4, HitsAdd
<1>7. \A i \in 1 .. l : i # k => y[i] = x[i]
  BY <1>2, <1>5, <1>6
<1>8. Total(y) = Total(x) + (y[k] - x[k])
  BY <1>2, <1>5, <1>6, <1>7, TotalChanged
<1> QED BY <1>2, <1>5, <1>6, <1>8
-----------------------------------------------------------------------------
(* What a step sends.                                                      *)

OneMessage(m) ==
    /\ Len(dapOut') = 1 /\ DOMAIN dapOut' = {1} /\ dapOut' # <<>>
    /\ dapOut'[1].msg = m /\ dapOut'[1].seq = dapSeq' - 1

TwoMessages(m, e) ==
    /\ Len(dapOut') = 2 /\ DOMAIN dapOut' = {1, 2} /\ dapOut' # <<>>
    /\ dapOut'[1].msg = m /\ dapOut'[1].seq = dapSeq' - 2
    /\ dapOut'[2].msg = e /\ dapOut'[2].seq = dapSeq' - 1

(* What sending one message, and then two, does to the numbers of the      *)
(* adapter.                                                                *)
LEMMA SendsOne ==
    ASSUME DapType, NEW m, Sends(<<m>>)
    PROVE  /\ dapSeq' \in Int /\ OneMessage(m)
           /\ dapReports' = dapReports + (IF m = Event("stopped") THEN 1 ELSE 0)
<1>1. Len(<<m>>) = 1 /\ DOMAIN <<m>> = {1} /\ <<m>>[1] = m
  OBVIOUS
<1>2. dapOut' = [i \in {1} |-> [seq |-> dapSeq + i - 1, msg |-> <<m>>[i]]] /\ dapSeq' = dapSeq + 1
  BY <1>1 DEF Sends
<1>3. dapOut' = <<[seq |-> dapSeq + 1 - 1, msg |-> m]>>
  <2>1. {1} = 1 .. 1
    OBVIOUS
  <2> QED BY <1>1, <1>2, <2>1
<1>4. dapSeq \in Int
  BY DEF DapType
<1>5. OneMessage(m) /\ dapSeq' \in Int
  BY <1>2, <1>3, <1>4 DEF OneMessage
<1>6. {i \in DOMAIN <<m>> : <<m>>[i] = Event("stopped")} = IF m = Event("stopped") THEN {1} ELSE {}
  BY <1>1
<1>7. Cardinality({1}) = 1 /\ Cardinality({}) = 0
  BY FS_Singleton, FS_EmptySet
<1>8. dapReports' = dapReports + Cardinality({i \in DOMAIN <<m>> : <<m>>[i] = Event("stopped")})
  BY DEF Sends
<1> QED BY <1>5, <1>6, <1>7, <1>8

LEMMA SendsTwo ==
    ASSUME DapType, NEW m, NEW e, Sends(<<m, e>>), m # Event("stopped"), e # Event("stopped")
    PROVE  /\ dapSeq' \in Int /\ TwoMessages(m, e) /\ dapReports' = dapReports
<1>1. Len(<<m, e>>) = 2 /\ DOMAIN <<m, e>> = {1, 2} /\ <<m, e>>[1] = m /\ <<m, e>>[2] = e
  OBVIOUS
<1>2. dapOut' = [i \in {1, 2} |-> [seq |-> dapSeq + i - 1, msg |-> <<m, e>>[i]]] /\ dapSeq' = dapSeq + 2
  BY <1>1 DEF Sends
<1>3. dapOut' = <<[seq |-> dapSeq + 1 - 1, msg |-> m], [seq |-> dapSeq + 2 - 1, msg |-> e]>>
  <2>1. {1, 2} = 1 .. 2
    OBVIOUS
  <2> QED BY <1>1, <1>2, <2>1
<1>4. dapSeq \in Int /\ dapReports \in Int
  BY DEF DapType
<1>5. TwoMessages(m, e) /\ dapSeq' \in Int
  BY <1>2, <1>3, <1>4 DEF TwoMessages
<1>6. {i \in DOMAIN <<m, e>> : <<m, e>>[i] = Event("stopped")} = {}
  BY <1>1
<1>7. dapReports' = dapReports + Cardinality({i \in DOMAIN <<m, e>> : <<m, e>>[i] = Event("stopped")})
  BY DEF Sends
<1> QED BY <1>4, <1>5, <1>6, <1>7, FS_EmptySet

(* A request is answered, with perhaps an event after that.                *)
Answers ==
    \E m : m.type = "response" /\ (OneMessage(m) \/ \E e : e.type = "event" /\ TwoMessages(m, e))
Notifies == \E e : e.type = "event" /\ OneMessage(e)

FileHas(req) ==
    (req.command = "setBreakpoints" /\ req.line >= 0) =>
        {dapBps'[i].line : i \in {j \in DOMAIN dapBps' : dapBps'[j].file = req.file}} = {req.line} \ {0}

(* A request that was answered first, and a step without one, satisfy the  *)
(* promise.                                                                *)
LEMMA AnsweredRequest ==
    ASSUME Answers, dapReq' # NoReq, FileHas(dapReq'), dapSeq' \in Int
    PROVE  RequestsAnswered'
<1>1. PICK m : m.type = "response" /\ (OneMessage(m) \/ \E e : e.type = "event" /\ TwoMessages(m, e))
  BY DEF Answers
<1>2. CASE OneMessage(m)
  <2>1. \A i \in DOMAIN dapOut' : i = 1
    BY <1>2 DEF OneMessage
  <2>2. dapOut'[1].msg.type = "response" /\ dapOut'[1].seq = dapSeq' - Len(dapOut') + 1 - 1
    BY <1>1, <1>2 DEF OneMessage
  <2>3. \A i \in DOMAIN dapOut' :
          /\ dapOut'[i].seq = dapSeq' - Len(dapOut') + i - 1
          /\ (dapOut'[i].msg.type = "response") <=> (i = 1 /\ dapReq' # NoReq)
    BY <2>1, <2>2
  <2>4. dapOut' # <<>>
    BY <1>2 DEF OneMessage
  <2> QED BY <2>3, <2>4 DEF RequestsAnswered, FileHas
<1>3. CASE \E e : e.type = "event" /\ TwoMessages(m, e)
  <2>1. PICK e : e.type = "event" /\ TwoMessages(m, e)
    BY <1>3
  <2>2. \A i \in DOMAIN dapOut' : i = 1 \/ i = 2
    BY <2>1 DEF TwoMessages
  <2>3. dapOut'[1].msg.type = "response" /\ dapOut'[1].seq = dapSeq' - Len(dapOut') + 1 - 1
    BY <1>1, <2>1 DEF TwoMessages
  <2>4. dapOut'[2].msg.type # "response" /\ dapOut'[2].seq = dapSeq' - Len(dapOut') + 2 - 1
    BY <2>1 DEF TwoMessages
  <2>5. \A i \in DOMAIN dapOut' :
          /\ dapOut'[i].seq = dapSeq' - Len(dapOut') + i - 1
          /\ (dapOut'[i].msg.type = "response") <=> (i = 1 /\ dapReq' # NoReq)
    BY <2>2, <2>3, <2>4
  <2>6. dapOut' # <<>>
    BY <2>1 DEF TwoMessages
  <2> QED BY <2>5, <2>6 DEF RequestsAnswered, FileHas
<1> QED BY <1>1, <1>2, <1>3

LEMMA NoRequest ==
    ASSUME dapReq' = NoReq, dapSeq' \in Int, Notifies \/ dapOut' = <<>>
    PROVE  RequestsAnswered'
<1>1. NoReq.command = "none"
  BY DEF NoReq
<1>2. CASE Notifies
  BY <1>1, <1>2 DEF RequestsAnswered, OneMessage, Notifies
<1>3. CASE dapOut' = <<>>
  BY <1>1, <1>3 DEF RequestsAnswered
<1> QED BY <1>2, <1>3
-----------------------------------------------------------------------------
(* What the steps do to the list of breakpoints.                           *)

BpsLeft == dapBps' = dapBps /\ dapNextBp' = dapNextBp /\ dapBpCount' = dapBpCount /\ dapForgotten' = dapForgotten

(* An adapter without breakpoints satisfies the invariant.                 *)
LEMMA DapStart == ASSUME DebuggerInit PROVE DapInv
<1>0. <<>> \in Seq(Breakpoints) /\ <<>> \in Seq(Int) /\ Len(<<>>) = 0 /\ DOMAIN <<>> = {}
  OBVIOUS
<1>1. DapType
  BY <1>0 DEF DebuggerInit, DapType
<1>2. HitsOf(<<>>) = 0
  <2>1. [i \in DOMAIN <<>> |-> <<>>[i].hits] = <<>>
    BY <1>0
  <2> QED BY <2>1, TotalEmpty DEF HitsOf
<1>3. BreakpointsAgree
  BY <1>0, <1>2 DEF DebuggerInit, BreakpointsAgree
<1>4. RequestsAnswered
  BY <1>0 DEF DebuggerInit, RequestsAnswered, NoReq
<1> QED BY <1>1, <1>3, <1>4 DEF DapInv

(* A step that leaves the breakpoints alone leaves what is said of them.   *)
LEMMA BpsStay ==
    ASSUME DapInv, BpsLeft, dapSeq' \in Int, dapReports' = dapReports
    PROVE  DapType' /\ BreakpointsAgree'
BY DEF DapInv, BpsLeft, DapType, BreakpointsAgree

(* A new breakpoint comes first, numbered as none before.                  *)
LEMMA BpAdded ==
    ASSUME DapInv, NEW bps \in Seq(Breakpoints), NEW b \in Breakpoints,
           b.hits = 0, b.id = dapNextBp,
           \A i, j \in 1 .. Len(bps) : i < j => bps[i].id > bps[j].id,
           \A i \in 1 .. Len(bps) : bps[i].id < dapNextBp,
           dapBps' = <<b>> \o bps, dapNextBp' = dapNextBp + 1, dapBpCount' = Len(bps) + 1,
           dapForgotten' \in Int, HitsOf(bps) + dapForgotten' = dapReports,
           dapSeq' \in Int, dapReports' = dapReports
    PROVE  DapType' /\ BreakpointsAgree'
<1>0. PICK n \in Nat : n = dapNextBp
  BY DEF DapInv, DapType
<1>1. PICK l \in Nat : l = Len(bps)
  BY BpsFacts
<1>2. /\ dapBps' \in Seq(Breakpoints) /\ Len(dapBps') = l + 1 /\ DOMAIN dapBps' = 1 .. l + 1
      /\ \A i \in 1 .. l + 1 : dapBps'[i] = IF i = 1 THEN b ELSE bps[i - 1]
  BY <1>1, PrependProperties
<1>3. HitsOf(dapBps') = HitsOf(bps)
  BY HitsPrepended
<1>4. \A i \in 1 .. l + 1 : i = 1 \/ (i - 1 \in 1 .. l /\ dapBps'[i] = bps[i - 1])
  BY <1>2
<1>5. \A i \in 1 .. l : bps[i].id \in Nat
  BY <1>1, BpsFacts
<1>6. dapBps'[1] = b
  BY <1>2
<1>10. \A i, j \in 1 .. l : i < j => bps[i].id > bps[j].id
  BY <1>1
<1>11. \A i \in 1 .. l : bps[i].id < n
  BY <1>0, <1>1
<1>7. ASSUME NEW i \in 1 .. l + 1, NEW j \in 1 .. l + 1, i < j PROVE dapBps'[i].id > dapBps'[j].id
  <2>0. j # 1
    BY <1>7
  <2>1. j # 1 /\ j - 1 \in 1 .. l /\ dapBps'[j] = bps[j - 1]
    BY <1>4, <2>0
  <2>2. CASE i = 1
    <3>1. bps[j - 1].id < n /\ dapBps'[i].id = n
      BY <1>0, <1>6, <1>11, <2>1, <2>2
    <3> QED BY <1>5, <2>1, <3>1
  <2>3. CASE i # 1
    <3>1. i - 1 \in 1 .. l /\ dapBps'[i] = bps[i - 1]
      BY <1>4, <2>3
    <3>2. i - 1 < j - 1
      BY <1>7
    <3> QED BY <1>10, <2>1, <3>1, <3>2
  <2> QED BY <2>2, <2>3
<1>8. ASSUME NEW i \in 1 .. l + 1 PROVE dapBps'[i].id < n + 1
  <2>1. CASE i = 1
    BY <1>0, <1>6, <2>1
  <2>2. CASE i # 1
    <3>1. i - 1 \in 1 .. l /\ dapBps'[i] = bps[i - 1]
      BY <1>4, <2>2
    <3>2. bps[i - 1].id < n /\ bps[i - 1].id \in Nat
      BY <1>5, <1>11, <3>1
    <3>3. PICK x \in Nat : x = bps[i - 1].id
      BY <3>2
    <3>4. x < n /\ x < n + 1
      BY <3>2, <3>3
    <3>5. dapBps'[i].id = x
      BY <3>1, <3>3
    <3> QED BY <3>4, <3>5
  <2> QED BY <2>1, <2>2
<1>9. DapType'
  BY <1>0, <1>1, <1>2 DEF DapInv, DapType
<1> QED BY <1>0, <1>1, <1>2, <1>3, <1>7, <1>8, <1>9 DEF BreakpointsAgree

(* What is kept of the list stays in order.                                *)
LEMMA KeptOrdered ==
    ASSUME DapInv, NEW M, NEW N, \A i \in 1 .. Len(dapBps) : i \in M <=> i \notin N
    PROVE  LET others == Kept(dapBps, M)  gone == Kept(dapBps, N)
           IN  /\ others \in Seq(Breakpoints) /\ gone \in Seq(Breakpoints)
               /\ \A i, j \in 1 .. Len(others) : i < j => others[i].id > others[j].id
               /\ \A i \in 1 .. Len(others) : others[i].id < dapNextBp
               /\ \A i \in 1 .. Len(others) : \E k \in M \cap 1 .. Len(dapBps) : others[i] = dapBps[k]
               /\ Len(others) + Len(gone) = Len(dapBps)
               /\ HitsOf(others) + HitsOf(gone) = HitsOf(dapBps)
<1>1. PICK others, gone : others = Kept(dapBps, M) /\ gone = Kept(dapBps, N)
  OBVIOUS
<1>2. dapBps \in Seq(Breakpoints)
  BY DEF DapInv, DapType
<1>3. others \in Seq(Breakpoints) /\ \E g : Selects(others, dapBps, M, Len(dapBps), g)
  BY <1>1, <1>2, KeptSelects
<1>4. gone \in Seq(Breakpoints)
  BY <1>1, <1>2, KeptSelects
<1>5. PICK g : Selects(others, dapBps, M, Len(dapBps), g)
  BY <1>3
<1>6. PICK l \in Nat, m \in Nat : l = Len(dapBps) /\ m = Len(others)
  BY <1>2, <1>3
<1>7. /\ \A i \in 1 .. m : g[i] \in M \cap 1 .. l /\ others[i] = dapBps[g[i]]
      /\ \A i, j \in 1 .. m : i < j => g[i] < g[j]
  BY <1>5, <1>6 DEF Selects
<1>8. /\ \A i, j \in 1 .. l : i < j => dapBps[i].id > dapBps[j].id
      /\ \A i \in 1 .. l : dapBps[i].id < dapNextBp
  BY <1>2, <1>6 DEF DapInv, BreakpointsAgree
<1>9. \A i, j \in 1 .. m : i < j => others[i].id > others[j].id
  BY <1>7, <1>8
<1>10. \A i \in 1 .. m : others[i].id < dapNextBp
  BY <1>7, <1>8
<1>11. \A i \in 1 .. m : \E k \in M \cap 1 .. l : others[i] = dapBps[k]
  BY <1>7
<1>12. HitsOfOne \in [Breakpoints -> Int]
  BY <1>2, HitsAdd
<1>13. /\ Len(others) + Len(gone) = Len(dapBps)
       /\ Total(Weighed(others, HitsOfOne)) + Total(Weighed(gone, HitsOfOne)) = Total(Weighed(dapBps, HitsOfOne))
  BY <1>1, <1>2, <1>12, KeptSplits
<1>14. HitsOf(others) + HitsOf(gone) = HitsOf(dapBps)
  BY <1>2, <1>3, <1>4, <1>13, HitsAdd
<1> QED BY <1>1, <1>3, <1>4, <1>6, <1>9, <1>10, <1>11, <1>13, <1>14

(* setBreakpoints replaces the breakpoints of one file by those it names.  *)
LEMMA SetBreakpointsStep ==
    ASSUME DapInv, NEW file \in DapFiles, NEW line \in Nat \cup {-1}, HandleSetBreakpoints(file, line)
    PROVE  /\ DapType' /\ BreakpointsAgree'
           /\ line >= 0 => {dapBps'[i].line : i \in {j \in DOMAIN dapBps' : dapBps'[j].file = file}} = {line} \ {0}
<1>1. DapType /\ BreakpointsAgree /\ dapNextBp \in Nat /\ dapBps \in Seq(Breakpoints)
  BY DEF DapInv, DapType
<1>2. dapSeq' \in Int /\ dapReports' = dapReports
  <2>1. PICK r : Sends(<<r>>) /\ r.type = "response"
    BY DEF HandleSetBreakpoints, Response
  <2>2. r # Event("stopped")
    BY <2>1 DEF Event
  <2>3. dapReports \in Int
    BY <1>1 DEF DapType
  <2> QED BY <1>1, <2>1, <2>2, <2>3, SendsOne
<1>3. CASE line < 0
  <2>1. BpsLeft
    BY <1>3 DEF HandleSetBreakpoints, BpsLeft, bpVars
  <2> QED BY <1>2, <1>3, <2>1, BpsStay
<1>4. CASE line >= 0
  <2> DEFINE M == {i \in DOMAIN dapBps : dapBps[i].file # file}
             N == {i \in DOMAIN dapBps : dapBps[i].file = file}
             b == NewBp("line", file, line, "none")
  <2>1. PICK others, gone : others = Kept(dapBps, M) /\ gone = Kept(dapBps, N)
    OBVIOUS
  <2>2. \A i \in 1 .. Len(dapBps) : i \in M <=> i \notin N
    BY <1>1, BpsFacts
  <2>3. \A i \in M : dapBps[i].file # file
    OBVIOUS
  <2>4. /\ dapBps' = IF line > 0 THEN <<b>> \o others ELSE others
        /\ dapNextBp' = dapNextBp + (IF line > 0 THEN 1 ELSE 0)
        /\ dapBpCount' = dapBpCount - Len(gone) + (IF line > 0 THEN 1 ELSE 0)
        /\ dapForgotten' = dapForgotten + HitsOf(gone)
    BY <1>4, <2>1 DEF HandleSetBreakpoints
  <2>5. b \in Breakpoints /\ b.hits = 0 /\ b.id = dapNextBp /\ b.file = file /\ b.line = line
    BY <1>1, <1>4 DEF NewBp, Breakpoints
  <2> HIDE DEF M, N, b
  <2>6. /\ others \in Seq(Breakpoints) /\ gone \in Seq(Breakpoints)
        /\ \A i, j \in 1 .. Len(others) : i < j => others[i].id > others[j].id
        /\ \A i \in 1 .. Len(others) : others[i].id < dapNextBp
        /\ \A i \in 1 .. Len(others) : \E k \in M \cap 1 .. Len(dapBps) : others[i] = dapBps[k]
        /\ Len(others) + Len(gone) = Len(dapBps)
        /\ HitsOf(others) + HitsOf(gone) = HitsOf(dapBps)
    BY <2>1, <2>2, KeptOrdered
  <2>7. \A i \in 1 .. Len(others) : others[i].file # file
    BY <2>3, <2>6
  <2>8. PICK l \in Nat, x \in Nat, y \in Int, z \in Int, f \in Int :
            /\ l = Len(others) /\ x = Len(gone) /\ y = HitsOf(others) /\ z = HitsOf(gone) /\ f = dapForgotten
    BY <1>1, <2>6, HitsAdd DEF DapType
  <2>9. dapBpCount = l + x /\ (y + z) + f = dapReports
    BY <1>1, <2>6, <2>8 DEF BreakpointsAgree
  <2>10. dapForgotten' = f + z /\ HitsOf(others) + dapForgotten' = dapReports /\ dapForgotten' \in Int
    <3>1. dapForgotten' = f + z
      BY <2>4, <2>8
    <3>2. y + (f + z) = dapReports
      BY <2>8, <2>9
    <3> QED BY <2>8, <3>1, <3>2
  <2>11. CASE line > 0
    <3>1. dapBps' = <<b>> \o others /\ dapNextBp' = dapNextBp + 1 /\ dapBpCount' = Len(others) + 1
      <4>1. dapBpCount' = (l + x) - x + 1
        BY <2>4, <2>8, <2>9, <2>11
      <4> QED BY <2>4, <2>8, <2>11, <4>1
    <3>2. DapType' /\ BreakpointsAgree'
      BY <1>2, <2>5, <2>6, <2>10, <3>1, BpAdded
    <3>3. /\ DOMAIN dapBps' = 1 .. l + 1
          /\ \A i \in 1 .. l + 1 : dapBps'[i] = IF i = 1 THEN b ELSE others[i - 1]
      BY <2>5, <2>6, <2>8, <3>1, PrependProperties
    <3>4. \A i \in 1 .. l + 1 : dapBps'[i].file = file <=> i = 1
      <4> SUFFICES ASSUME NEW i \in 1 .. l + 1, i # 1 PROVE dapBps'[i].file # file
        BY <2>5, <3>3
      <4>1. i - 1 \in 1 .. l /\ dapBps'[i] = others[i - 1]
        BY <3>3
      <4> QED BY <2>7, <2>8, <4>1
    <3>5. {j \in DOMAIN dapBps' : dapBps'[j].file = file} = {1} /\ dapBps'[1].line = line
      <4>1. 1 \in 1 .. l + 1
        BY <2>8
      <4> QED BY <2>5, <3>3, <3>4, <4>1
    <3>6. {dapBps'[i].line : i \in {j \in DOMAIN dapBps' : dapBps'[j].file = file}} = {line} \ {0}
      BY <2>11, <3>5
    <3> QED BY <3>2, <3>6
  <2>12. CASE line = 0
    <3>1. dapBps' = others /\ dapNextBp' = dapNextBp /\ dapBpCount' = Len(others)
      <4>1. dapBpCount' = (l + x) - x + 0
        BY <2>4, <2>8, <2>9, <2>12
      <4>2. dapNextBp' = dapNextBp + 0
        BY <2>4, <2>12
      <4> QED BY <1>1, <2>4, <2>8, <2>12, <4>1, <4>2
    <3>2. DOMAIN others = 1 .. l
      BY <2>6, <2>8
    <3>3. DapType'
      BY <1>1, <1>2, <2>6, <2>8, <2>10, <3>1 DEF DapType
    <3>4. BreakpointsAgree'
      BY <1>2, <2>6, <2>8, <2>10, <3>1, <3>2 DEF BreakpointsAgree
    <3>5. {j \in DOMAIN dapBps' : dapBps'[j].file = file} = {}
      BY <2>7, <2>8, <3>1, <3>2
    <3>6. {dapBps'[i].line : i \in {j \in DOMAIN dapBps' : dapBps'[j].file = file}} = {line} \ {0}
      BY <2>12, <3>5
    <3> QED BY <3>3, <3>4, <3>6
  <2> QED BY <1>4, <2>11, <2>12
<1> QED BY <1>3, <1>4
-----------------------------------------------------------------------------
(* The calls of the embedding program.                                     *)

(* Each call of the debugger, request and notice preserves the invariant.  *)
LEMMA SetBreakpointStep ==
    ASSUME DapInv, NEW kind \in {"line", "function", "message", "actor"}, NEW file \in DapFiles \cup {"none"},
           NEW line \in Nat, NEW arg \in DapMethods \cup DapActorIds \cup {"none"},
           SetBreakpoint(kind, file, line, arg)
    PROVE  DapInv'
<1>1. DapType /\ BreakpointsAgree /\ dapNextBp \in Nat /\ dapBps \in Seq(Breakpoints)
  BY DEF DapInv, DapType
<1>2. PICK b : b = NewBp(kind, file, line, arg)
  OBVIOUS
<1>3. b \in Breakpoints /\ b.hits = 0 /\ b.id = dapNextBp
  BY <1>1, <1>2 DEF NewBp, Breakpoints
<1>4. /\ dapBps' = <<b>> \o dapBps /\ dapNextBp' = dapNextBp + 1 /\ dapBpCount' = Len(dapBps) + 1
      /\ dapForgotten' = dapForgotten /\ dapForgotten \in Int /\ dapSeq' \in Int /\ dapSeq' = dapSeq /\ dapReports' = dapReports
      /\ dapOut' = <<>> /\ dapReq' = NoReq
  BY <1>1, <1>2 DEF SetBreakpoint, Silent, BreakpointsAgree, DapType
<1>5. /\ \A i, j \in 1 .. Len(dapBps) : i < j => dapBps[i].id > dapBps[j].id
      /\ \A i \in 1 .. Len(dapBps) : dapBps[i].id < dapNextBp
      /\ HitsOf(dapBps) + dapForgotten' = dapReports
  BY <1>1, <1>4, BpsFacts DEF BreakpointsAgree
<1>6. DapType' /\ BreakpointsAgree'
  BY <1>1, <1>3, <1>4, <1>5, BpAdded
<1> QED BY <1>4, <1>6, NoRequest DEF DapInv

LEMMA RemoveBreakpointStep ==
    ASSUME DapInv, NEW id, RemoveBreakpoint(id)
    PROVE  DapInv'
<1>1. DapType /\ BreakpointsAgree /\ dapNextBp \in Nat /\ dapBps \in Seq(Breakpoints)
  BY DEF DapInv, DapType
<1>2. PICK l \in Nat : l = Len(dapBps) /\ DOMAIN dapBps = 1 .. l
  BY <1>1, BpsFacts
<1>3. PICK k \in 1 .. l : dapBps' = RemoveAt(dapBps, k) /\ dapForgotten' = dapForgotten + dapBps[k].hits
  BY <1>2 DEF RemoveBreakpoint
<1>4. /\ dapNextBp' = dapNextBp /\ dapSeq' = dapSeq /\ dapReports' = dapReports
      /\ dapOut' = <<>> /\ dapReq' = NoReq /\ dapBpCount' = dapBpCount - 1
  BY DEF RemoveBreakpoint, Silent
<1>5. /\ dapBps' \in Seq(Breakpoints) /\ Len(dapBps') = l - 1 /\ l - 1 \in Nat
      /\ \A i \in 1 .. l - 1 : dapBps'[i] = IF i < k THEN dapBps[i] ELSE dapBps[i + 1]
  <2>1. k \in 1 .. Len(dapBps) /\ l - 1 \in Nat
    BY <1>2
  <2>2. PICK t : t = RemoveAt(dapBps, k)
    OBVIOUS
  <2>3. /\ t \in Seq(Breakpoints) /\ Len(t) = Len(dapBps) - 1
        /\ \A i \in 1 .. Len(dapBps) - 1 : t[i] = IF i < k THEN dapBps[i] ELSE dapBps[i + 1]
    BY <1>1, <2>1, <2>2, RemoveAtProperties
  <2> QED BY <1>2, <1>3, <2>1, <2>2, <2>3
<1>6. DOMAIN dapBps' = 1 .. l - 1
  BY <1>5, BpsFacts
<1>7. HitsOf(dapBps') = HitsOf(dapBps) - dapBps[k].hits
  BY <1>1, <1>2, <1>3, HitsRemoved
<1>8. PICK x \in Int, y \in Int, f \in Int : x = HitsOf(dapBps) /\ y = dapBps[k].hits /\ f = dapForgotten
  BY <1>1, <1>2, HitsAdd, BpsFacts DEF DapType
<1>9. x + f = dapReports /\ dapBpCount = l
  BY <1>1, <1>2, <1>8 DEF BreakpointsAgree
<1>10. HitsOf(dapBps') + dapForgotten' = dapReports' /\ dapForgotten' \in Int /\ dapBpCount' = Len(dapBps')
  <2>1. HitsOf(dapBps') = x - y /\ dapForgotten' = f + y
    BY <1>3, <1>7, <1>8
  <2>2. (x - y) + (f + y) = x + f /\ f + y \in Int
    BY <1>8
  <2>3. HitsOf(dapBps') + dapForgotten' = dapReports' /\ dapForgotten' \in Int
    BY <1>4, <1>9, <2>1, <2>2
  <2> QED BY <1>4, <1>5, <1>9, <2>3
<1>11. PICK at \in [1 .. l - 1 -> 1 .. l] :
            /\ \A i \in 1 .. l - 1 : dapBps'[i] = dapBps[at[i]]
            /\ \A i, j \in 1 .. l - 1 : i < j => at[i] < at[j]
  <2> DEFINE from == [i \in 1 .. l - 1 |-> IF i < k THEN i ELSE i + 1]
  <2>1. from \in [1 .. l - 1 -> 1 .. l]
    OBVIOUS
  <2>2. \A i, j \in 1 .. l - 1 : i < j => from[i] < from[j]
    OBVIOUS
  <2>3. \A i \in 1 .. l - 1 : dapBps'[i] = dapBps[from[i]]
    BY <1>5
  <2> QED BY <2>1, <2>2, <2>3
<1>16. /\ \A i, j \in 1 .. l : i < j => dapBps[i].id > dapBps[j].id
       /\ \A i \in 1 .. l : dapBps[i].id < dapNextBp
  BY <1>1, <1>2 DEF BreakpointsAgree
<1>12. \A i, j \in 1 .. l - 1 : i < j => dapBps'[i].id > dapBps'[j].id
  <2> SUFFICES ASSUME NEW i \in 1 .. l - 1, NEW j \in 1 .. l - 1, i < j PROVE dapBps'[i].id > dapBps'[j].id
    OBVIOUS
  <2>1. at[i] \in 1 .. l /\ at[j] \in 1 .. l /\ at[i] < at[j]
    BY <1>11
  <2>2. dapBps[at[i]].id > dapBps[at[j]].id
    BY <1>16, <2>1
  <2> QED BY <1>11, <2>2
<1>13. \A i \in 1 .. l - 1 : dapBps'[i].id < dapNextBp
  BY <1>11, <1>16
<1>14. BreakpointsAgree'
  BY <1>4, <1>6, <1>10, <1>12, <1>13 DEF BreakpointsAgree
<1>15. DapType'
  BY <1>1, <1>2, <1>4, <1>5, <1>9, <1>10 DEF DapType
<1> QED
  <2>1. dapSeq' \in Int
    BY <1>15 DEF DapType
  <2> QED BY <1>4, <1>14, <1>15, <2>1, NoRequest DEF DapInv

(* One breakpoint changes and keeps its identifier.                        *)
LEMMA BpChanged ==
    ASSUME DapInv, NEW k \in DOMAIN dapBps, NEW b \in Breakpoints, b.id = dapBps[k].id,
           dapBps' = [dapBps EXCEPT ![k] = b], dapNextBp' = dapNextBp, dapBpCount' = dapBpCount,
           dapForgotten' = dapForgotten, dapSeq' \in Int,
           dapReports' = dapReports + (b.hits - dapBps[k].hits)
    PROVE  DapType' /\ BreakpointsAgree'
<1>1. DapType /\ BreakpointsAgree /\ dapNextBp \in Nat /\ dapBps \in Seq(Breakpoints)
  BY DEF DapInv, DapType
<1>2. PICK l \in Nat : l = Len(dapBps) /\ DOMAIN dapBps = 1 .. l
  BY <1>1, BpsFacts
<1>3. dapBps' \in Seq(Breakpoints) /\ Len(dapBps') = l /\ DOMAIN dapBps' = 1 .. l
  BY <1>1, <1>2
<1>4. /\ \A i \in 1 .. l : i # k => dapBps'[i] = dapBps[i]
      /\ dapBps'[k] = b
  BY <1>1, <1>2
<1>5. \A i \in 1 .. l : dapBps'[i].id = dapBps[i].id
  BY <1>4
<1>6. HitsOf(dapBps') = HitsOf(dapBps) + (dapBps'[k].hits - dapBps[k].hits)
  <2>1. PICK t : t = dapBps'
    OBVIOUS
  <2>2. t \in Seq(Breakpoints) /\ Len(t) = Len(dapBps) /\ \A i \in 1 .. Len(dapBps) : i # k => t[i] = dapBps[i]
    BY <1>2, <1>3, <1>4, <2>1
  <2>3. HitsOf(t) = HitsOf(dapBps) + (t[k].hits - dapBps[k].hits)
    BY <1>1, <1>2, <2>2, HitsChanged
  <2> QED BY <2>1, <2>3
<1>7. PICK x \in Int, y \in Int, z \in Int, f \in Int :
          x = HitsOf(dapBps) /\ y = dapBps[k].hits /\ z = b.hits /\ f = dapForgotten
  <2>1. b.hits \in Int
    BY DEF Breakpoints
  <2> QED BY <1>1, <1>2, <2>1, HitsAdd, BpsFacts DEF DapType
<1>8. x + f = dapReports /\ dapBpCount = l
  BY <1>1, <1>2, <1>7 DEF BreakpointsAgree
<1>9. HitsOf(dapBps') + dapForgotten' = dapReports' /\ dapForgotten' \in Int /\ dapReports' \in Int
  BY <1>4, <1>6, <1>7, <1>8
<1>10. \A i, j \in 1 .. l : i < j => dapBps'[i].id > dapBps'[j].id
  BY <1>1, <1>2, <1>5 DEF BreakpointsAgree
<1>11. \A i \in 1 .. l : dapBps'[i].id < dapNextBp
  BY <1>1, <1>2, <1>5 DEF BreakpointsAgree
<1>12. BreakpointsAgree'
  BY <1>3, <1>8, <1>9, <1>10, <1>11 DEF BreakpointsAgree
<1> QED BY <1>1, <1>2, <1>3, <1>8, <1>9, <1>12 DEF DapType

LEMMA EnableBreakpointStep ==
    ASSUME DapInv, NEW id, NEW on \in BOOLEAN, EnableBreakpoint(id, on)
    PROVE  DapInv'
<1>1. DapType /\ dapBps \in Seq(Breakpoints)
  BY DEF DapInv, DapType
<1>2. PICK k \in DOMAIN dapBps : dapBps' = [dapBps EXCEPT ![k].enabled = on]
  BY DEF EnableBreakpoint
<1>3. dapBps[k] \in Breakpoints
  BY <1>1, <1>2, BpsFacts
<1>4. PICK b : b = [dapBps[k] EXCEPT !.enabled = on]
  OBVIOUS
<1>5. b \in Breakpoints /\ b.id = dapBps[k].id /\ b.hits = dapBps[k].hits
  BY <1>3, <1>4 DEF Breakpoints
<1>6. dapBps' = [dapBps EXCEPT ![k] = b]
  BY <1>2, <1>4
<1>7. /\ dapNextBp' = dapNextBp /\ dapBpCount' = dapBpCount /\ dapForgotten' = dapForgotten
      /\ dapSeq' = dapSeq /\ dapReports' = dapReports /\ dapOut' = <<>> /\ dapReq' = NoReq
  BY DEF EnableBreakpoint, Silent
<1>8. dapSeq' \in Int /\ dapReports' = dapReports + (b.hits - dapBps[k].hits)
  <2>1. dapBps[k].hits \in Int /\ dapReports \in Int /\ dapSeq \in Int
    BY <1>1, <1>3 DEF Breakpoints, DapType
  <2> QED BY <1>5, <1>7, <2>1
<1>9. DapType' /\ BreakpointsAgree'
  BY <1>2, <1>5, <1>6, <1>7, <1>8, BpChanged
<1> QED BY <1>7, <1>8, <1>9, NoRequest DEF DapInv
-----------------------------------------------------------------------------
(* The notices.                                                            *)

(* One breakpoint counts one hit more.                                     *)
OneHit(k, b) ==
    /\ b.id = dapBps[k].id /\ dapBps' = [dapBps EXCEPT ![k] = b]
    /\ b.hits - dapBps[k].hits = 1

LEMMA HitCounts ==
    ASSUME DapType, NEW matches \in SUBSET DOMAIN dapBps, matches # {}, dapBps' = HitCounted(matches)
    PROVE  \E k \in DOMAIN dapBps, b \in Breakpoints : OneHit(k, b)
<1>1. dapBps \in Seq(Breakpoints)
  BY DEF DapType
<1>2. PICK k \in matches : dapBps' = [dapBps EXCEPT ![k].hits = @ + 1]
  <2>1. DOMAIN dapBps \subseteq Nat
    BY <1>1, BpsFacts
  <2>2. PICK k \in matches : \A i \in matches : k <= i
    BY <2>1, LeastNat
  <2>3. Min(matches) = k
    BY <2>1, <2>2 DEF Min
  <2> QED BY <2>2, <2>3 DEF HitCounted
<1>3. dapBps[k] \in Breakpoints /\ dapBps[k].hits \in Nat
  BY <1>1, <1>2, BpsFacts DEF Breakpoints
<1>4. PICK b : b = [dapBps[k] EXCEPT !.hits = dapBps[k].hits + 1]
  OBVIOUS
<1>5. b \in Breakpoints /\ b.id = dapBps[k].id /\ b.hits = dapBps[k].hits + 1
  BY <1>3, <1>4 DEF Breakpoints
<1>6. OneHit(k, b)
  BY <1>2, <1>3, <1>4, <1>5 DEF OneHit
<1> QED BY <1>2, <1>5, <1>6

(* A check of the embedding program counts the hit it reports.             *)
LEMMA CheckStep ==
    ASSUME DapInv, NEW matches \in SUBSET DOMAIN dapBps, CheckBreakpoint(matches)
    PROVE  DapInv'
<1>1. DapType /\ dapReports \in Int /\ dapSeq \in Int
  BY DEF DapInv, DapType
<1>2. dapSeq' \in Int /\ dapOut' = <<>> /\ dapReq' = NoReq
  BY <1>1 DEF CheckBreakpoint
<1>3. CASE matches = {}
  <2>1. BpsLeft /\ dapReports' = dapReports
    BY <1>3 DEF CheckBreakpoint, BpsLeft, bpVars
  <2>2. DapType' /\ BreakpointsAgree'
    BY <1>2, <2>1, BpsStay
  <2> QED BY <1>2, <2>2, NoRequest DEF DapInv
<1>4. CASE matches # {}
  <2>1. /\ dapBps' = HitCounted(matches) /\ dapReports' = dapReports + 1
        /\ dapNextBp' = dapNextBp /\ dapBpCount' = dapBpCount /\ dapForgotten' = dapForgotten
    BY <1>4 DEF CheckBreakpoint
  <2>2. PICK k \in DOMAIN dapBps, b \in Breakpoints : OneHit(k, b)
    BY <1>1, <1>4, <2>1, HitCounts
  <2>3. dapReports' = dapReports + (b.hits - dapBps[k].hits)
    BY <2>1, <2>2 DEF OneHit
  <2>4. DapType' /\ BreakpointsAgree'
    BY <1>2, <2>1, <2>2, <2>3, BpChanged DEF OneHit
  <2> QED BY <1>2, <2>4, NoRequest DEF DapInv
<1> QED BY <1>3, <1>4

LEMMA StopsStep ==
    ASSUME DapInv, NEW matches \in SUBSET DOMAIN dapBps, StopsAt(matches, <<>>), dapReq' = NoReq
    PROVE  DapInv'
<1>1. DapType /\ dapBps \in Seq(Breakpoints) /\ dapReports \in Int /\ dapSeq \in Int
  BY DEF DapInv, DapType
<1>2. CASE matches = {}
  <2>1. Sends(<<>>) /\ BpsLeft
    BY <1>2 DEF StopsAt, BpsLeft, bpVars
  <2>2. Len(<<>>) = 0 /\ DOMAIN <<>> = {}
    OBVIOUS
  <2>3. dapOut' = <<>> /\ dapSeq' = dapSeq + 0
    BY <2>1, <2>2 DEF Sends
  <2>4. dapReports' = dapReports + Cardinality({i \in DOMAIN <<>> : <<>>[i] = Event("stopped")})
    BY <2>1 DEF Sends
  <2>5. {i \in DOMAIN <<>> : <<>>[i] = Event("stopped")} = {}
    BY <2>2
  <2>6. dapReports' = dapReports
    BY <1>1, <2>4, <2>5, FS_EmptySet
  <2>7. DapType' /\ BreakpointsAgree'
    BY <1>1, <2>1, <2>3, <2>6, BpsStay
  <2> QED BY <1>1, <2>3, <2>7, NoRequest DEF DapInv
<1>3. CASE matches # {}
  <2>1. dapBps' = HitCounted(matches)
    BY <1>3 DEF StopsAt
  <2>2. PICK k \in DOMAIN dapBps, b \in Breakpoints : OneHit(k, b)
    BY <1>1, <1>3, <2>1, HitCounts
  <2>6. Append(<<>>, Event("stopped")) = <<Event("stopped")>>
    OBVIOUS
  <2>7. /\ Sends(<<Event("stopped")>>)
        /\ dapNextBp' = dapNextBp /\ dapBpCount' = dapBpCount /\ dapForgotten' = dapForgotten
    BY <1>3, <2>6 DEF StopsAt
  <2>8. dapSeq' \in Int /\ OneMessage(Event("stopped")) /\ dapReports' = dapReports + 1
    BY <1>1, <2>7, SendsOne
  <2>9. dapReports' = dapReports + (b.hits - dapBps[k].hits)
    BY <2>2, <2>8 DEF OneHit
  <2>10. DapType' /\ BreakpointsAgree'
    BY <2>2, <2>7, <2>8, <2>9, BpChanged DEF OneHit
  <2>11. Notifies
    BY <2>8 DEF Notifies, Event
  <2> QED BY <2>8, <2>10, <2>11, NoRequest DEF DapInv
<1> QED BY <1>2, <1>3
-----------------------------------------------------------------------------
(* The requests.                                                           *)

(* A request that only answers, with an event or without, preserves the    *)
(* invariant.                                                              *)
LEMMA Answered ==
    ASSUME DapInv, NEW req, BpsLeft, dapReq' = req, req # NoReq, FileHas(req),
           NEW m, m.type = "response",
           Sends(<<m>>) \/ \E e : e.type = "event" /\ e # Event("stopped") /\ Sends(<<m, e>>)
    PROVE  DapInv'
<1>1. DapType /\ dapReports \in Int
  BY DEF DapInv, DapType
<1>2. m # Event("stopped")
  BY DEF Event
<1>3. dapSeq' \in Int /\ dapReports' = dapReports /\ Answers
  <2>1. CASE Sends(<<m>>)
    BY <1>1, <1>2, <2>1, SendsOne DEF Answers
  <2>2. CASE \E e : e.type = "event" /\ e # Event("stopped") /\ Sends(<<m, e>>)
    <3>1. PICK e : e.type = "event" /\ e # Event("stopped") /\ Sends(<<m, e>>)
      BY <2>2
    <3> QED BY <1>1, <1>2, <3>1, SendsTwo DEF Answers
  <2> QED BY <2>1, <2>2
<1>4. DapType' /\ BreakpointsAgree'
  BY <1>3, BpsStay
<1>5. RequestsAnswered'
  BY <1>3, AnsweredRequest
<1> QED BY <1>4, <1>5 DEF DapInv

(* No event but "stopped" is a stop, and a response is no event.           *)
LEMMA EventNames ==
    /\ \A ok, body : Response(ok, body).type = "response"
    /\ \A name : Event(name).type = "event"
    /\ Event("initialized") # Event("stopped") /\ Event("continued") # Event("stopped")
    /\ Event("terminated") # Event("stopped") /\ Event("actor") # Event("stopped")
<1>1. \A name : Event(name) = [type |-> "event", name |-> name] /\ Event(name).name = name
  BY DEF Event
<1> QED BY <1>1 DEF Response, Event

(* What a setBreakpoints request carries.                                  *)
LEMMA BreakpointRequest ==
    ASSUME NEW req \in Requests, req.command = "setBreakpoints"
    PROVE  req.file \in DapFiles /\ req.line \in DapLines \cup {-1, 0}
<1> DEFINE A == {[command |-> "launch", program |-> p] : p \in BOOLEAN}
           B == {[command |-> "setBreakpoints", file |-> f, line |-> l] :
                    f \in DapFiles, l \in DapLines \cup {-1, 0}}
           C == {[command |-> "messages", actor |-> a] : a \in DapActorIds \cup {-1}}
           D == {[command |-> c] :
                    c \in DapSteps \cup {"initialize", "continue", "disconnect", "actors", "stackTrace",
                                         "variables", "threads", "configurationDone", "unsupported"}}
<1>1. req \in A \/ req \in B \/ req \in C \/ req \in D
  BY DEF Requests
<1>2. req \notin A
  OBVIOUS
<1>3. req \notin C
  OBVIOUS
<1>4. req \notin D
  BY DapAssumption
<1>5. req \in B
  BY <1>1, <1>2, <1>3, <1>4
<1> QED BY <1>5

LEMMA RequestStep ==
    ASSUME DapInv, NEW req \in Requests, ProcessMessage(req)
    PROVE  DapInv'
<1>1. req # NoReq /\ dapReq' = req
  <2>1. req.command # "none"
    BY DapAssumption DEF Requests
  <2>2. NoReq.command = "none"
    BY DEF NoReq
  <2> QED BY <2>1, <2>2 DEF ProcessMessage
<1>2. CASE req.command = "setBreakpoints"
  <2>0. DapLines \subseteq Nat
    BY DapAssumption
  <2>1. req.file \in DapFiles /\ req.line \in Nat \cup {-1}
    <3>1. req.file \in DapFiles /\ req.line \in DapLines \cup {-1, 0}
      BY <1>2, BreakpointRequest
    <3>2. PICK l \in DapLines \cup {-1, 0} : l = req.line
      BY <3>1
    <3>3. l \in Nat \cup {-1}
      BY <2>0
    <3> QED BY <3>1, <3>2, <3>3
  <2>2. HandleSetBreakpoints(req.file, req.line)
    BY <1>2 DEF ProcessMessage
  <2>3. DapType' /\ BreakpointsAgree' /\ FileHas(req)
    BY <2>1, <2>2, SetBreakpointsStep DEF FileHas
  <2>4. PICK m : m.type = "response" /\ Sends(<<m>>)
    BY <2>2, EventNames DEF HandleSetBreakpoints
  <2>5. DapType
    BY DEF DapInv
  <2>6. dapSeq' \in Int /\ Answers
    BY <2>4, <2>5, SendsOne DEF Answers
  <2>7. RequestsAnswered'
    BY <1>1, <2>3, <2>6, AnsweredRequest
  <2> QED BY <2>3, <2>7 DEF DapInv
<1>3. ASSUME req.command # "setBreakpoints" PROVE FileHas(req)
  BY <1>3 DEF FileHas
<1>4. CASE req.command = "initialize"
  <2>1. HandleInitialize
    BY <1>4 DEF ProcessMessage
  <2>2. BpsLeft /\ \E m : m.type = "response" /\ \E e : e.type = "event" /\ e # Event("stopped") /\ Sends(<<m, e>>)
    BY <2>1, EventNames DEF HandleInitialize, BpsLeft, bpVars
  <2> QED BY <1>1, <1>3, <1>4, <2>2, Answered
<1>5. CASE req.command = "launch"
  <2>1. HandleLaunch(req.program)
    BY <1>5 DEF ProcessMessage
  <2>2. BpsLeft /\ \E m : m.type = "response" /\ Sends(<<m>>)
    BY <2>1, EventNames DEF HandleLaunch, BpsLeft, bpVars
  <2> QED BY <1>1, <1>3, <1>5, <2>2, Answered
<1>6. CASE req.command = "continue"
  <2>1. HandleContinue
    BY <1>6 DEF ProcessMessage
  <2>2. BpsLeft /\ \E m : m.type = "response" /\ \E e : e.type = "event" /\ e # Event("stopped") /\ Sends(<<m, e>>)
    BY <2>1, EventNames DEF HandleContinue, Resumes, BpsLeft, bpVars
  <2> QED BY <1>1, <1>3, <1>6, <2>2, Answered
<1>7. CASE req.command \in {"next", "stepIn", "stepOut"}
  <2>1. HandleStep(req.command)
    BY <1>7 DEF ProcessMessage
  <2>2. BpsLeft /\ \E m : m.type = "response" /\ Sends(<<m>>)
    BY <2>1, EventNames DEF HandleStep, Resumes, BpsLeft, bpVars
  <2> QED BY <1>1, <1>3, <1>7, <2>2, Answered
<1>8. CASE req.command = "disconnect"
  <2>1. HandleDisconnect
    BY <1>8 DEF ProcessMessage
  <2>2. BpsLeft /\ \E m : m.type = "response" /\ \E e : e.type = "event" /\ e # Event("stopped") /\ Sends(<<m, e>>)
    BY <2>1, EventNames DEF HandleDisconnect, BpsLeft, bpVars
  <2> QED BY <1>1, <1>3, <1>8, <2>2, Answered
<1>9. CASE req.command \notin {"setBreakpoints", "initialize", "launch", "continue", "next", "stepIn", "stepOut", "disconnect"}
  <2>1. PICK m : m.type = "response" /\ HandleQuery(m)
    <3>1. CASE req.command = "actors"
      <4>1. HandleQuery([Response(TRUE, "actors") EXCEPT !.actors = dapActors])
        BY <3>1 DEF ProcessMessage
      <4>2. [Response(TRUE, "actors") EXCEPT !.actors = dapActors].type = "response"
        BY DEF Response
      <4> QED BY <4>1, <4>2
    <3>2. CASE req.command = "messages"
      <4>1. PICK m : m = MessagesFor(req.actor)
        OBVIOUS
      <4>2. HandleQuery([Response(TRUE, "messages") EXCEPT !.messages = m])
        BY <3>2, <4>1 DEF ProcessMessage
      <4>3. [Response(TRUE, "messages") EXCEPT !.messages = m].type = "response"
        BY DEF Response
      <4> QED BY <4>2, <4>3
    <3>3. CASE req.command \in {"stackTrace", "variables"}
      <4>1. HandleQuery(Response(TRUE, "empty"))
        BY <3>3 DEF ProcessMessage
      <4> QED BY <4>1, EventNames
    <3>4. CASE req.command \notin {"actors", "messages", "stackTrace", "variables"}
      <4>1. HandleQuery(Response(req.command # "unsupported", "none"))
        BY <1>9, <3>4 DEF ProcessMessage
      <4> QED BY <4>1, EventNames
    <3> QED BY <3>1, <3>2, <3>3, <3>4
  <2>2. BpsLeft /\ Sends(<<m>>)
    BY <2>1 DEF HandleQuery, BpsLeft, bpVars
  <2> QED BY <1>1, <1>3, <1>9, <2>1, <2>2, Answered
<1> QED BY <1>2, <1>4, <1>5, <1>6, <1>7, <1>8, <1>9

-----------------------------------------------------------------------------
(* A notice that sends nothing preserves the invariant.                    *)
LEMMA Quiet ==
    ASSUME DapInv, BpsLeft, Silent, dapReq' = NoReq
    PROVE  DapInv'
<1>1. DapType
  BY DEF DapInv
<1>2. dapSeq' \in Int /\ dapReports' = dapReports /\ dapOut' = <<>>
  BY <1>1 DEF Silent, DapType
<1> QED BY <1>2, BpsStay, NoRequest DEF DapInv

LEMMA NoticeSteps ==
    /\ \A file, line : DapInv /\ NotifyBreakpoint(file, line) => DapInv'
    /\ \A from, to, method : DapInv /\ NotifyMessage(from, to, method) => DapInv'
    /\ \A a : DapInv /\ NotifyActorCreated(a) => DapInv'
<1>1. ASSUME NEW file, NEW line, DapInv, NotifyBreakpoint(file, line) PROVE DapInv'
  <2>1. LineMatches(file, line) \in SUBSET DOMAIN dapBps
    BY DEF LineMatches
  <2> QED BY <1>1, <2>1, StopsStep DEF NotifyBreakpoint
<1>2. ASSUME NEW from, NEW to, NEW method, DapInv, NotifyMessage(from, to, method) PROVE DapInv'
  <2>1. ArgMatches("message", method) \in SUBSET DOMAIN dapBps
    BY DEF ArgMatches
  <2> QED BY <1>2, <2>1, StopsStep DEF NotifyMessage
<1>3. ASSUME NEW a, DapInv, NotifyActorCreated(a) PROVE DapInv'
  <2>1. DapType /\ BpsLeft /\ dapReq' = NoReq /\ Sends(<<Event("actor")>>)
    BY <1>3 DEF NotifyActorCreated, BpsLeft, bpVars, DapInv
  <2>2. dapSeq' \in Int /\ OneMessage(Event("actor")) /\ dapReports' = dapReports + 0
    BY <2>1, SendsOne, EventNames
  <2>3. dapReports' = dapReports
    BY <2>1, <2>2 DEF DapType
  <2>4. Notifies
    BY <2>2, EventNames DEF Notifies
  <2> QED BY <1>3, <2>1, <2>2, <2>3, <2>4, BpsStay, NoRequest DEF DapInv
<1> QED BY <1>1, <1>2, <1>3

(* Every hit is reported once, in a stopped event or in a yes to a check,  *)
(* and counted by one breakpoint; a breakpoint's number is never used      *)
(* twice; a request is answered once and first, and what the adapter sends *)
(* is numbered without gaps.                                               *)
THEOREM EditorIsTold == DebuggerSpec => []DebuggerStops
<1>1. DebuggerInit => DapInv
  BY DapStart
<1>2. DapInv /\ [DebuggerNext]_debuggerVars => DapInv'
  <2> SUFFICES ASSUME DapInv, [DebuggerNext]_debuggerVars PROVE DapInv'
    OBVIOUS
  <2>1. ASSUME NEW req \in Requests, ProcessMessage(req) PROVE DapInv'
    BY <2>1, RequestStep
  <2>2. ASSUME NEW f \in DapFiles, NEW l \in DapLines, SetBreakpoint("line", f, l, "none") PROVE DapInv'
    BY <2>2, SetBreakpointStep, DapAssumption
  <2>3. ASSUME NEW m \in DapMethods, NEW kind \in {"function", "message"}, SetBreakpoint(kind, "none", 0, m) PROVE DapInv'
    BY <2>3, SetBreakpointStep
  <2>4. ASSUME NEW a \in DapActorIds, SetBreakpoint("actor", "none", 0, a) PROVE DapInv'
    BY <2>4, SetBreakpointStep
  <2>5. ASSUME NEW id, NEW on \in BOOLEAN, RemoveBreakpoint(id) \/ EnableBreakpoint(id, on) PROVE DapInv'
    BY <2>5, RemoveBreakpointStep, EnableBreakpointStep
  <2>6. ASSUME NEW p, NEW s, Control(p, s) PROVE DapInv'
    BY <2>6, Quiet DEF Control, BpsLeft, bpVars
  <2>7. CASE UNCHANGED debuggerVars
    BY <2>7 DEF DapInv, DapType, BreakpointsAgree, RequestsAnswered, debuggerVars, bpVars
  <2>8. CASE DebuggerNext
    <3>1. CASE \E req \in Requests : ProcessMessage(req)
      BY <2>1, <3>1
    <3>2. CASE \E f \in DapFiles, l \in DapLines : SetBreakpoint("line", f, l, "none") \/ NotifyBreakpoint(f, l)
      BY <2>2, <3>2, NoticeSteps
    <3>3. CASE \E m \in DapMethods :
                 \/ \E kind \in {"function", "message"} : SetBreakpoint(kind, "none", 0, m)
                 \/ \E a, b \in DapActorIds : NotifyMessage(a, b, m)
      BY <2>3, <3>3, NoticeSteps
    <3>4. CASE \E a \in DapActorIds : SetBreakpoint("actor", "none", 0, a) \/ NotifyActorCreated(a)
      BY <2>4, <3>4, NoticeSteps
    <3>5. CASE \E id \in 1..DapMaxBps : RemoveBreakpoint(id) \/ \E on \in BOOLEAN : EnableBreakpoint(id, on)
      BY <2>5, <3>5
    <3>6. CASE \E c \in {<<FALSE, "none">>, <<FALSE, "next">>, <<TRUE, "none">>} : Control(c[1], c[2])
      BY <2>6, <3>6
    <3>7. CASE \E matches \in Asked : CheckBreakpoint(matches)
      <4>1. \A matches \in Asked : matches \in SUBSET DOMAIN dapBps
        BY DEF Asked, LineMatches, ArgMatches
      <4> QED BY <3>7, <4>1, CheckStep
    <3> QED BY <2>8, <3>1, <3>2, <3>3, <3>4, <3>5, <3>6, <3>7 DEF DebuggerNext
  <2> QED BY <2>7, <2>8
<1>3. DapInv => DebuggerStops
  BY DEF DapInv, DebuggerStops
<1> QED BY <1>1, <1>2, <1>3, PTL DEF DebuggerSpec
-----------------------------------------------------------------------------
(* The supervisor of remote actors.                                        *)

SupStates == {"running", "restarting", "crashed"}
RemoteActors == [name : SupNames, state : SupStates, restarts : Nat, beat : Int]
Notices == [all : Nat, refused : Nat]

SupType ==
    /\ supActors \in Seq(RemoteActors) /\ supNoticed \in Seq(Notices) /\ supSince \in Seq(Int)
    /\ Len(supNoticed) = Len(supActors) /\ Len(supSince) = Len(supActors)
    /\ supRestarts \in Int /\ supNow \in Int

AcceptedOf == [n \in Notices |-> n.all - n.refused]

(* An actor's restarts are no fewer than its own crashes.                  *)
SupFits(i) ==
    /\ supNoticed[i].all <= supActors[i].restarts
    /\ supNoticed[i].all - supNoticed[i].refused <= Budget
    /\ supActors[i].state = "restarting" => supActors[i].restarts > 0
    /\ supStrategy = "one_for_one" =>
        /\ supActors[i].restarts = supNoticed[i].all
        /\ supActors[i].restarts > Budget => supActors[i].state = "crashed"
    /\ supStrategy = "one_for_all" =>
        supActors[i].restarts = supRestarts - supSince[i] + supNoticed[i].refused
    /\ supStrategy = "rest_for_one" /\ i = 1 => supActors[i].restarts = supNoticed[i].all

SupInv ==
    /\ SupType
    /\ \A i \in 1 .. Len(supActors) : SupFits(i)
    /\ supRestarts = Total(Weighed(supNoticed, AcceptedOf))

(* The number of restarts within the window is bounded by a natural        *)
(* number.                                                                 *)
LEMMA BudgetType == Budget \in Nat
BY DistAssumption DEF Budget

(* The accepted restarts of each actor, as the list that Total adds up.    *)
LEMMA AcceptedOfType ==
    ASSUME NEW s \in Seq(Notices)
    PROVE  /\ AcceptedOf \in [Notices -> Int]
           /\ Weighed(s, AcceptedOf) = [i \in DOMAIN s |-> s[i].all - s[i].refused]
<1>1. AcceptedOf \in [Notices -> Int]
  <2>1. \A n \in Notices : n.all - n.refused \in Int
    BY DEF Notices
  <2> QED BY <2>1 DEF AcceptedOf
<1>2. DOMAIN s = 1 .. Len(s) /\ \A i \in 1 .. Len(s) : s[i] \in Notices
  BY ElementOfSeq
<1>3. \A i \in 1 .. Len(s) : AcceptedOf[s[i]] = s[i].all - s[i].refused
  BY <1>2 DEF AcceptedOf
<1> QED BY <1>1, <1>2, <1>3 DEF Weighed

(* The lists of the supervisor have one length.                            *)
LEMMA SupLists ==
    ASSUME SupInv
    PROVE  \E l \in Nat :
              /\ l = Len(supActors) /\ l = Len(supNoticed) /\ l = Len(supSince)
              /\ DOMAIN supActors = 1 .. l /\ DOMAIN supNoticed = 1 .. l /\ DOMAIN supSince = 1 .. l
              /\ \A i \in 1 .. l : /\ supActors[i] \in RemoteActors /\ supNoticed[i] \in Notices /\ supSince[i] \in Int
                                   /\ SupFits(i)
<1>1. PICK l \in Nat : l = Len(supActors)
  BY DEF SupInv, SupType
<1>2. supActors \in Seq(RemoteActors) /\ supNoticed \in Seq(Notices) /\ supSince \in Seq(Int)
  BY DEF SupInv, SupType
<1>3. Len(supNoticed) = l /\ Len(supSince) = l
  BY <1>1 DEF SupInv, SupType
<1> QED BY <1>1, <1>2, <1>3, ElementOfSeq DEF SupInv

(* A supervisor without actors satisfies the invariant.                    *)
LEMMA SupStart == DistributedInit => SupInv
<1> SUFFICES ASSUME DistributedInit PROVE SupInv
  OBVIOUS
<1>1. <<>> \in Seq(RemoteActors) /\ <<>> \in Seq(Notices) /\ <<>> \in Seq(Int) /\ Len(<<>>) = 0 /\ DOMAIN <<>> = {}
  OBVIOUS
<1>2. SupType
  BY <1>1 DEF DistributedInit, SupType
<1>3. Weighed(<<>>, AcceptedOf) = <<>>
  BY <1>1 DEF Weighed
<1> QED BY <1>1, <1>2, <1>3, TotalEmpty DEF DistributedInit, SupInv

SupHistoryStays ==
    /\ supNoticed' = supNoticed /\ supSince' = supSince
    /\ supRestarts' = supRestarts /\ supStrategy' = supStrategy

(* Only the states and the heartbeats of the actors change, and nobody     *)
(* leaves the crashed ones.                                                *)
LEMMA StatesChange ==
    ASSUME SupInv, SupHistoryStays, supNow' \in Int,
           supActors' \in Seq(RemoteActors), Len(supActors') = Len(supActors),
           \A i \in 1 .. Len(supActors) :
              /\ supActors'[i].restarts = supActors[i].restarts
              /\ supActors[i].state = "crashed" => supActors'[i].state = "crashed"
              /\ supActors'[i].state = "restarting" => supActors[i].state = "restarting"
    PROVE  SupInv'
<1>1. PICK l \in Nat :
          /\ l = Len(supActors) /\ \A i \in 1 .. l : supActors[i] \in RemoteActors /\ SupFits(i)
  BY SupLists
<1>2. ASSUME NEW i \in 1 .. l PROVE SupFits(i)'
  <2>1. /\ supActors'[i].restarts = supActors[i].restarts
        /\ supActors[i].state = "crashed" => supActors'[i].state = "crashed"
        /\ supActors'[i].state = "restarting" => supActors[i].state = "restarting"
    BY <1>1, <1>2
  <2>2. SupFits(i)
    BY <1>1, <1>2
  <2> QED BY <2>1, <2>2 DEF SupFits, SupHistoryStays, Budget
<1>3. SupType'
  BY DEF SupType, SupHistoryStays, SupInv
<1> QED BY <1>1, <1>2, <1>3 DEF SupInv, SupHistoryStays

(* Each step of the supervisor preserves the invariant.                    *)
LEMMA HeartbeatStep ==
    ASSUME SupInv, NEW k \in DOMAIN supActors, SupHeartbeat(k)
    PROVE  SupInv'
<1>1. PICK l \in Nat :
          l = Len(supActors) /\ DOMAIN supActors = 1 .. l /\ \A i \in 1 .. l : supActors[i] \in RemoteActors
  BY SupLists
<1>2. PICK a : a = [supActors[k] EXCEPT !.beat = supNow, !.state = IF @ = "restarting" THEN "running" ELSE @]
  OBVIOUS
<1>3. supActors' = [supActors EXCEPT ![k] = a]
  BY <1>2 DEF SupHeartbeat
<1>4. a \in RemoteActors /\ a.restarts = supActors[k].restarts /\ a.state = IF supActors[k].state = "restarting" THEN "running" ELSE supActors[k].state
  <2>1. supActors[k] \in RemoteActors /\ supNow \in Int
    BY <1>1 DEF SupInv, SupType
  <2> QED BY <1>2, <2>1 DEF RemoteActors, SupStates
<1>5. supActors' \in Seq(RemoteActors) /\ Len(supActors') = l
  <2>1. supActors \in Seq(RemoteActors)
    BY DEF SupInv, SupType
  <2> QED BY <1>1, <1>3, <1>4, <2>1
<1>6. \A i \in 1 .. l : supActors'[i] = IF i = k THEN a ELSE supActors[i]
  BY <1>1, <1>3
<1>7. \A i \in 1 .. l :
          /\ supActors'[i].restarts = supActors[i].restarts
          /\ supActors[i].state = "crashed" => supActors'[i].state = "crashed"
          /\ supActors'[i].state = "restarting" => supActors[i].state = "restarting"
  BY <1>4, <1>6
<1>8. SupHistoryStays /\ supNow' \in Int
  BY DEF SupHeartbeat, SupHistoryStays, SupInv, SupType
<1> QED BY <1>1, <1>5, <1>7, <1>8, StatesChange

LEMMA TimeoutsStep ==
    ASSUME SupInv, SupCheckTimeouts
    PROVE  SupInv'
<1>1. PICK l \in Nat :
          l = Len(supActors) /\ DOMAIN supActors = 1 .. l /\ \A i \in 1 .. l : supActors[i] \in RemoteActors
  BY SupLists
<1>2. DOMAIN supActors' = 1 .. l /\ supActors' = [i \in 1 .. l |-> supActors'[i]]
  BY <1>1 DEF SupCheckTimeouts
<1>3. \A i \in 1 .. l : supActors'[i] = supActors[i] \/ (supActors[i].state = "running" /\ supActors'[i] = [supActors[i] EXCEPT !.state = "crashed"])
  BY <1>1 DEF SupCheckTimeouts
<1>4. \A i \in 1 .. l : [supActors[i] EXCEPT !.state = "crashed"] \in RemoteActors
  BY <1>1 DEF RemoteActors, SupStates
<1>5. \A i \in 1 .. l :
          /\ supActors'[i] \in RemoteActors
          /\ supActors'[i].restarts = supActors[i].restarts
          /\ supActors[i].state = "crashed" => supActors'[i].state = "crashed"
          /\ supActors'[i].state = "restarting" => supActors[i].state = "restarting"
  <2> SUFFICES ASSUME NEW i \in 1 .. l
               PROVE  /\ supActors'[i] \in RemoteActors
                      /\ supActors'[i].restarts = supActors[i].restarts
                      /\ supActors[i].state = "crashed" => supActors'[i].state = "crashed"
                      /\ supActors'[i].state = "restarting" => supActors[i].state = "restarting"
    OBVIOUS
  <2>1. CASE supActors'[i] = supActors[i]
    BY <1>1, <2>1
  <2>2. CASE supActors[i].state = "running" /\ supActors'[i] = [supActors[i] EXCEPT !.state = "crashed"]
    <3>1. supActors[i] \in RemoteActors
      BY <1>1
    <3>2. supActors'[i].state = "crashed" /\ supActors'[i].restarts = supActors[i].restarts
      BY <2>2, <3>1 DEF RemoteActors
    <3> QED BY <1>4, <2>2, <3>2
  <2> QED BY <1>3, <2>1, <2>2
<1>6. supActors' \in Seq(RemoteActors) /\ Len(supActors') = l
  BY <1>2, <1>5
<1>7. SupHistoryStays /\ supNow' \in Int
  BY DEF SupCheckTimeouts, SupHistoryStays, SupInv, SupType
<1> QED BY <1>1, <1>5, <1>6, <1>7, StatesChange

LEMMA TickStep == ASSUME SupInv, SupTick PROVE SupInv'
<1>1. SupHistoryStays /\ supNow' \in Int /\ supActors' = supActors /\ supActors \in Seq(RemoteActors)
  BY DEF SupTick, SupHistoryStays, SupInv, SupType
<1> QED BY <1>1, StatesChange
-----------------------------------------------------------------------------
LEMMA RegisterStep ==
    ASSUME SupInv, NEW n \in SupNames, SupRegister(n)
    PROVE  SupInv'
<1>1. PICK l \in Nat :
          /\ l = Len(supActors) /\ l = Len(supNoticed) /\ l = Len(supSince)
          /\ DOMAIN supActors = 1 .. l /\ DOMAIN supNoticed = 1 .. l /\ DOMAIN supSince = 1 .. l
          /\ \A i \in 1 .. l : SupFits(i)
  BY SupLists
<1>2. /\ supActors \in Seq(RemoteActors) /\ supNoticed \in Seq(Notices) /\ supSince \in Seq(Int)
      /\ supRestarts \in Int /\ supNow \in Int /\ supRestarts = Total(Weighed(supNoticed, AcceptedOf))
  BY DEF SupInv, SupType
<1>3. PICK a, z : /\ a = [name |-> n, state |-> "running", restarts |-> 0, beat |-> supNow]
                  /\ z = [all |-> 0, refused |-> 0]
  OBVIOUS
<1>4. /\ a \in RemoteActors /\ z \in Notices
      /\ a.restarts = 0 /\ a.state = "running" /\ z.all = 0 /\ z.refused = 0
  BY <1>2, <1>3 DEF RemoteActors, SupStates, Notices
<1>5. /\ supActors' = Append(supActors, a) /\ supNoticed' = Append(supNoticed, z)
      /\ supSince' = Append(supSince, supRestarts)
      /\ supRestarts' = supRestarts /\ supStrategy' = supStrategy /\ supNow' = supNow
  BY <1>3 DEF SupRegister
<1>6. SupType'
  BY <1>1, <1>2, <1>4, <1>5 DEF SupType
<1>7. Len(supActors') = l + 1
  BY <1>1, <1>2, <1>4, <1>5
<1>8. /\ \A i \in 1 .. l : supActors'[i] = supActors[i] /\ supNoticed'[i] = supNoticed[i] /\ supSince'[i] = supSince[i]
      /\ supActors'[l + 1] = a /\ supNoticed'[l + 1] = z /\ supSince'[l + 1] = supRestarts
  BY <1>1, <1>2, <1>4, <1>5
<1>9. ASSUME NEW i \in 1 .. l + 1 PROVE SupFits(i)'
  <2>1. CASE i = l + 1
    <3>1. supActors'[i] = a /\ supNoticed'[i] = z /\ supSince'[i] = supRestarts /\ supRestarts' = supRestarts
      BY <1>5, <1>8, <2>1
    <3>2. Budget \in Nat /\ Budget' = Budget
      BY BudgetType DEF Budget
    <3> QED BY <1>2, <1>4, <3>1, <3>2 DEF SupFits
  <2>2. CASE i # l + 1
    <3>1. i \in 1 .. l
      BY <2>2
    <3> QED BY <1>1, <1>5, <1>8, <3>1 DEF SupFits, Budget
  <2> QED BY <2>1, <2>2
<1>10. AcceptedOf[z] = 0 /\ AcceptedOf \in [Notices -> Int]
  <2>1. AcceptedOf[z] = z.all - z.refused
    BY <1>4 DEF AcceptedOf
  <2>2. AcceptedOf \in [Notices -> Int]
    BY <1>2, AcceptedOfType
  <2> QED BY <1>4, <2>1, <2>2
<1>11. Total(Weighed(supNoticed', AcceptedOf)) = Total(Weighed(supNoticed, AcceptedOf)) + 0
  BY <1>2, <1>4, <1>5, <1>10, WeighedAppended
<1>12. supRestarts' = Total(Weighed(supNoticed', AcceptedOf))
  BY <1>2, <1>5, <1>11
<1>13. supRestarts' = Total(Weighed(supNoticed, AcceptedOf))'
  BY <1>12 DEF AcceptedOf, Notices
<1> QED BY <1>6, <1>7, <1>9, <1>13 DEF SupInv

(* A crash is charged to the actor that crashed, to those its strategy     *)
(* restarts with it, and to nobody when the budget is used up.             *)
LEMMA RestartsCharged ==
    ASSUME SupInv, supStrategy \in {"one_for_one", "one_for_all", "rest_for_one"},
           NEW k \in DOMAIN supActors, SupNotifyCrash(k)
    PROVE  SupInv'
<1>1. PICK l \in Nat :
          /\ l = Len(supActors) /\ l = Len(supNoticed) /\ l = Len(supSince)
          /\ DOMAIN supActors = 1 .. l /\ DOMAIN supNoticed = 1 .. l
          /\ \A i \in 1 .. l : /\ supActors[i] \in RemoteActors /\ supNoticed[i] \in Notices /\ supSince[i] \in Int
                               /\ SupFits(i)
  BY SupLists
<1>2. /\ supActors \in Seq(RemoteActors) /\ supNoticed \in Seq(Notices) /\ supSince \in Seq(Int)
      /\ supRestarts \in Int /\ supNow \in Int /\ supRestarts = Total(Weighed(supNoticed, AcceptedOf))
  BY DEF SupInv, SupType
<1>3. /\ supSince' = supSince /\ supStrategy' = supStrategy /\ supNow' = supNow
  BY DEF SupNotifyCrash
<1>4. \A i \in 1 .. l : supActors[i].restarts \in Nat /\ supNoticed[i].all \in Nat /\ supNoticed[i].refused \in Nat
  BY <1>1 DEF RemoteActors, Notices
<1>5. PICK b \in Nat : b = Budget /\ b = Budget'
  BY BudgetType DEF Budget
<1>6. PICK d \in {0, 1} : d = (IF Accepted(supActors[k]) THEN 0 ELSE 1)
  OBVIOUS
<1>7. PICK z : z = [all |-> supNoticed[k].all + 1, refused |-> supNoticed[k].refused + d]
  OBVIOUS
<1>8. z \in Notices /\ z.all = supNoticed[k].all + 1 /\ z.refused = supNoticed[k].refused + d
  BY <1>1, <1>4, <1>7 DEF Notices
<1>9. supNoticed' = [supNoticed EXCEPT ![k] = z]
  <2>1. supNoticed' = [supNoticed EXCEPT ![k].all = supNoticed[k].all + 1,
                                         ![k].refused = IF Accepted(supActors[k]) THEN supNoticed[k].refused ELSE supNoticed[k].refused + 1]
    BY DEF SupNotifyCrash
  <2>2. supNoticed[k] = [all |-> supNoticed[k].all, refused |-> supNoticed[k].refused]
    BY <1>1 DEF Notices
  <2>3. (IF Accepted(supActors[k]) THEN supNoticed[k].refused ELSE supNoticed[k].refused + 1) = supNoticed[k].refused + d
    BY <1>1, <1>4, <1>6
  <2>4. PICK x, y : /\ x = supNoticed[k].all + 1
                    /\ y = IF Accepted(supActors[k]) THEN supNoticed[k].refused ELSE supNoticed[k].refused + 1
    OBVIOUS
  <2>5. supNoticed' = [supNoticed EXCEPT ![k] = [supNoticed[k] EXCEPT !.all = x, !.refused = y]]
    BY <1>1, <2>1, <2>4
  <2>6. [supNoticed[k] EXCEPT !.all = x, !.refused = y] = [all |-> x, refused |-> y]
    <3>1. x \in Nat /\ y \in Nat /\ supNoticed[k] \in Notices
      BY <1>1, <1>4, <2>4
    <3>2. PICK a : a = [supNoticed[k] EXCEPT !.all = x, !.refused = y]
      OBVIOUS
    <3>3. a \in Notices /\ a.all = x /\ a.refused = y
      BY <3>1, <3>2 DEF Notices
    <3>4. a = [all |-> x, refused |-> y]
      BY <3>3 DEF Notices
    <3> QED BY <3>2, <3>4
  <2>7. z = [all |-> x, refused |-> y]
    BY <1>7, <2>3, <2>4
  <2> QED BY <2>5, <2>6, <2>7
<1>10. supNoticed' \in Seq(Notices) /\ Len(supNoticed') = l /\ \A i \in 1 .. l : supNoticed'[i] = IF i = k THEN z ELSE supNoticed[i]
  BY <1>1, <1>2, <1>8, <1>9
<1>11. supRestarts' = supRestarts + (1 - d)
  <2>1. CASE Accepted(supActors[k])
    <3>1. supRestarts' = supRestarts + 1 /\ d = 0
      BY <1>6, <2>1 DEF SupNotifyCrash
    <3> QED BY <1>2, <3>1
  <2>2. CASE ~Accepted(supActors[k])
    <3>1. supRestarts' = supRestarts /\ d = 1
      BY <1>6, <2>2 DEF SupNotifyCrash
    <3> QED BY <1>2, <3>1
  <2> QED BY <2>1, <2>2
<1>12. supRestarts' = Total(Weighed(supNoticed, AcceptedOf))'
  <2>1. PICK x, y : x = Weighed(supNoticed, AcceptedOf) /\ y = Weighed(supNoticed', AcceptedOf)
    OBVIOUS
  <2>2. AcceptedOf \in [Notices -> Int]
    BY <1>2, AcceptedOfType
  <2>3. x \in Seq(Int) /\ Len(x) = l /\ \A i \in 1 .. l : x[i] = AcceptedOf[supNoticed[i]]
    <3>1. supNoticed \in Seq(Notices) /\ Len(supNoticed) = l
      BY <1>1, <1>2
    <3> QED BY <2>1, <2>2, <3>1, WeighedType
  <2>4. y \in Seq(Int) /\ Len(y) = l /\ \A i \in 1 .. l : y[i] = AcceptedOf[supNoticed'[i]]
    BY <1>10, <2>1, <2>2, WeighedType
  <2>5. k \in 1 .. Len(x) /\ \A i \in 1 .. Len(x) : i # k => y[i] = x[i]
    <3>1. k \in 1 .. l
      BY <1>1
    <3>2. ASSUME NEW i \in 1 .. l, i # k PROVE y[i] = x[i]
      <4>1. supNoticed'[i] = supNoticed[i]
        BY <1>1, <1>10, <3>2
      <4> QED BY <2>3, <2>4, <4>1
    <3> QED BY <2>3, <3>1, <3>2
  <2>6. Total(y) = Total(x) + (y[k] - x[k])
    <3>1. x \in Seq(Int) /\ y \in Seq(Int) /\ Len(y) = Len(x)
      BY <2>3, <2>4
    <3> QED BY <2>5, <3>1, TotalChanged
  <2>7. x[k] = supNoticed[k].all - supNoticed[k].refused /\ y[k] = z.all - z.refused
    BY <1>1, <1>8, <1>10, <2>3, <2>4 DEF AcceptedOf
  <2>8. y[k] - x[k] = 1 - d
    BY <1>1, <1>4, <1>8, <2>7
  <2>9. supRestarts' = Total(y)
    BY <1>2, <1>11, <2>1, <2>6, <2>8
  <2> QED BY <2>1, <2>9 DEF AcceptedOf, Notices
<1>21. PICK st \in SupStates : st = IF d = 0 THEN "restarting" ELSE "crashed"
  BY DEF SupStates
<1>13. PICK hit \in SUBSET (1 .. l) :
          /\ k \in hit
          /\ supActors' = [j \in 1 .. l |-> IF j \in hit
                                            THEN [supActors[j] EXCEPT !.state = st, !.restarts = @ + 1]
                                            ELSE supActors[j]]
          /\ d = 0 => hit = Along(k) \cup {k}
          /\ d = 1 => hit = {k}
  <2>1. CASE Accepted(supActors[k])
    <3>1. Along(k) \cup {k} \subseteq 1 .. l
      BY <1>1 DEF Along
    <3>2. d = 0 /\ st = "restarting" /\ d # 1
      BY <1>6, <1>21, <2>1
    <3>3. supActors' = [j \in 1 .. l |-> IF j \in Along(k) \cup {k}
                                         THEN [supActors[j] EXCEPT !.state = st, !.restarts = @ + 1]
                                         ELSE supActors[j]]
      BY <1>1, <2>1, <3>2 DEF SupNotifyCrash
    <3> QED BY <3>1, <3>2, <3>3
  <2>2. CASE ~Accepted(supActors[k])
    <3>1. d = 1 /\ st = "crashed" /\ d # 0
      BY <1>6, <1>21, <2>2
    <3>2. supActors' = [supActors EXCEPT ![k].state = st, ![k].restarts = @ + 1]
      BY <2>2, <3>1 DEF SupNotifyCrash
    <3>3. PICK a : a = [supActors[k] EXCEPT !.state = st, !.restarts = @ + 1]
      OBVIOUS
    <3>4. supActors' = [supActors EXCEPT ![k] = a]
      BY <1>1, <3>2, <3>3
    <3>5. \A j \in {k} : a = [supActors[j] EXCEPT !.state = st, !.restarts = @ + 1]
      BY <3>3
    <3>6. supActors' = [j \in 1 .. l |-> IF j \in {k} THEN a ELSE supActors[j]]
      <4>1. supActors = [j \in 1 .. l |-> supActors[j]]
        BY <1>1, <1>2
      <4> QED BY <1>1, <3>4, <4>1
    <3>7. supActors' = [j \in 1 .. l |-> IF j \in {k}
                                         THEN [supActors[j] EXCEPT !.state = st, !.restarts = @ + 1]
                                         ELSE supActors[j]]
      BY <3>5, <3>6
    <3>8. {k} \in SUBSET (1 .. l)
      BY <1>1
    <3> QED BY <3>1, <3>7, <3>8
  <2> QED BY <2>1, <2>2
<1>14. ASSUME NEW j \in 1 .. l
       PROVE  /\ supActors'[j] \in RemoteActors
              /\ j \in hit => supActors'[j].restarts = supActors[j].restarts + 1 /\ supActors'[j].state = st
              /\ j \notin hit => supActors'[j] = supActors[j]
  <2>1. supActors[j] \in RemoteActors /\ supActors[j].restarts \in Nat
    BY <1>1, <1>4
  <2>2. PICK a : a = [supActors[j] EXCEPT !.state = st, !.restarts = @ + 1]
    OBVIOUS
  <2>3. a \in RemoteActors /\ a.restarts = supActors[j].restarts + 1 /\ a.state = st
    <3>1. PICK q : q = supActors[j].restarts + 1
      OBVIOUS
    <3>2. q \in Nat
      BY <2>1, <3>1
    <3>3. a = [supActors[j] EXCEPT !.state = st, !.restarts = q]
      BY <2>2, <3>1
    <3>4. a \in RemoteActors /\ a.restarts = q /\ a.state = st
      BY <1>21, <2>1, <3>2, <3>3 DEF RemoteActors
    <3> QED BY <3>1, <3>4
  <2>4. supActors'[j] = IF j \in hit THEN a ELSE supActors[j]
    BY <1>13, <2>2
  <2> QED BY <2>1, <2>3, <2>4
<1>15. supActors' \in Seq(RemoteActors) /\ Len(supActors') = l
  <2>1. DOMAIN supActors' = 1 .. l /\ supActors' = [j \in 1 .. l |-> supActors'[j]]
    BY <1>13
  <2> QED BY <1>14, <2>1
<1>16. SupType'
  BY <1>1, <1>2, <1>3, <1>10, <1>11, <1>15 DEF SupType
<1>17. d = 0 => supActors[k].restarts + 1 <= b
  BY <1>5, <1>6 DEF Accepted
<1>20. d = 1 => ~(supActors[k].restarts + 1 <= b)
  BY <1>5, <1>6 DEF Accepted
<1>18. ASSUME NEW i \in 1 .. l PROVE SupFits(i)'
  <2>1. PICK r \in Nat, n \in Nat, f \in Nat, s \in Int, t \in Int :
            /\ r = supActors[i].restarts /\ n = supNoticed[i].all /\ f = supNoticed[i].refused
            /\ s = supSince[i] /\ t = supRestarts
    BY <1>1, <1>2, <1>4
  <2>2. /\ n <= r /\ n - f <= b
        /\ supActors[i].state = "restarting" => r > 0
        /\ supStrategy = "one_for_one" => r = n /\ (r > b => supActors[i].state = "crashed")
        /\ supStrategy = "one_for_all" => r = t - s + f
        /\ supStrategy = "rest_for_one" /\ i = 1 => r = n
    BY <1>1, <1>5, <2>1 DEF SupFits
  <2>3. supSince'[i] = s /\ supRestarts' = t + (1 - d) /\ supStrategy' = supStrategy /\ Budget' = b
    BY <1>3, <1>5, <1>11, <2>1
  <2>4. CASE i = k
    <3>1. supActors'[i].restarts = r + 1 /\ supActors'[i].state = IF d = 0 THEN "restarting" ELSE "crashed"
      BY <1>13, <1>14, <1>21, <2>1, <2>4
    <3>2. supNoticed'[i].all = n + 1 /\ supNoticed'[i].refused = f + d
      BY <1>8, <1>10, <2>1, <2>4
    <3>3. (d = 0 => r + 1 <= b) /\ (d = 1 => ~(r + 1 <= b))
      BY <1>17, <1>20, <2>1, <2>4
    <3>4. /\ n + 1 <= r + 1 /\ (n + 1) - (f + d) <= b
          /\ r + 1 > 0
          /\ d = 0 => ~(r + 1 > b)
          /\ r = n => r + 1 = n + 1
          /\ r = t - s + f => r + 1 = (t + (1 - d)) - s + (f + d)
      BY <2>2, <3>3
    <3> QED BY <2>2, <2>3, <3>1, <3>2, <3>4 DEF SupFits
  <2>5. CASE i # k
    <3>1. supNoticed'[i].all = n /\ supNoticed'[i].refused = f
      BY <1>10, <2>1, <2>5
    <3>2. CASE i \in hit
      <4>1. d = 0 /\ i \in Along(k)
        <5>1. d = 0 \/ d = 1
          OBVIOUS
        <5>2. (d = 0 => hit = Along(k) \cup {k}) /\ (d = 1 => hit = {k})
          BY <1>13
        <5>3. d # 1
          BY <2>5, <3>2, <5>2
        <5>4. d = 0 /\ hit = Along(k) \cup {k}
          BY <5>1, <5>2, <5>3
        <5> QED BY <2>5, <3>2, <5>4
      <4>2. supStrategy # "one_for_one" /\ (supStrategy = "rest_for_one" => i # 1)
        <5>1. supStrategy # "one_for_one"
          BY <4>1 DEF Along
        <5>2. supStrategy = "rest_for_one" => i > k
          BY <4>1 DEF Along
        <5>3. k >= 1
          BY <1>1
        <5> QED BY <1>1, <5>1, <5>2, <5>3
      <4>3. supActors'[i].restarts = r + 1 /\ supActors'[i].state = "restarting"
        BY <1>14, <1>21, <2>1, <3>2, <4>1
      <4>4. n <= r + 1 /\ r + 1 > 0 /\ (r = t - s + f => r + 1 = (t + 1) - s + f) /\ supRestarts' = t + 1
        BY <2>2, <2>3, <4>1
      <4> QED BY <2>2, <2>3, <3>1, <4>2, <4>3, <4>4 DEF SupFits
    <3>3. CASE i \notin hit
      <4>1. supActors'[i] = supActors[i]
        BY <1>14, <3>3
      <4>2. supStrategy = "one_for_all" => d = 1
        <5>1. supStrategy = "one_for_all" => i \in Along(k)
          BY <1>1, <2>5 DEF Along
        <5> QED BY <1>13, <3>3, <5>1
      <4>3. supStrategy = "one_for_all" => supRestarts' = t
        BY <2>3, <4>2
      <4> QED BY <2>1, <2>2, <2>3, <3>1, <4>1, <4>3 DEF SupFits
    <3> QED BY <3>2, <3>3
  <2> QED BY <2>4, <2>5
<1>19. \A i \in 1 .. Len(supActors') : SupFits(i)'
  BY <1>15, <1>18
<1> QED BY <1>12, <1>16, <1>19 DEF SupInv
-----------------------------------------------------------------------------
(* The connection.  What is sent and not read is a row of units: unit i is *)
(* unit g[i] of the frame of message f[i], whose payload is h[i] long.     *)

Unit(m, n, k) ==
    IF k = 1 THEN 1 ELSE IF k = 2 THEN 2 ELSE IF k = 3 THEN 10 + n ELSE IF k = 4 THEN 20 + n ELSE 100 * m + (k - 4)

(* A frame goes on to its end, and what follows it is of a later message.  *)
InARow(L, t, f, g, h) ==
    /\ f \in [1 .. L -> Nat] /\ g \in [1 .. L -> Nat] /\ h \in [1 .. L -> NetLens]
    /\ \A i \in 1 .. L : f[i] <= t /\ 1 <= f[i] /\ 1 <= g[i] /\ g[i] <= 4 + h[i]
    /\ \A i, j \in 1 .. L : i <= j /\ g[i] + (j - i) <= 4 + h[i] => f[j] = f[i] /\ h[j] = h[i] /\ g[j] = g[i] + (j - i)
    /\ \A i, j \in 1 .. L : i < j => f[i] <= f[j] /\ (g[i] = 4 + h[i] => f[i] < f[j])

(* A payload has at least one byte.                                        *)
LEMMA LensFacts == \A n \in NetLens : n \in Nat /\ 1 <= n
BY DistAssumption

(* A frame is four units of its header and those of its payload, numbered  *)
(* from 1.                                                                 *)
LEMMA FrameUnits ==
    ASSUME NEW m \in Nat, NEW n \in NetLens
    PROVE  Frame(m, n) \in Seq(Int) /\ Len(Frame(m, n)) = 4 + n /\ \A k \in 1 .. 4 + n : Frame(m, n)[k] = Unit(m, n, k)
<1>1. n \in Nat /\ 10 + n \in Int /\ 20 + n \in Int
  BY LensFacts
<1>2. PICK p : p = Payload(m, n)
  OBVIOUS
<1>3. p \in Seq(Int) /\ Len(p) = n /\ \A k \in 1 .. n : p[k] = 100 * m + k
  <2>1. \A k \in 1 .. n : 100 * m + k \in Int
    BY <1>1
  <2>2. p = [k \in 1 .. n |-> 100 * m + k]
    BY <1>2 DEF Payload
  <2> QED BY <1>1, <2>1, <2>2
<1>4. PICK q : q = <<1, 2, 10 + n, 20 + n>>
  OBVIOUS
<1>5. q \in Seq(Int) /\ Len(q) = 4 /\ q[1] = 1 /\ q[2] = 2 /\ q[3] = 10 + n /\ q[4] = 20 + n
  BY <1>1, <1>4
<1>6. Frame(m, n) = q \o p
  BY <1>2, <1>4 DEF Frame
<1>7. q \o p \in Seq(Int) /\ Len(q \o p) = 4 + n
      /\ \A k \in 1 .. 4 + n : (q \o p)[k] = IF k <= 4 THEN q[k] ELSE p[k - 4]
  <2>1. PICK e \in Nat : e = 4
    OBVIOUS
  <2>2. /\ q \o p \in Seq(Int) /\ Len(q \o p) = e + n
        /\ \A k \in 1 .. e + n : (q \o p)[k] = IF k <= e THEN q[k] ELSE p[k - e]
    <3>1. q \in Seq(Int) /\ p \in Seq(Int) /\ e = Len(q) /\ n = Len(p) /\ n \in Nat
      BY <1>1, <1>3, <1>5, <2>1
    <3> QED BY <3>1, Concatenated
  <2> QED BY <2>1, <2>2
<1>8. ASSUME NEW k \in 1 .. 4 + n PROVE (q \o p)[k] = Unit(m, n, k)
  <2>1. CASE k <= 4
    <3>1. (q \o p)[k] = q[k]
      BY <1>7, <2>1
    <3>2. k = 1 \/ k = 2 \/ k = 3 \/ k = 4
      BY <1>1, <2>1
    <3> QED BY <1>5, <3>1, <3>2 DEF Unit
  <2>2. CASE ~(k <= 4)
    <3>1. (q \o p)[k] = p[k - 4]
      BY <1>7, <2>2
    <3>2. k - 4 \in 1 .. n /\ k # 1 /\ k # 2 /\ k # 3 /\ k # 4
      BY <1>1, <2>2
    <3>3. p[k - 4] = 100 * m + (k - 4)
      BY <1>3, <3>2
    <3> QED BY <3>1, <3>2, <3>3 DEF Unit
  <2> QED BY <2>1, <2>2
<1> QED BY <1>6, <1>7, <1>8

Moved(F, f, L, k) == F = [i \in 1 .. L - k |-> f[i + k]]

(* The row without its first k units, and its first l alone.               *)
LEMMA RowShifted ==
    ASSUME NEW L \in Nat, NEW t \in Nat, NEW f, NEW g, NEW h, InARow(L, t, f, g, h), NEW k \in 0 .. L,
           NEW F, NEW G, NEW H,
           Moved(F, f, L, k), Moved(G, g, L, k), Moved(H, h, L, k)
    PROVE  InARow(L - k, t, F, G, H)
<1>1. \A i \in 1 .. L - k : /\ i + k \in 1 .. L /\ F[i] = f[i + k] /\ G[i] = g[i + k] /\ H[i] = h[i + k]
  BY DEF Moved
<1>2. \A i \in 1 .. L : f[i] \in Nat /\ g[i] \in Nat /\ h[i] \in NetLens
  BY DEF InARow
<1>3. F \in [1 .. L - k -> Nat] /\ G \in [1 .. L - k -> Nat] /\ H \in [1 .. L - k -> NetLens]
  BY <1>1, <1>2 DEF Moved
<1>4. \A i \in 1 .. L - k : F[i] <= t /\ 1 <= F[i] /\ 1 <= G[i] /\ G[i] <= 4 + H[i]
  BY <1>1 DEF InARow
<1>5. ASSUME NEW i \in 1 .. L - k, NEW j \in 1 .. L - k, i <= j, G[i] + (j - i) <= 4 + H[i]
      PROVE  F[j] = F[i] /\ H[j] = H[i] /\ G[j] = G[i] + (j - i)
  <2>1. PICK a \in 1 .. L, b \in 1 .. L : a = i + k /\ b = j + k
    BY <1>1
  <2>2. a <= b /\ b - a = j - i
    BY <1>5, <2>1
  <2>3. g[a] + (b - a) <= 4 + h[a]
    BY <1>1, <1>5, <2>1, <2>2
  <2>4. f[b] = f[a] /\ h[b] = h[a] /\ g[b] = g[a] + (b - a)
    BY <2>2, <2>3 DEF InARow
  <2> QED BY <1>1, <2>1, <2>2, <2>4
<1>6. ASSUME NEW i \in 1 .. L - k, NEW j \in 1 .. L - k, i < j
      PROVE  F[i] <= F[j] /\ (G[i] = 4 + H[i] => F[i] < F[j])
  <2>1. PICK a \in 1 .. L, b \in 1 .. L : a = i + k /\ b = j + k
    BY <1>1
  <2>2. a < b
    BY <1>6, <2>1
  <2>3. f[a] <= f[b] /\ (g[a] = 4 + h[a] => f[a] < f[b])
    BY <2>2 DEF InARow
  <2> QED BY <1>1, <2>1, <2>3
<1> QED BY <1>3, <1>4, <1>5, <1>6 DEF InARow

Cut(F, f, l) == F = [i \in 1 .. l |-> f[i]]

(* The first part of a row of frames is a row of frames.                   *)
LEMMA RowCut ==
    ASSUME NEW L \in Nat, NEW t \in Nat, NEW f, NEW g, NEW h, InARow(L, t, f, g, h), NEW l \in 0 .. L,
           NEW F, NEW G, NEW H, Cut(F, f, l), Cut(G, g, l), Cut(H, h, l)
    PROVE  InARow(l, t, F, G, H)
<1>1. \A i \in 1 .. l : i \in 1 .. L /\ F[i] = f[i] /\ G[i] = g[i] /\ H[i] = h[i]
  BY DEF Cut
<1>2. \A i \in 1 .. L : f[i] \in Nat /\ g[i] \in Nat /\ h[i] \in NetLens
  BY DEF InARow
<1>3. F \in [1 .. l -> Nat] /\ G \in [1 .. l -> Nat] /\ H \in [1 .. l -> NetLens]
  BY <1>1, <1>2 DEF Cut
<1>4. \A i \in 1 .. l : F[i] <= t /\ 1 <= F[i] /\ 1 <= G[i] /\ G[i] <= 4 + H[i]
  BY <1>1 DEF InARow
<1>5. \A i, j \in 1 .. l : i <= j /\ G[i] + (j - i) <= 4 + H[i] => F[j] = F[i] /\ H[j] = H[i] /\ G[j] = G[i] + (j - i)
  BY <1>1 DEF InARow
<1>6. \A i, j \in 1 .. l : i < j => F[i] <= F[j] /\ (G[i] = 4 + H[i] => F[i] < F[j])
  BY <1>1 DEF InARow
<1> QED BY <1>3, <1>4, <1>5, <1>6 DEF InARow

Extended(R, L, t, n, f, g, h, F, G, H) ==
    /\ F = [i \in 1 .. R |-> IF i <= L THEN f[i] ELSE t + 1]
    /\ G = [i \in 1 .. R |-> IF i <= L THEN g[i] ELSE i - L]
    /\ H = [i \in 1 .. R |-> IF i <= L THEN h[i] ELSE n]

(* The row with a frame of n after it, when it ends with a whole one.      *)
LEMMA RowExtended ==
    ASSUME NEW L \in Nat, NEW t \in Nat, NEW f, NEW g, NEW h, InARow(L, t, f, g, h), NEW n \in NetLens,
           L > 0 => g[L] = 4 + h[L], NEW R \in Nat, R = L + 4 + n,
           NEW F, NEW G, NEW H, Extended(R, L, t, n, f, g, h, F, G, H)
    PROVE  InARow(R, t + 1, F, G, H)
<1>0. n \in Nat /\ 1 <= n
  BY LensFacts
<1>1. \A i \in 1 .. R : i <= L => i \in 1 .. L /\ F[i] = f[i] /\ G[i] = g[i] /\ H[i] = h[i]
  BY DEF Extended
<1>2. \A i \in 1 .. R : ~(i <= L) => i - L \in 1 .. 4 + n /\ F[i] = t + 1 /\ G[i] = i - L /\ H[i] = n
  BY <1>0 DEF Extended
<1>3. \A i \in 1 .. L : f[i] \in Nat /\ g[i] \in Nat /\ h[i] \in NetLens /\ h[i] \in Nat
  BY LensFacts DEF InARow
<1>4. F \in [1 .. R -> Nat] /\ G \in [1 .. R -> Nat] /\ H \in [1 .. R -> NetLens]
  <2>1. \A i \in 1 .. R : F[i] \in Nat /\ G[i] \in Nat /\ H[i] \in NetLens
    BY <1>0, <1>1, <1>2, <1>3
  <2> QED BY <2>1 DEF Extended
<1>5. \A i \in 1 .. R : F[i] <= t + 1 /\ 1 <= F[i] /\ 1 <= G[i] /\ G[i] <= 4 + H[i]
  <2> SUFFICES ASSUME NEW i \in 1 .. R PROVE F[i] <= t + 1 /\ 1 <= F[i] /\ 1 <= G[i] /\ G[i] <= 4 + H[i]
    OBVIOUS
  <2>1. CASE i <= L
    <3>1. f[i] <= t /\ 1 <= f[i] /\ 1 <= g[i] /\ g[i] <= 4 + h[i] /\ f[i] \in Nat
      BY <1>1, <1>3, <2>1 DEF InARow
    <3> QED BY <1>1, <2>1, <3>1
  <2>2. CASE ~(i <= L)
    BY <1>0, <1>2, <2>2
  <2> QED BY <2>1, <2>2
<1>6. ASSUME NEW i \in 1 .. L PROVE ~(g[i] + (L - i) < 4 + h[i])
  <2>1. L \in 1 .. L /\ g[L] = 4 + h[L]
    OBVIOUS
  <2>2. ASSUME g[i] + (L - i) <= 4 + h[i] PROVE g[i] + (L - i) = 4 + h[i]
    <3>1. h[L] = h[i] /\ g[L] = g[i] + (L - i)
      BY <2>1, <2>2 DEF InARow
    <3> QED BY <2>1, <3>1
  <2> QED BY <1>3, <2>2
<1>7. ASSUME NEW i \in 1 .. R, NEW j \in 1 .. R, i <= j, G[i] + (j - i) <= 4 + H[i]
      PROVE  F[j] = F[i] /\ H[j] = H[i] /\ G[j] = G[i] + (j - i)
  <2>1. CASE j <= L
    <3>1. i <= L
      BY <1>7, <2>1
    <3>2. g[i] + (j - i) <= 4 + h[i]
      BY <1>1, <1>7, <3>1
    <3>3. f[j] = f[i] /\ h[j] = h[i] /\ g[j] = g[i] + (j - i)
      BY <1>1, <1>7, <2>1, <3>1, <3>2 DEF InARow
    <3> QED BY <1>1, <2>1, <3>1, <3>3
  <2>2. CASE i <= L /\ ~(j <= L)
    <3>1. g[i] + (j - i) <= 4 + h[i] /\ i \in 1 .. L
      BY <1>1, <1>7, <2>2
    <3>2. g[i] + (L - i) < g[i] + (j - i)
      BY <1>3, <2>2, <3>1
    <3>3. PICK x \in Int, y \in Int, z \in Int : x = g[i] + (L - i) /\ y = g[i] + (j - i) /\ z = 4 + h[i]
      BY <1>3, <3>1
    <3>4. ~(x < z) /\ x < y /\ y <= z
      BY <1>6, <3>1, <3>2, <3>3
    <3> QED BY <3>4
  <2>3. CASE ~(i <= L) /\ ~(j <= L)
    BY <1>2, <2>3
  <2> QED BY <1>7, <2>1, <2>2, <2>3
<1>8. ASSUME NEW i \in 1 .. R, NEW j \in 1 .. R, i < j
      PROVE  F[i] <= F[j] /\ (G[i] = 4 + H[i] => F[i] < F[j])
  <2>1. CASE j <= L
    <3>1. i <= L
      BY <1>8, <2>1
    <3>2. f[i] <= f[j] /\ (g[i] = 4 + h[i] => f[i] < f[j])
      BY <1>1, <1>8, <2>1, <3>1 DEF InARow
    <3> QED BY <1>1, <2>1, <3>1, <3>2
  <2>2. CASE i <= L /\ ~(j <= L)
    <3>1. f[i] <= t /\ f[i] \in Nat
      BY <1>1, <1>3, <2>2 DEF InARow
    <3> QED BY <1>1, <1>2, <2>2, <3>1
  <2>3. CASE ~(i <= L) /\ ~(j <= L)
    <3>1. i - L < 4 + n
      BY <1>0, <1>8
    <3> QED BY <1>0, <1>2, <2>3, <3>1
  <2> QED BY <1>8, <2>1, <2>2, <2>3
<1> QED BY <1>4, <1>5, <1>7, <1>8 DEF InARow
-----------------------------------------------------------------------------
NetType ==
    /\ netStream \in Seq(Int) /\ netOut \in Seq(Int) /\ netTried \in Nat
    /\ netSent \in Seq(Nat) /\ \A m \in Range(netSent) : m \in Nat /\ m <= netTried
    /\ netRecv \in Int /\ netReceived \in Seq(Seq(Int))

(* What is on its way: units the peer has, then the rest of the last       *)
(* frame.  A frame that is cut off ends the row of a connection given up.  *)
NetShape(L, s, o, f, g, h) ==
    /\ L = s + o /\ s = Len(netStream) /\ o = Len(netOut)
    /\ InARow(L, netTried, f, g, h)
    /\ \A i \in 1 .. s : netStream[i] = Unit(f[i], h[i], g[i])
    /\ \A i \in 1 .. o : /\ netOut[i] = Unit(f[s + i], h[s + i], g[s + i])
                         /\ f[s + i] = netTried /\ g[s + i] = 4 + h[s + i] - (o - i)
    /\ o > 0 => netOpen
    /\ netOpen /\ L > 0 => g[L] = 4 + h[L]
    /\ \A i \in 1 .. s : g[i] = 4 + h[i] => f[i] \in Range(netSent)

(* What dist_recv has of a payload, and what follows.                      *)
NetReading(L, f, g, h) ==
    netRecv > -1 =>
        /\ netRecv <= NetBuf /\ netGot \in Seq(Int) /\ Len(netGot) < netRecv
        /\ L = 0 => ~netOpen
        /\ L > 0 => h[1] = netRecv /\ g[1] = 5 + Len(netGot) /\ netGot = Payload(f[1], Len(netGot))

(* What was received is of messages before all that is on its way.         *)
NetRead(L, f) ==
    \A a \in DOMAIN netReceived : \E m \in Range(netSent) : \E n \in NetLens :
        netReceived[a] = Payload(m, n) /\ n <= NetBuf /\ \A j \in 1 .. L : m < f[j]

Ordered == \A i, j \in DOMAIN netReceived : i < j => netReceived[i][1] < netReceived[j][1]

NetState(L, s, o, f, g, h) == NetShape(L, s, o, f, g, h) /\ NetReading(L, f, g, h) /\ NetRead(L, f)

NetInv ==
    /\ NetType /\ Ordered
    /\ \E L \in Nat : \E s \in Nat : \E o \in Nat : \E f : \E g : \E h : NetState(L, s, o, f, g, h)

(* A payload is numbered by its message and the place in it.               *)
LEMMA PayloadFacts ==
    ASSUME NEW m \in Nat, NEW n \in Nat
    PROVE  /\ Payload(m, n) \in Seq(Int) /\ Len(Payload(m, n)) = n /\ \A k \in 1 .. n : Payload(m, n)[k] = 100 * m + k
<1>1. \A k \in 1 .. n : 100 * m + k \in Int
  OBVIOUS
<1>2. Payload(m, n) = [k \in 1 .. n |-> 100 * m + k]
  BY DEF Payload
<1> QED BY <1>1, <1>2

LEMMA PayloadNone == \A m : Payload(m, 0) = <<>>
<1>1. 1 .. 0 = {}
  OBVIOUS
<1>2. \A m : [k \in {} |-> 100 * m + k] = <<>>
  OBVIOUS
<1> QED BY <1>1, <1>2 DEF Payload

(* The end and the beginning of a sequence, element by element.            *)
LEMMA Trailing ==
    ASSUME NEW S, NEW s \in Seq(S), NEW l \in Nat, l = Len(s), NEW k \in 0 .. l,
           NEW t, t = SubSeq(s, k + 1, l)
    PROVE  t \in Seq(S) /\ Len(t) = l - k /\ \A i \in 1 .. l - k : t[i] = s[i + k]
<1>1. t \in Seq(S) /\ Len(t) = l - k
  OBVIOUS
<1>2. \A i \in 1 .. l - k : t[i] = s[i + k]
  OBVIOUS
<1> QED BY <1>1, <1>2

LEMMA Leading ==
    ASSUME NEW S, NEW s \in Seq(S), NEW l \in Nat, l = Len(s), NEW k \in 0 .. l,
           NEW t, t = SubSeq(s, 1, k)
    PROVE  t \in Seq(S) /\ Len(t) = k /\ \A i \in 1 .. k : t[i] = s[i]
<1>1. t \in Seq(S) /\ Len(t) = k
  OBVIOUS
<1>2. \A i \in 1 .. k : t[i] = s[i]
  OBVIOUS
<1> QED BY <1>1, <1>2

(* A connection on which nothing was sent satisfies the invariant.         *)
LEMMA NetStart == DistributedInit => NetInv
<1> SUFFICES ASSUME DistributedInit PROVE NetInv
  OBVIOUS
<1>1. PICK L \in Nat : L = 0
  OBVIOUS
<1>2. <<>> \in Seq(Int) /\ <<>> \in Seq(Nat) /\ <<>> \in Seq(Seq(Int)) /\ Len(<<>>) = 0 /\ DOMAIN <<>> = {}
  OBVIOUS
<1>3. Range(netSent) = {}
  BY <1>2 DEF DistributedInit, Range
<1>4. NetType /\ Ordered
  BY <1>2, <1>3 DEF DistributedInit, NetType, Ordered
<1>5. PICK f, g, h : f = [i \in 1 .. L |-> 0] /\ g = [i \in 1 .. L |-> 0] /\ h = [i \in 1 .. L |-> CHOOSE n \in NetLens : TRUE]
  OBVIOUS
<1>6. 1 .. L = {}
  BY <1>1
<1>7. InARow(L, netTried, f, g, h)
  BY <1>5, <1>6 DEF InARow
<1>8. NetShape(L, L, L, f, g, h)
  BY <1>1, <1>2, <1>6, <1>7 DEF DistributedInit, NetShape
<1>9. NetReading(L, f, g, h) /\ NetRead(L, f)
  BY <1>2 DEF DistributedInit, NetReading, NetRead
<1> QED BY <1>4, <1>8, <1>9 DEF NetInv, NetState
-----------------------------------------------------------------------------
(* The receiver takes k units away.                                        *)
LEMMA StreamShifted ==
    ASSUME NetType, NEW L \in Nat, NEW s \in Nat, NEW o \in Nat, NEW f, NEW g, NEW h,
           NetShape(L, s, o, f, g, h), NetRead(L, f), NEW k \in 0 .. s,
           netStream' = Rest(k), UNCHANGED <<netOut, netOpen, netSent, netTried>>,
           NEW F, NEW G, NEW H,
           Moved(F, f, L, k), Moved(G, g, L, k), Moved(H, h, L, k)
    PROVE  /\ L - k \in Nat /\ s - k \in Nat /\ netStream' \in Seq(Int)
           /\ NetShape(L - k, s - k, o, F, G, H)'
           /\ netReceived' = netReceived => NetRead(L - k, F)'
<1>1. L = s + o /\ s = Len(netStream) /\ o = Len(netOut) /\ k \in 0 .. L /\ L - k \in Nat /\ s - k \in Nat
  BY DEF NetShape
<1>2. netStream' \in Seq(Int) /\ Len(netStream') = s - k /\ \A i \in 1 .. s - k : netStream'[i] = netStream[i + k]
  <2>1. PICK t : t = SubSeq(netStream, k + 1, s)
    OBVIOUS
  <2>2. netStream \in Seq(Int)
    BY DEF NetType
  <2>3. t \in Seq(Int) /\ Len(t) = s - k /\ \A i \in 1 .. s - k : t[i] = netStream[i + k]
    BY <1>1, <2>1, <2>2, Trailing
  <2> QED BY <1>1, <2>1, <2>3 DEF Rest
<1>3. InARow(L - k, netTried', F, G, H)
  <2>1. InARow(L, netTried, f, g, h) /\ netTried \in Nat
    BY DEF NetShape, NetType
  <2>2. InARow(L - k, netTried, F, G, H)
    BY <1>1, <2>1, RowShifted
  <2> QED BY <2>2
<1>4. \A i \in 1 .. L - k : i + k \in 1 .. L /\ F[i] = f[i + k] /\ G[i] = g[i + k] /\ H[i] = h[i + k]
  BY <1>1 DEF Moved
<1>5. \A i \in 1 .. s - k : i + k \in 1 .. s /\ i \in 1 .. L - k
  BY <1>1
<1>6. \A i \in 1 .. s - k : netStream'[i] = Unit(F[i], H[i], G[i]) /\ (G[i] = 4 + H[i] => F[i] \in Range(netSent'))
  <2> SUFFICES ASSUME NEW i \in 1 .. s - k
               PROVE  netStream'[i] = Unit(F[i], H[i], G[i]) /\ (G[i] = 4 + H[i] => F[i] \in Range(netSent'))
    OBVIOUS
  <2>1. PICK j \in 1 .. s : j = i + k
    BY <1>5
  <2>2. netStream'[i] = netStream[j] /\ F[i] = f[j] /\ G[i] = g[j] /\ H[i] = h[j]
    BY <1>2, <1>4, <1>5, <2>1
  <2>3. netStream[j] = Unit(f[j], h[j], g[j]) /\ (g[j] = 4 + h[j] => f[j] \in Range(netSent))
    BY <2>1 DEF NetShape
  <2> QED BY <2>2, <2>3
<1>7. \A i \in 1 .. o : (s - k) + i \in 1 .. L - k /\ ((s - k) + i) + k = s + i
  BY <1>1
<1>8. ASSUME NEW i \in 1 .. o
      PROVE  /\ netOut'[i] = Unit(F[(s - k) + i], H[(s - k) + i], G[(s - k) + i])
             /\ F[(s - k) + i] = netTried' /\ G[(s - k) + i] = 4 + H[(s - k) + i] - (o - i)
  <2>1. PICK a \in 1 .. L - k, b \in 1 .. L : a = (s - k) + i /\ b = s + i /\ b = a + k
    <3>1. (s - k) + i \in 1 .. L - k /\ s + i = ((s - k) + i) + k
      BY <1>7
    <3>2. s + i \in 1 .. L
      BY <1>4, <3>1
    <3> QED BY <3>1, <3>2
  <2>2. F[a] = f[b] /\ G[a] = g[b] /\ H[a] = h[b]
    BY <1>4, <2>1
  <2>3. netOut[i] = Unit(f[b], h[b], g[b]) /\ f[b] = netTried /\ g[b] = 4 + h[b] - (o - i)
    BY <2>1 DEF NetShape
  <2> QED BY <2>1, <2>2, <2>3
<1>9. netOpen' /\ L - k > 0 => G[L - k] = 4 + H[L - k]
  <2> SUFFICES ASSUME netOpen', L - k > 0 PROVE G[L - k] = 4 + H[L - k]
    OBVIOUS
  <2>1. L - k \in 1 .. L - k /\ (L - k) + k = L /\ L > 0
    BY <1>1
  <2>2. g[L] = 4 + h[L]
    BY <2>1 DEF NetShape
  <2> QED BY <1>4, <2>1, <2>2
<1>10. L - k = (s - k) + o /\ Len(netOut') = o /\ (o > 0 => netOpen')
  BY <1>1 DEF NetShape
<1>11. NetShape(L - k, s - k, o, F, G, H)'
  BY <1>2, <1>3, <1>6, <1>8, <1>9, <1>10 DEF NetShape
<1>12. netReceived' = netReceived => NetRead(L - k, F)'
  BY <1>4 DEF NetRead
<1> QED BY <1>1, <1>2, <1>11, <1>12

(* Nothing of a payload is in hand after the step.                         *)
LEMMA IdleStep ==
    ASSUME NetInv, NEW k \in 0 .. Len(netStream), netStream' = Rest(k), netRecv' = -1,
           UNCHANGED <<netOut, netOpen, netSent, netTried, netReceived>>
    PROVE  NetInv'
<1>1. PICK L, s, o, f, g, h : L \in Nat /\ s \in Nat /\ o \in Nat /\ NetState(L, s, o, f, g, h)
  BY DEF NetInv
<1>2. PICK F, G, H : Moved(F, f, L, k) /\ Moved(G, g, L, k) /\ Moved(H, h, L, k)
  BY DEF Moved
<1>3. NetType /\ Ordered /\ s = Len(netStream)
  BY <1>1 DEF NetInv, NetState, NetShape
<1>4. /\ L - k \in Nat /\ s - k \in Nat /\ netStream' \in Seq(Int)
      /\ NetShape(L - k, s - k, o, F, G, H)' /\ NetRead(L - k, F)'
  BY <1>1, <1>2, <1>3, StreamShifted DEF NetState
<1>5. NetReading(L - k, F, G, H)'
  BY DEF NetReading
<1>6. NetType' /\ Ordered'
  BY <1>3, <1>4 DEF NetType, Ordered
<1> QED BY <1>1, <1>4, <1>5, <1>6 DEF NetInv, NetState

(* Each step of the connection preserves the invariant.                    *)
LEMMA TimesOutStep ==
    ASSUME NetInv, NEW k \in 0 .. 3, RecvTimesOut(k)
    PROVE  NetInv'
<1>1. k \in 0 .. Len(netStream)
  BY DEF RecvTimesOut
<1> QED BY <1>1, IdleStep DEF RecvTimesOut

LEMMA HeaderStep ==
    ASSUME NetInv, RecvHeader
    PROVE  NetInv'
<1>1. PICK L, s, o, f, g, h : L \in Nat /\ s \in Nat /\ o \in Nat /\ NetState(L, s, o, f, g, h)
  BY DEF NetInv
<1>2. NetType /\ Ordered /\ s = Len(netStream) /\ L = s + o /\ InARow(L, netTried, f, g, h) /\ netStream \in Seq(Int)
  BY <1>1 DEF NetInv, NetState, NetShape, NetType
<1>3. netRecv = -1 /\ s >= 2 /\ netGot' = <<>> /\ UNCHANGED <<netOut, netOpen, netSent, netTried, netReceived>>
  BY <1>2 DEF RecvHeader
<1>4. CASE Prefix4 # <<1, 2>>
  <2>1. netStream' = Rest(2) /\ netRecv' = -1
    BY <1>3, <1>4 DEF RecvHeader
  <2>2. 2 \in 0 .. Len(netStream)
    BY <1>2, <1>3
  <2> QED BY <1>3, <2>1, <2>2, IdleStep
<1>5. CASE Prefix4 = <<1, 2>>
  <2>1. s >= 4 /\ netStream' = Rest(4) /\ netRecv' = IF netStream[3] - 10 > NetBuf THEN -1 ELSE netStream[3] - 10
    BY <1>2, <1>5 DEF RecvHeader
  <2>2. netStream[1] = 1
    <3>1. PICK e \in Nat : e = 2
      OBVIOUS
    <3>2. e \in 0 .. s /\ 1 \in 1 .. e
      BY <1>3, <3>1
    <3>3. PICK t : t = SubSeq(netStream, 1, e)
      OBVIOUS
    <3>4. t[1] = netStream[1]
      BY <1>2, <3>2, <3>3, Leading
    <3>5. <<1, 2>>[1] = 1
      OBVIOUS
    <3> QED BY <1>5, <3>1, <3>3, <3>4, <3>5 DEF Prefix4
  <2>3. PICK m \in Nat, c \in Nat, n \in NetLens : m = f[1] /\ c = g[1] /\ n = h[1] /\ 1 <= m /\ 1 <= c
    <3>1. 1 \in 1 .. L
      BY <1>1, <1>2, <2>1
    <3>2. f[1] \in Nat /\ g[1] \in Nat /\ h[1] \in NetLens /\ 1 <= f[1] /\ 1 <= g[1]
      BY <1>2, <3>1 DEF InARow
    <3> QED BY <3>2
  <2>4. n \in Nat /\ 1 <= n
    BY <2>3, LensFacts
  <2>5. c = 1
    <3>1. Unit(m, n, c) = 1
      BY <1>1, <1>3, <2>2, <2>3 DEF NetState, NetShape
    <3> QED BY <2>3, <2>4, <3>1 DEF Unit
  <2>6. \A j \in 1 .. L : 1 + (j - 1) <= 4 + n => f[j] = m /\ h[j] = n /\ g[j] = 1 + (j - 1)
    <3>1. 1 \in 1 .. L /\ \A j \in 1 .. L : 1 <= j
      BY <1>1, <1>2, <2>1
    <3>2. \A j \in 1 .. L : 1 <= j /\ g[1] + (j - 1) <= 4 + h[1] => f[j] = f[1] /\ h[j] = h[1] /\ g[j] = g[1] + (j - 1)
      BY <1>2, <3>1 DEF InARow
    <3> QED BY <2>3, <2>5, <3>1, <3>2
  <2>7. \A j \in 1 .. L : j <= 5 => f[j] = m /\ h[j] = n /\ g[j] = j
    <3> SUFFICES ASSUME NEW j \in 1 .. L, j <= 5 PROVE f[j] = m /\ h[j] = n /\ g[j] = j
      OBVIOUS
    <3>1. 1 + (j - 1) = j /\ j <= 4 + n
      BY <2>4
    <3> QED BY <2>6, <3>1
  <2>8. netStream[3] - 10 = n
    <3>1. 3 \in 1 .. s /\ 3 \in 1 .. L /\ 3 <= 5
      BY <1>1, <1>2, <2>1
    <3>2. netStream[3] = Unit(m, n, 3)
      BY <1>1, <2>7, <3>1 DEF NetState, NetShape
    <3>3. netStream[3] = 10 + n
      BY <3>2 DEF Unit
    <3> QED BY <2>4, <3>3
  <2>9. CASE n > NetBuf
    <3>1. netRecv' = -1
      BY <2>1, <2>8, <2>9
    <3>2. 4 \in 0 .. Len(netStream)
      BY <1>2, <2>1
    <3> QED BY <1>3, <2>1, <3>1, <3>2, IdleStep
  <2>10. CASE ~(n > NetBuf)
    <3>1. PICK k \in 0 .. s : k = 4
      BY <2>1
    <3>2. PICK F, G, H : Moved(F, f, L, k) /\ Moved(G, g, L, k) /\ Moved(H, h, L, k)
      BY DEF Moved
    <3>3. /\ L - k \in Nat /\ s - k \in Nat /\ netStream' \in Seq(Int)
          /\ NetShape(L - k, s - k, o, F, G, H)' /\ NetRead(L - k, F)'
      <4>1. netStream' = Rest(k)
        BY <2>1, <3>1
      <4>2. /\ NetType /\ NetShape(L, s, o, f, g, h) /\ NetRead(L, f) /\ k \in 0 .. s
            /\ L \in Nat /\ s \in Nat /\ o \in Nat
        BY <1>1, <1>2, <3>1 DEF NetState
      <4>3. UNCHANGED <<netOut, netOpen, netSent, netTried>> /\ netReceived' = netReceived
        BY <1>3
      <4> QED BY <3>2, <4>1, <4>2, <4>3, StreamShifted
    <3>4. netRecv' = n /\ n <= NetBuf
      BY <2>1, <2>4, <2>8, <2>10, DistAssumption
    <3>5. L - k = 0 => ~netOpen
      <4> SUFFICES ASSUME L - k = 0, netOpen PROVE FALSE
        OBVIOUS
      <4>1. L = 4 /\ 4 \in 1 .. L /\ 4 <= 5
        BY <3>1
      <4>2. g[L] = 4 + h[L]
        BY <1>1, <4>1 DEF NetState, NetShape
      <4>3. h[4] = n /\ g[4] = 4
        BY <2>7, <4>1
      <4> QED BY <2>4, <4>1, <4>2, <4>3
    <3>6. L - k > 0 => H[1] = n /\ G[1] = 5
      <4> SUFFICES ASSUME L - k > 0 PROVE H[1] = n /\ G[1] = 5
        OBVIOUS
      <4>1. 1 \in 1 .. L - k /\ 1 + k = 5 /\ 5 \in 1 .. L /\ 5 <= 5
        BY <1>1, <3>1
      <4>2. H[1] = h[5] /\ G[1] = g[5]
        BY <3>2, <4>1 DEF Moved
      <4> QED BY <2>7, <4>1, <4>2
    <3>7. <<>> \in Seq(Int) /\ Len(<<>>) = 0 /\ <<>> = Payload(F[1], 0)
      BY PayloadNone
    <3>8. NetReading(L - k, F, G, H)'
      <4>1. Len(netGot') < n /\ 5 + Len(netGot') = 5 /\ netGot' = Payload(F[1], Len(netGot'))
        BY <1>3, <2>4, <3>7
      <4> QED BY <1>3, <3>4, <3>5, <3>6, <3>7, <4>1 DEF NetReading
    <3>9. NetType' /\ Ordered'
      BY <1>2, <1>3, <2>4, <3>3, <3>4 DEF NetType, Ordered
    <3> QED BY <1>1, <3>3, <3>8, <3>9 DEF NetInv, NetState
  <2> QED BY <2>9, <2>10
<1> QED BY <1>4, <1>5
-----------------------------------------------------------------------------
(* The elements of a sequence after one is appended.                       *)
LEMMA AppendRange ==
    ASSUME NEW S, NEW s \in Seq(S), NEW e
    PROVE  Range(Append(s, e)) = Range(s) \cup {e}
<1>1. PICK l \in Nat : l = Len(s) /\ DOMAIN s = 1 .. l
  OBVIOUS
<1>2. PICK t : t = Append(s, e)
  OBVIOUS
<1>3. DOMAIN t = 1 .. l + 1 /\ t[l + 1] = e /\ \A i \in 1 .. l : t[i] = s[i]
  BY <1>1, <1>2
<1>4. Range(t) \subseteq Range(s) \cup {e}
  <2> SUFFICES ASSUME NEW i \in 1 .. l + 1 PROVE t[i] \in Range(s) \cup {e}
    BY <1>3 DEF Range
  <2>1. i = l + 1 \/ i \in 1 .. l
    OBVIOUS
  <2> QED BY <1>1, <1>3, <2>1 DEF Range
<1>5. Range(s) \cup {e} \subseteq Range(t)
  <2>1. l + 1 \in 1 .. l + 1 /\ \A i \in 1 .. l : i \in 1 .. l + 1
    OBVIOUS
  <2>2. e \in Range(t)
    BY <1>3, <2>1 DEF Range
  <2>3. \A i \in 1 .. l : s[i] \in Range(t)
    BY <1>3, <2>1 DEF Range
  <2> QED BY <1>1, <2>2, <2>3 DEF Range
<1> QED BY <1>2, <1>4, <1>5

(* More of a payload comes in, perhaps the rest of it.                     *)
LEMMA SomeStep ==
    ASSUME NetInv, NEW k \in Nat, 1 <= k, RecvSome(k)
    PROVE  NetInv'
<1>1. PICK L, s, o, f, g, h : L \in Nat /\ s \in Nat /\ o \in Nat /\ NetState(L, s, o, f, g, h)
  BY DEF NetInv
<1>2. /\ NetType /\ Ordered /\ s = Len(netStream) /\ L = s + o /\ InARow(L, netTried, f, g, h)
      /\ netStream \in Seq(Int) /\ netRecv \in Int
  BY <1>1 DEF NetInv, NetState, NetShape, NetType
<1>3. /\ netRecv > -1 /\ k <= s /\ k <= netRecv - Len(netGot) /\ netStream' = Rest(k)
      /\ UNCHANGED <<netOut, netOpen, netSent, netTried>>
  BY <1>2 DEF RecvSome
<1>4. L > 0 /\ k \in 0 .. s /\ k \in 1 .. L /\ 1 \in 1 .. L
  BY <1>1, <1>2, <1>3
<1>5. PICK m \in Nat, n \in NetLens, c \in Nat : m = f[1] /\ n = h[1] /\ c = g[1] /\ 1 <= m
  <2>1. f[1] \in Nat /\ g[1] \in Nat /\ h[1] \in NetLens /\ 1 <= f[1]
    BY <1>2, <1>4 DEF InARow
  <2> QED BY <2>1
<1>6. n \in Nat /\ 1 <= n
  BY <1>5, LensFacts
<1>7. /\ netRecv = n /\ n <= NetBuf /\ netGot \in Seq(Int) /\ Len(netGot) < n
      /\ c = 5 + Len(netGot) /\ netGot = Payload(m, Len(netGot))
  BY <1>1, <1>3, <1>4, <1>5 DEF NetState, NetReading
<1>8. PICK l \in Nat : l = Len(netGot)
  BY <1>7
<1>9. l < n /\ c = 5 + l /\ netGot = Payload(m, l) /\ l + k <= n
  BY <1>2, <1>3, <1>6, <1>7, <1>8
<1>10. ASSUME NEW j \in 1 .. L, l + j <= n PROVE f[j] = m /\ h[j] = n /\ g[j] = 4 + l + j
  <2>1. 1 <= j /\ g[1] + (j - 1) <= 4 + h[1]
    BY <1>5, <1>6, <1>9, <1>10
  <2>2. f[j] = f[1] /\ h[j] = h[1] /\ g[j] = g[1] + (j - 1)
    BY <1>2, <1>4, <2>1 DEF InARow
  <2>3. c + (j - 1) = 4 + l + j
    BY <1>8, <1>9
  <2> QED BY <1>5, <2>2, <2>3
<1>11. PICK got : got = netGot \o SubSeq(netStream, 1, k)
  OBVIOUS
<1>12. got \in Seq(Int) /\ Len(got) = l + k /\ got = Payload(m, l + k)
  <2>1. PICK t : t = SubSeq(netStream, 1, k)
    OBVIOUS
  <2>2. t \in Seq(Int) /\ Len(t) = k /\ k \in Nat /\ \A i \in 1 .. k : t[i] = netStream[i]
    BY <1>2, <1>4, <2>1, Leading
  <2>3. /\ netGot \o t \in Seq(Int) /\ Len(netGot \o t) = l + k
        /\ \A i \in 1 .. l + k : (netGot \o t)[i] = IF i <= l THEN netGot[i] ELSE t[i - l]
    <3>1. netGot \in Seq(Int) /\ t \in Seq(Int) /\ l \in Nat /\ k \in Nat /\ l = Len(netGot) /\ k = Len(t)
      BY <1>7, <1>8, <2>2
    <3> QED BY <3>1, Concatenated
  <2>4. got = netGot \o t
    BY <1>11, <2>1
  <2>5. PICK p : p = Payload(m, l + k)
    OBVIOUS
  <2>6. l + k \in Nat
    BY <2>2
  <2>7. p \in Seq(Int) /\ Len(p) = l + k /\ \A i \in 1 .. l + k : p[i] = 100 * m + i
    <3>1. Payload(m, l + k) \in Seq(Int) /\ Len(Payload(m, l + k)) = l + k
      BY <2>6, PayloadFacts
    <3>2. \A i \in 1 .. l + k : Payload(m, l + k)[i] = 100 * m + i
      BY <2>6, PayloadFacts
    <3> QED BY <2>5, <3>1, <3>2
  <2>8. \A i \in 1 .. l : netGot[i] = 100 * m + i
    <3>1. \A i \in 1 .. l : Payload(m, l)[i] = 100 * m + i
      BY PayloadFacts
    <3> QED BY <1>9, <3>1
  <2>9. ASSUME NEW i \in 1 .. l + k PROVE got[i] = p[i]
    <3>1. CASE i <= l
      <4>1. i \in 1 .. l /\ got[i] = netGot[i]
        BY <2>3, <2>4, <3>1
      <4> QED BY <2>7, <2>8, <4>1
    <3>2. CASE ~(i <= l)
      <4>1. i - l \in 1 .. k /\ i - l \in 1 .. L /\ i - l \in 1 .. s /\ l + (i - l) <= n /\ 4 + l + (i - l) = 4 + i
        BY <1>2, <1>3, <1>4, <1>6, <1>9, <3>2
      <4>2. got[i] = netStream[i - l]
        BY <2>2, <2>3, <2>4, <3>2, <4>1
      <4>3. netStream[i - l] = Unit(f[i - l], h[i - l], g[i - l])
        BY <1>1, <4>1 DEF NetState, NetShape
      <4>4. f[i - l] = m /\ h[i - l] = n /\ g[i - l] = 4 + i
        BY <1>10, <4>1
      <4>5. Unit(m, n, 4 + i) = 100 * m + i
        BY <1>6 DEF Unit
      <4> QED BY <2>7, <4>2, <4>3, <4>4, <4>5
    <3> QED BY <3>1, <3>2
  <2>10. got \in Seq(Int) /\ Len(got) = l + k
    BY <2>3, <2>4
  <2>11. got = p
    <3>1. DOMAIN got = 1 .. l + k /\ got = [i \in 1 .. l + k |-> got[i]]
      BY <2>10
    <3>2. DOMAIN p = 1 .. l + k /\ p = [i \in 1 .. l + k |-> p[i]]
      BY <2>7
    <3> QED BY <2>9, <3>1, <3>2
  <2> QED BY <2>5, <2>10, <2>11
<1>13. PICK F, G, H : Moved(F, f, L, k) /\ Moved(G, g, L, k) /\ Moved(H, h, L, k)
  BY DEF Moved
<1>14. /\ L - k \in Nat /\ s - k \in Nat /\ netStream' \in Seq(Int)
       /\ NetShape(L - k, s - k, o, F, G, H)'
       /\ netReceived' = netReceived => NetRead(L - k, F)'
  <2>1. /\ NetType /\ NetShape(L, s, o, f, g, h) /\ NetRead(L, f) /\ k \in 0 .. s
        /\ L \in Nat /\ s \in Nat /\ o \in Nat
    BY <1>1, <1>2, <1>4 DEF NetState
  <2>2. netStream' = Rest(k) /\ UNCHANGED <<netOut, netOpen, netSent, netTried>>
    BY <1>3
  <2>3. /\ L - k \in Nat /\ s - k \in Nat /\ netStream' \in Seq(Int)
        /\ NetShape(L - k, s - k, o, F, G, H)'
    BY <1>13, <2>1, <2>2, StreamShifted
  <2>4. ASSUME netReceived' = netReceived PROVE NetRead(L - k, F)'
    BY <1>13, <2>1, <2>2, <2>4, StreamShifted
  <2> QED BY <2>3, <2>4
<1>15. CASE l + k = n
  <2>1. netReceived' = Append(netReceived, got) /\ netRecv' = -1
    BY <1>7, <1>11, <1>12, <1>15 DEF RecvSome
  <2>2. m \in Range(netSent)
    <3>1. k \in 1 .. s /\ g[k] = 4 + h[k] /\ f[k] = m
      <4>1. l + k <= n
        BY <1>15, <1>9
      <4>2. f[k] = m /\ h[k] = n /\ g[k] = 4 + l + k
        BY <1>4, <1>10, <4>1
      <4>3. 4 + l + k = 4 + n
        BY <1>15
      <4> QED BY <1>3, <1>15, <4>2, <4>3
    <3> QED BY <1>1, <3>1 DEF NetState, NetShape
  <2>3. \A j \in 1 .. L - k : m < F[j]
    <3> SUFFICES ASSUME NEW j \in 1 .. L - k PROVE m < F[j]
      OBVIOUS
    <3>1. j + k \in 1 .. L /\ k < j + k /\ F[j] = f[j + k]
      BY <1>1, <1>4, <1>13 DEF Moved
    <3>2. g[k] = 4 + h[k] /\ f[k] = m
      <4>1. l + k <= n
        BY <1>15, <1>9
      <4>2. f[k] = m /\ h[k] = n /\ g[k] = 4 + l + k
        BY <1>4, <1>10, <4>1
      <4>3. 4 + l + k = 4 + n
        BY <1>15
      <4> QED BY <4>2, <4>3
    <3> QED BY <1>2, <1>4, <3>1, <3>2 DEF InARow
  <2>4. got = Payload(m, n)
    BY <1>12, <1>15
  <2>5. PICK r \in Nat : r = Len(netReceived) /\ DOMAIN netReceived = 1 .. r
    BY <1>2 DEF NetType
  <2>6. /\ netReceived' \in Seq(Seq(Int)) /\ DOMAIN netReceived' = 1 .. r + 1
        /\ netReceived'[r + 1] = got /\ \A a \in 1 .. r : netReceived'[a] = netReceived[a]
    <3>1. netReceived \in Seq(Seq(Int)) /\ got \in Seq(Int)
      BY <1>2, <1>12 DEF NetType
    <3> QED BY <2>1, <2>5, <3>1
  <2>7. ASSUME NEW a \in 1 .. r
        PROVE  \E x \in Range(netSent) : \E y \in NetLens :
                  netReceived[a] = Payload(x, y) /\ y <= NetBuf /\ (\A j \in 1 .. L - k : x < F[j]) /\ x < m
    <3>1. PICK x \in Range(netSent), y \in NetLens :
              netReceived[a] = Payload(x, y) /\ y <= NetBuf /\ \A j \in 1 .. L : x < f[j]
      BY <1>1, <2>5 DEF NetState, NetRead
    <3>2. \A j \in 1 .. L - k : x < F[j]
      BY <1>1, <1>4, <1>13, <3>1 DEF Moved
    <3>3. x < m
      BY <1>4, <1>5, <3>1
    <3> QED BY <3>1, <3>2, <3>3
  <2>8. NetRead(L - k, F)'
    <3> SUFFICES ASSUME NEW a \in 1 .. r + 1
                 PROVE  \E x \in Range(netSent) : \E y \in NetLens :
                            netReceived'[a] = Payload(x, y) /\ y <= NetBuf /\ \A j \in 1 .. L - k : x < F[j]
      BY <1>3, <2>6 DEF NetRead
    <3>1. CASE a = r + 1
      BY <1>5, <1>7, <2>2, <2>3, <2>4, <2>6, <3>1
    <3>2. CASE a # r + 1
      <4>1. a \in 1 .. r
        BY <3>2
      <4> QED BY <2>6, <2>7, <4>1
    <3> QED BY <3>1, <3>2
  <2>9. Ordered'
    <3> SUFFICES ASSUME NEW i \in 1 .. r + 1, NEW j \in 1 .. r + 1, i < j
                 PROVE  netReceived'[i][1] < netReceived'[j][1]
      BY <2>6 DEF Ordered
    <3>1. i \in 1 .. r
      OBVIOUS
    <3>2. CASE j \in 1 .. r
      BY <1>2, <2>5, <2>6, <3>1, <3>2 DEF Ordered
    <3>3. CASE j = r + 1
      <4>1. PICK x \in Range(netSent), y \in NetLens : netReceived[i] = Payload(x, y) /\ x < m
        BY <2>7, <3>1
      <4>2. x \in Nat /\ y \in Nat /\ 1 \in 1 .. y /\ 1 \in 1 .. n
        <5>1. x \in Nat
          BY <1>2, <4>1 DEF NetType
        <5>2. y \in Nat /\ 1 <= y
          BY <4>1, LensFacts
        <5> QED BY <1>6, <5>1, <5>2
      <4>3. netReceived[i][1] = 100 * x + 1
        <5>1. PICK p : p = Payload(x, y)
          OBVIOUS
        <5>2. \A q \in 1 .. y : Payload(x, y)[q] = 100 * x + q
          BY <4>2, PayloadFacts
        <5>3. p[1] = 100 * x + 1
          BY <4>2, <5>1, <5>2
        <5> QED BY <4>1, <5>1, <5>3
      <4>4. got[1] = 100 * m + 1
        <5>1. \A q \in 1 .. n : Payload(m, n)[q] = 100 * m + q
          BY <1>6, PayloadFacts
        <5> QED BY <2>4, <4>2, <5>1
      <4>5. netReceived'[i] = netReceived[i] /\ netReceived'[j] = got
        BY <2>6, <3>1, <3>3
      <4> QED BY <4>1, <4>2, <4>3, <4>4, <4>5
    <3> QED BY <3>1, <3>2, <3>3
  <2>10. NetReading(L - k, F, G, H)'
    BY <2>1 DEF NetReading
  <2>11. NetType'
    BY <1>2, <1>3, <1>14, <2>1, <2>6 DEF NetType
  <2> QED BY <1>1, <1>14, <2>8, <2>9, <2>10, <2>11 DEF NetInv, NetState
<1>16. CASE l + k # n
  <2>1. l + k < n
    BY <1>6, <1>9, <1>16
  <2>2. netReceived' = netReceived /\ netRecv' = netRecv /\ netGot' = got
    BY <1>7, <1>11, <1>12, <1>16 DEF RecvSome
  <2>3. L - k = 0 => ~netOpen
    <3> SUFFICES ASSUME L - k = 0, netOpen PROVE FALSE
      OBVIOUS
    <3>0. L = k
      BY <1>1
    <3>1. L = k /\ l + L <= n /\ L \in 1 .. L
      BY <1>4, <1>6, <1>8, <2>1, <3>0
    <3>2. h[L] = n /\ g[L] = 4 + l + L
      BY <1>10, <3>1
    <3>3. g[L] = 4 + h[L]
      BY <1>1, <1>4 DEF NetState, NetShape
    <3> QED BY <1>6, <2>1, <3>1, <3>2, <3>3
  <2>4. L - k > 0 => H[1] = n /\ G[1] = 5 + (l + k) /\ F[1] = m
    <3> SUFFICES ASSUME L - k > 0 PROVE H[1] = n /\ G[1] = 5 + (l + k) /\ F[1] = m
      OBVIOUS
    <3>1. PICK j \in 1 .. L : j = k + 1 /\ l + j <= n
      BY <1>1, <1>4, <1>6, <2>1
    <3>2. 1 \in 1 .. L - k /\ 1 + k = j
      BY <1>1, <1>4, <3>1
    <3>3. F[1] = f[j] /\ G[1] = g[j] /\ H[1] = h[j]
      BY <1>13, <3>2 DEF Moved
    <3>4. f[j] = m /\ h[j] = n /\ g[j] = 4 + l + j
      BY <1>10, <3>1
    <3> QED BY <3>1, <3>3, <3>4
  <2>5. NetReading(L - k, F, G, H)'
    BY <1>3, <1>7, <1>12, <2>1, <2>2, <2>3, <2>4 DEF NetReading
  <2>6. NetType' /\ Ordered'
    BY <1>2, <1>3, <1>14, <2>2 DEF NetType, Ordered
  <2> QED BY <1>1, <1>14, <2>2, <2>5, <2>6 DEF NetInv, NetState
<1> QED BY <1>15, <1>16
-----------------------------------------------------------------------------
(* A message is tried when the last frame has gone out whole.              *)
LEMMA SendStep ==
    ASSUME NetInv, NEW n \in NetLens, DistSend(n)
    PROVE  NetInv'
<1>1. PICK L, s, o, f, g, h : L \in Nat /\ s \in Nat /\ o \in Nat /\ NetState(L, s, o, f, g, h)
  BY DEF NetInv
<1>2. /\ NetType /\ Ordered /\ s = Len(netStream) /\ o = Len(netOut) /\ L = s + o /\ InARow(L, netTried, f, g, h)
      /\ netTried \in Nat
  BY <1>1 DEF NetInv, NetState, NetShape, NetType
<1>3. /\ netOpen /\ netOut = <<>> /\ netTried' = netTried + 1
      /\ netStream' = netStream /\ netOpen' = netOpen /\ netSent' = netSent /\ netRecv' = netRecv
      /\ netGot' = netGot /\ netReceived' = netReceived
  BY DEF DistSend
<1>4. o = 0 /\ L = s
  <2>1. Len(<<>>) = 0
    OBVIOUS
  <2> QED BY <1>1, <1>2, <1>3, <2>1
<1>5. PICK t \in Nat : t = netTried + 1
  BY <1>2
<1>6. n \in Nat /\ 1 <= n
  BY LensFacts
<1>7. netOut' \in Seq(Int) /\ Len(netOut') = 4 + n /\ \A k \in 1 .. 4 + n : netOut'[k] = Unit(t, n, k)
  <2>1. netOut' = Frame(t, n)
    BY <1>5 DEF DistSend
  <2> QED BY <1>5, <2>1, FrameUnits
<1>8. PICK R \in Nat : R = L + 4 + n
  BY <1>1, <1>6
<1>9. PICK F, G, H : Extended(R, L, netTried, n, f, g, h, F, G, H)
  BY DEF Extended
<1>10. L > 0 => g[L] = 4 + h[L]
  BY <1>1, <1>3 DEF NetState, NetShape
<1>11. InARow(R, netTried', F, G, H)
  <2>1. InARow(R, netTried + 1, F, G, H)
    BY <1>1, <1>2, <1>8, <1>9, <1>10, RowExtended
  <2> QED BY <1>3, <2>1
<1>12. \A i \in 1 .. L : i \in 1 .. R /\ F[i] = f[i] /\ G[i] = g[i] /\ H[i] = h[i]
  BY <1>1, <1>6, <1>8, <1>9 DEF Extended
<1>13. \A i \in 1 .. 4 + n : L + i \in 1 .. R /\ F[L + i] = t /\ G[L + i] = i /\ H[L + i] = n
  <2> SUFFICES ASSUME NEW i \in 1 .. 4 + n PROVE L + i \in 1 .. R /\ F[L + i] = t /\ G[L + i] = i /\ H[L + i] = n
    OBVIOUS
  <2>1. PICK a \in 1 .. R : a = L + i /\ ~(a <= L) /\ a - L = i
    BY <1>1, <1>6, <1>8
  <2>2. F[a] = netTried + 1 /\ G[a] = a - L /\ H[a] = n
    BY <1>9, <2>1 DEF Extended
  <2> QED BY <1>5, <2>1, <2>2
<1>14. \A i \in 1 .. s : netStream'[i] = Unit(F[i], H[i], G[i]) /\ (G[i] = 4 + H[i] => F[i] \in Range(netSent'))
  BY <1>1, <1>3, <1>4, <1>12 DEF NetState, NetShape
<1>15. PICK e \in Nat : e = 4 + n
  BY <1>6
<1>16. ASSUME NEW i \in 1 .. e
       PROVE  /\ netOut'[i] = Unit(F[s + i], H[s + i], G[s + i])
              /\ F[s + i] = netTried' /\ G[s + i] = 4 + H[s + i] - (e - i)
  <2>1. i \in 1 .. 4 + n /\ s + i = L + i /\ i = 4 + n - (e - i)
    BY <1>4, <1>6, <1>15
  <2>2. F[s + i] = t /\ G[s + i] = i /\ H[s + i] = n
    BY <1>4, <1>13, <2>1
  <2> QED BY <1>3, <1>5, <1>7, <2>1, <2>2
<1>17. G[R] = 4 + H[R]
  <2>1. e \in 1 .. 4 + n /\ L + e = R
    BY <1>1, <1>6, <1>8, <1>15
  <2>2. G[L + e] = e /\ H[L + e] = n
    BY <1>13, <2>1
  <2> QED BY <1>15, <2>1, <2>2
<1>18. R = s + e /\ s = Len(netStream') /\ e = Len(netOut')
  <2>1. R = s + e
    BY <1>1, <1>4, <1>6, <1>8, <1>15
  <2> QED BY <1>2, <1>3, <1>7, <1>15, <2>1
<1>19. NetShape(R, s, e, F, G, H)'
  BY <1>3, <1>11, <1>14, <1>16, <1>17, <1>18 DEF NetShape
<1>20. NetReading(R, F, G, H)'
  <2> SUFFICES ASSUME netRecv > -1
               PROVE  /\ netRecv <= NetBuf /\ netGot \in Seq(Int) /\ Len(netGot) < netRecv
                      /\ R = 0 => ~netOpen
                      /\ R > 0 => H[1] = netRecv /\ G[1] = 5 + Len(netGot) /\ netGot = Payload(F[1], Len(netGot))
    BY <1>3 DEF NetReading
  <2>1. L # 0
    BY <1>1, <1>3 DEF NetState, NetReading
  <2>2. L > 0 /\ 1 \in 1 .. L /\ R # 0
    BY <1>1, <1>6, <1>8, <2>1
  <2> QED BY <1>1, <1>12, <2>2 DEF NetState, NetReading
<1>21. NetRead(R, F)'
  <2> SUFFICES ASSUME NEW a \in DOMAIN netReceived
               PROVE  \E x \in Range(netSent) : \E y \in NetLens :
                          netReceived[a] = Payload(x, y) /\ y <= NetBuf /\ \A j \in 1 .. R : x < F[j]
    BY <1>3 DEF NetRead
  <2>1. PICK x \in Range(netSent), y \in NetLens :
            netReceived[a] = Payload(x, y) /\ y <= NetBuf /\ \A j \in 1 .. L : x < f[j]
    BY <1>1 DEF NetState, NetRead
  <2>2. x \in Nat /\ x <= netTried
    BY <1>2, <2>1 DEF NetType
  <2>3. ASSUME NEW j \in 1 .. R PROVE x < F[j]
    <3>1. CASE j <= L
      <4>1. j \in 1 .. L
        BY <3>1
      <4> QED BY <1>12, <2>1, <4>1
    <3>2. CASE ~(j <= L)
      <4>1. F[j] = netTried + 1
        BY <1>9, <3>2 DEF Extended
      <4> QED BY <1>2, <2>2, <4>1
    <3> QED BY <3>1, <3>2
  <2> QED BY <2>1, <2>3
<1>22. NetType' /\ Ordered'
  <2>1. \A m \in Range(netSent) : m \in Nat /\ m <= netTried + 1
    BY <1>2 DEF NetType
  <2> QED BY <1>2, <1>3, <1>7, <2>1 DEF NetType, Ordered
<1> QED BY <1>1, <1>8, <1>15, <1>19, <1>20, <1>21, <1>22 DEF NetInv, NetState

(* Units of the frame in hand go out; the last of them makes it sent.      *)
LEMMA SendSomeStep ==
    ASSUME NetInv, NEW k \in Nat, 1 <= k, SendSome(k)
    PROVE  NetInv'
<1>1. PICK L, s, o, f, g, h : L \in Nat /\ s \in Nat /\ o \in Nat /\ NetState(L, s, o, f, g, h)
  BY DEF NetInv
<1>2. /\ NetType /\ Ordered /\ s = Len(netStream) /\ o = Len(netOut) /\ L = s + o /\ InARow(L, netTried, f, g, h)
      /\ netTried \in Nat /\ netStream \in Seq(Int) /\ netOut \in Seq(Int) /\ netSent \in Seq(Nat)
  BY <1>1 DEF NetInv, NetState, NetShape, NetType
<1>3. /\ k <= o
      /\ netOpen' = netOpen /\ netTried' = netTried /\ netRecv' = netRecv
      /\ netGot' = netGot /\ netReceived' = netReceived
  BY <1>2 DEF SendSome
<1>4. PICK b : b = SubSeq(netOut, 1, k)
  OBVIOUS
<1>5. b \in Seq(Int) /\ Len(b) = k /\ \A i \in 1 .. k : b[i] = netOut[i]
  <2>1. k \in 0 .. o
    BY <1>3
  <2> QED BY <1>1, <1>2, <1>4, <2>1, Leading
<1>6. netOut' \in Seq(Int) /\ Len(netOut') = o - k /\ \A i \in 1 .. o - k : netOut'[i] = netOut[i + k]
  <2>1. k \in 0 .. o
    BY <1>3
  <2>2. netOut' = SubSeq(netOut, k + 1, o)
    BY <1>2 DEF SendSome
  <2> QED BY <1>1, <1>2, <2>1, <2>2, Trailing
<1>7. /\ netStream' \in Seq(Int) /\ Len(netStream') = s + k
      /\ \A i \in 1 .. s + k : netStream'[i] = IF i <= s THEN netStream[i] ELSE b[i - s]
  <2>1. netStream' = netStream \o b
    BY <1>4 DEF SendSome
  <2>2. netStream \in Seq(Int) /\ b \in Seq(Int) /\ s \in Nat /\ k \in Nat /\ s = Len(netStream) /\ k = Len(b)
    BY <1>1, <1>2, <1>5
  <2>3. /\ netStream \o b \in Seq(Int) /\ Len(netStream \o b) = s + k
        /\ \A i \in 1 .. s + k : (netStream \o b)[i] = IF i <= s THEN netStream[i] ELSE b[i - s]
    BY <2>2, Concatenated
  <2> QED BY <2>1, <2>3
<1>8. PICK S \in Nat, O \in Nat : S = s + k /\ O = o - k /\ L = S + O
  <2>1. s + k \in Nat /\ o - k \in Nat
    BY <1>1, <1>3
  <2>2. s + o = (s + k) + (o - k)
    BY <1>1
  <2> QED BY <1>2, <2>1, <2>2
<1>9. /\ O = 0 <=> netOut' = <<>>
      /\ netSent' = IF netOut' = <<>> THEN Append(netSent, netTried) ELSE netSent
  <2>1. O = Len(netOut')
    BY <1>6, <1>8
  <2>2. O = 0 <=> netOut' = <<>>
    BY <1>6, <2>1
  <2> QED BY <2>2 DEF SendSome
<1>10. /\ netSent' \in Seq(Nat) /\ Range(netSent) \subseteq Range(netSent')
       /\ Range(netSent') \subseteq Range(netSent) \cup {netTried}
       /\ O = 0 => netTried \in Range(netSent')
  <2>1. Range(Append(netSent, netTried)) = Range(netSent) \cup {netTried} /\ Append(netSent, netTried) \in Seq(Nat)
    BY <1>2, AppendRange
  <2> QED BY <1>2, <1>9, <2>1
<1>11. \A i \in 1 .. o : /\ netOut[i] = Unit(f[s + i], h[s + i], g[s + i])
                         /\ f[s + i] = netTried /\ g[s + i] = 4 + h[s + i] - (o - i)
  BY <1>1 DEF NetState, NetShape
<1>12. ASSUME NEW i \in 1 .. S
       PROVE  netStream'[i] = Unit(f[i], h[i], g[i]) /\ (g[i] = 4 + h[i] => f[i] \in Range(netSent'))
  <2>1. CASE i <= s
    <3>1. i \in 1 .. s /\ netStream'[i] = netStream[i]
      BY <1>7, <1>8, <2>1
    <3>2. netStream[i] = Unit(f[i], h[i], g[i]) /\ (g[i] = 4 + h[i] => f[i] \in Range(netSent))
      BY <1>1, <3>1 DEF NetState, NetShape
    <3> QED BY <1>10, <3>1, <3>2
  <2>2. CASE ~(i <= s)
    <3>1. PICK j \in 1 .. o : j = i - s /\ j <= k /\ i = s + j
      BY <1>1, <1>3, <1>8, <2>2
    <3>2. netStream'[i] = netOut[j]
      <4>1. j \in 1 .. k
        BY <3>1
      <4> QED BY <1>5, <1>7, <1>8, <2>2, <3>1, <4>1
    <3>3. netOut[j] = Unit(f[i], h[i], g[i]) /\ f[i] = netTried /\ g[i] = 4 + h[i] - (o - j)
      BY <1>11, <3>1
    <3>4. g[i] = 4 + h[i] => O = 0
      <4>1. PICK x \in Nat : x = h[i]
        <5>1. i \in 1 .. L
          BY <1>8
        <5> QED BY <1>2, <5>1, LensFacts DEF InARow
      <4>2. 4 + x - (o - j) = 4 + x => o = j
        BY <1>1, <3>1
      <4> QED BY <1>1, <1>3, <1>8, <3>1, <3>3, <4>1, <4>2
    <3> QED BY <1>10, <3>2, <3>3, <3>4
  <2> QED BY <2>1, <2>2
<1>13. ASSUME NEW i \in 1 .. O
       PROVE  /\ netOut'[i] = Unit(f[S + i], h[S + i], g[S + i])
              /\ f[S + i] = netTried' /\ g[S + i] = 4 + h[S + i] - (O - i)
  <2>1. PICK j \in 1 .. o : j = i + k /\ S + i = s + j /\ o - j = O - i
    BY <1>1, <1>3, <1>8
  <2>2. netOut'[i] = netOut[j]
    BY <1>6, <1>8, <2>1
  <2>3. /\ netOut[j] = Unit(f[s + j], h[s + j], g[s + j])
        /\ f[s + j] = netTried /\ g[s + j] = 4 + h[s + j] - (o - j)
    BY <1>11, <2>1
  <2> QED BY <1>3, <2>1, <2>2, <2>3
<1>14. (O > 0 => netOpen') /\ (netOpen' /\ L > 0 => g[L] = 4 + h[L])
  <2>1. O > 0 => o > 0
    BY <1>1, <1>3, <1>8
  <2> QED BY <1>1, <1>3, <2>1 DEF NetState, NetShape
<1>15. InARow(L, netTried', f, g, h) /\ S = Len(netStream') /\ O = Len(netOut')
  BY <1>2, <1>3, <1>6, <1>7, <1>8
<1>16. NetShape(L, S, O, f, g, h)'
  BY <1>8, <1>12, <1>13, <1>14, <1>15 DEF NetShape
<1>17. NetReading(L, f, g, h)'
  BY <1>1, <1>3 DEF NetState, NetReading
<1>18. NetRead(L, f)'
  BY <1>1, <1>3, <1>10 DEF NetState, NetRead
<1>19. NetType' /\ Ordered'
  <2>1. \A m \in Range(netSent') : m \in Nat /\ m <= netTried'
    <3>1. \A m \in Range(netSent) : m \in Nat /\ m <= netTried
      BY <1>2 DEF NetType
    <3> QED BY <1>2, <1>3, <1>10, <3>1
  <2>2. netRecv' \in Int /\ netReceived' \in Seq(Seq(Int))
    BY <1>2, <1>3 DEF NetType
  <2>3. netStream' \in Seq(Int) /\ netOut' \in Seq(Int) /\ netTried' \in Nat /\ netSent' \in Seq(Nat)
    BY <1>2, <1>3, <1>6, <1>7, <1>10
  <2>4. NetType'
    BY <2>1, <2>2, <2>3 DEF NetType
  <2>5. Ordered'
    BY <1>2, <1>3 DEF Ordered
  <2> QED BY <2>4, <2>5
<1> QED BY <1>1, <1>8, <1>16, <1>17, <1>18, <1>19 DEF NetInv, NetState
-----------------------------------------------------------------------------
(* A send that fails cuts the frame in hand off before its end, and no     *)
(* other frame follows it.                                                 *)
LEMMA SendFailsStep ==
    ASSUME NetInv, NEW k \in {0, 1}, SendFails(k)
    PROVE  NetInv'
<1>1. PICK L, s, o, f, g, h : L \in Nat /\ s \in Nat /\ o \in Nat /\ NetState(L, s, o, f, g, h)
  BY DEF NetInv
<1>2. /\ NetType /\ Ordered /\ s = Len(netStream) /\ o = Len(netOut) /\ L = s + o /\ InARow(L, netTried, f, g, h)
      /\ netTried \in Nat /\ netStream \in Seq(Int) /\ netOut \in Seq(Int)
  BY <1>1 DEF NetInv, NetState, NetShape, NetType
<1>3. /\ netOut # <<>> /\ (netOut[1] > 99 => k = 0) /\ netOut' = <<>> /\ netOpen' = FALSE
      /\ netSent' = netSent /\ netTried' = netTried /\ netRecv' = netRecv
      /\ netGot' = netGot /\ netReceived' = netReceived
  BY DEF SendFails
<1>4. o > 0 /\ k \in Nat
  BY <1>1, <1>2, <1>3
<1>5. \A i \in 1 .. o : /\ netOut[i] = Unit(f[s + i], h[s + i], g[s + i])
                        /\ f[s + i] = netTried /\ g[s + i] = 4 + h[s + i] - (o - i)
  BY <1>1 DEF NetState, NetShape
<1>6. \A i \in 1 .. L : f[i] \in Nat /\ 1 <= f[i] /\ g[i] \in Nat /\ 1 <= g[i] /\ h[i] \in Nat /\ 1 <= h[i]
  BY <1>2, LensFacts DEF InARow
<1>7. k < o
  <2>1. CASE k = 0
    BY <1>4, <2>1
  <2>2. CASE k = 1
    <3>1. 1 \in 1 .. o /\ s + 1 \in 1 .. L
      BY <1>1, <1>2, <1>4
    <3>2. PICK m \in Nat, n \in Nat, c \in Nat : m = f[s + 1] /\ n = h[s + 1] /\ c = g[s + 1] /\ 1 <= m /\ 1 <= n /\ 1 <= c
      BY <1>6, <3>1
    <3>3. ~(Unit(m, n, c) > 99) /\ c = 4 + n - (o - 1)
      BY <1>3, <1>5, <2>2, <3>1, <3>2
    <3>4. c <= 4
      <4>1. c > 4 => Unit(m, n, c) = 100 * m + (c - 4)
        BY <3>2 DEF Unit
      <4>2. c > 4 => 100 * m + (c - 4) > 99
        BY <3>2
      <4>3. ~(c > 4)
        BY <3>3, <4>1, <4>2
      <4> QED BY <3>2, <4>3
    <3> QED BY <1>1, <2>2, <3>2, <3>3, <3>4
  <2> QED BY <2>1, <2>2
<1>8. PICK b : b = SubSeq(netOut, 1, k)
  OBVIOUS
<1>9. b \in Seq(Int) /\ Len(b) = k /\ \A i \in 1 .. k : b[i] = netOut[i]
  <2>1. k \in 0 .. o
    BY <1>1, <1>4, <1>7
  <2> QED BY <1>1, <1>2, <1>8, <2>1, Leading
<1>10. /\ netStream' \in Seq(Int) /\ Len(netStream') = s + k
       /\ \A i \in 1 .. s + k : netStream'[i] = IF i <= s THEN netStream[i] ELSE b[i - s]
  <2>1. netStream' = netStream \o b
    BY <1>8 DEF SendFails
  <2>2. netStream \in Seq(Int) /\ b \in Seq(Int) /\ s \in Nat /\ k \in Nat /\ s = Len(netStream) /\ k = Len(b)
    BY <1>1, <1>2, <1>4, <1>9
  <2>3. /\ netStream \o b \in Seq(Int) /\ Len(netStream \o b) = s + k
        /\ \A i \in 1 .. s + k : (netStream \o b)[i] = IF i <= s THEN netStream[i] ELSE b[i - s]
    BY <2>2, Concatenated
  <2> QED BY <2>1, <2>3
<1>11. PICK S \in Nat : S = s + k /\ S \in 0 .. L /\ S < L
  <2>1. s + k \in Nat /\ s + k < s + o
    BY <1>1, <1>4, <1>7
  <2> QED BY <1>1, <1>2, <2>1
<1>12. PICK F, G, H : Cut(F, f, S) /\ Cut(G, g, S) /\ Cut(H, h, S)
  BY DEF Cut
<1>13. \A i \in 1 .. S : i \in 1 .. L /\ F[i] = f[i] /\ G[i] = g[i] /\ H[i] = h[i]
  BY <1>1, <1>11, <1>12 DEF Cut
<1>14. InARow(S, netTried', F, G, H)
  <2>1. InARow(S, netTried, F, G, H)
    BY <1>1, <1>2, <1>11, <1>12, RowCut
  <2> QED BY <1>3, <2>1
<1>15. ASSUME NEW i \in 1 .. S
       PROVE  netStream'[i] = Unit(F[i], H[i], G[i]) /\ (G[i] = 4 + H[i] => F[i] \in Range(netSent'))
  <2>1. CASE i <= s
    <3>1. i \in 1 .. s /\ netStream'[i] = netStream[i]
      BY <1>10, <1>11, <2>1
    <3>2. netStream[i] = Unit(f[i], h[i], g[i]) /\ (g[i] = 4 + h[i] => f[i] \in Range(netSent))
      BY <1>1, <3>1 DEF NetState, NetShape
    <3> QED BY <1>3, <1>13, <3>1, <3>2
  <2>2. CASE ~(i <= s)
    <3>1. PICK j \in 1 .. o : j = i - s /\ j \in 1 .. k /\ i = s + j
      <4>1. i - s \in 1 .. k /\ i - s \in 1 .. o /\ i = s + (i - s)
        BY <1>1, <1>4, <1>7, <1>11, <2>2
      <4> QED BY <4>1
    <3>2. netStream'[i] = netOut[j]
      BY <1>9, <1>10, <1>11, <2>2, <3>1
    <3>3. netOut[j] = Unit(f[i], h[i], g[i]) /\ g[i] = 4 + h[i] - (o - j)
      BY <1>5, <3>1
    <3>4. g[i] # 4 + h[i]
      <4>1. PICK x \in Nat : x = h[i]
        BY <1>6, <1>13
      <4>2. j < o
        BY <1>1, <1>4, <1>7, <3>1
      <4>3. 4 + x - (o - j) # 4 + x
        BY <1>1, <3>1, <4>2
      <4> QED BY <3>3, <4>1, <4>3
    <3> QED BY <1>13, <3>2, <3>3, <3>4
  <2> QED BY <2>1, <2>2
<1>16. PICK z \in Nat : z = 0
  OBVIOUS
<1>17. Len(netOut') = z /\ netOut' \in Seq(Int) /\ S = S + z /\ 1 .. z = {} /\ ~(z > 0)
  <2>1. Len(<<>>) = 0 /\ <<>> \in Seq(Int)
    OBVIOUS
  <2> QED BY <1>3, <1>16, <2>1
<1>18. NetShape(S, S, z, F, G, H)'
  BY <1>3, <1>10, <1>11, <1>14, <1>15, <1>17 DEF NetShape
<1>19. NetReading(S, F, G, H)'
  <2> SUFFICES ASSUME netRecv > -1
               PROVE  /\ netRecv <= NetBuf /\ netGot \in Seq(Int) /\ Len(netGot) < netRecv
                      /\ S > 0 => H[1] = netRecv /\ G[1] = 5 + Len(netGot) /\ netGot = Payload(F[1], Len(netGot))
    BY <1>3 DEF NetReading
  <2>1. S > 0 => 1 \in 1 .. S /\ L > 0
    BY <1>1, <1>11
  <2> QED BY <1>1, <1>13, <2>1 DEF NetState, NetReading
<1>20. NetRead(S, F)'
  BY <1>1, <1>3, <1>13 DEF NetState, NetRead
<1>21. NetType' /\ Ordered'
  BY <1>2, <1>3, <1>10, <1>17 DEF NetType, Ordered
<1> QED BY <1>11, <1>16, <1>18, <1>19, <1>20, <1>21 DEF NetInv, NetState

(* Neither half of the system touches the variables of the other.          *)
LEMMA NetStays == ASSUME NetInv, UNCHANGED netVars PROVE NetInv'
<1> SUFFICES ASSUME netStream' = netStream /\ netOut' = netOut /\ netOpen' = netOpen /\ netSent' = netSent
                    /\ netTried' = netTried /\ netRecv' = netRecv /\ netGot' = netGot /\ netReceived' = netReceived
             PROVE  NetInv'
  BY DEF netVars
<1>1. NetType' /\ Ordered'
  BY DEF NetInv, NetType, Ordered
<1>2. PICK L, s, o, f, g, h : L \in Nat /\ s \in Nat /\ o \in Nat /\ NetState(L, s, o, f, g, h)
  BY DEF NetInv
<1>3. NetShape(L, s, o, f, g, h)'
  BY <1>2 DEF NetState, NetShape
<1>4. NetReading(L, f, g, h)' /\ NetRead(L, f)'
  BY <1>2 DEF NetState, NetReading, NetRead
<1> QED BY <1>1, <1>2, <1>3, <1>4 DEF NetInv, NetState

LEMMA SupStays == ASSUME SupInv, UNCHANGED supVars PROVE SupInv'
BY DEF SupInv, SupType, SupFits, Budget, supVars

LEMMA NetStep == ASSUME NetInv, NetNext PROVE NetInv'
<1>1. CASE RecvHeader
  BY <1>1, HeaderStep
<1>2. ASSUME NEW n \in NetLens, DistSend(n) PROVE NetInv'
  BY <1>2, SendStep
<1>3. ASSUME NEW k \in 1 .. 9, SendSome(k) \/ RecvSome(k) PROVE NetInv'
  <2>1. k \in Nat /\ 1 <= k
    OBVIOUS
  <2> QED BY <1>3, <2>1, SendSomeStep, SomeStep
<1>4. ASSUME NEW k \in 0 .. 3, RecvTimesOut(k) PROVE NetInv'
  BY <1>4, TimesOutStep
<1>5. ASSUME NEW k \in 0 .. 1, SendFails(k) PROVE NetInv'
  <2>1. k \in {0, 1}
    OBVIOUS
  <2> QED BY <1>5, <2>1, SendFailsStep
<1> QED BY <1>1, <1>2, <1>3, <1>4, <1>5 DEF NetNext

StrategyType == supStrategy \in {"one_for_one", "one_for_all", "rest_for_one"}

LEMMA SupStep == ASSUME SupInv, StrategyType, SupNext PROVE SupInv'
<1>1. ASSUME NEW n \in SupNames, SupRegister(n) PROVE SupInv'
  BY <1>1, RegisterStep
<1>2. ASSUME NEW i \in DOMAIN supActors, SupHeartbeat(i) \/ SupNotifyCrash(i) PROVE SupInv'
  BY <1>2, HeartbeatStep, RestartsCharged DEF StrategyType
<1> QED BY <1>1, <1>2, TimeoutsStep, TickStep DEF SupNext

LEMMA SupOrNet ==
    /\ NetNext => UNCHANGED supVars
    /\ SupNext => UNCHANGED netVars
    /\ StrategyType /\ SupNext => StrategyType'
<1>1. NetNext => UNCHANGED supVars
  BY DEF NetNext, RecvHeader, DistSend, SendSome, RecvSome, RecvTimesOut, SendFails
<1>2. SupNext => UNCHANGED netVars
  BY DEF SupNext, SupCheckTimeouts, SupTick, SupRegister, SupHeartbeat, SupNotifyCrash
<1>3. StrategyType /\ SupNext => StrategyType'
  BY DEF SupNext, SupCheckTimeouts, SupTick, SupRegister, SupHeartbeat, SupNotifyCrash, StrategyType
<1> QED BY <1>1, <1>2, <1>3

(* What the strategies hand to the caller to restart was restarted at      *)
(* least once.                                                             *)
LEMMA PendingFacts ==
    ASSUME SupInv
    PROVE  \A a \in {PendingRestarts(2)[i] : i \in DOMAIN PendingRestarts(2)} : a.restarts > 0
<1>1. PICK l \in Nat :
          l = Len(supActors) /\ DOMAIN supActors = 1 .. l /\ \A i \in 1 .. l : supActors[i] \in RemoteActors /\ SupFits(i)
  BY SupLists
<1>2. PICK M, p : M = {i \in DOMAIN supActors : supActors[i].state = "restarting"} /\ p = Kept(supActors, M)
  OBVIOUS
<1>3. supActors \in Seq(RemoteActors)
  BY DEF SupInv, SupType
<1>4. p \in Seq(RemoteActors) /\ \E g : Selects(p, supActors, M, Len(supActors), g)
  BY <1>2, <1>3, KeptSelects
<1>5. PICK g : Selects(p, supActors, M, Len(supActors), g)
  BY <1>4
<1>6. PICK q \in Nat : q = Len(p)
  BY <1>4
<1>7. \A i \in 1 .. q : p[i].restarts > 0
  <2> SUFFICES ASSUME NEW i \in 1 .. q PROVE p[i].restarts > 0
    OBVIOUS
  <2>1. g[i] \in M \cap 1 .. l /\ p[i] = supActors[g[i]]
    BY <1>1, <1>5, <1>6 DEF Selects
  <2>2. supActors[g[i]].state = "restarting"
    BY <1>2, <2>1
  <2>3. SupFits(g[i])
    BY <1>1, <2>1
  <2> QED BY <2>1, <2>2, <2>3 DEF SupFits
<1>8. PICK c \in 0 .. q : c = IF q < 2 THEN q ELSE 2
  <2>1. (IF q < 2 THEN q ELSE 2) \in 0 .. q
    BY <1>6
  <2> QED BY <2>1
<1>9. PICK r : r = SubSeq(p, 1, c)
  OBVIOUS
<1>10. PendingRestarts(2) = r
  BY <1>2, <1>6, <1>8, <1>9 DEF PendingRestarts
<1>11. r \in Seq(RemoteActors) /\ Len(r) = c /\ \A i \in 1 .. c : r[i] = p[i]
  BY <1>4, <1>6, <1>8, <1>9, Leading
<1>12. DOMAIN r = 1 .. c /\ \A i \in 1 .. c : i \in 1 .. q
  <2>1. \A i \in 1 .. c : i \in 1 .. q
    BY <1>6, <1>8
  <2>2. c \in Nat
    BY <1>6, <1>8
  <2> QED BY <1>11, <2>1, <2>2
<1> QED BY <1>7, <1>10, <1>11, <1>12

(* The payloads received are some of those sent, whole and in order; a     *)
(* remote actor's restarts are charged as the strategy says.               *)
THEOREM DistributionIsSound == DistributedSpec => []DistributedSound
<1> DEFINE Inv == NetInv /\ SupInv /\ StrategyType
<1>1. DistributedInit => Inv
  <2>1. DistributedInit => StrategyType
    BY DistAssumption DEF DistributedInit, StrategyType
  <2> QED BY <2>1, NetStart, SupStart
<1>2. Inv /\ [DistributedNext]_distributedVars => Inv'
  <2> SUFFICES ASSUME Inv, [DistributedNext]_distributedVars PROVE Inv'
    OBVIOUS
  <2>1. CASE NetNext
    <3>1. UNCHANGED supVars
      BY <2>1, SupOrNet
    <3>2. StrategyType'
      BY <3>1 DEF StrategyType, supVars
    <3> QED BY <2>1, <3>1, <3>2, NetStep, SupStays
  <2>2. CASE SupNext
    <3>1. UNCHANGED netVars /\ StrategyType'
      BY <2>2, SupOrNet
    <3> QED BY <2>2, <3>1, SupStep, NetStays
  <2>3. CASE UNCHANGED distributedVars
    <3>1. UNCHANGED netVars /\ UNCHANGED supVars
      BY <2>3 DEF distributedVars
    <3>2. StrategyType'
      BY <3>1 DEF StrategyType, supVars
    <3> QED BY <3>1, <3>2, NetStays, SupStays
  <2> QED BY <2>1, <2>2, <2>3 DEF DistributedNext
<1>3. Inv => DistributedSound
  <2> SUFFICES ASSUME Inv PROVE DistributedSound
    OBVIOUS
  <2>1. FramesIntact
    <3>1. PICK L, s, o, f, g, h : L \in Nat /\ s \in Nat /\ o \in Nat /\ NetState(L, s, o, f, g, h)
      BY DEF NetInv
    <3>2. \A i \in DOMAIN netReceived : \E m \in Range(netSent), n \in NetLens : netReceived[i] = Payload(m, n) /\ n <= NetBuf
      BY <3>1 DEF NetState, NetRead
    <3> QED BY <3>2 DEF FramesIntact, NetInv, Ordered
  <2>2. SupervisorCounts
    <3>1. PICK l \in Nat : /\ l = Len(supActors) /\ DOMAIN supActors = 1 .. l
                           /\ \A i \in 1 .. l : SupFits(i)
      BY SupLists
    <3>2. supRestarts = Total([i \in DOMAIN supNoticed |-> supNoticed[i].all - supNoticed[i].refused])
      <4>1. supNoticed \in Seq(Notices) /\ supRestarts = Total(Weighed(supNoticed, AcceptedOf))
        BY DEF SupInv, SupType
      <4> QED BY <4>1, AcceptedOfType
    <3>3. \A i \in DOMAIN supActors :
            LET own == supNoticed[i].all  accepted == own - supNoticed[i].refused IN
            /\ accepted <= Budget
            /\ supStrategy = "one_for_one" =>
                /\ supActors[i].restarts = own
                /\ supActors[i].restarts > Budget => supActors[i].state = "crashed"
            /\ supStrategy = "one_for_all" =>
                supActors[i].restarts = supRestarts - supSince[i] + supNoticed[i].refused
            /\ supStrategy = "rest_for_one" /\ i = 1 => supActors[i].restarts = own
      BY <3>1 DEF SupFits
    <3> QED BY <3>2, <3>3, PendingFacts DEF SupervisorCounts
  <2> QED BY <2>1, <2>2 DEF DistributedSound
<1> HIDE DEF Inv
<1> QED BY <1>1, <1>2, <1>3, PTL DEF DistributedSpec

-----------------------------------------------------------------------------
(* The compiler's types.  A type is made of types that are older than it,  *)
(* so a new type is a part of none, and one whose count reaches 0 is a     *)
(* part of no live one.                                                    *)

KindNames == {"plain", "tuple", "union", "array", "generic"}
TypeRecords == [kind : KindNames, base : Nat, parts : Seq(Nat), rc : Int, live : BOOLEAN]

TypesShape ==
    /\ types \in Seq(TypeRecords)
    /\ \A u \in 1 .. Len(types) :
          /\ types[u].base < u /\ Len(types[u].parts) <= TypeParts
          /\ \A i \in 1 .. Len(types[u].parts) : types[u].parts[i] < u /\ types[u].parts[i] > 0

(* What RefCountsExact counts.                                             *)
Referred(t) == Cardinality(held \cap {t}) + Cardinality(PlacesOf(t)) + Cardinality(BasesOf(t))

CountsInv ==
    /\ held \subseteq Live
    /\ \A t \in Live :
         /\ types[t].rc = Referred(t)
         /\ \A i \in 1 .. Len(types[t].parts) : types[t].parts[i] \in Live

TypesInv == TypesShape /\ CountsInv

LEMMA TypeFields ==
    ASSUME TypesShape
    PROVE  /\ Len(types) \in Nat
           /\ \A u \in 1 .. Len(types) :
                /\ types[u] \in TypeRecords /\ types[u].kind \in KindNames /\ types[u].base \in Nat /\ types[u].base < u
                /\ types[u].parts \in Seq(Nat) /\ Len(types[u].parts) \in Nat /\ Len(types[u].parts) <= TypeParts
                /\ types[u].rc \in Int /\ types[u].live \in BOOLEAN
                /\ \A i \in 1 .. Len(types[u].parts) : types[u].parts[i] \in 1 .. u - 1
<1>1. types \in Seq(TypeRecords)
  BY DEF TypesShape
<1>2. Len(types) \in Nat /\ \A u \in 1 .. Len(types) : types[u] \in TypeRecords
  BY <1>1, ElementOfSeq
<1>3. ASSUME NEW u \in 1 .. Len(types)
      PROVE  /\ types[u] \in TypeRecords /\ types[u].kind \in KindNames /\ types[u].base \in Nat /\ types[u].base < u
             /\ types[u].parts \in Seq(Nat) /\ Len(types[u].parts) \in Nat /\ Len(types[u].parts) <= TypeParts
             /\ types[u].rc \in Int /\ types[u].live \in BOOLEAN
             /\ \A i \in 1 .. Len(types[u].parts) : types[u].parts[i] \in 1 .. u - 1
  <2>1. PICK r \in TypeRecords : r = types[u]
    BY <1>2
  <2>2. /\ r.kind \in KindNames /\ r.base \in Nat /\ r.parts \in Seq(Nat) /\ Len(r.parts) \in Nat
        /\ r.rc \in Int /\ r.live \in BOOLEAN
    BY DEF TypeRecords
  <2>3. \A i \in 1 .. Len(r.parts) : r.parts[i] \in Nat
    BY <2>2, ElementOfSeq
  <2>4. r.base < u /\ Len(r.parts) <= TypeParts /\ \A i \in 1 .. Len(r.parts) : r.parts[i] < u /\ r.parts[i] > 0
    BY <2>1 DEF TypesShape
  <2>5. \A i \in 1 .. Len(r.parts) : r.parts[i] \in 1 .. u - 1
    BY <2>3, <2>4
  <2> QED BY <2>1, <2>2, <2>4, <2>5
<1> QED BY <1>2, <1>3

(* The places a type takes are as many as its places in each type's parts. *)
Tagged(u, P) == {<<u, i>> : i \in P}

LEMMA TaggedCount ==
    ASSUME NEW u, NEW P, IsFiniteSet(P)
    PROVE  IsFiniteSet(Tagged(u, P)) /\ Cardinality(Tagged(u, P)) = Cardinality(P)
<1> DEFINE Q == Tagged(u, P)
           f == [i \in P |-> <<u, i>>]
<1>1. f \in [P -> Q] /\ \A y \in Q : \E x \in P : y = f[x]
  BY DEF Tagged
<1>2. \A x, y \in P : f[x] = f[y] => x = y
  OBVIOUS
<1> HIDE DEF f, Q
<1>3. IsFiniteSet(Q) /\ Cardinality(Q) = Cardinality(P)
  BY <1>1, <1>2, ImageCount
<1> QED BY <1>3 DEF Q

LEMMA ReferredFinite ==
    ASSUME TypesShape, NEW t
    PROVE  /\ IsFiniteSet(PlacesOf(t)) /\ IsFiniteSet(BasesOf(t)) /\ IsFiniteSet(held \cap {t})
           /\ Cardinality(PlacesOf(t)) \in Nat /\ Cardinality(BasesOf(t)) \in Nat
           /\ Cardinality(held \cap {t}) = IF t \in held THEN 1 ELSE 0
<1>0. Len(types) \in Nat /\ TypeParts \in Nat
  BY TypeFields, TypesAssumption
<1>1. IsFiniteSet(1 .. Len(types)) /\ IsFiniteSet(1 .. TypeParts)
  BY <1>0, FS_Interval
<1>2. IsFiniteSet((1 .. Len(types)) \X (1 .. TypeParts))
  BY <1>1, FS_Product
<1>3. PlacesOf(t) \subseteq (1 .. Len(types)) \X (1 .. TypeParts)
  BY DEF PlacesOf, Live
<1>4. IsFiniteSet(PlacesOf(t))
  BY <1>2, <1>3, FS_Subset
<1>5. BasesOf(t) \subseteq 1 .. Len(types)
  BY DEF BasesOf
<1>6. IsFiniteSet(BasesOf(t))
  BY <1>1, <1>5, FS_Subset
<1>7. /\ IsFiniteSet(held \cap {t})
      /\ Cardinality(held \cap {t}) = IF t \in held THEN 1 ELSE 0
  <2>1. CASE t \in held
    <3>1. held \cap {t} = {t}
      BY <2>1
    <3> QED BY <2>1, <3>1, FS_Singleton
  <2>2. CASE t \notin held
    <3>1. held \cap {t} = {}
      BY <2>2
    <3> QED BY <2>2, <3>1, FS_EmptySet
  <2> QED BY <2>1, <2>2
<1> QED BY <1>4, <1>6, <1>7, FS_CardinalityType

LEMMA ReferredNumbers ==
    ASSUME TypesShape, NEW t
    PROVE  /\ Cardinality(PlacesOf(t)) \in Nat /\ Cardinality(BasesOf(t)) \in Nat
           /\ Cardinality(held \cap {t}) \in Nat
<1>1. Cardinality(held \cap {t}) = IF t \in held THEN 1 ELSE 0
  BY ReferredFinite
<1> QED BY <1>1, ReferredFinite

(* How often a sequence of parts names a type.                             *)
LEMMA UsesPlaces == \A p, t : Uses(p, t) = Cardinality(Places(p, t))
BY DEF Uses, Places

LEMMA TypesStart == TypesInit => TypesInv
<1> SUFFICES ASSUME TypesInit PROVE TypesInv
  OBVIOUS
<1>1. types = <<>> /\ held = {} /\ Len(types) = 0 /\ 1 .. 0 = {}
  BY DEF TypesInit
<1>2. Live = {}
  BY <1>1 DEF Live
<1>3. types \in Seq(TypeRecords)
  BY <1>1
<1> QED BY <1>1, <1>2, <1>3 DEF TypesInv, TypesShape, CountsInv

(* The types with other counts: c says what is added to each.              *)
Recounted(ts, c) ==
    /\ ts \in Seq(TypeRecords) /\ Len(ts) = Len(types)
    /\ \A t \in 1 .. Len(types) : /\ ts[t].base = types[t].base /\ ts[t].parts = types[t].parts
                                  /\ ts[t].live = types[t].live /\ ts[t].rc = types[t].rc + c[t]

LEMMA RecountedBy ==
    ASSUME TypesShape, NEW c, \A t \in 1 .. Len(types) : c[t] \in Int,
           NEW ts, ts = [t \in 1 .. Len(types) |-> [types[t] EXCEPT !.rc = @ + c[t]]]
    PROVE  Recounted(ts, c)
<1>1. PICK n \in Nat : n = Len(types)
  BY TypeFields
<1>2. ASSUME NEW t \in 1 .. n
      PROVE  /\ ts[t] \in TypeRecords /\ ts[t].base = types[t].base
             /\ ts[t].parts = types[t].parts /\ ts[t].live = types[t].live /\ ts[t].rc = types[t].rc + c[t]
  <2>1. ts[t] = [types[t] EXCEPT !.rc = @ + c[t]]
    BY <1>1
  <2>2. PICK r, x : r = types[t] /\ x = c[t] /\ x \in Int
    BY <1>1
  <2>3. r \in TypeRecords /\ r.rc \in Int
    BY <1>1, <2>2, TypeFields
  <2>4. PICK y \in Int : y = r.rc + x
    BY <2>2, <2>3
  <2>5. PICK q : q = [r EXCEPT !.rc = y]
    OBVIOUS
  <2>6. q \in TypeRecords
    BY <2>3, <2>5 DEF TypeRecords
  <2>7. q.base = r.base /\ q.parts = r.parts /\ q.live = r.live /\ q.rc = y
    BY <2>3, <2>5 DEF TypeRecords
  <2>8. ts[t] = q
    BY <2>1, <2>2, <2>4, <2>5
  <2> QED BY <2>2, <2>4, <2>6, <2>7, <2>8
<1>3. PICK f : f = ts
  OBVIOUS
<1>4. f = [t \in 1 .. n |-> f[t]]
  BY <1>1, <1>3
<1>5. \A t \in 1 .. n : f[t] \in TypeRecords
  BY <1>2, <1>3
<1>6. f \in [1 .. n -> TypeRecords]
  BY <1>4, <1>5
<1>7. f \in Seq(TypeRecords) /\ Len(f) = n
  BY <1>6, FunctionIsSeq
<1> QED BY <1>1, <1>2, <1>3, <1>7 DEF Recounted

LEMMA CountedFacts ==
    ASSUME TypesShape, NEW P \in Seq(Nat)
    PROVE  Recounted(Counted(types, P), [t \in 1 .. Len(types) |-> Cardinality(Places(P, t))])
<1> DEFINE c == [t \in 1 .. Len(types) |-> Cardinality(Places(P, t))]
<1>1. \A t \in 1 .. Len(types) : c[t] \in Int
  BY PlacesFinite
<1>2. Counted(types, P) = [t \in 1 .. Len(types) |-> [types[t] EXCEPT !.rc = @ + c[t]]]
  BY UsesPlaces DEF Counted
<1> HIDE DEF c
<1>3. Recounted(Counted(types, P), c)
  BY <1>1, <1>2, RecountedBy
<1> QED BY <1>3 DEF c

(* A type made of parts the caller holds: c counts what it adds to each.   *)
LEMMA AddsStep ==
    ASSUME TypesInv, NEW k \in KindNames, NEW b \in held \cup {0}, NEW P \in Seq(held), Len(P) <= TypeParts,
           NEW c, \A t \in 1 .. Len(types) : c[t] = Cardinality(Places(P, t)) + (IF b = t THEN 1 ELSE 0),
           NEW ts, Recounted(ts, c), Adds(ts, MadeType(k, b, P))
    PROVE  TypesInv'
<1> DEFINE e == MadeType(k, b, P)
<1>0. PICK n \in Nat : n = Len(types)
  BY TypeFields DEF TypesInv
<1>h. /\ held \subseteq 1 .. n /\ b \in 0 .. n /\ Len(P) \in Nat /\ P \in Seq(Nat)
      /\ \A i \in 1 .. Len(P) : P[i] \in held /\ P[i] \in 1 .. n
  <2>1. held \subseteq 1 .. n
    BY <1>0 DEF TypesInv, CountsInv, Live
  <2>2. Len(P) \in Nat /\ \A i \in 1 .. Len(P) : P[i] \in held
    BY ElementOfSeq
  <2>3. P \in Seq(Nat)
    <3>1. P = [i \in 1 .. Len(P) |-> P[i]] /\ \A i \in 1 .. Len(P) : P[i] \in Nat
      BY <2>1, <2>2
    <3>2. PICK m \in Nat : m = Len(P)
      BY <2>2
    <3>3. P \in [1 .. m -> Nat]
      BY <3>1, <3>2
    <3> QED BY <3>3, FunctionIsSeq
  <2> QED BY <1>0, <2>1, <2>2, <2>3
<1>c. \A t \in 1 .. n : c[t] \in Nat
  <2> SUFFICES ASSUME NEW t \in 1 .. n PROVE c[t] \in Nat
    OBVIOUS
  <2>1. Cardinality(Places(P, t)) \in Nat
    BY <1>h, PlacesFinite
  <2> QED BY <1>0, <2>1
<1>e. /\ e.kind = k /\ e.base = b /\ e.parts = P /\ e.rc = 1 /\ e.live = TRUE
      /\ e \in TypeRecords
  BY <1>h DEF MadeType, TypeRecords
<1>1. types' = Append(ts, e) /\ held' = held \cup {n + 1}
  BY <1>0 DEF Adds
<1>f. \A u \in 1 .. n :
        /\ types[u] \in TypeRecords /\ types[u].kind \in KindNames /\ types[u].base \in Nat /\ types[u].base < u
        /\ types[u].parts \in Seq(Nat) /\ Len(types[u].parts) \in Nat /\ Len(types[u].parts) <= TypeParts
        /\ types[u].rc \in Int /\ types[u].live \in BOOLEAN
        /\ \A i \in 1 .. Len(types[u].parts) : types[u].parts[i] \in 1 .. u - 1
  BY <1>0, TypeFields DEF TypesInv
<1> HIDE DEF e
<1>2. /\ ts \in Seq(TypeRecords) /\ Len(ts) = n
      /\ \A t \in 1 .. n : /\ ts[t].base = types[t].base /\ ts[t].parts = types[t].parts
                           /\ ts[t].live = types[t].live /\ ts[t].rc = types[t].rc + c[t]
  BY <1>0 DEF Recounted
<1>3. /\ types' \in Seq(TypeRecords) /\ Len(types') = n + 1 /\ types'[n + 1] = e
      /\ \A t \in 1 .. n : types'[t] = ts[t]
  <2> HIDE DEF e
  <2>1. PICK q : q = types'
    OBVIOUS
  <2>2. q = Append(ts, e)
    BY <1>1, <2>1
  <2>3. q \in Seq(TypeRecords) /\ Len(q) = n + 1 /\ q[n + 1] = e /\ \A t \in 1 .. n : q[t] = ts[t]
    BY <1>2, <1>e, <2>2, AppendProperties
  <2> QED BY <2>1, <2>3
<1>4. /\ \A t \in 1 .. n : /\ types'[t].base = types[t].base /\ types'[t].parts = types[t].parts
                           /\ types'[t].live = types[t].live /\ types'[t].rc = types[t].rc + c[t]
      /\ types'[n + 1].base = b /\ types'[n + 1].parts = P /\ types'[n + 1].live = TRUE /\ types'[n + 1].rc = 1
  BY <1>2, <1>3, <1>e
<1>5. Live' = Live \cup {n + 1} /\ Live \subseteq 1 .. n
  BY <1>0, <1>3, <1>4 DEF Live
<1>6. TypesShape'
  <2>1. ASSUME NEW u \in 1 .. n + 1
        PROVE  /\ types'[u].base < u /\ Len(types'[u].parts) <= TypeParts
               /\ \A i \in 1 .. Len(types'[u].parts) : types'[u].parts[i] < u /\ types'[u].parts[i] > 0
    <3>1. CASE u \in 1 .. n
      <4>1. \A i \in 1 .. Len(types[u].parts) : types[u].parts[i] < u /\ types[u].parts[i] > 0
        BY <1>f, <3>1
      <4> QED BY <1>f, <1>4, <3>1, <4>1
    <3>2. CASE u = n + 1
      <4>1. \A i \in 1 .. Len(P) : P[i] < n + 1 /\ P[i] > 0
        BY <1>h
      <4> QED BY <1>h, <1>4, <3>2, <4>1
    <3> QED BY <3>1, <3>2
  <2> QED BY <1>3, <2>1 DEF TypesShape
<1>7. ASSUME NEW t \in 1 .. n PROVE Referred(t)' = Referred(t) + c[t]
  <2> DEFINE Q == Tagged(n + 1, Places(P, t))
  <2>1. PlacesOf(t)' = PlacesOf(t) \cup Q
    <3>1. ASSUME NEW u, NEW i
          PROVE  <<u, i>> \in PlacesOf(t)' <=> <<u, i>> \in PlacesOf(t) \/ <<u, i>> \in Q
      <4>1. <<u, i>> \in PlacesOf(t)' <=> /\ u \in Live' /\ i \in 1 .. TypeParts
                                          /\ i <= Len(types'[u].parts) /\ types'[u].parts[i] = t
        BY DEF PlacesOf
      <4>2. <<u, i>> \in PlacesOf(t) <=> /\ u \in Live /\ i \in 1 .. TypeParts
                                         /\ i <= Len(types[u].parts) /\ types[u].parts[i] = t
        BY DEF PlacesOf
      <4>3. <<u, i>> \in Q <=> u = n + 1 /\ i \in 1 .. Len(P) /\ P[i] = t
        BY DEF Places, Tagged
      <4>4. CASE u = n + 1
        <5>1. u \notin Live /\ u \in Live'
          BY <1>5, <4>4
        <5>2. i \in 1 .. TypeParts /\ i <= Len(P) <=> i \in 1 .. Len(P)
          BY <1>h, TypesAssumption
        <5> QED BY <1>4, <4>1, <4>2, <4>3, <4>4, <5>1, <5>2
      <4>5. CASE u # n + 1
        <5>1. u \in Live' <=> u \in Live
          BY <1>5, <4>5
        <5>2. u \in Live => types'[u].parts = types[u].parts
          BY <1>4, <1>5
        <5> QED BY <4>1, <4>2, <4>3, <4>5, <5>1, <5>2
      <4> QED BY <4>4, <4>5
    <3>2. \A p \in PlacesOf(t)' : \E u, i : p = <<u, i>>
      BY DEF PlacesOf
    <3>3. \A p \in PlacesOf(t) : \E u, i : p = <<u, i>>
      BY DEF PlacesOf
    <3>4. \A p \in Q : \E u, i : p = <<u, i>>
      BY DEF Tagged
    <3> HIDE DEF Q
    <3> QED BY <3>1, <3>2, <3>3, <3>4
  <2>2. IsFiniteSet(Q) /\ Cardinality(Q) = Cardinality(Places(P, t)) /\ Cardinality(Q) \in Nat
    <3>1. IsFiniteSet(Places(P, t)) /\ Cardinality(Places(P, t)) \in Nat
      BY <1>h, PlacesFinite
    <3> QED BY <3>1, TaggedCount
  <2>3. PlacesOf(t) \cap Q = {}
    <3>1. n + 1 \notin Live
      BY <1>5
    <3> QED BY <3>1 DEF PlacesOf, Tagged
  <2>f. /\ IsFiniteSet(PlacesOf(t)) /\ IsFiniteSet(BasesOf(t))
        /\ Cardinality(PlacesOf(t)) \in Nat /\ Cardinality(BasesOf(t)) \in Nat
    BY ReferredFinite DEF TypesInv
  <2>4. Cardinality(PlacesOf(t)') = Cardinality(PlacesOf(t)) + Cardinality(Places(P, t))
    <3> HIDE DEF Q
    <3>1. Cardinality(PlacesOf(t) \cup Q) = Cardinality(PlacesOf(t)) + Cardinality(Q) - Cardinality(PlacesOf(t) \cap Q)
      BY <2>2, <2>f, FS_Union
    <3>2. Cardinality(PlacesOf(t) \cap Q) = 0
      BY <2>3, FS_EmptySet
    <3> QED BY <2>1, <2>2, <2>f, <3>1, <3>2
  <2>5. BasesOf(t)' = IF b = t THEN BasesOf(t) \cup {n + 1} ELSE BasesOf(t)
    <3>1. \A u : u \in BasesOf(t)' <=> u \in 1 .. n + 1 /\ types'[u].base = t
      BY <1>3 DEF BasesOf
    <3>2. \A u : u \in BasesOf(t) <=> u \in 1 .. n /\ types[u].base = t
      BY <1>0 DEF BasesOf
    <3>3. \A u : u \in 1 .. n + 1 <=> u \in 1 .. n \/ u = n + 1
      OBVIOUS
    <3>4. \A u \in 1 .. n : types'[u].base = types[u].base
      BY <1>4
    <3>5. types'[n + 1].base = b
      BY <1>4
    <3> QED BY <3>1, <3>2, <3>3, <3>4, <3>5
  <2>6. Cardinality(BasesOf(t)') = Cardinality(BasesOf(t)) + (IF b = t THEN 1 ELSE 0)
    <3>1. n + 1 \notin BasesOf(t)
      BY <1>0 DEF BasesOf
    <3>2. Cardinality(BasesOf(t) \cup {n + 1}) = Cardinality(BasesOf(t)) + 1
      BY <2>f, <3>1, FS_AddElement
    <3> QED BY <2>5, <2>f, <3>2
  <2>7. held' \cap {t} = held \cap {t}
    BY <1>1
  <2>8. Cardinality(held \cap {t}) \in Nat /\ Cardinality(Places(P, t)) \in Nat
    <3>1. Cardinality(held \cap {t}) \in Nat
      BY ReferredNumbers DEF TypesInv
    <3> QED BY <1>h, <3>1, PlacesFinite
  <2>9. Referred(t)' = Cardinality(held' \cap {t}) + Cardinality(PlacesOf(t)') + Cardinality(BasesOf(t)')
    BY DEF Referred
  <2>10. PICK x \in Nat, y \in Nat, z \in Nat, w \in Nat :
            /\ x = Cardinality(held \cap {t}) /\ y = Cardinality(PlacesOf(t))
            /\ z = Cardinality(BasesOf(t)) /\ w = Cardinality(Places(P, t))
    BY <2>8, <2>f
  <2>11. PICK d \in Nat : d = IF b = t THEN 1 ELSE 0
    OBVIOUS
  <2>12. c[t] = w + d /\ Referred(t)' = x + (y + w) + (z + d) /\ Referred(t) = x + y + z
    BY <1>0, <2>4, <2>6, <2>7, <2>9, <2>10, <2>11 DEF Referred
  <2> QED BY <2>12
<1>8. Referred(n + 1)' = 1
  <2>1. PlacesOf(n + 1)' = {}
    <3> SUFFICES ASSUME NEW p \in PlacesOf(n + 1)' PROVE FALSE
      OBVIOUS
    <3>1. PICK u \in Live', i \in 1 .. TypeParts : i <= Len(types'[u].parts) /\ types'[u].parts[i] = n + 1
      BY DEF PlacesOf
    <3>2. u \in 1 .. n + 1
      BY <1>5, <3>1
    <3>3. CASE u \in 1 .. n
      <4>1. types'[u].parts = types[u].parts /\ Len(types[u].parts) \in Nat
        BY <1>4, <1>f, <3>3
      <4>2. i \in 1 .. Len(types[u].parts) /\ types[u].parts[i] = n + 1
        BY <3>1, <4>1
      <4> QED BY <1>f, <3>3, <4>2
    <3>4. CASE u = n + 1
      <4>1. i \in 1 .. Len(P) /\ P[i] = n + 1
        BY <1>4, <1>h, <3>1, <3>4
      <4> QED BY <1>h, <4>1
    <3> QED BY <3>2, <3>3, <3>4
  <2>2. BasesOf(n + 1)' = {}
    <3>1. \A u \in 1 .. n + 1 : types'[u].base # n + 1
      BY <1>4, <1>f, <1>h
    <3> QED BY <1>3, <3>1 DEF BasesOf
  <2>3. held' \cap {n + 1} = {n + 1}
    BY <1>1
  <2>4. Cardinality({n + 1}) = 1 /\ Cardinality({}) = 0
    BY FS_Singleton, FS_EmptySet
  <2>5. Referred(n + 1)' = Cardinality(held' \cap {n + 1}) + Cardinality(PlacesOf(n + 1)') + Cardinality(BasesOf(n + 1)')
    BY DEF Referred
  <2>6. Cardinality(held' \cap {n + 1}) = 1
    BY <2>3, <2>4
  <2>7. Cardinality(PlacesOf(n + 1)') = 0 /\ Cardinality(BasesOf(n + 1)') = 0
    BY <2>1, <2>2, <2>4
  <2> QED BY <2>5, <2>6, <2>7
<1>9. CountsInv'
  <2>1. held' \subseteq Live'
    BY <1>1, <1>5 DEF TypesInv, CountsInv
  <2>2. ASSUME NEW t \in Live'
        PROVE  types'[t].rc = Referred(t)' /\ \A i \in 1 .. Len(types'[t].parts) : types'[t].parts[i] \in Live'
    <3>1. CASE t \in Live
      <4>1. t \in 1 .. n
        BY <1>5, <3>1
      <4>2. types[t].rc = Referred(t) /\ \A i \in 1 .. Len(types[t].parts) : types[t].parts[i] \in Live
        BY <3>1 DEF TypesInv, CountsInv
      <4> QED BY <1>4, <1>5, <1>7, <4>1, <4>2
    <3>2. CASE t = n + 1
      <4>1. \A i \in 1 .. Len(P) : P[i] \in Live
        BY <1>h DEF TypesInv, CountsInv
      <4> QED BY <1>4, <1>5, <1>8, <3>2, <4>1
    <3> QED BY <1>5, <3>1, <3>2
  <2> QED BY <2>1, <2>2 DEF CountsInv
<1> QED BY <1>6, <1>9 DEF TypesInv

(* What TypeRelease makes of the records.                                  *)
Lowered(t) == [types EXCEPT ![t].rc = @ - 1]
Released(t) == [Discounted(Lowered(t), Lowered(t)[t].parts) EXCEPT ![t].live = FALSE]

WithCount(r, x) == [r EXCEPT !.rc = x]
Dead(r) == [r EXCEPT !.live = FALSE]

LEMMA RecordChanged ==
    ASSUME NEW r \in TypeRecords, NEW x \in Int
    PROVE  /\ WithCount(r, x) \in TypeRecords /\ WithCount(r, x).base = r.base /\ WithCount(r, x).parts = r.parts
           /\ WithCount(r, x).live = r.live /\ WithCount(r, x).rc = x
BY DEF TypeRecords, WithCount

LEMMA RecordDies ==
    ASSUME NEW r \in TypeRecords
    PROVE  /\ Dead(r) \in TypeRecords /\ Dead(r).base = r.base /\ Dead(r).parts = r.parts
           /\ Dead(r).live = FALSE /\ Dead(r).rc = r.rc
BY DEF TypeRecords, Dead

LEMMA LoweredFacts ==
    ASSUME TypesShape, NEW n, n = Len(types), NEW t \in 1 .. n
    PROVE  /\ Lowered(t) \in [1 .. n -> TypeRecords]
           /\ \A u \in 1 .. n : /\ Lowered(t)[u].base = types[u].base /\ Lowered(t)[u].parts = types[u].parts
                                /\ Lowered(t)[u].live = types[u].live
                                /\ Lowered(t)[u].rc = types[u].rc - (IF u = t THEN 1 ELSE 0)
<1>1. types \in [1 .. n -> TypeRecords] /\ n \in Nat
  BY TypeFields DEF TypesShape
<1>2. PICK r \in TypeRecords : r = types[t]
  BY <1>1
<1>3. r.rc \in Int
  BY DEF TypeRecords
<1>4. PICK x \in Int : x = r.rc - 1
  BY <1>3
<1>5. PICK q : q = WithCount(r, x)
  OBVIOUS
<1>6. q \in TypeRecords /\ q.base = r.base /\ q.parts = r.parts /\ q.live = r.live /\ q.rc = x
  BY <1>5, RecordChanged
<1>7. Lowered(t) = [types EXCEPT ![t] = q]
  BY <1>2, <1>4, <1>5 DEF Lowered, WithCount
<1>8. PICK l : l = Lowered(t)
  OBVIOUS
<1>9. l \in [1 .. n -> TypeRecords] /\ l[t] = q /\ \A u \in 1 .. n : u # t => l[u] = types[u]
  BY <1>1, <1>6, <1>7, <1>8
<1>10. ASSUME NEW u \in 1 .. n
       PROVE  /\ l[u].base = types[u].base /\ l[u].parts = types[u].parts /\ l[u].live = types[u].live
              /\ l[u].rc = types[u].rc - (IF u = t THEN 1 ELSE 0)
  <2>1. CASE u = t
    BY <1>2, <1>4, <1>6, <1>9, <2>1
  <2>2. CASE u # t
    <3>1. types[u].rc \in Int
      BY <1>1 DEF TypeRecords
    <3> QED BY <1>9, <2>2, <3>1
  <2> QED BY <2>1, <2>2
<1> QED BY <1>8, <1>9, <1>10

LEMMA ReleasedFacts ==
    ASSUME TypesShape, NEW n, n = Len(types), NEW t \in 1 .. n
    PROVE  /\ Released(t) \in [1 .. n -> TypeRecords]
           /\ \A u \in 1 .. n :
                /\ Released(t)[u].base = types[u].base /\ Released(t)[u].parts = types[u].parts
                /\ Released(t)[u].live = (types[u].live /\ u # t)
                /\ Released(t)[u].rc = types[u].rc - (IF u = t THEN 1 ELSE 0) - Cardinality(Places(types[t].parts, u))
<1>1. PICK l : l = Lowered(t)
  OBVIOUS
<1>2. /\ l \in [1 .. n -> TypeRecords] /\ n \in Nat
      /\ \A u \in 1 .. n : /\ l[u].base = types[u].base /\ l[u].parts = types[u].parts
                           /\ l[u].live = types[u].live
                           /\ l[u].rc = types[u].rc - (IF u = t THEN 1 ELSE 0)
  BY <1>1, LoweredFacts, TypeFields
<1>3. PICK P \in Seq(Nat) : P = types[t].parts
  BY TypeFields
<1>4. PICK d : d = Discounted(l, P)
  OBVIOUS
<1>5. l \in Seq(TypeRecords) /\ Len(l) = n
  BY <1>2, FunctionIsSeq
<1>6. d = [u \in 1 .. n |-> [l[u] EXCEPT !.rc = @ - Uses(P, u)]]
  BY <1>4, <1>5 DEF Discounted
<1>7. ASSUME NEW u \in 1 .. n
      PROVE  /\ d[u] \in TypeRecords /\ d[u].base = l[u].base /\ d[u].parts = l[u].parts
             /\ d[u].live = l[u].live /\ d[u].rc = l[u].rc - Cardinality(Places(P, u))
  <2>1. d[u] = [l[u] EXCEPT !.rc = @ - Uses(P, u)]
    BY <1>6
  <2>2. PICK r \in TypeRecords : r = l[u]
    BY <1>2
  <2>3. PICK c \in Nat : c = Cardinality(Places(P, u)) /\ c = Uses(P, u)
    BY PlacesFinite, UsesPlaces
  <2>4. PICK x \in Int : x = r.rc - c
    BY DEF TypeRecords
  <2>5. d[u] = WithCount(r, x)
    BY <2>1, <2>2, <2>3, <2>4 DEF WithCount
  <2>6. /\ WithCount(r, x) \in TypeRecords /\ WithCount(r, x).base = r.base /\ WithCount(r, x).parts = r.parts
        /\ WithCount(r, x).live = r.live /\ WithCount(r, x).rc = x
    BY RecordChanged
  <2> QED BY <2>2, <2>3, <2>4, <2>5, <2>6
<1>8. PICK f : f = d
  OBVIOUS
<1>9. f = [u \in 1 .. n |-> f[u]]
  BY <1>6, <1>8
<1>10. f \in [1 .. n -> TypeRecords]
  BY <1>7, <1>8, <1>9
<1>11. PICK r \in TypeRecords : r = f[t]
  BY <1>10
<1>12. PICK q : q = Dead(r)
  OBVIOUS
<1>13. q \in TypeRecords /\ q.base = r.base /\ q.parts = r.parts /\ q.live = FALSE /\ q.rc = r.rc
  BY <1>12, RecordDies
<1>14. PICK g : g = Released(t)
  OBVIOUS
<1>15. g = [f EXCEPT ![t] = q]
  <2>1. Released(t) = [Discounted(l, P) EXCEPT ![t].live = FALSE]
    <3>1. l[t].parts = P
      BY <1>2, <1>3
    <3> QED BY <1>1, <3>1 DEF Released
  <2>2. Released(t) = [f EXCEPT ![t].live = FALSE]
    BY <1>4, <1>8, <2>1
  <2> QED BY <1>11, <1>12, <1>14, <2>2 DEF Dead
<1>16. g \in [1 .. n -> TypeRecords] /\ g[t] = q /\ \A u \in 1 .. n : u # t => g[u] = f[u]
  BY <1>10, <1>13, <1>15
<1>17. ASSUME NEW u \in 1 .. n
       PROVE  /\ g[u].base = types[u].base /\ g[u].parts = types[u].parts
              /\ g[u].live = (types[u].live /\ u # t)
              /\ g[u].rc = types[u].rc - (IF u = t THEN 1 ELSE 0) - Cardinality(Places(P, u))
  <2>1. /\ g[u].base = types[u].base /\ g[u].parts = types[u].parts
        /\ g[u].rc = types[u].rc - (IF u = t THEN 1 ELSE 0) - Cardinality(Places(P, u))
    <3>1. /\ g[u].base = f[u].base /\ g[u].parts = f[u].parts /\ g[u].rc = f[u].rc
      BY <1>11, <1>13, <1>16
    <3>2. f[u].base = l[u].base /\ f[u].parts = l[u].parts /\ f[u].rc = l[u].rc - Cardinality(Places(P, u))
      BY <1>7, <1>8
    <3> QED BY <1>2, <3>1, <3>2
  <2>2. CASE u = t
    BY <1>13, <1>16, <2>1, <2>2
  <2>3. CASE u # t
    <3>1. g[u].live = types[u].live /\ types[u].live \in BOOLEAN
      BY <1>2, <1>7, <1>8, <1>16, <2>3, TypeFields
    <3> QED BY <2>1, <2>3, <3>1
  <2> QED BY <2>2, <2>3
<1> QED BY <1>3, <1>14, <1>16, <1>17

LEMMA ReleaseStep ==
    ASSUME TypesInv, NEW t \in held, held' = held \ {t},
           types' = IF Lowered(t)[t].rc > 0 THEN Lowered(t) ELSE Released(t)
    PROVE  TypesInv'
<1> DEFINE P == types[t].parts
           freed == ~(Lowered(t)[t].rc > 0)
<1>0. PICK n \in Nat : n = Len(types)
  BY TypeFields DEF TypesInv
<1>f. \A u \in 1 .. n :
        /\ types[u] \in TypeRecords /\ types[u].base \in Nat /\ types[u].base < u
        /\ types[u].parts \in Seq(Nat) /\ Len(types[u].parts) \in Nat /\ Len(types[u].parts) <= TypeParts
        /\ types[u].rc \in Int /\ types[u].live \in BOOLEAN
        /\ \A i \in 1 .. Len(types[u].parts) : types[u].parts[i] \in 1 .. u - 1
  BY <1>0, TypeFields DEF TypesInv
<1>t. t \in 1 .. n /\ t \in Live /\ Live \subseteq 1 .. n
  BY <1>0 DEF TypesInv, CountsInv, Live
<1>e. \A u \in Live : types[u].rc = Referred(u) /\ \A i \in 1 .. Len(types[u].parts) : types[u].parts[i] \in Live
  BY DEF TypesInv, CountsInv
<1>p. \A u : Cardinality(Places(P, u)) \in Nat /\ IsFiniteSet(Places(P, u))
  BY <1>f, <1>t, PlacesFinite
<1>l. /\ Lowered(t) \in [1 .. n -> TypeRecords]
      /\ \A u \in 1 .. n : /\ Lowered(t)[u].base = types[u].base /\ Lowered(t)[u].parts = types[u].parts
                           /\ Lowered(t)[u].live = types[u].live
                           /\ Lowered(t)[u].rc = types[u].rc - (IF u = t THEN 1 ELSE 0)
  BY <1>0, <1>t, LoweredFacts DEF TypesInv
<1>r. /\ Released(t) \in [1 .. n -> TypeRecords]
      /\ \A u \in 1 .. n :
           /\ Released(t)[u].base = types[u].base /\ Released(t)[u].parts = types[u].parts
           /\ Released(t)[u].live = (types[u].live /\ u # t)
           /\ Released(t)[u].rc = types[u].rc - (IF u = t THEN 1 ELSE 0) - Cardinality(Places(P, u))
  BY <1>0, <1>t, ReleasedFacts DEF TypesInv
<1>1. /\ types' \in Seq(TypeRecords) /\ Len(types') = n
      /\ \A u \in 1 .. n : types'[u].base = types[u].base /\ types'[u].parts = types[u].parts
  <2>1. PICK f \in [1 .. n -> TypeRecords] : f = types'
    BY <1>l, <1>r
  <2>2. f \in Seq(TypeRecords) /\ Len(f) = n
    BY FunctionIsSeq
  <2>3. CASE freed
    BY <1>r, <2>1, <2>2, <2>3
  <2>4. CASE ~freed
    BY <1>l, <2>1, <2>2, <2>4
  <2> QED BY <2>3, <2>4
<1>2. TypesShape'
  <2>1. \A u \in 1 .. n : /\ types[u].base < u /\ Len(types[u].parts) <= TypeParts
                          /\ \A i \in 1 .. Len(types[u].parts) : types[u].parts[i] < u /\ types[u].parts[i] > 0
    BY <1>0 DEF TypesInv, TypesShape
  <2> QED BY <1>1, <2>1 DEF TypesShape
<1>3. \A u \in 1 .. n : BasesOf(u)' = BasesOf(u)
  BY <1>0, <1>1 DEF BasesOf
<1>n. \A u : /\ IsFiniteSet(PlacesOf(u)) /\ Cardinality(PlacesOf(u)) \in Nat /\ Cardinality(BasesOf(u)) \in Nat
             /\ Cardinality(held \cap {u}) = IF u \in held THEN 1 ELSE 0
  BY ReferredFinite DEF TypesInv
<1>h. \A u : Cardinality(held' \cap {u}) = Cardinality(held \cap {u}) - (IF u = t THEN 1 ELSE 0)
  <2> SUFFICES ASSUME NEW u
               PROVE  Cardinality(held' \cap {u}) = Cardinality(held \cap {u}) - (IF u = t THEN 1 ELSE 0)
    OBVIOUS
  <2>1. CASE u = t
    <3>1. held' \cap {u} = {} /\ u \in held
      BY <2>1
    <3>2. Cardinality(held' \cap {u}) = 0 /\ Cardinality(held \cap {u}) = 1
      BY <1>n, <3>1, FS_EmptySet
    <3> QED BY <2>1, <3>2
  <2>2. CASE u # t
    <3>1. held' \cap {u} = held \cap {u}
      BY <2>2
    <3>2. Cardinality(held \cap {u}) \in Nat
      BY <1>n
    <3> QED BY <2>2, <3>1, <3>2
  <2> QED BY <2>1, <2>2
<1> HIDE DEF P
<1>4. CASE ~freed
  <2>1. types' = Lowered(t)
    BY <1>4
  <2>2. Live' = Live
    BY <1>0, <1>1, <1>l, <2>1 DEF Live
  <2>3. ASSUME NEW u PROVE PlacesOf(u)' = PlacesOf(u)
    BY <1>1, <1>t, <2>2 DEF PlacesOf
  <2>4. ASSUME NEW u \in Live PROVE types'[u].rc = Referred(u)'
    <3>1. u \in 1 .. n /\ types[u].rc = Referred(u)
      BY <1>e, <1>t
    <3>2. types'[u].rc = types[u].rc - (IF u = t THEN 1 ELSE 0)
      BY <1>l, <2>1, <3>1
    <3>3. Referred(u)' = Cardinality(held' \cap {u}) + Cardinality(PlacesOf(u)) + Cardinality(BasesOf(u))
      BY <1>3, <2>3, <3>1 DEF Referred
    <3>4. PICK x \in Nat, y \in Nat, z \in Nat :
            x = Cardinality(held \cap {u}) /\ y = Cardinality(PlacesOf(u)) /\ z = Cardinality(BasesOf(u))
      BY ReferredNumbers DEF TypesInv
    <3>5. PICK d \in Nat : d = IF u = t THEN 1 ELSE 0
      OBVIOUS
    <3>6. Referred(u) = x + y + z /\ Cardinality(held' \cap {u}) = x - d
      BY <1>h, <3>4, <3>5 DEF Referred
    <3> QED BY <3>1, <3>2, <3>3, <3>4, <3>5, <3>6
  <2>5. ASSUME NEW u \in Live PROVE \A i \in 1 .. Len(types'[u].parts) : types'[u].parts[i] \in Live'
    BY <1>1, <1>e, <1>t, <2>2
  <2>6. held' \subseteq Live'
    BY <2>2 DEF TypesInv, CountsInv
  <2>7. CountsInv'
    BY <2>2, <2>4, <2>5, <2>6 DEF CountsInv
  <2> QED BY <1>2, <2>7 DEF TypesInv
<1>5. CASE freed
  <2>1. types' = Released(t)
    BY <1>5
  <2>2. Live' = Live \ {t}
    <3>1. \A u : u \in Live' <=> u \in 1 .. n /\ types'[u].live
      BY <1>1 DEF Live
    <3>2. \A u : u \in Live <=> u \in 1 .. n /\ types[u].live
      BY <1>0 DEF Live
    <3>3. \A u \in 1 .. n : types'[u].live = (types[u].live /\ u # t)
      BY <1>r, <2>1
    <3> QED BY <3>1, <3>2, <3>3
  <2>3. PlacesOf(t) = {}
    <3>1. types[t].rc - 1 <= 0 /\ types[t].rc = Referred(t)
      BY <1>5, <1>e, <1>f, <1>l, <1>t
    <3>2. PICK y \in Nat, z \in Nat : y = Cardinality(PlacesOf(t)) /\ z = Cardinality(BasesOf(t))
      BY <1>n
    <3>3. Cardinality(held \cap {t}) = 1
      BY <1>n
    <3>4. Referred(t) = 1 + y + z
      BY <3>2, <3>3 DEF Referred
    <3>5. y = 0
      BY <3>1, <3>4
    <3> QED BY <1>n, <3>2, <3>5, FS_EmptySet
  <2>4. \A u \in Live : \A i \in 1 .. Len(types[u].parts) : types[u].parts[i] # t
    <3> SUFFICES ASSUME NEW u \in Live, NEW i \in 1 .. Len(types[u].parts), types[u].parts[i] = t PROVE FALSE
      OBVIOUS
    <3>1. u \in 1 .. n /\ Len(types[u].parts) \in Nat /\ Len(types[u].parts) <= TypeParts
      BY <1>f, <1>t
    <3>2. i \in 1 .. TypeParts /\ i <= Len(types[u].parts)
      BY <3>1, TypesAssumption
    <3>3. <<u, i>> \in PlacesOf(t)
      BY <3>2 DEF PlacesOf
    <3> QED BY <2>3, <3>3
  <2>5. ASSUME NEW u PROVE /\ PlacesOf(u) = PlacesOf(u)' \cup Tagged(t, Places(P, u))
                           /\ PlacesOf(u)' \cap Tagged(t, Places(P, u)) = {}
    <3>1. ASSUME NEW v, NEW i
          PROVE  /\ <<v, i>> \in PlacesOf(u) <=> <<v, i>> \in PlacesOf(u)' \/ <<v, i>> \in Tagged(t, Places(P, u))
                 /\ ~(<<v, i>> \in PlacesOf(u)' /\ <<v, i>> \in Tagged(t, Places(P, u)))
      <4>1. <<v, i>> \in PlacesOf(u)' <=> /\ v \in Live /\ v # t /\ i \in 1 .. TypeParts
                                          /\ i <= Len(types'[v].parts) /\ types'[v].parts[i] = u
        BY <2>2 DEF PlacesOf
      <4>2. <<v, i>> \in PlacesOf(u) <=> /\ v \in Live /\ i \in 1 .. TypeParts
                                         /\ i <= Len(types[v].parts) /\ types[v].parts[i] = u
        BY DEF PlacesOf
      <4>3. <<v, i>> \in Tagged(t, Places(P, u)) <=> v = t /\ i \in 1 .. Len(P) /\ P[i] = u
        BY DEF Places, Tagged
      <4>4. v \in Live => types'[v].parts = types[v].parts
        BY <1>1, <1>t
      <4>5. CASE v = t
        <5>1. i \in 1 .. TypeParts /\ i <= Len(P) <=> i \in 1 .. Len(P)
          BY <1>f, <1>t, TypesAssumption DEF P
        <5> QED BY <1>t, <4>1, <4>2, <4>3, <4>5, <5>1 DEF P
      <4>6. CASE v # t
        BY <4>1, <4>2, <4>3, <4>4, <4>6
      <4> QED BY <4>5, <4>6
    <3>2. \A p \in PlacesOf(u)' : \E v, i : p = <<v, i>>
      BY DEF PlacesOf
    <3>3. \A p \in PlacesOf(u) : \E v, i : p = <<v, i>>
      BY DEF PlacesOf
    <3>4. \A p \in Tagged(t, Places(P, u)) : \E v, i : p = <<v, i>>
      BY DEF Tagged
    <3> QED BY <3>1, <3>2, <3>3, <3>4
  <2>6. ASSUME NEW u \in Live, u # t PROVE types'[u].rc = Referred(u)'
    <3>1. u \in 1 .. n /\ types[u].rc = Referred(u)
      BY <1>e, <1>t
    <3>2. types'[u].rc = types[u].rc - Cardinality(Places(P, u))
      <4>1. types'[u].rc = types[u].rc - 0 - Cardinality(Places(P, u))
        BY <1>r, <2>1, <2>6, <3>1
      <4> QED BY <1>f, <1>p, <3>1, <4>1
    <3>3. Referred(u)' = Cardinality(held' \cap {u}) + Cardinality(PlacesOf(u)') + Cardinality(BasesOf(u))
      BY <1>3, <3>1 DEF Referred
    <3>4. PICK x \in Nat, y \in Nat, z \in Nat :
            x = Cardinality(held \cap {u}) /\ y = Cardinality(PlacesOf(u)) /\ z = Cardinality(BasesOf(u))
      BY ReferredNumbers DEF TypesInv
    <3>5. Referred(u) = x + y + z /\ Cardinality(held' \cap {u}) = x
      BY <1>h, <2>6, <3>4 DEF Referred
    <3>6. PICK w \in Nat : w = Cardinality(Places(P, u))
      BY <1>p
    <3>7. IsFiniteSet(Tagged(t, Places(P, u))) /\ Cardinality(Tagged(t, Places(P, u))) = w
      BY <1>p, <3>6, TaggedCount
    <3>8. Cardinality(PlacesOf(u)') \in Nat /\ y = Cardinality(PlacesOf(u)') + w
      <4>1. PICK A, B : A = PlacesOf(u)' /\ B = Tagged(t, Places(P, u))
        OBVIOUS
      <4>2. PlacesOf(u) = A \cup B /\ A \cap B = {}
        BY <2>5, <4>1
      <4>3. IsFiniteSet(A)
        BY <1>n, <4>2, FS_Subset
      <4>4. Cardinality(A) \in Nat
        BY <4>3, FS_CardinalityType
      <4>5. Cardinality(A \cup B) = Cardinality(A) + Cardinality(B) - Cardinality(A \cap B)
        BY <3>7, <4>1, <4>3, FS_Union
      <4>6. Cardinality(A \cap B) = 0
        BY <4>2, FS_EmptySet
      <4> QED BY <3>4, <3>7, <4>1, <4>2, <4>4, <4>5, <4>6
    <3>9. PICK v \in Nat : v = Cardinality(PlacesOf(u)') /\ y = v + w
      BY <3>8
    <3> QED BY <3>1, <3>2, <3>3, <3>4, <3>5, <3>6, <3>9
  <2>7. ASSUME NEW u \in Live, u # t PROVE \A i \in 1 .. Len(types'[u].parts) : types'[u].parts[i] \in Live'
    BY <1>1, <1>e, <1>t, <2>2, <2>4
  <2>8. held' \subseteq Live'
    BY <2>2 DEF TypesInv, CountsInv
  <2>9. CountsInv'
    BY <2>2, <2>6, <2>7, <2>8 DEF CountsInv
  <2> QED BY <1>2, <2>9 DEF TypesInv
<1> QED BY <1>4, <1>5

LEMMA BoundedParts ==
    ASSUME NEW S, NEW m \in Nat, NEW P \in BoundedSeq(S, m)
    PROVE  P \in Seq(S) /\ Len(P) <= m
<1>1. PICK l \in 0 .. m : P \in [1 .. l -> S]
  BY DEF BoundedSeq, SeqOf
<1>2. P \in Seq(S) /\ Len(P) = l
  BY <1>1, FunctionIsSeq
<1> QED BY <1>2

LEMMA TypesStep == TypesInv /\ [TypesNext]_typesVars => TypesInv'
<1> SUFFICES ASSUME TypesInv, [TypesNext]_typesVars PROVE TypesInv'
  OBVIOUS
<1>0. Len(types) \in Nat /\ TypesShape /\ held \subseteq 1 .. Len(types) /\ TypeParts \in Nat /\ 1 <= TypeParts
  BY TypeFields, TypesAssumption DEF TypesInv, CountsInv, Live
<1>p. ASSUME NEW P \in Seq(held) PROVE P \in Seq(Nat)
  <2>1. Len(P) \in Nat /\ \A i \in 1 .. Len(P) : P[i] \in Nat
    <3>1. Len(P) \in Nat /\ \A i \in 1 .. Len(P) : P[i] \in held
      BY ElementOfSeq
    <3>2. \A t \in held : t \in Nat
      BY <1>0
    <3> QED BY <3>1, <3>2
  <2>2. P = [i \in 1 .. Len(P) |-> P[i]]
    OBVIOUS
  <2>3. P \in [1 .. Len(P) -> Nat]
    BY <2>1, <2>2
  <2> QED BY <2>1, <2>3, FunctionIsSeq
<1>1. CASE TypeNew
  <2>1. PICK P : P = <<>>
    OBVIOUS
  <2>2. P \in Seq(held) /\ Len(P) = 0 /\ Adds(types, MadeType("plain", 0, P))
    BY <1>1, <2>1 DEF TypeNew
  <2>3. PICK c : c = [t \in 1 .. Len(types) |-> 0]
    OBVIOUS
  <2>4. \A t \in 1 .. Len(types) : c[t] = Cardinality(Places(P, t)) + (IF 0 = t THEN 1 ELSE 0)
    <3>1. \A t : Places(P, t) = {}
      BY <2>2 DEF Places
    <3> QED BY <2>3, <3>1, FS_EmptySet
  <2>5. Recounted(types, c)
    BY <1>0, <2>3, TypeFields DEF Recounted, TypesShape
  <2>6. "plain" \in KindNames /\ 0 \in held \cup {0} /\ Len(P) <= TypeParts
    BY <1>0, <2>2 DEF KindNames
  <2> QED BY <2>2, <2>4, <2>5, <2>6, AddsStep
<1>2. CASE TypeTuple
  <2>1. PICK k \in {"tuple", "union"}, P \in BoundedSeq(held, TypeParts) : Adds(Counted(types, P), MadeType(k, 0, P))
    BY <1>2 DEF TypeTuple
  <2>2. P \in Seq(held) /\ Len(P) <= TypeParts /\ P \in Seq(Nat)
    BY <1>0, <1>p, BoundedParts
  <2>3. PICK c : c = [t \in 1 .. Len(types) |-> Cardinality(Places(P, t))]
    OBVIOUS
  <2>4. \A t \in 1 .. Len(types) : c[t] = Cardinality(Places(P, t)) + (IF 0 = t THEN 1 ELSE 0)
    BY <2>2, <2>3, PlacesFinite
  <2>5. Recounted(Counted(types, P), c)
    BY <1>0, <2>2, <2>3, CountedFacts
  <2>6. k \in KindNames /\ 0 \in held \cup {0}
    BY DEF KindNames
  <2> QED BY <2>1, <2>2, <2>4, <2>5, <2>6, AddsStep
<1>3. CASE TypeArray
  <2>1. PICK e \in held : Adds(Counted(types, <<e>>), MadeType("array", 0, <<e>>))
    BY <1>3 DEF TypeArray
  <2>2. PICK P : P = <<e>>
    OBVIOUS
  <2>3. P \in Seq(held) /\ Len(P) = 1
    BY <2>2
  <2>4. P \in Seq(Nat) /\ Len(P) <= TypeParts
    BY <1>0, <1>p, <2>3
  <2>5. PICK c : c = [t \in 1 .. Len(types) |-> Cardinality(Places(P, t))]
    OBVIOUS
  <2>6. \A t \in 1 .. Len(types) : c[t] = Cardinality(Places(P, t)) + (IF 0 = t THEN 1 ELSE 0)
    BY <2>4, <2>5, PlacesFinite
  <2>7. Recounted(Counted(types, P), c)
    BY <1>0, <2>4, <2>5, CountedFacts
  <2>8. Adds(Counted(types, P), MadeType("array", 0, P))
    BY <2>1, <2>2
  <2>9. "array" \in KindNames /\ 0 \in held \cup {0}
    BY DEF KindNames
  <2> QED BY <2>3, <2>4, <2>6, <2>7, <2>8, <2>9, AddsStep
<1>4. CASE TypeGenericWithArgs
  <2>1. PICK b \in held, P \in BoundedSeq(held, TypeParts) :
            Adds(Counted(types, <<b>> \o P), MadeType("generic", b, P))
    BY <1>4 DEF TypeGenericWithArgs
  <2>2. P \in Seq(held) /\ Len(P) <= TypeParts /\ P \in Seq(Nat) /\ b \in Nat
    BY <1>0, <1>p, BoundedParts
  <2>3. PICK Q : Q = <<b>> \o P
    OBVIOUS
  <2>4. Q \in Seq(Nat)
    BY <2>2, <2>3
  <2>5. PICK c : c = [t \in 1 .. Len(types) |-> Cardinality(Places(Q, t))]
    OBVIOUS
  <2>6. \A t \in 1 .. Len(types) : c[t] = Cardinality(Places(P, t)) + (IF b = t THEN 1 ELSE 0)
    BY <2>2, <2>3, <2>5, PlacesPrepended
  <2>7. Recounted(Counted(types, Q), c)
    BY <1>0, <2>4, <2>5, CountedFacts
  <2>8. Adds(Counted(types, Q), MadeType("generic", b, P))
    BY <2>1, <2>3
  <2>9. "generic" \in KindNames /\ b \in held \cup {0}
    BY DEF KindNames
  <2> QED BY <2>2, <2>6, <2>7, <2>8, <2>9, AddsStep
<1>5. CASE TypeRelease
  <2>1. PICK t \in held :
          /\ types' = IF Lowered(t)[t].rc > 0 THEN Lowered(t) ELSE Released(t)
          /\ held' = held \ {t}
    BY <1>5 DEF TypeRelease, Lowered, Released
  <2> QED BY <2>1, ReleaseStep
<1>6. CASE UNCHANGED typesVars
  <2>1. types' = types /\ held' = held
    BY <1>6 DEF typesVars
  <2>2. Live' = Live
    BY <2>1 DEF Live
  <2>3. \A t : PlacesOf(t)' = PlacesOf(t) /\ BasesOf(t)' = BasesOf(t)
    BY <2>1, <2>2 DEF PlacesOf, BasesOf
  <2>4. \A t : Referred(t)' = Referred(t)
    BY <2>1, <2>3 DEF Referred
  <2>5. TypesShape'
    BY <1>0, <2>1 DEF TypesShape
  <2>6. CountsInv'
    BY <2>1, <2>2, <2>4 DEF TypesInv, CountsInv
  <2> QED BY <2>5, <2>6 DEF TypesInv
<1> QED BY <1>1, <1>2, <1>3, <1>4, <1>5, <1>6 DEF TypesNext

(* Every type's count is the references there are, so nothing a live type  *)
(* is made of, and nothing the caller holds, is ever freed memory.         *)
THEOREM TypesStayCounted == TypesSpec => []RefCountsExact
<1>1. TypesInv => RefCountsExact
  <2> SUFFICES ASSUME TypesInv PROVE RefCountsExact
    OBVIOUS
  <2>1. ASSUME NEW t \in Live PROVE ToSet(types[t].parts) \subseteq Live
    <3>1. PICK P \in Seq(Nat) : P = types[t].parts
      BY TypeFields DEF TypesInv, Live
    <3>2. ToSet(P) = {P[i] : i \in 1 .. Len(P)}
      BY DEF ToSet
    <3> QED BY <3>1, <3>2 DEF TypesInv, CountsInv
  <2> QED BY <2>1 DEF RefCountsExact, TypesInv, CountsInv, Referred
<1> QED BY <1>1, TypesStart, TypesStep, PTL DEF TypesSpec

-----------------------------------------------------------------------------
(* Versions.  The first difference of two triples decides; the tags, when  *)
(* the triples are the same.                                               *)

LEMMA VersionFields ==
    ASSUME NEW v \in Versions
    PROVE  /\ v.major \in Nat /\ v.minor \in Nat /\ v.patch \in Nat /\ v.pre \in Nat /\ v.build \in Nat
           /\ v = [major |-> v.major, minor |-> v.minor, patch |-> v.patch, pre |-> v.pre, build |-> v.build]
BY PackagesAssumption DEF Versions

Difference(a, b) ==
    IF a.major # b.major THEN a.major - b.major
    ELSE IF a.minor # b.minor THEN a.minor - b.minor
    ELSE IF a.patch # b.patch THEN a.patch - b.patch ELSE 0

LEMMA LeastOf ==
    ASSUME NEW S, NEW m \in S, m \in Int, \A x \in S : x \in Int /\ m <= x
    PROVE  Min(S) = m
<1>1. \A x \in S : (\A y \in S : x <= y) => x = m
  OBVIOUS
<1> QED BY <1>1 DEF Min

LEMMA FirstDifferenceIs ==
    ASSUME NEW a \in Versions, NEW b \in Versions
    PROVE  /\ FirstDifference(Triple(a), Triple(b)) = Difference(a, b)
           /\ Triple(a) = Triple(b) <=> a.major = b.major /\ a.minor = b.minor /\ a.patch = b.patch
<1> DEFINE p == Triple(a)
           q == Triple(b)
           S == {i \in 1 .. 3 : p[i] # q[i]}
<1>1. /\ p[1] = a.major /\ p[2] = a.minor /\ p[3] = a.patch
      /\ q[1] = b.major /\ q[2] = b.minor /\ q[3] = b.patch
      /\ p = q <=> a.major = b.major /\ a.minor = b.minor /\ a.patch = b.patch
  BY DEF Triple
<1>2. FirstDifference(p, q) = IF S = {} THEN 0 ELSE p[Min(S)] - q[Min(S)]
  BY DEF FirstDifference
<1>i. \A i : i \in 1 .. 3 <=> i = 1 \/ i = 2 \/ i = 3
  OBVIOUS
<1>s. /\ 1 \in S <=> a.major # b.major
      /\ 2 \in S <=> a.minor # b.minor
      /\ 3 \in S <=> a.patch # b.patch
      /\ \A i \in S : i = 1 \/ i = 2 \/ i = 3
  BY <1>1, <1>i
<1> HIDE DEF S, p, q
<1>3. CASE a.major # b.major
  <2>1. Min(S) = 1
    BY <1>s, <1>3, LeastOf
  <2> QED BY <1>1, <1>2, <1>s, <1>3, <2>1 DEF p, q, Difference
<1>4. CASE a.major = b.major /\ a.minor # b.minor
  <2>1. 2 \in S /\ \A x \in S : x \in Int /\ 2 <= x
    BY <1>s, <1>4
  <2>2. Min(S) = 2
    BY <2>1, LeastOf
  <2> QED BY <1>1, <1>2, <1>s, <1>4, <2>2 DEF p, q, Difference
<1>5. CASE a.major = b.major /\ a.minor = b.minor /\ a.patch # b.patch
  <2>1. 3 \in S /\ \A x \in S : x \in Int /\ 3 <= x
    BY <1>s, <1>5
  <2>2. Min(S) = 3
    BY <2>1, LeastOf
  <2> QED BY <1>1, <1>2, <1>s, <1>5, <2>2 DEF p, q, Difference
<1>6. CASE a.major = b.major /\ a.minor = b.minor /\ a.patch = b.patch
  <2>1. S = {}
    BY <1>s, <1>6
  <2> QED BY <1>1, <1>2, <1>6, <2>1 DEF p, q, Difference
<1> QED BY <1>3, <1>4, <1>5, <1>6

(* The order, without sequences.                                           *)
LEMMA CompareIs ==
    ASSUME NEW a \in Versions, NEW b \in Versions
    PROVE  Compare(a, b) = IF Difference(a, b) # 0 THEN Difference(a, b)
                           ELSE IF a.pre # 0 /\ b.pre = 0 THEN -1
                           ELSE IF a.pre = 0 /\ b.pre # 0 THEN 1 ELSE a.pre - b.pre
<1>1. Difference(a, b) = 0 <=> a.major = b.major /\ a.minor = b.minor /\ a.patch = b.patch
  BY VersionFields DEF Difference
<1>2. Triple(a) = Triple(b) <=> Difference(a, b) = 0
  BY <1>1, FirstDifferenceIs
<1>3. FirstDifference(Triple(a), Triple(b)) = Difference(a, b)
  BY FirstDifferenceIs
<1> QED BY <1>2, <1>3 DEF Compare

LEMMA OrderLaws ==
    ASSUME NEW a \in Versions, NEW b \in Versions
    PROVE  /\ Compare(a, b) = 0 <=> Alike(a, b)
           /\ Compare(a, b) < 0 <=> Compare(b, a) > 0
           /\ Compare(a, b) \in Int
           /\ Difference(a, b) >= 0 <=> Compare(a, b) >= 0 \/ Triple(a) = Triple(b)
<1>1. /\ a.major \in Nat /\ a.minor \in Nat /\ a.patch \in Nat /\ a.pre \in Nat
      /\ b.major \in Nat /\ b.minor \in Nat /\ b.patch \in Nat /\ b.pre \in Nat
      /\ Triple(a) = Triple(b) <=> a.major = b.major /\ a.minor = b.minor /\ a.patch = b.patch
      /\ Alike(a, b) <=> Triple(a) = Triple(b) /\ a.pre = b.pre
  BY VersionFields, FirstDifferenceIs DEF Alike
<1>2. /\ Compare(a, b) = IF Difference(a, b) # 0 THEN Difference(a, b)
                         ELSE IF a.pre # 0 /\ b.pre = 0 THEN -1
                         ELSE IF a.pre = 0 /\ b.pre # 0 THEN 1 ELSE a.pre - b.pre
      /\ Compare(b, a) = IF Difference(b, a) # 0 THEN Difference(b, a)
                         ELSE IF b.pre # 0 /\ a.pre = 0 THEN -1
                         ELSE IF b.pre = 0 /\ a.pre # 0 THEN 1 ELSE b.pre - a.pre
  BY CompareIs
<1>3. /\ Difference(a, b) = 0 <=> a.major = b.major /\ a.minor = b.minor /\ a.patch = b.patch
      /\ Difference(b, a) = -Difference(a, b) /\ Difference(a, b) \in Int
  BY <1>1 DEF Difference
<1> QED BY <1>1, <1>2, <1>3

LEMMA OrderTransitive ==
    ASSUME NEW a \in Versions, NEW b \in Versions, NEW c \in Versions, Compare(a, b) <= 0, Compare(b, c) <= 0
    PROVE  Compare(a, c) <= 0
<1>1. /\ a.major \in Nat /\ a.minor \in Nat /\ a.patch \in Nat /\ a.pre \in Nat
      /\ b.major \in Nat /\ b.minor \in Nat /\ b.patch \in Nat /\ b.pre \in Nat
      /\ c.major \in Nat /\ c.minor \in Nat /\ c.patch \in Nat /\ c.pre \in Nat
  BY VersionFields
<1>2. PICK x \in Int, y \in Int, z \in Int : x = Difference(a, b) /\ y = Difference(b, c) /\ z = Difference(a, c)
  BY <1>1 DEF Difference
<1>3. /\ x <= 0 /\ y <= 0 => z <= 0
      /\ x <= 0 /\ y <= 0 /\ z = 0 => x = 0 /\ y = 0
  BY <1>1, <1>2 DEF Difference
<1>4. /\ Compare(a, b) = IF x # 0 THEN x ELSE IF a.pre # 0 /\ b.pre = 0 THEN -1
                         ELSE IF a.pre = 0 /\ b.pre # 0 THEN 1 ELSE a.pre - b.pre
      /\ Compare(b, c) = IF y # 0 THEN y ELSE IF b.pre # 0 /\ c.pre = 0 THEN -1
                         ELSE IF b.pre = 0 /\ c.pre # 0 THEN 1 ELSE b.pre - c.pre
      /\ Compare(a, c) = IF z # 0 THEN z ELSE IF a.pre # 0 /\ c.pre = 0 THEN -1
                         ELSE IF a.pre = 0 /\ c.pre # 0 THEN 1 ELSE a.pre - c.pre
  BY <1>2, CompareIs
<1>5. x <= 0 /\ y <= 0
  BY <1>1, <1>4
<1>6. CASE z # 0
  BY <1>3, <1>4, <1>5, <1>6
<1>7. CASE z = 0
  <2>1. x = 0 /\ y = 0
    BY <1>3, <1>5, <1>7
  <2> QED BY <1>1, <1>4, <1>7, <2>1
<1> QED BY <1>6, <1>7

LEMMA CompatLaws ==
    ASSUME NEW a \in Versions, NEW b \in Versions
    PROVE  (Compat(a, b) = "exact" <=> Alike(a, b)) /\ Compat(a, b) = Compat(b, a)
<1>1. /\ Compare(a, b) = 0 <=> Alike(a, b)
      /\ Compare(b, a) = 0 <=> Alike(a, b)
  <2>1. Alike(b, a) <=> Alike(a, b)
    BY DEF Alike
  <2> QED BY <2>1, OrderLaws
<1>2. CASE Alike(a, b)
  <2>1. a.major = b.major /\ a.minor = b.minor /\ a.patch = b.patch
    BY <1>2, FirstDifferenceIs DEF Alike
  <2>2. Compat(a, b) = "exact"
    BY <1>1, <1>2, <2>1 DEF Compat
  <2>3. Compat(b, a) = "exact"
    BY <1>1, <1>2, <2>1 DEF Compat
  <2> QED BY <1>2, <2>2, <2>3
<1>3. CASE ~Alike(a, b) /\ a.major # b.major
  BY <1>1, <1>3 DEF Compat
<1>4. CASE ~Alike(a, b) /\ a.major = b.major /\ a.minor # b.minor
  BY <1>1, <1>4 DEF Compat
<1>5. CASE ~Alike(a, b) /\ a.major = b.major /\ a.minor = b.minor /\ a.patch # b.patch
  BY <1>1, <1>5 DEF Compat
<1>6. CASE ~Alike(a, b) /\ a.major = b.major /\ a.minor = b.minor /\ a.patch = b.patch
  BY <1>1, <1>6 DEF Compat
<1> QED BY <1>2, <1>3, <1>4, <1>5, <1>6

LEMMA PkgOrder ==
    ASSUME NEW a \in Versions, NEW b \in Versions
    PROVE  Satisfies(a, "^", b) <=> Difference(a, b) >= 0
<1>1. Difference(a, b) \in Int
  BY VersionFields DEF Difference
<1>2. PkgCompare(a, b) = IF Difference(a, b) < 0 THEN -1 ELSE IF Difference(a, b) > 0 THEN 1 ELSE 0
  BY FirstDifferenceIs DEF PkgCompare
<1>3. Satisfies(a, "^", b) <=> PkgCompare(a, b) >= 0
  BY DEF Satisfies
<1> QED BY <1>1, <1>2, <1>3

(* A mark and what it marks, or nothing.                                   *)
LEMMA MarkedIs ==
    ASSUME NEW mark \in Int, NEW rank \in Nat
    PROVE  /\ Marked(mark, rank) \in Seq(Int) /\ Len(Marked(mark, rank)) = IF rank = 0 THEN 0 ELSE 2
           /\ rank # 0 => Marked(mark, rank)[1] = mark /\ Marked(mark, rank)[2] = rank
BY DEF Marked

(* A version's text has five parts, and two more for a tag and for build   *)
(* metadata each.                                                          *)
LEMMA TextParses ==
    ASSUME NEW v \in Versions
    PROVE  /\ ParseVersion(VersionText(v)) = v
           /\ \A n \in 0 .. 4 : ParseVersion(SubSeq(VersionText(v), 1, n)) = NoVersion
<1>0. /\ v.major \in Nat /\ v.minor \in Nat /\ v.patch \in Nat /\ v.pre \in Nat /\ v.build \in Nat
      /\ v = [major |-> v.major, minor |-> v.minor, patch |-> v.patch, pre |-> v.pre, build |-> v.build]
  BY VersionFields
<1>1. PICK t : t = VersionText(v)
  OBVIOUS
<1>2. PICK x \in Nat, y \in Nat :
          /\ x = (IF v.pre = 0 THEN 0 ELSE 2) /\ y = (IF v.build = 0 THEN 0 ELSE 2)
          /\ t \in Seq(Int) /\ Len(t) = (5 + x) + y
          /\ t[1] = v.major /\ t[2] = Dot /\ t[3] = v.minor /\ t[4] = Dot /\ t[5] = v.patch
          /\ v.pre # 0 => t[6] = Dash /\ t[7] = v.pre
          /\ v.build # 0 => t[6 + x] = PlusMark /\ t[7 + x] = v.build
  <2>1. PICK p, q, r : p = <<v.major, Dot, v.minor, Dot, v.patch>> /\ q = Marked(Dash, v.pre) /\ r = Marked(PlusMark, v.build)
    OBVIOUS
  <2>2. /\ p \in Seq(Int) /\ Len(p) = 5
        /\ p[1] = v.major /\ p[2] = Dot /\ p[3] = v.minor /\ p[4] = Dot /\ p[5] = v.patch
    BY <1>0, <2>1 DEF Dot
  <2>3. PICK x \in Nat, y \in Nat, a \in Nat :
            x = (IF v.pre = 0 THEN 0 ELSE 2) /\ y = (IF v.build = 0 THEN 0 ELSE 2) /\ a = 5
    OBVIOUS
  <2>4. /\ q \in Seq(Int) /\ Len(q) = x /\ (v.pre # 0 => q[1] = Dash /\ q[2] = v.pre)
        /\ r \in Seq(Int) /\ Len(r) = y /\ (v.build # 0 => r[1] = PlusMark /\ r[2] = v.build)
    <3>1. Dash \in Int /\ PlusMark \in Int
      BY DEF Dash, PlusMark
    <3>2. /\ q \in Seq(Int) /\ Len(q) = (IF v.pre = 0 THEN 0 ELSE 2)
          /\ v.pre # 0 => q[1] = Dash /\ q[2] = v.pre
      BY <1>0, <2>1, <3>1, MarkedIs
    <3>3. /\ r \in Seq(Int) /\ Len(r) = (IF v.build = 0 THEN 0 ELSE 2)
          /\ v.build # 0 => r[1] = PlusMark /\ r[2] = v.build
      BY <1>0, <2>1, <3>1, MarkedIs
    <3> QED BY <2>3, <3>2, <3>3
  <2>5. PICK s : s = p \o q
    OBVIOUS
  <2>6. s \in Seq(Int) /\ Len(s) = a + x /\ \A i \in 1 .. a + x : s[i] = IF i <= a THEN p[i] ELSE q[i - a]
    <3>1. p \in Seq(Int) /\ q \in Seq(Int) /\ Len(p) = a /\ Len(q) = x
      BY <2>2, <2>3, <2>4
    <3> QED BY <2>5, <3>1, Concatenated
  <2>7. PICK c \in Nat : c = a + x
    BY <2>3
  <2>8. t \in Seq(Int) /\ Len(t) = c + y /\ \A i \in 1 .. c + y : t[i] = IF i <= c THEN s[i] ELSE r[i - c]
    <3>1. t = s \o r
      BY <1>1, <2>1, <2>5 DEF VersionText
    <3>2. s \in Seq(Int) /\ c = Len(s) /\ r \in Seq(Int) /\ y = Len(r)
      BY <2>4, <2>6, <2>7
    <3> QED BY <3>1, <3>2, Concatenated
  <2>9. /\ s[1] = p[1] /\ s[2] = p[2] /\ s[3] = p[3] /\ s[4] = p[4] /\ s[5] = p[5]
        /\ v.pre # 0 => s[6] = q[1] /\ s[7] = q[2]
    BY <2>3, <2>6
  <2>10. /\ t[1] = s[1] /\ t[2] = s[2] /\ t[3] = s[3] /\ t[4] = s[4] /\ t[5] = s[5]
         /\ v.pre # 0 => t[6] = s[6] /\ t[7] = s[7]
         /\ v.build # 0 => t[6 + x] = r[1] /\ t[7 + x] = r[2]
    <3>1. v.build # 0 => /\ 6 + x \in 1 .. c + y /\ ~(6 + x <= c) /\ (6 + x) - c = 1
                         /\ 7 + x \in 1 .. c + y /\ ~(7 + x <= c) /\ (7 + x) - c = 2
      BY <2>3, <2>7
    <3>2. v.build # 0 => t[6 + x] = r[1] /\ t[7 + x] = r[2]
      BY <2>8, <3>1
    <3>3. v.pre # 0 => 6 \in 1 .. c + y /\ 6 <= c /\ 7 \in 1 .. c + y /\ 7 <= c
      BY <2>3, <2>7
    <3>4. \A i \in 1 .. 5 : i \in 1 .. c + y /\ i <= c
      BY <2>3, <2>7
    <3> QED BY <2>8, <3>2, <3>3, <3>4
  <2>11. Len(t) = (5 + x) + y
    BY <2>3, <2>7, <2>8
  <2>12. /\ t[1] = v.major /\ t[2] = Dot /\ t[3] = v.minor /\ t[4] = Dot /\ t[5] = v.patch
    BY <2>2, <2>9, <2>10
  <2>13. v.pre # 0 => t[6] = Dash /\ t[7] = v.pre
    BY <2>4, <2>9, <2>10
  <2>14. v.build # 0 => t[6 + x] = PlusMark /\ t[7 + x] = v.build
    BY <2>4, <2>10
  <2>15. t \in Seq(Int)
    BY <2>8
  <2> QED BY <2>3, <2>11, <2>12, <2>13, <2>14, <2>15
<1>3. ParseVersion(t) = v
  <2>1. Len(t) >= 5 /\ \A i \in {1, 3, 5} : t[i] >= 0
    BY <1>0, <1>2
  <2>2. MarkedAt(t, 6, Dash) = v.pre
    <3>1. CASE v.pre = 0
      <4>1. Len(t) > 6 => t[6] # Dash
        BY <1>2, <3>1 DEF Dash, PlusMark
      <4> QED BY <3>1, <4>1 DEF MarkedAt
    <3>2. CASE v.pre # 0
      BY <1>2, <3>2 DEF MarkedAt
    <3> QED BY <3>1, <3>2
  <2>3. MarkedAt(t, 6 + x, PlusMark) = v.build
    <3>1. CASE v.build = 0
      BY <1>2, <3>1 DEF MarkedAt
    <3>2. CASE v.build # 0
      <4>1. Len(t) > 6 + x /\ t[6 + x] = PlusMark /\ t[(6 + x) + 1] = v.build
        <5>1. (6 + x) + 1 = 7 + x
          BY <1>2
        <5> QED BY <1>2, <3>2, <5>1
      <4> QED BY <4>1 DEF MarkedAt
    <3> QED BY <3>1, <3>2
  <2>4. (IF v.pre = 0 THEN 6 ELSE 8) = 6 + x
    BY <1>2
  <2>5. ParseVersion(t) = [major |-> t[1], minor |-> t[3], patch |-> t[5], pre |-> MarkedAt(t, 6, Dash),
                           build |-> MarkedAt(t, IF MarkedAt(t, 6, Dash) = 0 THEN 6 ELSE 8, PlusMark)]
    BY <1>2, <2>1 DEF ParseVersion
  <2> QED BY <1>0, <1>2, <2>2, <2>3, <2>4, <2>5
<1>4. ASSUME NEW n \in 0 .. 4 PROVE ParseVersion(SubSeq(t, 1, n)) = NoVersion
  <2>1. PICK l \in Nat : l = Len(t) /\ l >= 5
    BY <1>2
  <2>2. Len(SubSeq(t, 1, n)) = n
    BY <1>2, <2>1, SubSeqProperties
  <2> QED BY <2>2 DEF ParseVersion
<1> QED BY <1>1, <1>3, <1>4

(* The version order is total and transitive and agrees with the levels of *)
(* compatibility, versions parse back, and the package manager's order     *)
(* departs from it exactly on prereleases of the same numbers.             *)
THEOREM VersionOrderIsTotal == PackagesSpec => []VersionsOrdered
<1> DEFINE Inv == asked \in Versions \cup {NoVersion}
<1>1. PackagesInit => Inv
  BY DEF PackagesInit
<1>2. Inv /\ [PackagesNext]_pkgVars => Inv'
  <2> SUFFICES ASSUME Inv, [PackagesNext]_pkgVars PROVE Inv'
    OBVIOUS
  <2>1. CASE ManifestNext \/ TablesNext \/ UNCHANGED pkgVars
    BY <2>1 DEF ManifestNext, ParseLine, TablesNext, PkgAdd, PkgRemove, ApiRegister, pkgVars
  <2>2. CASE VersionsNext
    BY <2>2 DEF VersionsNext, CompareVersion
  <2> QED BY <2>1, <2>2 DEF PackagesNext
<1>3. Inv => VersionsOrdered
  <2> SUFFICES ASSUME asked \in Versions PROVE VersionsOrdered
    BY DEF VersionsOrdered
  <2>1. /\ ParseVersion(VersionText(asked)) = asked
        /\ \A n \in 0 .. 4 : ParseVersion(SubSeq(VersionText(asked), 1, n)) = NoVersion
    BY TextParses
  <2>2. ASSUME NEW b \in Versions
        PROVE  /\ (Compare(asked, b) = 0) = Alike(asked, b) /\ (Compare(asked, b) < 0) = (Compare(b, asked) > 0)
               /\ (Compat(asked, b) = "exact") = Alike(asked, b) /\ Compat(asked, b) = Compat(b, asked)
               /\ Satisfies(asked, "^", b) = (Compare(asked, b) >= 0 \/ Triple(asked) = Triple(b))
    <3>1. /\ Compare(asked, b) = 0 <=> Alike(asked, b)
          /\ Compare(asked, b) < 0 <=> Compare(b, asked) > 0
          /\ Difference(asked, b) >= 0 <=> Compare(asked, b) >= 0 \/ Triple(asked) = Triple(b)
      BY OrderLaws
    <3>2. (Compat(asked, b) = "exact" <=> Alike(asked, b)) /\ Compat(asked, b) = Compat(b, asked)
      BY CompatLaws
    <3>3. Satisfies(asked, "^", b) <=> Difference(asked, b) >= 0
      BY PkgOrder
    <3>4. Satisfies(asked, "^", b) \in BOOLEAN /\ Alike(asked, b) \in BOOLEAN
      BY DEF Satisfies, Alike
    <3> QED BY <3>1, <3>2, <3>3, <3>4
  <2>3. \A b, c \in Versions : Compare(asked, b) <= 0 /\ Compare(b, c) <= 0 => Compare(asked, c) <= 0
    BY OrderTransitive
  <2> QED BY <2>1, <2>2, <2>3 DEF VersionsOrdered
<1> QED BY <1>1, <1>2, <1>3, PTL DEF PackagesSpec

-----------------------------------------------------------------------------
(* Manifests.  What a text of lines says: the section in force after line  *)
(* i, the last value of a key of a section, the sections with a pair.      *)

ManifestLines == Sections \cup Pairs \cup Others
PackSection == [kind |-> "section", name |-> "package"]
DepSection(d) == [kind |-> "dependency", name |-> d]
HeadsOf(ls, i) == {j \in 1 .. i : ls[j].kind \in {"section", "dependency"}}
SecOf(ls, i) == IF HeadsOf(ls, i) = {} THEN NoSection ELSE ls[Max(HeadsOf(ls, i))]
AtOf(ls, s, k) == {i \in 1 .. Len(ls) : ls[i].kind = "pair" /\ SecOf(ls, i) = s /\ ls[i].key = k}
ValOf(ls, s, k) == IF AtOf(ls, s, k) = {} THEN Unset ELSE ls[Max(AtOf(ls, s, k))].value
PairedIn(ls, s) == \E i \in 1 .. Len(ls) : ls[i].kind = "pair" /\ SecOf(ls, i) = s

LEMMA MaxChoice ==
    ASSUME NEW n \in Nat, NEW S, S \subseteq 1 .. n, S # {}
    PROVE  Max(S) \in S /\ \A k \in S : k <= Max(S)
<1>1. S \in SUBSET (0 .. n)
  OBVIOUS
<1>2. \E m \in S : \A k \in S : k <= m
  BY <1>1, GreatestNat
<1>3. \E m \in S : \A k \in S : m >= k
  BY <1>1, <1>2
<1>4. Max(S) \in S /\ \A k \in S : Max(S) >= k
  BY <1>3 DEF Max
<1> QED BY <1>1, <1>4

LEMMA MaxIs ==
    ASSUME NEW n \in Nat, NEW S, S \subseteq 1 .. n, NEW m \in S, \A k \in S : k <= m
    PROVE  Max(S) = m
<1>1. Max(S) \in S /\ \A k \in S : k <= Max(S)
  BY MaxChoice
<1>2. PICK x \in S : x = Max(S) /\ \A k \in S : k <= x
  BY <1>1
<1>3. m \in Nat /\ x \in Nat /\ m <= x /\ x <= m
  BY <1>2
<1> QED BY <1>2, <1>3

(* What follows a text does not change what holds within it.               *)
LEMMA SecWithin ==
    ASSUME NEW ls, NEW t, NEW L \in Nat, \A j \in 1 .. L : t[j] = ls[j], NEW i \in 0 .. L
    PROVE  SecOf(t, i) = SecOf(ls, i)
<1>1. HeadsOf(t, i) = HeadsOf(ls, i)
  BY DEF HeadsOf
<1>2. CASE HeadsOf(ls, i) = {}
  BY <1>1, <1>2 DEF SecOf
<1>3. CASE HeadsOf(ls, i) # {}
  <2>1. HeadsOf(ls, i) \subseteq 1 .. i /\ i \in Nat
    BY DEF HeadsOf
  <2>2. Max(HeadsOf(ls, i)) \in HeadsOf(ls, i)
    BY <1>3, <2>1, MaxChoice
  <2>3. t[Max(HeadsOf(ls, i))] = ls[Max(HeadsOf(ls, i))]
    BY <2>1, <2>2
  <2> QED BY <1>1, <1>3, <2>3 DEF SecOf
<1> QED BY <1>2, <1>3

LEMMA SecStart == \A ls : SecOf(ls, 0) = NoSection
  BY DEF SecOf, HeadsOf

(* A line that is a head is in force after it; any other changes nothing.  *)
LEMMA SecNext ==
    ASSUME NEW ls, NEW n \in Nat
    PROVE  SecOf(ls, n + 1) = IF ls[n + 1].kind \in {"section", "dependency"} THEN ls[n + 1] ELSE SecOf(ls, n)
<1>1. PICK A, B : A = HeadsOf(ls, n) /\ B = HeadsOf(ls, n + 1)
  OBVIOUS
<1>2. A \subseteq 1 .. n /\ B \subseteq 1 .. n + 1 /\ n + 1 \in Nat
  BY <1>1 DEF HeadsOf
<1>3. CASE ls[n + 1].kind \in {"section", "dependency"}
  <2>1. n + 1 \in B /\ \A k \in B : k <= n + 1
    BY <1>1, <1>2, <1>3 DEF HeadsOf
  <2>2. Max(B) = n + 1
    BY <1>2, <2>1, MaxIs
  <2> QED BY <1>1, <1>3, <2>1, <2>2 DEF SecOf
<1>4. CASE ls[n + 1].kind \notin {"section", "dependency"}
  <2>1. A = B
    <3>1. \A k \in B : k # n + 1
      BY <1>1, <1>4 DEF HeadsOf
    <3> QED BY <1>1, <1>2, <3>1 DEF HeadsOf
  <2> QED BY <1>1, <1>4, <2>1 DEF SecOf
<1> QED BY <1>3, <1>4

(* A line more.                                                            *)
LEMMA SecMore ==
    ASSUME NEW ls, NEW t, NEW L \in Nat, L = Len(ls), Len(t) = L + 1, \A j \in 1 .. L : t[j] = ls[j]
    PROVE  SecOf(t, L + 1) = IF t[L + 1].kind \in {"section", "dependency"} THEN t[L + 1] ELSE SecOf(ls, L)
<1>1. SecOf(t, L) = SecOf(ls, L)
  BY SecWithin
<1> QED BY <1>1, SecNext

LEMMA ValMore ==
    ASSUME NEW ls, NEW t, NEW L \in Nat, L = Len(ls), Len(t) = L + 1, \A j \in 1 .. L : t[j] = ls[j],
           NEW l, l = t[L + 1], NEW s, NEW k
    PROVE  ValOf(t, s, k) = IF l.kind = "pair" /\ SecOf(ls, L) = s /\ l.key = k THEN l.value ELSE ValOf(ls, s, k)
<1>1. PICK A, B : A = AtOf(ls, s, k) /\ B = AtOf(t, s, k)
  OBVIOUS
<1>2. A \subseteq 1 .. L /\ B \subseteq 1 .. L + 1 /\ L + 1 \in Nat
  BY <1>1 DEF AtOf
<1>3. \A i \in 1 .. L : i \in A <=> i \in B
  <2>1. \A i \in 1 .. L : SecOf(t, i) = SecOf(ls, i)
    BY SecWithin
  <2>2. \A i \in 1 .. L : i \in 1 .. Len(t)
    OBVIOUS
  <2> QED BY <1>1, <2>1, <2>2 DEF AtOf
<1>4. l.kind = "pair" => SecOf(t, L + 1) = SecOf(ls, L)
  BY SecMore
<1>5. L + 1 \in B <=> l.kind = "pair" /\ SecOf(ls, L) = s /\ l.key = k
  <2>1. L + 1 \in 1 .. Len(t)
    OBVIOUS
  <2> QED BY <1>1, <1>4, <2>1 DEF AtOf
<1>6. CASE L + 1 \in B
  <2>1. \A i \in B : i <= L + 1
    BY <1>2
  <2>2. Max(B) = L + 1
    BY <1>2, <1>6, <2>1, MaxIs
  <2> QED BY <1>1, <1>5, <1>6, <2>2 DEF ValOf
<1>7. CASE L + 1 \notin B
  <2>1. A = B
    <3>1. \A i \in B : i \in 1 .. L
      BY <1>2, <1>7
    <3> QED BY <1>2, <1>3, <3>1
  <2>2. CASE A = {}
    BY <1>1, <1>5, <1>7, <2>1, <2>2 DEF ValOf
  <2>3. CASE A # {}
    <3>1. Max(A) \in A
      BY <1>2, <2>3, MaxChoice
    <3>2. t[Max(A)] = ls[Max(A)]
      BY <1>2, <3>1
    <3> QED BY <1>1, <1>5, <1>7, <2>1, <2>3, <3>2 DEF ValOf
  <2> QED BY <2>2, <2>3
<1> QED BY <1>6, <1>7

LEMMA PairedMore ==
    ASSUME NEW ls, NEW t, NEW L \in Nat, L = Len(ls), Len(t) = L + 1, \A j \in 1 .. L : t[j] = ls[j],
           NEW l, l = t[L + 1], NEW s
    PROVE  PairedIn(t, s) <=> PairedIn(ls, s) \/ (l.kind = "pair" /\ SecOf(ls, L) = s)
<1>1. \A i \in 1 .. L : SecOf(t, i) = SecOf(ls, i) /\ t[i] = ls[i]
  BY SecWithin
<1>2. l.kind = "pair" => SecOf(t, L + 1) = SecOf(ls, L)
  BY SecMore
<1>3. \A i \in 1 .. Len(t) : i \in 1 .. L \/ i = L + 1
  OBVIOUS
<1>4. L + 1 \in 1 .. Len(t) /\ \A i \in 1 .. L : i \in 1 .. Len(t)
  OBVIOUS
<1>5. PairedIn(t, s) => PairedIn(ls, s) \/ (l.kind = "pair" /\ SecOf(ls, L) = s)
  BY <1>1, <1>2, <1>3 DEF PairedIn
<1>6. PairedIn(ls, s) => PairedIn(t, s)
  BY <1>1, <1>4 DEF PairedIn
<1>7. l.kind = "pair" /\ SecOf(ls, L) = s => PairedIn(t, s)
  BY <1>2, <1>4 DEF PairedIn
<1> QED BY <1>5, <1>6, <1>7

(* A section without a pair has no values.                                 *)
LEMMA Unpaired ==
    ASSUME NEW ls, NEW s, ~PairedIn(ls, s), NEW k
    PROVE  ValOf(ls, s, k) = Unset
<1>1. AtOf(ls, s, k) = {}
  BY DEF PairedIn, AtOf
<1> QED BY <1>1 DEF ValOf
(* Where a name is first found in a table, 0 when it is not.               *)
NameIndex(s, n) == SelectInSeq(s, LAMBDA x : x.name = n)
LEMMA NameFound ==
    ASSUME NEW s, NEW L \in Nat, L = Len(s), NEW n
    PROVE  \/ NameIndex(s, n) = 0 /\ \A j \in 1 .. L : s[j].name # n
           \/ /\ NameIndex(s, n) \in 1 .. L /\ s[NameIndex(s, n)].name = n
              /\ \A j \in 1 .. L : j < NameIndex(s, n) => s[j].name # n
<1> DEFINE I == {i \in 1 .. L : s[i].name = n}
<1>1. NameIndex(s, n) = IF I # {} THEN Min(I) ELSE 0
  BY DEF NameIndex, SelectInSeq
<1>2. CASE I = {}
  BY <1>1, <1>2
<1>3. CASE I # {}
  <2>1. I \in SUBSET Nat
    OBVIOUS
  <2>2. \E m \in I : \A k \in I : m <= k
    <3> HIDE DEF I
    <3> QED BY <1>3, <2>1, LeastNat
  <2>3. PICK m : m = Min(I) /\ m \in I /\ \A k \in I : m <= k
    BY <2>2 DEF Min
  <2>4. \A j \in 1 .. L : j < m => j \notin I
    BY <2>3
  <2> QED BY <1>1, <1>3, <2>3, <2>4
<1> QED BY <1>2, <1>3

TomlVals == TomlValues \cup {Unset}
DepRecords == [name : TomlDeps, keys : [DepKeys -> TomlVals]]
NamesApart(s) == \A i, j \in 1 .. Len(s) : s[i].name = s[j].name => i = j

(* What a manifest holds is what its lines say.                            *)
FieldsRead(ls, fields) == \A k \in PackageKeys : fields[k] = ValOf(ls, PackSection, k)
DepNamed(deps, d) == \E i \in 1 .. Len(deps) : deps[i].name = d
DepsRead(ls, deps) ==
    /\ NamesApart(deps)
    /\ \A d \in TomlDeps : DepNamed(deps, d) <=> PairedIn(ls, DepSection(d))
    /\ \A i \in 1 .. Len(deps) : \A k \in DepKeys : deps[i].keys[k] = ValOf(ls, DepSection(deps[i].name), k)

LEMMA EmptyDepIs ==
    ASSUME NEW d \in TomlDeps
    PROVE  /\ EmptyDep(d) \in DepRecords /\ EmptyDep(d).name = d
           /\ \A k \in DepKeys : EmptyDep(d).keys[k] = Unset
<1>1. PICK g : g = [k \in DepKeys |-> Unset]
  OBVIOUS
<1>2. g \in [DepKeys -> TomlVals] /\ \A k \in DepKeys : g[k] = Unset
  BY <1>1 DEF TomlVals
<1>3. EmptyDep(d) = [name |-> d, keys |-> g]
  BY <1>1 DEF EmptyDep
<1>4. [name |-> d, keys |-> g].name = d /\ [name |-> d, keys |-> g].keys = g /\ [name |-> d, keys |-> g] \in DepRecords
  BY <1>2 DEF DepRecords
<1> QED BY <1>2, <1>3, <1>4

(* Adding a dependency if there is none of its name.                       *)
DepThere(deps, d, w) ==
    /\ w \in Seq(DepRecords) /\ NamesApart(w) /\ \A j \in 1 .. Len(deps) : w[j] = deps[j]
    /\ DepIndex(w, d) \in 1 .. Len(w) /\ w[DepIndex(w, d)].name = d
    /\ \/ Len(w) = Len(deps)
       \/ /\ Len(w) = Len(deps) + 1 /\ w[Len(deps) + 1] = EmptyDep(d)
          /\ \A j \in 1 .. Len(deps) : deps[j].name # d

LEMMA WithDepIs ==
    ASSUME NEW deps \in Seq(DepRecords), NamesApart(deps), NEW d \in TomlDeps,
           NEW L \in Nat, L = Len(deps), NEW w, w = WithDep(deps, d)
    PROVE  DepThere(deps, d, w)
<1>1. DepIndex(deps, d) = NameIndex(deps, d) /\ DepIndex(w, d) = NameIndex(w, d)
  BY DEF DepIndex, NameIndex
<1>2. CASE NameIndex(deps, d) # 0
  <2>1. w = deps
    BY <1>1, <1>2 DEF WithDep
  <2>2. NameIndex(deps, d) \in 1 .. L /\ deps[NameIndex(deps, d)].name = d
    BY <1>2, NameFound
  <2> QED BY <1>1, <2>1, <2>2 DEF DepThere
<1>3. CASE NameIndex(deps, d) = 0
  <2>1. PICK e : e = EmptyDep(d) /\ e \in DepRecords /\ e.name = d
    BY EmptyDepIs
  <2>2. w = Append(deps, e)
    BY <1>1, <1>3, <2>1 DEF WithDep
  <2>3. w \in Seq(DepRecords) /\ Len(w) = L + 1 /\ w[L + 1] = e /\ \A j \in 1 .. L : w[j] = deps[j]
    BY <2>1, <2>2, AppendProperties
  <2>4. \A j \in 1 .. L : deps[j].name # d
    BY <1>3, NameFound
  <2>5. NamesApart(w)
    <3> SUFFICES ASSUME NEW i \in 1 .. L + 1, NEW j \in 1 .. L + 1, w[i].name = w[j].name PROVE i = j
      BY <2>3 DEF NamesApart
    <3>1. CASE i \in 1 .. L /\ j \in 1 .. L
      BY <2>3, <3>1 DEF NamesApart
    <3>2. CASE i = L + 1 /\ j \in 1 .. L
      BY <2>1, <2>3, <2>4, <3>2
    <3>3. CASE i \in 1 .. L /\ j = L + 1
      BY <2>1, <2>3, <2>4, <3>3
    <3>4. CASE i = L + 1 /\ j = L + 1
      BY <3>4
    <3> QED BY <3>1, <3>2, <3>3, <3>4
  <2>6. NameIndex(w, d) \in 1 .. L + 1 /\ w[NameIndex(w, d)].name = d
    <3>1. L + 1 \in 1 .. L + 1 /\ w[L + 1].name = d /\ L + 1 \in Nat
      BY <2>1, <2>3
    <3> QED BY <2>3, <3>1, NameFound
  <2> QED BY <1>1, <2>1, <2>3, <2>4, <2>5, <2>6 DEF DepThere
<1> QED BY <1>2, <1>3

(* Writing a key of one dependency.                                        *)
WithKey(deps, i, k, v) == [deps EXCEPT ![i].keys[k] = v]
LEMMA WithKeyIs ==
    ASSUME NEW deps \in Seq(DepRecords), NEW L \in Nat, L = Len(deps), NEW i \in 1 .. L, NEW k \in DepKeys,
           NEW v \in TomlVals, NEW w, w = WithKey(deps, i, k, v)
    PROVE  /\ w \in Seq(DepRecords) /\ Len(w) = L
           /\ \A j \in 1 .. L : w[j].name = deps[j].name
           /\ \A j \in 1 .. L : \A q \in DepKeys : w[j].keys[q] = IF j = i /\ q = k THEN v ELSE deps[j].keys[q]
<1>1. deps \in [1 .. L -> DepRecords]
  BY LenProperties
<1>2. PICK o, g, g2, o2 : o = deps[i] /\ g = o.keys /\ g2 = [g EXCEPT ![k] = v] /\ o2 = [o EXCEPT !.keys = g2]
  OBVIOUS
<1>3. o \in DepRecords /\ g \in [DepKeys -> TomlVals] /\ o.name \in TomlDeps /\ o = [name |-> o.name, keys |-> g]
  BY <1>1, <1>2 DEF DepRecords
<1>4. g2 \in [DepKeys -> TomlVals] /\ \A q \in DepKeys : g2[q] = IF q = k THEN v ELSE g[q]
  BY <1>2, <1>3
<1>5. o2 = [name |-> o.name, keys |-> g2]
  BY <1>2, <1>3
<1>6. o2 \in DepRecords /\ o2.name = o.name /\ o2.keys = g2
  BY <1>3, <1>4, <1>5 DEF DepRecords
<1>7. w = [deps EXCEPT ![i] = o2]
  BY <1>1, <1>2 DEF WithKey
<1>8. w \in [1 .. L -> DepRecords] /\ \A j \in 1 .. L : w[j] = IF j = i THEN o2 ELSE deps[j]
  BY <1>1, <1>6, <1>7
<1>9. w \in Seq(DepRecords) /\ Len(w) = L
  BY <1>8, FunctionIsSeq
<1>10. ASSUME NEW j \in 1 .. L
       PROVE  /\ w[j].name = deps[j].name
              /\ \A q \in DepKeys : w[j].keys[q] = IF j = i /\ q = k THEN v ELSE deps[j].keys[q]
  <2>1. CASE j = i
    <3>1. w[j] = o2 /\ deps[j] = o
      BY <1>2, <1>8, <2>1
    <3>2. w[j].name = deps[j].name
      BY <1>6, <3>1
    <3>3. w[j].keys = g2 /\ deps[j].keys = g
      BY <1>2, <1>6, <3>1
    <3> QED BY <1>4, <2>1, <3>2, <3>3
  <2>2. CASE j # i
    BY <1>8, <2>2
  <2> QED BY <2>1, <2>2
<1> QED BY <1>9, <1>10
(* A pair within the section of a dependency.                              *)
DepsAfter(deps, d, k, v) ==
    IF k \in DepKeys THEN WithKey(WithDep(deps, d), DepIndex(WithDep(deps, d), d), k, v) ELSE WithDep(deps, d)

(* The lines t are the lines ls and l.                                     *)
OneMore(ls, t, l) == Len(t) = Len(ls) + 1 /\ t[Len(ls) + 1] = l /\ \A j \in 1 .. Len(ls) : t[j] = ls[j]

(* What a line in section sec changes in what the lines say.               *)
SaysMore(ls, t, l, sec) ==
    /\ \A s, k : ValOf(t, s, k) = IF l.kind = "pair" /\ sec = s /\ l.key = k THEN l.value ELSE ValOf(ls, s, k)
    /\ \A s : PairedIn(t, s) <=> PairedIn(ls, s) \/ (l.kind = "pair" /\ sec = s)

LEMMA LineRead ==
    ASSUME NEW ls, NEW t, NEW L \in Nat, L = Len(ls), NEW l, OneMore(ls, t, l)
    PROVE  /\ SecOf(t, Len(t)) = IF l.kind \in {"section", "dependency"} THEN l ELSE SecOf(ls, L)
           /\ SaysMore(ls, t, l, SecOf(ls, L))
<1>1. Len(t) = L + 1 /\ t[L + 1] = l /\ \A j \in 1 .. L : t[j] = ls[j]
  BY DEF OneMore
<1>2. SecOf(t, L + 1) = IF t[L + 1].kind \in {"section", "dependency"} THEN t[L + 1] ELSE SecOf(ls, L)
  BY <1>1, SecMore
<1>3. \A s, k : ValOf(t, s, k) =
          IF l.kind = "pair" /\ SecOf(ls, L) = s /\ l.key = k THEN l.value ELSE ValOf(ls, s, k)
  BY <1>1, ValMore
<1>4. \A s : PairedIn(t, s) <=> PairedIn(ls, s) \/ (l.kind = "pair" /\ SecOf(ls, L) = s)
  BY <1>1, PairedMore
<1>5. SaysMore(ls, t, l, SecOf(ls, L))
  BY <1>3, <1>4 DEF SaysMore
<1> QED BY <1>1, <1>2, <1>5

LEMMA DepsAfterIs ==
    ASSUME NEW ls, NEW t, NEW L \in Nat, L = Len(ls), NEW l, OneMore(ls, t, l), l.kind = "pair", l.value \in TomlVals,
           NEW d \in TomlDeps, SecOf(ls, L) = DepSection(d),
           NEW deps \in Seq(DepRecords), DepsRead(ls, deps), NEW x, x = DepsAfter(deps, d, l.key, l.value)
    PROVE  x \in Seq(DepRecords) /\ DepsRead(t, x)
<1>1. PICK n \in Nat : n = Len(deps)
  OBVIOUS
<1>2. PICK w, i : w = WithDep(deps, d) /\ i = DepIndex(w, d)
  OBVIOUS
<1>3. NamesApart(deps)
  BY DEF DepsRead
<1>4. /\ w \in Seq(DepRecords) /\ NamesApart(w) /\ \A j \in 1 .. n : w[j] = deps[j]
      /\ i \in 1 .. Len(w) /\ w[i].name = d
      /\ Len(w) = n \/ (Len(w) = n + 1 /\ w[n + 1] = EmptyDep(d) /\ \A j \in 1 .. n : deps[j].name # d)
  <2>1. n \in Nat /\ n = Len(deps) /\ w = WithDep(deps, d)
    BY <1>1, <1>2
  <2>2. DepThere(deps, d, w)
    BY <1>3, <2>1, WithDepIs
  <2> QED BY <1>2, <2>1, <2>2 DEF DepThere
<1>5. PICK N \in Nat : N = Len(w)
  BY <1>4
<1>6. /\ x \in Seq(DepRecords) /\ Len(x) = N /\ \A j \in 1 .. N : x[j].name = w[j].name
      /\ \A j \in 1 .. N : \A q \in DepKeys : x[j].keys[q] = IF j = i /\ q = l.key THEN l.value ELSE w[j].keys[q]
  <2>1. CASE l.key \in DepKeys
    <3>1. x = WithKey(w, i, l.key, l.value)
      BY <1>2, <2>1 DEF DepsAfter
    <3> QED BY <1>4, <1>5, <2>1, <3>1, WithKeyIs
  <2>2. CASE l.key \notin DepKeys
    <3>1. x = w
      BY <1>2, <2>2 DEF DepsAfter
    <3> QED BY <1>4, <1>5, <2>2, <3>1
  <2> QED BY <2>1, <2>2
<1>0. SaysMore(ls, t, l, SecOf(ls, L))
  BY LineRead
<1>7. \A s, k : ValOf(t, s, k) = IF DepSection(d) = s /\ l.key = k THEN l.value ELSE ValOf(ls, s, k)
  BY <1>0 DEF SaysMore
<1>8. \A s : PairedIn(t, s) <=> PairedIn(ls, s) \/ DepSection(d) = s
  BY <1>0 DEF SaysMore
<1>9. \A e : DepSection(e) = DepSection(d) <=> e = d
  BY DEF DepSection
<1>10. NamesApart(x)
  BY <1>4, <1>5, <1>6 DEF NamesApart
<1>11. ASSUME NEW e \in TomlDeps PROVE DepNamed(x, e) <=> PairedIn(t, DepSection(e))
  <2>1. DepNamed(deps, e) <=> PairedIn(ls, DepSection(e))
    BY DEF DepsRead
  <2>2. DepNamed(x, e) <=> DepNamed(deps, e) \/ e = d
    <3>1. DepNamed(deps, e) => DepNamed(x, e)
      <4>1. \A j \in 1 .. n : j \in 1 .. N /\ x[j].name = deps[j].name
        BY <1>4, <1>5, <1>6
      <4> QED BY <1>1, <1>6, <4>1 DEF DepNamed
    <3>2. e = d => DepNamed(x, e)
      BY <1>4, <1>5, <1>6 DEF DepNamed
    <3>3. DepNamed(x, e) => DepNamed(deps, e) \/ e = d
      <4> SUFFICES ASSUME NEW j \in 1 .. N, x[j].name = e, e # d PROVE DepNamed(deps, e)
        BY <1>6 DEF DepNamed
      <4>1. w[j].name = e
        BY <1>6
      <4>2. j \in 1 .. n
        <5>1. EmptyDep(d).name = d
          BY EmptyDepIs
        <5> QED BY <1>4, <1>5, <4>1, <5>1
      <4>3. deps[j].name = e
        BY <1>4, <4>1, <4>2
      <4> QED BY <1>1, <4>2, <4>3 DEF DepNamed
    <3> QED BY <3>1, <3>2, <3>3
  <2> QED BY <1>8, <1>9, <2>1, <2>2
<1>12. ASSUME NEW j \in 1 .. N, NEW q \in DepKeys PROVE w[j].keys[q] = ValOf(ls, DepSection(w[j].name), q)
  <2>1. CASE j \in 1 .. n
    <3>1. deps[j].keys[q] = ValOf(ls, DepSection(deps[j].name), q)
      BY <1>1, <2>1 DEF DepsRead
    <3> QED BY <1>4, <2>1, <3>1
  <2>2. CASE j \notin 1 .. n
    <3>1. j = n + 1 /\ w[j] = EmptyDep(d) /\ \A m \in 1 .. n : deps[m].name # d
      BY <1>4, <1>5, <2>2
    <3>2. ~PairedIn(ls, DepSection(d))
      BY <1>1, <3>1 DEF DepsRead, DepNamed
    <3>3. ValOf(ls, DepSection(d), q) = Unset
      BY <3>2, Unpaired
    <3>4. w[j].name = d /\ w[j].keys[q] = Unset
      BY <3>1, EmptyDepIs
    <3> QED BY <3>3, <3>4
  <2> QED BY <2>1, <2>2
<1>13. ASSUME NEW j \in 1 .. N, NEW q \in DepKeys PROVE x[j].keys[q] = ValOf(t, DepSection(x[j].name), q)
  <2>1. PICK e, y : e = x[j].name /\ e = w[j].name /\ y = w[j].keys[q] /\ y = ValOf(ls, DepSection(e), q)
    BY <1>6, <1>12
  <2>2. j = i <=> e = d
    <3>1. j \in 1 .. Len(w) /\ i \in 1 .. Len(w)
      BY <1>4, <1>5
    <3> QED BY <1>4, <2>1, <3>1 DEF NamesApart
  <2>3. x[j].keys[q] = IF j = i /\ q = l.key THEN l.value ELSE y
    BY <1>6, <2>1
  <2>4. ValOf(t, DepSection(e), q) = IF e = d /\ l.key = q THEN l.value ELSE y
    BY <1>7, <1>9, <2>1
  <2> QED BY <2>1, <2>2, <2>3, <2>4
<1>14. DepsRead(t, x)
  <2>1. \A j \in 1 .. Len(x) : j \in 1 .. N
    BY <1>6
  <2> QED BY <1>10, <1>11, <1>13, <2>1 DEF DepsRead
<1> QED BY <1>6, <1>14

(* A line that is not a pair of a section changes nothing of it.           *)
LEMMA DepsSame ==
    ASSUME NEW ls, NEW t, NEW L \in Nat, L = Len(ls), NEW l, OneMore(ls, t, l),
           l.kind = "pair" => \A d \in TomlDeps : SecOf(ls, L) # DepSection(d),
           NEW deps \in Seq(DepRecords), DepsRead(ls, deps)
    PROVE  DepsRead(t, deps)
<1>1. \A i \in 1 .. Len(deps) : deps[i].name \in TomlDeps
  <2>1. \A i \in 1 .. Len(deps) : deps[i] \in DepRecords
    BY ElementOfSeq
  <2> QED BY <2>1 DEF DepRecords
<1>0. SaysMore(ls, t, l, SecOf(ls, L))
  BY LineRead
<1>2. \A d \in TomlDeps : \A k : ValOf(t, DepSection(d), k) = ValOf(ls, DepSection(d), k)
  BY <1>0 DEF SaysMore
<1>3. \A d \in TomlDeps : PairedIn(t, DepSection(d)) <=> PairedIn(ls, DepSection(d))
  BY <1>0 DEF SaysMore
<1> QED BY <1>1, <1>2, <1>3 DEF DepsRead
(* An element that was not kept can go.                                    *)
LEMMA KeptOtherRemoved ==
    ASSUME NEW S, NEW s \in Seq(S), NEW t \in Seq(S), NEW M, NEW N, NEW k \in 1 .. Len(s), k \notin M,
           LeftOut(s, t, k, M, N)
    PROVE  Kept(t, N) = Kept(s, M)
<1>0. /\ Len(t) = Len(s) - 1 /\ \A n \in 1 .. Len(t) : t[n] = IF n < k THEN s[n] ELSE s[n + 1]
      /\ \A n \in 1 .. Len(t) : n \in N <=> (n < k /\ n \in M) \/ (n >= k /\ n + 1 \in M)
  BY DEF LeftOut
<1>1. PICK L \in Nat : L = Len(s) /\ L >= 1 /\ k <= L /\ Len(t) = L - 1 /\ L - 1 \in Nat
  <2>1. Len(s) \in Nat
    OBVIOUS
  <2> QED BY <1>0, <2>1
<1>2. PICK F : Keeping(s, M, S, F) /\ Kept(s, M) = F[L]
  BY <1>1, KeptSteps
<1>3. PICK G : Keeping(t, N, S, G) /\ Kept(t, N) = G[L - 1]
  BY <1>1, KeptSteps
<1>4. F[0] = <<>> /\ \A n \in 1 .. L : F[n] = IF n \in M THEN Append(F[n - 1], s[n]) ELSE F[n - 1]
  BY <1>1, <1>2 DEF Keeping
<1>5. G[0] = <<>> /\ \A n \in 1 .. L - 1 : G[n] = IF n \in N THEN Append(G[n - 1], t[n]) ELSE G[n - 1]
  BY <1>1, <1>3 DEF Keeping
<1> DEFINE I == {n \in 0 .. L : IF n < k THEN F[n] = G[n] ELSE F[n] = G[n - 1]}
<1>6. 0 \in I
  BY <1>4, <1>5
<1>7. ASSUME NEW n \in 1 .. L, n - 1 \in I PROVE n \in I
  <2>1. CASE n < k
    <3>1. F[n - 1] = G[n - 1] /\ n \in 1 .. L - 1
      BY <1>1, <1>7, <2>1
    <3>2. (n \in N <=> n \in M) /\ t[n] = s[n]
      BY <1>0, <1>1, <2>1, <3>1
    <3>3. F[n] = G[n]
      BY <1>4, <1>5, <3>1, <3>2
    <3> QED BY <2>1, <3>3
  <2>2. CASE n = k
    <3>1. F[n - 1] = G[n - 1] /\ n \notin M
      BY <1>7, <2>2
    <3>2. F[n] = G[n - 1]
      BY <1>4, <3>1
    <3> QED BY <2>2, <3>2
  <2>3. CASE n > k
    <3>1. PICK m : m = n - 1
      OBVIOUS
    <3>2. m \in 1 .. L - 1 /\ m + 1 = n /\ ~(m < k) /\ m \in 0 .. L
      BY <1>1, <2>3, <3>1
    <3>3. F[m] = G[m - 1]
      BY <1>7, <3>1, <3>2
    <3>4. (m \in N <=> n \in M) /\ t[m] = s[n]
      <4>1. m \in 1 .. Len(t) /\ m >= k
        BY <1>1, <3>2
      <4> QED BY <1>0, <3>2, <4>1
    <3>5. F[n] = G[m]
      BY <1>4, <1>5, <3>1, <3>2, <3>3, <3>4
    <3> QED BY <2>3, <3>1, <3>5
  <2> QED BY <2>1, <2>2, <2>3
<1>8. \A n \in 0 .. L : n \in I
  <2> HIDE DEF I
  <2> QED BY <1>1, <1>6, <1>7, Upwards
<1>9. F[L] = G[L - 1]
  <2>1. L \in I /\ ~(L < k)
    BY <1>1, <1>8
  <2> QED BY <2>1
<1> QED BY <1>2, <1>3, <1>9

(* What agrees with the end of a sequence is a suffix of it.               *)
LEMMA EndIsSuffix ==
    ASSUME NEW S, NEW v \in Seq(S), NEW a \in Seq(S), Len(v) <= Len(a),
           \A i \in 1 .. Len(v) : v[i] = a[Len(a) - Len(v) + i]
    PROVE  IsSuffix(v, a)
<1>1. PICK m \in Nat, n \in Nat : m = Len(v) /\ n = Len(a) /\ m <= n
  OBVIOUS
<1>2. v \in [1 .. m -> S] /\ a \in [1 .. n -> S]
  BY <1>1, LenProperties
<1>3. PICK p, q : p = Reverse(v) /\ q = Reverse(a)
  OBVIOUS
<1>4. p \in [1 .. m -> S] /\ \A i \in 1 .. m : p[i] = v[(m - i) + 1]
  <2>1. p = [i \in 1 .. m |-> v[(m - i) + 1]]
    BY <1>1, <1>3 DEF Reverse
  <2>2. \A i \in 1 .. m : (m - i) + 1 \in 1 .. m
    OBVIOUS
  <2> QED BY <1>2, <2>1, <2>2
<1>5. q \in [1 .. n -> S] /\ \A i \in 1 .. n : q[i] = a[(n - i) + 1]
  <2>1. q = [i \in 1 .. n |-> a[(n - i) + 1]]
    BY <1>1, <1>3 DEF Reverse
  <2>2. \A i \in 1 .. n : (n - i) + 1 \in 1 .. n
    OBVIOUS
  <2> QED BY <1>2, <2>1, <2>2
<1>6. p \in Seq(S) /\ Len(p) = m /\ q \in Seq(S) /\ Len(q) = n
  BY <1>4, <1>5, FunctionIsSeq
<1>7. \A i \in 1 .. m : p[i] = q[i]
  <2> SUFFICES ASSUME NEW i \in 1 .. m PROVE p[i] = q[i]
    OBVIOUS
  <2>1. PICK j \in 1 .. m : j = (m - i) + 1
    OBVIOUS
  <2>2. v[j] = a[(n - m) + j] /\ (n - m) + j = (n - i) + 1 /\ i \in 1 .. n
    BY <1>1, <2>1
  <2> QED BY <1>4, <1>5, <2>1, <2>2
<1>8. PICK p1, q1 : p1 = SubSeq(p, 1, m) /\ q1 = SubSeq(q, 1, m)
  OBVIOUS
<1>9. p1 \in Seq(S) /\ Len(p1) = m /\ \A i \in 1 .. m : p1[i] = p[i]
  BY <1>6, <1>8, SubSeqProperties
<1>10. q1 \in Seq(S) /\ Len(q1) = m /\ \A i \in 1 .. m : q1[i] = q[i]
  BY <1>1, <1>6, <1>8, SubSeqProperties
<1>11. p1 \in [1 .. m -> S] /\ q1 \in [1 .. m -> S]
  BY <1>9, <1>10, LenProperties
<1>12. p1 = q1
  <2>1. \A i \in 1 .. m : p1[i] = q1[i]
    BY <1>7, <1>9, <1>10
  <2> QED BY <1>11, <2>1
<1>13. IsPrefix(p, q)
  BY <1>1, <1>6, <1>8, <1>12 DEF IsPrefix
<1> QED BY <1>3, <1>13 DEF IsSuffix
(* The packages, and what was added under each name.                       *)
PkgVersions == TomlValues \cup {"0.1.0"}
PkgRecords == [name : TomlDeps, version : PkgVersions]
NamedAt(ps, n) == {i \in 1 .. Len(ps) : ps[i].name = n}
Under(ps, n) == Kept(ps, NamedAt(ps, n))
EndsIn(u, a) == Len(u) <= Len(a) /\ \A i \in 1 .. Len(u) : u[i].version = a[Len(a) - Len(u) + i]

LEMMA PkgFields == ASSUME NEW p \in PkgRecords PROVE p.name \in TomlDeps /\ p.version \in PkgVersions
  BY DEF PkgRecords

LEMMA PkgAdded ==
    ASSUME NEW ps \in Seq(PkgRecords), NEW p \in PkgRecords, NEW qs, qs = Append(ps, p),
           NEW n, NEW a \in Seq(PkgVersions), EndsIn(Under(ps, n), a), NEW b,
           b = IF p.name = n THEN Append(a, p.version) ELSE a
    PROVE  EndsIn(Under(qs, n), b)
<1>1. PICK L \in Nat : L = Len(ps)
  OBVIOUS
<1>2. qs \in Seq(PkgRecords) /\ Len(qs) = L + 1 /\ qs[L + 1] = p /\ \A i \in 1 .. L : qs[i] = ps[i]
  BY <1>1, AppendProperties
<1>3. PICK M, N : M = NamedAt(ps, n) /\ N = NamedAt(qs, n)
  OBVIOUS
<1>4. (\A i \in 1 .. L : (i \in M <=> i \in N) /\ ps[i] = qs[i]) /\ (L + 1 \in N <=> p.name = n)
  BY <1>1, <1>2, <1>3 DEF NamedAt
<1>5. PICK u, w : u = Kept(ps, M) /\ w = Kept(qs, N)
  OBVIOUS
<1>6. w = IF L + 1 \in N THEN Append(u, qs[L + 1]) ELSE u
  <2>1. Len(qs) = Len(ps) + 1 /\ SamePlaces(ps, qs, M, N)
    BY <1>1, <1>2, <1>4 DEF SamePlaces
  <2>2. KeptMore(ps, qs, M, N)
    BY <1>2, <2>1, KeptAppended
  <2> QED BY <1>1, <1>5, <2>2 DEF KeptMore
<1>7. u \in Seq(PkgRecords) /\ EndsIn(u, a)
  BY <1>3, <1>5, KeptSelects DEF Under
<1>8. EndsIn(w, b)
  <2>1. CASE p.name # n
    BY <1>4, <1>6, <1>7, <2>1
  <2>2. CASE p.name = n
    <3>1. PICK v : v = p.version /\ v \in PkgVersions
      BY PkgFields
    <3>2. w = Append(u, p) /\ b = Append(a, v)
      BY <1>2, <1>4, <1>6, <2>2, <3>1
    <3>3. PICK x \in Nat, y \in Nat : x = Len(u) /\ y = Len(a)
      BY <1>7
    <3>4. x <= y /\ \A i \in 1 .. x : u[i].version = a[(y - x) + i]
      BY <1>7, <3>3 DEF EndsIn
    <3>5. Len(w) = x + 1 /\ w[x + 1] = p /\ \A i \in 1 .. x : w[i] = u[i]
      BY <1>7, <3>2, <3>3, AppendProperties
    <3>6. Len(b) = y + 1 /\ b[y + 1] = v /\ \A i \in 1 .. y : b[i] = a[i]
      BY <3>1, <3>2, <3>3, AppendProperties
    <3>7. ASSUME NEW i \in 1 .. x + 1 PROVE w[i].version = b[((y + 1) - (x + 1)) + i]
      <4>1. CASE i = x + 1
        <5>1. ((y + 1) - (x + 1)) + i = y + 1
          BY <4>1
        <5> QED BY <3>1, <3>5, <3>6, <4>1, <5>1
      <4>2. CASE i # x + 1
        <5>1. i \in 1 .. x /\ ((y + 1) - (x + 1)) + i = (y - x) + i /\ (y - x) + i \in 1 .. y
          BY <3>4, <4>2
        <5> QED BY <3>4, <3>5, <3>6, <5>1
      <4> QED BY <4>1, <4>2
    <3>8. x + 1 <= y + 1
      BY <3>4
    <3> QED BY <3>5, <3>6, <3>7, <3>8 DEF EndsIn
  <2> QED BY <2>1, <2>2
<1> QED BY <1>3, <1>5, <1>8 DEF Under

(* Removing the first package of its name.                                 *)
LEMMA PkgRemoved ==
    ASSUME NEW ps \in Seq(PkgRecords), NEW k \in 1 .. Len(ps), \A i \in 1 .. Len(ps) : i < k => ps[i].name # ps[k].name,
           NEW qs, qs = RemoveAt(ps, k), NEW n, NEW a \in Seq(PkgVersions), EndsIn(Under(ps, n), a)
    PROVE  EndsIn(Under(qs, n), a)
<1>1. PICK L \in Nat : L = Len(ps) /\ k \in 1 .. L
  OBVIOUS
<1>2. qs \in Seq(PkgRecords) /\ Len(qs) = L - 1 /\ \A i \in 1 .. L - 1 : qs[i] = IF i < k THEN ps[i] ELSE ps[i + 1]
  BY <1>1, RemoveAtProperties
<1>3. PICK M, N : M = NamedAt(ps, n) /\ N = NamedAt(qs, n)
  OBVIOUS
<1>4. \A i \in 1 .. L : i \in M <=> ps[i].name = n
  BY <1>1, <1>3 DEF NamedAt
<1>5. \A i \in 1 .. L - 1 : i \in N <=> (i < k /\ i \in M) \/ (i >= k /\ i + 1 \in M)
  <2> SUFFICES ASSUME NEW i \in 1 .. L - 1 PROVE i \in N <=> (i < k /\ i \in M) \/ (i >= k /\ i + 1 \in M)
    OBVIOUS
  <2>1. i \in N <=> qs[i].name = n
    BY <1>2, <1>3 DEF NamedAt
  <2>2. i \in 1 .. L /\ i + 1 \in 1 .. L
    BY <1>1
  <2>3. (i \in M <=> ps[i].name = n) /\ (i + 1 \in M <=> ps[i + 1].name = n)
    BY <1>4, <2>2
  <2>4. qs[i] = IF i < k THEN ps[i] ELSE ps[i + 1]
    BY <1>2
  <2>5. CASE i < k
    BY <2>1, <2>3, <2>4, <2>5
  <2>6. CASE i >= k
    <3>1. ~(i < k)
      BY <2>6
    <3> QED BY <2>1, <2>3, <2>4, <2>6, <3>1
  <2> QED BY <2>5, <2>6
<1>6. PICK u, w : u = Kept(ps, M) /\ w = Kept(qs, N)
  OBVIOUS
<1>0. LeftOut(ps, qs, k, M, N)
  BY <1>1, <1>2, <1>5 DEF LeftOut
<1>7. u \in Seq(PkgRecords) /\ w \in Seq(PkgRecords) /\ EndsIn(u, a)
  BY <1>2, <1>3, <1>6, KeptSelects DEF Under
<1>8. EndsIn(w, a)
  <2>1. CASE k \notin M
    <3>1. w = u
      <4>2. Kept(qs, N) = Kept(ps, M)
        BY <1>0, <1>2, <2>1, KeptOtherRemoved
      <4> QED BY <1>6, <4>2
    <3> QED BY <1>7, <3>1
  <2>2. CASE k \in M
    <3>1. NoneBefore(M, k)
      <4>1. \A i \in 1 .. k - 1 : i \in 1 .. L /\ i < k
        BY <1>1
      <4> QED BY <1>1, <1>4, <2>2, <4>1 DEF NoneBefore
    <3>3. Len(u) = Len(w) + 1 /\ \A i \in 1 .. Len(w) : w[i] = u[i + 1]
      <4>2. /\ Len(Kept(ps, M)) = Len(Kept(qs, N)) + 1
            /\ \A i \in 1 .. Len(Kept(qs, N)) : Kept(qs, N)[i] = Kept(ps, M)[i + 1]
        BY <1>0, <1>2, <2>2, <3>1, KeptFirstRemoved
      <4> QED BY <1>6, <4>2
    <3>4. PICK x \in Nat, y \in Nat : x = Len(w) /\ y = Len(a) /\ Len(u) = x + 1
      BY <1>7, <3>3
    <3>5. x + 1 <= y /\ \A i \in 1 .. x + 1 : u[i].version = a[(y - (x + 1)) + i]
      BY <1>7, <3>4 DEF EndsIn
    <3>6. ASSUME NEW i \in 1 .. x PROVE w[i].version = a[(y - x) + i]
      <4>1. i + 1 \in 1 .. x + 1 /\ (y - (x + 1)) + (i + 1) = (y - x) + i
        OBVIOUS
      <4> QED BY <3>3, <3>4, <3>5, <4>1
    <3>7. x <= y
      BY <3>5
    <3> QED BY <3>4, <3>6, <3>7 DEF EndsIn
  <2> QED BY <2>1, <2>2
<1> QED BY <1>3, <1>6, <1>8 DEF Under

(* The versions that are left under a name are the last ones added.        *)
LEMMA LeftAreLast ==
    ASSUME pkgs \in Seq(PkgRecords), NEW n, NEW a \in Seq(PkgVersions), EndsIn(Under(pkgs, n), a)
    PROVE  IsSuffix(VersionsOf(n), a)
<1>1. PICK u : u = Under(pkgs, n) /\ u \in Seq(PkgRecords)
  BY KeptSelects DEF Under
<1>2. PICK x \in Nat : x = Len(u)
  BY <1>1
<1>3. PICK v : v = [i \in 1 .. x |-> u[i].version]
  OBVIOUS
<1>4. VersionsOf(n) = v
  BY <1>1, <1>2, <1>3 DEF VersionsOf, Under, NamedAt
<1>5. v \in [1 .. x -> PkgVersions]
  <2>1. \A i \in 1 .. x : u[i].version \in PkgVersions
    BY <1>1, <1>2, ElementOfSeq, PkgFields
  <2> QED BY <1>3, <2>1
<1>6. v \in Seq(PkgVersions) /\ Len(v) = x
  BY <1>5, FunctionIsSeq
<1>7. x <= Len(a) /\ \A i \in 1 .. x : v[i] = a[Len(a) - x + i]
  BY <1>1, <1>2, <1>3 DEF EndsIn
<1> QED BY <1>4, <1>6, <1>7, EndIsSuffix
ApiRecords == [name : ApiNames, major : VersionNums, minor : VersionNums]
ManifestType ==
    /\ lines \in Seq(ManifestLines) /\ section \in Sections \cup {NoSection} /\ section = SecOf(lines, Len(lines))
    /\ manifest \in [fields : [PackageKeys -> TomlVals], deps : Seq(DepRecords)]
ManifestReads == FieldsRead(lines, manifest.fields) /\ DepsRead(lines, manifest.deps)
TablesType == pkgs \in Seq(PkgRecords) /\ added \in [TomlDeps -> Seq(PkgVersions)] /\ apis \in Seq(ApiRecords)
TablesRight == (\A n \in TomlDeps : EndsIn(Under(pkgs, n), added[n])) /\ NamesApart(apis)

(* What a manifest is made of.                                             *)
LEMMA ManifestParts ==
    ASSUME NEW m \in [fields : [PackageKeys -> TomlVals], deps : Seq(DepRecords)]
    PROVE  m.fields \in [PackageKeys -> TomlVals] /\ m.deps \in Seq(DepRecords)
OBVIOUS

(* The sections a line can be in.                                          *)
LEMMA SectionKinds ==
    ASSUME NEW s \in Sections \cup {NoSection}
    PROVE  /\ s.kind = "section" \/ \E d \in TomlDeps : s = DepSection(d) /\ s.kind = "dependency" /\ s.name = d
           /\ s.kind = "section" /\ s.name = "package" <=> s = PackSection
           /\ s.kind = "section" => \A d : s # DepSection(d)
<1>1. CASE s \in Sections /\ \E n \in {"package", "other"} : s = [kind |-> "section", name |-> n]
  BY <1>1 DEF PackSection, DepSection
<1>2. CASE s = NoSection
  BY <1>2 DEF NoSection, PackSection, DepSection
<1>3. CASE \E d \in TomlDeps : s = [kind |-> "dependency", name |-> d]
  BY <1>3 DEF PackSection, DepSection
<1> QED BY <1>1, <1>2, <1>3 DEF Sections

LEMMA LineKinds ==
    ASSUME NEW l \in ManifestLines
    PROVE  \/ l \in Sections /\ l.kind \in {"section", "dependency"}
           \/ l.kind = "pair" /\ l.key \in TomlKeys /\ l.value \in TomlVals
           \/ l.kind = "skipped"
<1>1. CASE l \in Sections
  BY <1>1 DEF Sections
<1>2. CASE l \in Pairs
  BY <1>2 DEF Pairs, TomlVals
<1>3. CASE l \in Others
  BY <1>3 DEF Others
<1> QED BY <1>1, <1>2, <1>3 DEF ManifestLines

(* A pair changes the fields or the dependencies as its section says.      *)
LEMMA PairedFields ==
    ASSUME NEW ls, NEW t, NEW l, NEW sec, SaysMore(ls, t, l, sec), l.kind = "pair",
           NEW f, FieldsRead(ls, f), NEW g,
           \A k \in PackageKeys : g[k] = IF sec = PackSection /\ l.key = k THEN l.value ELSE f[k]
    PROVE  FieldsRead(t, g)
  BY DEF FieldsRead, SaysMore

LEMMA SameFields ==
    ASSUME NEW ls, NEW t, NEW l, NEW sec, SaysMore(ls, t, l, sec), l.kind # "pair" \/ sec # PackSection,
           NEW f, FieldsRead(ls, f)
    PROVE  FieldsRead(t, f)
  BY DEF FieldsRead, SaysMore

LEMMA ParseLineStep ==
    ASSUME ManifestType, ManifestReads, NEW l \in ManifestLines, ParseLine(l)
    PROVE  ManifestType' /\ ManifestReads'
<1>l. PICK L \in Nat : L = Len(lines)
  BY DEF ManifestType
<1>1. PICK ls, t, sec, sec2, m, m2 :
          /\ ls = lines /\ t = lines' /\ L = Len(ls) /\ sec = section /\ sec2 = section'
          /\ m = manifest /\ m2 = manifest'
  BY <1>l
<1>2. /\ ls \in Seq(ManifestLines) /\ L = Len(ls) /\ sec \in Sections \cup {NoSection} /\ sec = SecOf(ls, L)
      /\ m \in [fields : [PackageKeys -> TomlVals], deps : Seq(DepRecords)]
      /\ FieldsRead(ls, m.fields) /\ DepsRead(ls, m.deps)
  BY <1>1 DEF ManifestType, ManifestReads
<1>3. /\ t = Append(ls, l)
      /\ sec2 = IF l.kind \in {"section", "dependency"} THEN l ELSE sec
      /\ m2 = IF l.kind = "pair" THEN WithPair(l) ELSE m
  BY <1>1 DEF ParseLine
<1>4. t \in Seq(ManifestLines) /\ OneMore(ls, t, l)
  BY <1>2, <1>3, AppendProperties DEF OneMore
<1>5. PICK f, deps : f = m.fields /\ deps = m.deps /\ f \in [PackageKeys -> TomlVals] /\ deps \in Seq(DepRecords)
  BY <1>2, ManifestParts
<1>6. SecOf(t, Len(t)) = (IF l.kind \in {"section", "dependency"} THEN l ELSE sec) /\ SaysMore(ls, t, l, sec)
  BY <1>2, <1>4, LineRead
<1>7. sec2 = SecOf(t, Len(t)) /\ sec2 \in Sections \cup {NoSection}
  BY <1>2, <1>3, <1>6, LineKinds
<1>8. CASE l.kind # "pair"
  <2>1. m2 = m
    BY <1>3, <1>8
  <2>2. DepsRead(t, deps)
    BY <1>2, <1>4, <1>5, <1>8, DepsSame
  <2>3. FieldsRead(t, f)
    BY <1>2, <1>5, <1>6, <1>8, SameFields
  <2> QED BY <1>1, <1>2, <1>4, <1>5, <1>7, <2>1, <2>2, <2>3 DEF ManifestType, ManifestReads
<1>9. CASE l.kind = "pair"
  <2>0. l.value \in TomlVals
    BY <1>9, LineKinds
  <2>1. PICK key, val : key = l.key /\ val = l.value
    OBVIOUS
  <2>2. PICK f2 : f2 = [f EXCEPT ![key] = val]
    OBVIOUS
  <2>3. CASE sec = PackSection /\ key \in PackageKeys
    <3>1. sec.kind = "section" /\ sec.name = "package"
      BY <1>2, <2>3, SectionKinds
    <3>2. m2 = [m EXCEPT !.fields[key] = val]
      BY <1>1, <1>3, <1>9, <2>1, <2>3, <3>1 DEF WithPair
    <3>3. m2 = [fields |-> f2, deps |-> deps]
      BY <1>2, <1>5, <2>2, <3>2
    <3>4. f2 \in [PackageKeys -> TomlVals] /\ \A k \in PackageKeys : f2[k] = IF key = k THEN val ELSE f[k]
      BY <1>5, <2>0, <2>1, <2>2, <2>3
    <3>5. m2.fields = f2 /\ m2.deps = deps /\ m2 \in [fields : [PackageKeys -> TomlVals], deps : Seq(DepRecords)]
      BY <1>5, <3>3, <3>4
    <3>6. FieldsRead(t, f2)
      <4>1. \A k \in PackageKeys : f2[k] = IF sec = PackSection /\ l.key = k THEN l.value ELSE f[k]
        BY <2>1, <2>3, <3>4
      <4> QED BY <1>2, <1>5, <1>6, <1>9, <4>1, PairedFields
    <3>7. \A d \in TomlDeps : sec # DepSection(d)
      BY <2>3 DEF PackSection, DepSection
    <3>8. DepsRead(t, deps)
      BY <1>2, <1>4, <1>5, <3>7, DepsSame
    <3> QED BY <1>1, <1>4, <1>7, <3>5, <3>6, <3>8 DEF ManifestType, ManifestReads
  <2>4. CASE sec.kind = "dependency"
    <3>1. PICK d \in TomlDeps : sec = DepSection(d) /\ sec.name = d
      BY <1>2, <2>4, SectionKinds
    <3>2. PICK x : x = DepsAfter(deps, d, key, val)
      OBVIOUS
    <3>3. m2 = [m EXCEPT !.deps = x]
      <4>1. m2 = [m EXCEPT !.deps =
                     IF key \in DepKeys
                       THEN [WithDep(deps, d) EXCEPT ![DepIndex(WithDep(deps, d), d)].keys[key] = val]
                       ELSE WithDep(deps, d)]
        BY <1>1, <1>3, <1>5, <1>9, <2>1, <2>4, <3>1 DEF WithPair
      <4> QED BY <3>2, <4>1 DEF DepsAfter, WithKey
    <3>4. m2 = [fields |-> f, deps |-> x]
      BY <1>2, <1>5, <3>3
    <3>5. x \in Seq(DepRecords) /\ DepsRead(t, x)
      BY <1>2, <1>4, <1>5, <1>9, <2>0, <2>1, <3>1, <3>2, DepsAfterIs
    <3>6. m2.fields = f /\ m2.deps = x /\ m2 \in [fields : [PackageKeys -> TomlVals], deps : Seq(DepRecords)]
      BY <1>5, <3>4, <3>5
    <3>7. sec # PackSection
      BY <3>1 DEF PackSection, DepSection
    <3>8. FieldsRead(t, f)
      BY <1>2, <1>5, <1>6, <3>7, SameFields
    <3> QED BY <1>1, <1>4, <1>7, <3>5, <3>6, <3>8 DEF ManifestType, ManifestReads
  <2>5. CASE sec.kind # "dependency" /\ ~(sec = PackSection /\ key \in PackageKeys)
    <3>1. sec.kind = "section" /\ \A d \in TomlDeps : sec # DepSection(d)
      BY <1>2, <2>5, SectionKinds
    <3>2. ~(sec.kind = "section" /\ sec.name = "package" /\ l.key \in PackageKeys)
      BY <1>2, <2>1, <2>5, SectionKinds
    <3>3. m2 = m
      BY <1>1, <1>3, <1>9, <2>5, <3>2 DEF WithPair
    <3>4. DepsRead(t, deps)
      BY <1>2, <1>4, <1>5, <3>1, DepsSame
    <3>5. FieldsRead(t, f)
      <4>1. \A k \in PackageKeys : f[k] = IF sec = PackSection /\ l.key = k THEN l.value ELSE f[k]
        BY <2>1, <2>5
      <4> QED BY <1>2, <1>5, <1>6, <1>9, <4>1, PairedFields
    <3> QED BY <1>1, <1>2, <1>4, <1>5, <1>7, <3>3, <3>4, <3>5 DEF ManifestType, ManifestReads
  <2> QED BY <2>3, <2>4, <2>5
<1> QED BY <1>8, <1>9
(* The tables.                                                             *)
LEMMA PkgAddStep ==
    ASSUME TablesType, TablesRight, NEW n \in TomlDeps, NEW v \in TomlValues \cup {Unset}, PkgAdd(n, v)
    PROVE  TablesType' /\ TablesRight'
<1>1. PICK p, x : x = GivenVersion(v) /\ p = [name |-> n, version |-> x]
  OBVIOUS
<1>2. x \in PkgVersions /\ p \in PkgRecords /\ p.name = n /\ p.version = x
  <2>1. x \in PkgVersions
    BY <1>1 DEF GivenVersion, PkgVersions
  <2> QED BY <1>1, <2>1 DEF PkgRecords
<1>3. pkgs' = Append(pkgs, p) /\ added' = [added EXCEPT ![n] = Append(@, x)] /\ apis' = apis
  BY <1>1 DEF PkgAdd
<1>4. pkgs \in Seq(PkgRecords) /\ added \in [TomlDeps -> Seq(PkgVersions)]
  BY DEF TablesType
<1>5. \A m \in TomlDeps : added'[m] = IF p.name = m THEN Append(added[m], p.version) ELSE added[m]
  BY <1>2, <1>3, <1>4
<1>6. added' \in [TomlDeps -> Seq(PkgVersions)]
  <2>1. Append(added[n], x) \in Seq(PkgVersions)
    BY <1>2, <1>4, AppendProperties
  <2> QED BY <1>3, <1>4, <2>1
<1>7. pkgs' \in Seq(PkgRecords)
  BY <1>2, <1>3, <1>4, AppendProperties
<1>8. ASSUME NEW m \in TomlDeps PROVE EndsIn(Under(pkgs', m), added'[m])
  <2>1. PICK a, b : a = added[m] /\ b = added'[m] /\ a \in Seq(PkgVersions)
    BY <1>4
  <2>2. EndsIn(Under(pkgs, m), a)
    BY <2>1 DEF TablesRight
  <2>3. b = IF p.name = m THEN Append(a, p.version) ELSE a
    BY <1>5, <2>1
  <2>4. EndsIn(Under(pkgs', m), b)
    BY <1>2, <1>3, <1>4, <2>1, <2>2, <2>3, PkgAdded
  <2> QED BY <2>1, <2>4
<1> QED BY <1>3, <1>6, <1>7, <1>8 DEF TablesType, TablesRight, NamesApart

LEMMA PkgRemoveStep ==
    ASSUME TablesType, TablesRight, NEW n \in TomlDeps, PkgRemove(n)
    PROVE  TablesType' /\ TablesRight'
<1>1. PICK L \in Nat : L = Len(pkgs) /\ pkgs \in Seq(PkgRecords)
  BY DEF TablesType
<1>2. PICK k : k = NameIndex(pkgs, n)
  OBVIOUS
<1>3. PkgIndex(n) = k
  BY <1>2 DEF PkgIndex, NameIndex
<1>4. k # 0 /\ pkgs' = RemoveAt(pkgs, k) /\ added' = added /\ apis' = apis
  BY <1>3 DEF PkgRemove
<1>5. k \in 1 .. L /\ pkgs[k].name = n /\ \A i \in 1 .. L : i < k => pkgs[i].name # n
  BY <1>1, <1>2, <1>4, NameFound
<1>6. pkgs' \in Seq(PkgRecords)
  BY <1>1, <1>4, <1>5, RemoveAtProperties
<1>7. ASSUME NEW m \in TomlDeps PROVE EndsIn(Under(pkgs', m), added[m])
  <2>1. PICK a : a = added[m] /\ a \in Seq(PkgVersions) /\ EndsIn(Under(pkgs, m), a)
    BY DEF TablesRight, TablesType
  <2>2. k \in 1 .. Len(pkgs) /\ \A i \in 1 .. Len(pkgs) : i < k => pkgs[i].name # pkgs[k].name
    BY <1>1, <1>5
  <2>3. EndsIn(Under(pkgs', m), a)
    BY <1>1, <1>4, <2>1, <2>2, PkgRemoved
  <2> QED BY <2>1, <2>3
<1> QED BY <1>4, <1>6, <1>7 DEF TablesType, TablesRight, NamesApart

LEMMA ApiRegisterStep ==
    ASSUME TablesType, TablesRight, NEW n \in ApiNames, NEW maj \in VersionNums, NEW min \in VersionNums,
           ApiRegister(n, maj, min)
    PROVE  TablesType' /\ TablesRight'
<1>1. PICK L \in Nat : L = Len(apis) /\ apis \in Seq(ApiRecords)
  BY DEF TablesType
<1>2. PICK k, r : k = NameIndex(apis, n) /\ r = [name |-> n, major |-> maj, minor |-> min]
  OBVIOUS
<1>3. ApiIndex(n) = k
  BY <1>2 DEF ApiIndex, NameIndex
<1>4. apis' = (IF k = 0 THEN Append(apis, r) ELSE [apis EXCEPT ![k] = r]) /\ pkgs' = pkgs /\ added' = added
  BY <1>2, <1>3 DEF ApiRegister
<1>5. r \in ApiRecords /\ r.name = n
  BY <1>2 DEF ApiRecords
<1>6. \A i, j \in 1 .. L : apis[i].name = apis[j].name => i = j
  BY <1>1 DEF TablesRight, NamesApart
<1>7. apis' \in Seq(ApiRecords) /\ NamesApart(apis')
  <2>1. CASE k = 0
    <3>1. \A j \in 1 .. L : apis[j].name # n
      <4>1. NameIndex(apis, n) = 0
        BY <1>2, <2>1
      <4> QED BY <1>1, <4>1, NameFound
    <3>2. PICK w : w = apis' /\ w = Append(apis, r)
      BY <1>4, <2>1
    <3>3. w \in Seq(ApiRecords) /\ Len(w) = L + 1 /\ w[L + 1] = r /\ \A j \in 1 .. L : w[j] = apis[j]
      BY <1>1, <1>5, <3>2, AppendProperties
    <3>4. ASSUME NEW i \in 1 .. L + 1, NEW j \in 1 .. L + 1, w[i].name = w[j].name PROVE i = j
      <4>1. CASE i \in 1 .. L /\ j \in 1 .. L
        BY <1>6, <3>3, <3>4, <4>1
      <4>2. CASE i = L + 1 /\ j \in 1 .. L
        BY <1>5, <3>1, <3>3, <3>4, <4>2
      <4>3. CASE i \in 1 .. L /\ j = L + 1
        BY <1>5, <3>1, <3>3, <3>4, <4>3
      <4>4. CASE i = L + 1 /\ j = L + 1
        BY <4>4
      <4> QED BY <4>1, <4>2, <4>3, <4>4
    <3>5. NamesApart(w)
      BY <3>3, <3>4 DEF NamesApart
    <3> QED BY <3>2, <3>3, <3>5
  <2>2. CASE k # 0
    <3>1. k \in 1 .. L /\ apis[k].name = n
      BY <1>1, <1>2, <2>2, NameFound
    <3>2. apis \in [1 .. L -> ApiRecords]
      BY <1>1, LenProperties
    <3>3. PICK w : w = apis' /\ w = [apis EXCEPT ![k] = r]
      BY <1>4, <2>2
    <3>4. w \in [1 .. L -> ApiRecords] /\ \A j \in 1 .. L : w[j] = IF j = k THEN r ELSE apis[j]
      BY <1>5, <3>1, <3>2, <3>3
    <3>5. w \in Seq(ApiRecords) /\ Len(w) = L
      BY <3>4, FunctionIsSeq
    <3>6. \A j \in 1 .. L : w[j].name = apis[j].name
      BY <1>5, <3>1, <3>4
    <3>7. NamesApart(w)
      BY <1>6, <3>5, <3>6 DEF NamesApart
    <3> QED BY <3>3, <3>5, <3>7
  <2> QED BY <2>1, <2>2
<1> QED BY <1>4, <1>7 DEF TablesType, TablesRight

PackagesInv == ManifestType /\ ManifestReads /\ TablesType /\ TablesRight

LEMMA ManifestStays ==
    ASSUME ManifestType, ManifestReads, lines' = lines, section' = section, manifest' = manifest
    PROVE  ManifestType' /\ ManifestReads'
<1>1. ManifestType'
  BY DEF ManifestType
<1>2. ManifestReads'
  BY DEF ManifestReads
<1> QED BY <1>1, <1>2

LEMMA TablesStay ==
    ASSUME TablesType, TablesRight, pkgs' = pkgs, added' = added, apis' = apis
    PROVE  TablesType' /\ TablesRight'
<1>1. TablesType'
  BY DEF TablesType
<1>2. TablesRight'
  BY DEF TablesRight
<1> QED BY <1>1, <1>2

LEMMA PackagesStart == PackagesInit => PackagesInv
<1> SUFFICES ASSUME PackagesInit PROVE PackagesInv
  OBVIOUS
<1>1. lines = <<>> /\ section = NoSection /\ pkgs = <<>> /\ apis = <<>> /\ added = [d \in TomlDeps |-> <<>>]
  BY DEF PackagesInit
<1>2. PICK f : f = [k \in PackageKeys |-> Unset]
  OBVIOUS
<1>3. f \in [PackageKeys -> TomlVals] /\ \A k \in PackageKeys : f[k] = Unset
  BY <1>2 DEF TomlVals
<1>4. manifest = [fields |-> f, deps |-> <<>>]
  BY <1>2 DEF PackagesInit
<1>5. <<>> \in Seq(DepRecords) /\ <<>> \in Seq(ManifestLines) /\ Len(<<>>) = 0 /\ 1 .. 0 = {}
      /\ <<>> \in Seq(PkgRecords) /\ <<>> \in Seq(ApiRecords) /\ <<>> \in Seq(PkgVersions)
  OBVIOUS
<1>6. manifest.fields = f /\ manifest.deps = <<>>
      /\ manifest \in [fields : [PackageKeys -> TomlVals], deps : Seq(DepRecords)]
  BY <1>3, <1>4, <1>5
<1>7. \A s : ~PairedIn(<<>>, s)
  BY <1>5 DEF PairedIn
<1>8. ManifestType
  BY <1>1, <1>5, <1>6, SecStart DEF ManifestType
<1>9. ManifestReads
  <2>1. \A k : ValOf(<<>>, PackSection, k) = Unset
    BY <1>7, Unpaired
  <2>2. FieldsRead(<<>>, f)
    BY <1>3, <2>1 DEF FieldsRead
  <2>3. DepsRead(<<>>, <<>>)
    BY <1>5, <1>7 DEF DepsRead, NamesApart, DepNamed
  <2> QED BY <1>1, <1>6, <2>2, <2>3 DEF ManifestReads
<1>10. TablesType
  BY <1>1, <1>5 DEF TablesType
<1>11. TablesRight
  <2>1. NamesApart(<<>>)
    BY <1>5 DEF NamesApart
  <2>2. ASSUME NEW n \in TomlDeps PROVE EndsIn(Under(<<>>, n), <<>>)
    <3>1. PICK F : Keeping(<<>>, NamedAt(<<>>, n), PkgRecords, F) /\ Kept(<<>>, NamedAt(<<>>, n)) = F[Len(<<>>)]
      BY <1>5, KeptSteps
    <3>2. Under(<<>>, n) = <<>>
      BY <1>5, <3>1 DEF Under, Keeping
    <3> QED BY <1>5, <3>2 DEF EndsIn
  <2> QED BY <1>1, <2>1, <2>2 DEF TablesRight
<1> QED BY <1>8, <1>9, <1>10, <1>11 DEF PackagesInv

LEMMA PackagesStep == PackagesInv /\ [PackagesNext]_pkgVars => PackagesInv'
<1> SUFFICES ASSUME PackagesInv, [PackagesNext]_pkgVars PROVE PackagesInv'
  OBVIOUS
<1>0. ManifestType /\ ManifestReads /\ TablesType /\ TablesRight
  BY DEF PackagesInv
<1>1. CASE ManifestNext
  <2>1. PICK l \in ManifestLines : ParseLine(l)
    BY <1>1 DEF ManifestNext, ManifestLines
  <2>2. ManifestType' /\ ManifestReads'
    BY <1>0, <2>1, ParseLineStep
  <2>3. pkgs' = pkgs /\ added' = added /\ apis' = apis
    BY <2>1 DEF ParseLine
  <2> QED BY <1>0, <2>2, <2>3, TablesStay DEF PackagesInv
<1>2. CASE TablesNext
  <2>1. \/ \E n \in TomlDeps : PkgRemove(n) \/ \E v \in TomlValues \cup {Unset} : PkgAdd(n, v)
        \/ \E n \in ApiNames, maj, min \in VersionNums : ApiRegister(n, maj, min)
    BY <1>2 DEF TablesNext
  <2>2. TablesType' /\ TablesRight'
    BY <1>0, <2>1, PkgRemoveStep, PkgAddStep, ApiRegisterStep
  <2>3. lines' = lines /\ section' = section /\ manifest' = manifest
    BY <2>1 DEF PkgRemove, PkgAdd, ApiRegister
  <2> QED BY <1>0, <2>2, <2>3, ManifestStays DEF PackagesInv
<1>3. CASE VersionsNext \/ UNCHANGED pkgVars
  <2>1. /\ lines' = lines /\ section' = section /\ manifest' = manifest
        /\ pkgs' = pkgs /\ added' = added /\ apis' = apis
    BY <1>3 DEF VersionsNext, CompareVersion, pkgVars
  <2> QED BY <1>0, <2>1, ManifestStays, TablesStay DEF PackagesInv
<1> QED BY <1>1, <1>2, <1>3 DEF PackagesNext

(* The sections with a pair, as the property writes them.                  *)
LEMMA SectionAtIs == \A i : SectionAt(i) = SecOf(lines, i)
  BY DEF SectionAt, SecOf, HeadsOf

LEMMA ValueInIs == \A s, k : ValueIn(s, k) = ValOf(lines, s, k)
<1>1. ASSUME NEW s, NEW k
      PROVE  {i \in 1 .. Len(lines) : lines[i].kind = "pair" /\ SectionAt(i) = s /\ lines[i].key = k} = AtOf(lines, s, k)
  BY SectionAtIs DEF AtOf
<1> QED BY <1>1 DEF ValueIn, ValOf

(* A manifest holds what its lines say, in whatever order; packages leave  *)
(* oldest first; the API table holds a name once.                          *)
THEOREM ManifestIsSound == PackagesSpec => []ManifestSound
<1>1. PackagesInv => ManifestSound
  <2> SUFFICES ASSUME PackagesInv PROVE ManifestSound
    OBVIOUS
  <2>0. ManifestType /\ ManifestReads /\ TablesType /\ TablesRight
    BY DEF PackagesInv
  <2>1. PICK f, deps : f = manifest.fields /\ deps = manifest.deps /\ deps \in Seq(DepRecords)
    BY <2>0, ManifestParts DEF ManifestType
  <2>2. FieldsRead(lines, f) /\ DepsRead(lines, deps)
    BY <2>0, <2>1 DEF ManifestReads
  <2>3. \A k \in PackageKeys : f[k] = ValueIn(PackSection, k)
    BY <2>2, ValueInIs DEF FieldsRead
  <2>4. PICK paired : paired = {s \in Sections : \E i \in 1 .. Len(lines) :
                                    lines[i].kind = "pair" /\ SectionAt(i) = s}
    OBVIOUS
  <2>5. PICK n \in Nat : n = Len(deps) /\ DOMAIN deps = 1 .. n /\ \A i \in 1 .. n : deps[i] \in DepRecords
    <3>1. Len(deps) \in Nat /\ DOMAIN deps = 1 .. Len(deps) /\ \A i \in 1 .. Len(deps) : deps[i] \in DepRecords
      BY <2>1, LenProperties, ElementOfSeq
    <3> QED BY <3>1
  <2>6. \A i \in 1 .. n : deps[i].name \in TomlDeps
    BY <2>5 DEF DepRecords
  <2>7. \A d \in TomlDeps : DepSection(d) \in Sections /\ DepSection(d).kind = "dependency" /\ DepSection(d).name = d
    BY DEF DepSection, Sections
  <2>8. \A d \in TomlDeps : (\E i \in 1 .. n : deps[i].name = d) <=> DepSection(d) \in paired
    <3> SUFFICES ASSUME NEW d \in TomlDeps PROVE (\E i \in 1 .. n : deps[i].name = d) <=> DepSection(d) \in paired
      OBVIOUS
    <3>1. DepNamed(deps, d) <=> PairedIn(lines, DepSection(d))
      BY <2>2 DEF DepsRead
    <3>2. PairedIn(lines, DepSection(d)) <=> DepSection(d) \in paired
      BY <2>4, <2>7, SectionAtIs DEF PairedIn
    <3>3. DepNamed(deps, d) <=> \E i \in 1 .. n : deps[i].name = d
      BY <2>5 DEF DepNamed
    <3> QED BY <3>1, <3>2, <3>3
  <2>9. {x.name : x \in ToSet(deps)} = {s.name : s \in {u \in paired : u.kind = "dependency"}}
    <3>1. ToSet(deps) = {deps[i] : i \in 1 .. n}
      BY <2>5 DEF ToSet
    <3>2. ASSUME NEW y PROVE y \in {x.name : x \in ToSet(deps)} <=> \E i \in 1 .. n : deps[i].name = y
      BY <3>1
    <3>3. ASSUME NEW u \in paired, u.kind = "dependency" PROVE \E d \in TomlDeps : u = DepSection(d) /\ u.name = d
      <4>1. u \in Sections \cup {NoSection}
        BY <2>4
      <4> QED BY <3>3, <4>1, SectionKinds
    <3>4. ASSUME NEW y
          PROVE  y \in {s.name : s \in {u \in paired : u.kind = "dependency"}} <=> y \in TomlDeps /\ DepSection(y) \in paired
      BY <2>7, <3>3
    <3>5. \A y : y \in {x.name : x \in ToSet(deps)} <=> y \in {s.name : s \in {u \in paired : u.kind = "dependency"}}
      <4> SUFFICES ASSUME NEW y
                   PROVE  (\E i \in 1 .. n : deps[i].name = y) <=> y \in TomlDeps /\ DepSection(y) \in paired
        BY <3>2, <3>4
      <4> QED BY <2>6, <2>8
    <3> QED BY <3>5
  <2>10. \A x \in ToSet(deps), k \in DepKeys : x.keys[k] = ValueIn(DepSection(x.name), k)
    <3>1. ToSet(deps) = {deps[i] : i \in 1 .. n}
      BY <2>5 DEF ToSet
    <3>2. \A i \in 1 .. n : \A k \in DepKeys : deps[i].keys[k] = ValueIn(DepSection(deps[i].name), k)
      BY <2>2, <2>5, ValueInIs DEF DepsRead
    <3> QED BY <3>1, <3>2
  <2>11. \A i, j \in 1 .. Len(deps) : deps[i].name = deps[j].name => i = j
    BY <2>2 DEF DepsRead, NamesApart
  <2>12. ASSUME NEW n1 \in TomlDeps PROVE IsSuffix(VersionsOf(n1), added[n1])
    <3>1. PICK a : a = added[n1] /\ a \in Seq(PkgVersions) /\ EndsIn(Under(pkgs, n1), a)
      BY <2>0 DEF TablesType, TablesRight
    <3>2. IsSuffix(VersionsOf(n1), a)
      BY <2>0, <3>1, LeftAreLast DEF TablesType
    <3> QED BY <3>1, <3>2
  <2>13. \A i, j \in 1 .. Len(apis) : apis[i].name = apis[j].name => i = j
    BY <2>0 DEF TablesRight, NamesApart
  <2> QED BY <2>1, <2>3, <2>4, <2>9, <2>10, <2>11, <2>12, <2>13 DEF ManifestSound, PackSection, DepSection
<1> QED BY <1>1, PackagesStart, PackagesStep, PTL DEF PackagesSpec

(* Both together: manifests, and the order of the versions in them.        *)
THEOREM PackagesAreSound == PackagesSpec => []PackagesSound
<1>1. ManifestSound /\ VersionsOrdered => PackagesSound
  BY DEF PackagesSound
<1> QED BY <1>1, ManifestIsSound, VersionOrderIsTotal, PTL
=============================================================================
