---------------------------- MODULE Incremental ----------------------------
(***************************************************************************)
(* The incremental compilation cache of incremental.c.  A cache is a list   *)
(* of entries, one per source file, kept in memory while it is open and     *)
(* written to index.txt only by pny_incr_close; a process that dies leaves  *)
(* the index of the last close behind.  A file's content stands for its     *)
(* SHA-256 digest: two contents are equal exactly when their digests are.   *)
(***************************************************************************)
EXTENDS Naturals, Sequences, SequencesExt, FiniteSetsExt, Lists

CONSTANTS IncrFiles,      \* source paths
          IncrContents,   \* what a source file can hold
          IncrLines,      \* the lines of each content: [directive, path]
          IncrOutputs,    \* output paths
          IncrMaxDeps,    \* INCR_MAX_DEPS
          IncrMaxOps      \* bound: changes of one history

NoFile == "no file"
NoPath == ""

ASSUME IncrementalAssumption ==
  /\ NoFile \notin IncrContents
  /\ IncrLines \in [IncrContents -> Seq([directive : STRING, path : STRING])]
  /\ IncrMaxDeps \in Nat \ {0} /\ IncrMaxOps \in Nat

VARIABLES disk,       \* the source files
          incrOpen,   \* a cache is open
          entries,    \* cache->entries, in list order
          incrStats,  \* cache->stats, without the hit and miss counters
          index,      \* index.txt
          answer,     \* what the last pny_incr_is_cached said, and of what
          latest,     \* history: what was last stored under each path
          saved,      \* history: latest, as of the last close
          incrOps     \* calls so far

incrVars == <<disk, incrOpen, entries, incrStats, index, answer, latest, saved, incrOps>>

NoStats == [cached |-> 0, invalidations |-> 0]
NoAnswer == [path |-> NoPath, hit |-> FALSE, content |-> NoFile, output |-> NoPath]
NothingStored == [f \in IncrFiles |-> [hash |-> NoFile, output |-> NoPath]]

IncrInit ==
  /\ disk \in [IncrFiles -> IncrContents]
  /\ incrOpen = FALSE /\ entries = <<>> /\ incrStats = NoStats
  /\ index = <<>> /\ answer = NoAnswer
  /\ latest = NothingStored /\ saved = NothingStored /\ incrOps = 0

IncrCall == incrOps < IncrMaxOps /\ incrOps' = incrOps + 1

-----------------------------------------------------------------------------
(* The list.                                                               *)

EntryOf(f) == SelectInSeq(entries, LAMBDA e : e.path = f)   \* 0: none

Capped(s) == SubSeq(s, 1, Min({Len(s), IncrMaxDeps}))

(* The count on an entry's line is kept and the lines of its dependencies   *)
(* are appended after that many empty ones.                                *)
Reloaded(e) ==
  [e EXCEPT !.deps = Capped([i \in 1..Len(e.deps) |-> NoPath] \o e.deps)]
LoadedIndex == [i \in 1..Len(index) |-> Reloaded(index[i])]

IncrOpenCache ==
  /\ ~incrOpen /\ IncrCall
  /\ incrOpen' = TRUE /\ entries' = LoadedIndex /\ latest' = saved
  /\ incrStats' = NoStats /\ answer' = NoAnswer
  /\ UNCHANGED <<disk, index, saved>>

IncrClose ==
  /\ incrOpen /\ IncrCall
  /\ incrOpen' = FALSE /\ index' = entries /\ saved' = latest
  /\ entries' = <<>> /\ answer' = NoAnswer /\ incrStats' = NoStats
  /\ UNCHANGED <<disk, latest>>

(* The process ends without pny_incr_close.                                *)
IncrCrash ==
  /\ incrOpen /\ IncrCall
  /\ incrOpen' = FALSE /\ entries' = <<>> /\ answer' = NoAnswer /\ incrStats' = NoStats
  /\ UNCHANGED <<disk, index, latest, saved>>

IncrClear ==
  /\ incrOpen /\ IncrCall
  /\ entries' = <<>> /\ incrStats' = NoStats /\ index' = <<>>
  /\ latest' = NothingStored /\ saved' = NothingStored /\ answer' = NoAnswer
  /\ UNCHANGED <<disk, incrOpen>>

Hit(f) ==
  /\ disk[f] # NoFile /\ EntryOf(f) # 0
  /\ entries[EntryOf(f)].hash = disk[f]

IncrOutput(f) == IF EntryOf(f) = 0 THEN NoPath ELSE entries[EntryOf(f)].output

(* pny_incr_is_cached, and pny_incr_get_output after it.                   *)
IncrIsCached(f) ==
  /\ incrOpen /\ IncrCall
  /\ answer' = [path |-> f, hit |-> Hit(f), content |-> disk[f], output |-> IncrOutput(f)]
  /\ UNCHANGED <<disk, incrOpen, entries, incrStats, index, latest, saved>>

(* pny_incr_analyze_deps: the quoted path of each directive line.          *)
AnalyzeDeps(content) ==
  LET lines == IncrLines[content]
      found == Kept(lines, {i \in DOMAIN lines : /\ lines[i].directive \in {"use", "import", "#include"}
                                                 /\ lines[i].path # NoPath})
  IN  Capped([i \in 1..Len(found) |-> found[i].path])

StoredEntry(f, o) == [path |-> f, output |-> o, hash |-> disk[f], deps |-> AnalyzeDeps(disk[f])]

RestoredStaleHash(i, e) == [entries EXCEPT ![i].output = e.output]   \* variant with a bug
Restored(i, e) == [entries EXCEPT ![i] = e]

(* A source that cannot be read is refused with -1.                        *)
IncrStore(f, o) ==
  /\ incrOpen /\ IncrCall /\ disk[f] # NoFile
  /\ entries' = IF EntryOf(f) = 0 THEN Append(entries, StoredEntry(f, o))
                                  ELSE Restored(EntryOf(f), StoredEntry(f, o))
  /\ latest' = [latest EXCEPT ![f] = [hash |-> disk[f], output |-> o]]
  /\ incrStats' = [incrStats EXCEPT !.cached = @ + 1]
  /\ answer' = NoAnswer
  /\ UNCHANGED <<disk, incrOpen, index, saved>>

Invalidated(i) == RemoveAt(entries, i)

(* Not found: -1 and no change.                                            *)
IncrInvalidate(f) ==
  /\ incrOpen /\ IncrCall /\ EntryOf(f) # 0
  /\ entries' = Invalidated(EntryOf(f))
  /\ incrStats' = [cached |-> CASE Len(entries) = 1 -> 0
                                [] incrStats.cached > 0 -> incrStats.cached - 1
                                [] OTHER -> 0,
                   invalidations |-> incrStats.invalidations + 1]
  /\ latest' = [latest EXCEPT ![f] = NothingStored[f]]
  /\ answer' = NoAnswer
  /\ UNCHANGED <<disk, incrOpen, index, saved>>

(* The programmer edits or removes a source, whether a cache is open or not.*)
IncrEdit(f, c) ==
  /\ IncrCall /\ disk[f] # c
  /\ disk' = [disk EXCEPT ![f] = c]
  /\ answer' = NoAnswer
  /\ UNCHANGED <<incrOpen, entries, incrStats, index, latest, saved>>

IncrNext ==
  \/ IncrOpenCache \/ IncrClose \/ IncrCrash \/ IncrClear
  \/ \E f \in IncrFiles :
       \/ IncrIsCached(f) \/ IncrInvalidate(f)
       \/ \E o \in IncrOutputs : IncrStore(f, o)
       \/ \E c \in IncrContents \cup {NoFile} : IncrEdit(f, c)

IncrSpec == IncrInit /\ [][IncrNext]_incrVars

-----------------------------------------------------------------------------
(* An open cache agrees with the map of what was last stored under each      *)
(* path - across closing, reopening, crashes (which bring back the map of   *)
(* the last close) and clearing - with one entry per path, and a hit names  *)
(* the output stored for exactly the content the file holds.               *)
CacheSound ==
  incrOpen =>
    /\ \A f \in IncrFiles :
         /\ Cardinality({i \in 1..Len(entries) : entries[i].path = f}) =
              (IF latest[f] = NothingStored[f] THEN 0 ELSE 1)
         /\ EntryOf(f) # 0 => entries[EntryOf(f)].hash = latest[f].hash
         /\ IncrOutput(f) = latest[f].output
    /\ answer.hit => latest[answer.path] = [hash |-> answer.content, output |-> answer.output]
=============================================================================
