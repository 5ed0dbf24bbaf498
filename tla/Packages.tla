------------------------------ MODULE Packages ------------------------------
(***************************************************************************)
(* Package manifests and versions: the ponypp.toml parser and the package   *)
(* list of pkg.c, and the version parser, order, compatibility levels and   *)
(* API table of version_compat.c.  A line of a manifest is what the parser  *)
(* sees in it; a prerelease tag is its rank in strcmp's order, 0 for none,  *)
(* and so is build metadata.                                               *)
(***************************************************************************)
EXTENDS Integers, Sequences, SequencesExt, FiniteSetsExt, Lists

CONSTANTS TomlKeys,     \* keys, known or not
          TomlValues,   \* values
          TomlDeps,     \* dependency names
          TomlLines,    \* bound: lines of a manifest
          VersionNums,  \* numbers of a version
          VersionTags,  \* ranks of prerelease tags
          VersionBuilds,  \* ranks of build metadata
          ApiNames,     \* names in the API table
          ApiMax,       \* MAX_API_VERSIONS
          PkgCalls      \* bound: calls on the package list and the API table

PackageKeys == {"name", "version", "description", "author", "license", "homepage"}
DepKeys == {"version", "source", "path"}
Unset == "NULL"

ASSUME PackagesAssumption ==
  /\ VersionNums \subseteq Nat /\ VersionTags \subseteq Nat /\ VersionBuilds \subseteq Nat /\ Unset \notin TomlValues
  /\ TomlLines \in Nat /\ ApiMax \in Nat \ {0} /\ PkgCalls \in Nat

VARIABLES lines,     \* the lines read so far
          section,   \* cur_section
          manifest,  \* the PkgManifest being filled
          pkgs,      \* PkgManager.packages: [name, version]
          apis,      \* api_versions: [name, major, minor]
          added,     \* history: the versions added under each name
          asked,     \* the version last compared with every other, if any
          pkgCalls   \* calls on the tables so far

pkgVars == <<lines, section, manifest, pkgs, apis, added, asked, pkgCalls>>

-----------------------------------------------------------------------------
(* The manifest, line by line.                                             *)

Sections == {[kind |-> "section", name |-> n] : n \in {"package", "other"}}
            \cup {[kind |-> "dependency", name |-> d] : d \in TomlDeps}
Pairs == {[kind |-> "pair", key |-> k, value |-> v] : k \in TomlKeys, v \in TomlValues}
(* A comment, an empty line, a line with neither [ nor =, a [ without ].    *)
Others == {[kind |-> "skipped"]}

NoSection == [kind |-> "section", name |-> ""]
EmptyDep(d) == [name |-> d, keys |-> [k \in DepKeys |-> Unset]]

DepIndex(deps, d) == SelectInSeq(deps, LAMBDA x : x.name = d)   \* 0: none
WithDepFresh(deps, d) == Append(deps, EmptyDep(d))   \* variant with a bug
WithDep(deps, d) == IF DepIndex(deps, d) = 0 THEN Append(deps, EmptyDep(d)) ELSE deps

WithPair(l) ==
  CASE section.kind = "section" /\ section.name = "package" /\ l.key \in PackageKeys ->
         [manifest EXCEPT !.fields[l.key] = l.value]
    [] section.kind = "dependency" ->
         LET deps == WithDep(manifest.deps, section.name)
             i == DepIndex(deps, section.name)
         IN  [manifest EXCEPT !.deps =
                IF l.key \in DepKeys THEN [deps EXCEPT ![i].keys[l.key] = l.value] ELSE deps]
    [] OTHER -> manifest

ParseLine(l) ==
  /\ Len(lines) < TomlLines
  /\ lines' = Append(lines, l)
  /\ section' = IF l.kind \in {"section", "dependency"} THEN l ELSE section
  /\ manifest' = IF l.kind = "pair" THEN WithPair(l) ELSE manifest
  /\ UNCHANGED <<pkgs, apis, added, asked, pkgCalls>>

-----------------------------------------------------------------------------
(* The package list: names may repeat, find and remove take the first.      *)

PkgIndex(n) == SelectInSeq(pkgs, LAMBDA p : p.name = n)
GivenVersion(v) == IF v = Unset THEN "0.1.0" ELSE v
PkgAdd(n, v) ==
  /\ pkgs' = Append(pkgs, [name |-> n, version |-> GivenVersion(v)])
  /\ added' = [added EXCEPT ![n] = Append(@, GivenVersion(v))]
  /\ UNCHANGED <<lines, section, manifest, apis, asked>>
PkgRemove(n) ==
  /\ PkgIndex(n) # 0 /\ pkgs' = RemoveAt(pkgs, PkgIndex(n))
  /\ UNCHANGED <<lines, section, manifest, apis, added, asked>>

(* The API table: registering a known name updates it - unless the table is *)
(* full, when every registration is refused.                               *)
ApiIndex(n) == SelectInSeq(apis, LAMBDA a : a.name = n)
ApiRegister(n, maj, min) ==
  /\ Len(apis) < ApiMax
  /\ apis' = IF ApiIndex(n) = 0 THEN Append(apis, [name |-> n, major |-> maj, minor |-> min])
             ELSE [apis EXCEPT ![ApiIndex(n)] = [name |-> n, major |-> maj, minor |-> min]]
  /\ UNCHANGED <<lines, section, manifest, pkgs, added, asked>>

Dot == -1
Dash == -2
PlusMark == -3
NoVersion == [major |-> -1, minor |-> -1, patch |-> -1, pre |-> 0, build |-> 0]

PackagesInit ==
  /\ lines = <<>> /\ section = NoSection
  /\ manifest = [fields |-> [k \in PackageKeys |-> Unset], deps |-> <<>>]
  /\ pkgs = <<>> /\ apis = <<>> /\ pkgCalls = 0
  /\ added = [d \in TomlDeps |-> <<>>] /\ asked = NoVersion

ManifestNext == \E l \in Sections \cup Pairs \cup Others : ParseLine(l)
TablesNext ==
  /\ pkgCalls < PkgCalls /\ pkgCalls' = pkgCalls + 1
  /\ \/ \E n \in TomlDeps : PkgRemove(n) \/ \E v \in TomlValues \cup {Unset} : PkgAdd(n, v)
     \/ \E n \in ApiNames, maj, min \in VersionNums : ApiRegister(n, maj, min)

-----------------------------------------------------------------------------
(* Versions.  A text is a sequence of numbers and marks.                    *)

Versions == [major : VersionNums, minor : VersionNums, patch : VersionNums, pre : VersionTags,
             build : VersionBuilds]

Marked(mark, rank) == IF rank = 0 THEN <<>> ELSE <<mark, rank>>
VersionText(v) ==
  (<<v.major, Dot, v.minor, Dot, v.patch>> \o Marked(Dash, v.pre)) \o Marked(PlusMark, v.build)

(* What stands at position i of t after that mark, or 0.                   *)
MarkedAt(t, i, mark) == IF Len(t) > i /\ t[i] = mark THEN t[i + 1] ELSE 0
ParseVersion(t) ==
  IF Len(t) >= 5 /\ t[2] = Dot /\ t[4] = Dot /\ \A i \in {1, 3, 5} : t[i] >= 0
  THEN [major |-> t[1], minor |-> t[3], patch |-> t[5], pre |-> MarkedAt(t, 6, Dash),
        build |-> MarkedAt(t, IF MarkedAt(t, 6, Dash) = 0 THEN 6 ELSE 8, PlusMark)]
  ELSE NoVersion

Triple(v) == <<v.major, v.minor, v.patch>>
FirstDifference(a, b) ==
  LET places == {i \in 1..3 : a[i] # b[i]}
  IN  IF places = {} THEN 0 ELSE a[Min(places)] - b[Min(places)]

(* semver_compare: negative, 0 or positive; build metadata plays no part.  *)
Compare(a, b) ==
  CASE Triple(a) # Triple(b) -> FirstDifference(Triple(a), Triple(b))
    [] Triple(a) = Triple(b) /\ a.pre # 0 /\ b.pre = 0 -> -1
    [] Triple(a) = Triple(b) /\ a.pre = 0 /\ b.pre # 0 -> 1
    [] OTHER -> a.pre - b.pre

Compat(required, provided) ==
  CASE Compare(required, provided) = 0 -> "exact"
    [] Compare(required, provided) # 0 /\ required.major # provided.major -> "incompatible"
    [] required.major = provided.major /\ required.minor # provided.minor -> "minor"
    [] required.major = provided.major /\ required.minor = provided.minor
       /\ required.patch # provided.patch -> "patch"
    [] OTHER -> "prerelease"

(* pkg_version_compare reads the three numbers only; a constraint with ^ or  *)
(* ~ asks for nothing but a version as high.                               *)
PkgCompare(a, b) ==
  LET d == FirstDifference(Triple(a), Triple(b)) IN IF d < 0 THEN -1 ELSE IF d > 0 THEN 1 ELSE 0
Satisfies(version, op, base) ==
  IF op \in {"^", "~"} THEN PkgCompare(version, base) >= 0 ELSE version = base

CompareVersion(v) ==
  /\ asked' = v /\ UNCHANGED <<lines, section, manifest, pkgs, apis, added, pkgCalls>>
VersionsNext == \E v \in Versions : CompareVersion(v)

PackagesNext == ManifestNext \/ TablesNext \/ VersionsNext
PackagesSpec == PackagesInit /\ [][PackagesNext]_pkgVars

-----------------------------------------------------------------------------
SectionAt(i) ==
  LET heads == {j \in 1..i : lines[j].kind \in {"section", "dependency"}}
  IN  IF heads = {} THEN NoSection ELSE lines[Max(heads)]
ValueIn(s, k) ==
  LET at == {i \in 1..Len(lines) : lines[i].kind = "pair" /\ SectionAt(i) = s /\ lines[i].key = k}
  IN  IF at = {} THEN Unset ELSE lines[Max(at)].value

VersionsOf(n) ==
  LET of == Kept(pkgs, {i \in 1..Len(pkgs) : pkgs[i].name = n})
  IN  [i \in 1..Len(of) |-> of[i].version]

(* Whatever the order of the lines, a manifest holds for every known key    *)
(* the last value written under the key's section, and each dependency that *)
(* has a line, once - sections that are reopened add to what they held.     *)
(* Packages added under one name are found and removed oldest first, and    *)
(* the API table holds a name once.                                        *)
ManifestSound ==
  LET pack == [kind |-> "section", name |-> "package"]
      dep(d) == [kind |-> "dependency", name |-> d]
      paired == {s \in Sections : \E i \in 1..Len(lines) :
                   lines[i].kind = "pair" /\ SectionAt(i) = s}
  IN  /\ \A k \in PackageKeys : manifest.fields[k] = ValueIn(pack, k)
      /\ {x.name : x \in ToSet(manifest.deps)} = {s.name : s \in {t \in paired : t.kind = "dependency"}}
      /\ \A i, j \in 1..Len(manifest.deps) : manifest.deps[i].name = manifest.deps[j].name => i = j
      /\ \A x \in ToSet(manifest.deps), k \in DepKeys : x.keys[k] = ValueIn(dep(x.name), k)
      /\ \A n \in TomlDeps : IsSuffix(VersionsOf(n), added[n])
      /\ \A i, j \in 1..Len(apis) : apis[i].name = apis[j].name => i = j

Alike(a, b) == Triple(a) = Triple(b) /\ a.pre = b.pre

(* The order of version_compat.c is total and transitive on versions without*)
(* their build metadata, and the compatibility levels agree with it; a      *)
(* formatted version parses back, and one cut short does not parse.  The    *)
(* order of pkg.c is another: it knows no prerelease tags, so that a ^ is   *)
(* met by what version_compat.c calls as high, and beyond that exactly by   *)
(* the lower prereleases of the same three numbers (1.0.0-a meets ^1.0.0).  *)
VersionsOrdered ==
  asked # NoVersion =>
    /\ ParseVersion(VersionText(asked)) = asked
    /\ \A n \in 0..4 : ParseVersion(SubSeq(VersionText(asked), 1, n)) = NoVersion
    /\ \A b \in Versions :
         /\ (Compare(asked, b) = 0) = Alike(asked, b) /\ (Compare(asked, b) < 0) = (Compare(b, asked) > 0)
         /\ (Compat(asked, b) = "exact") = Alike(asked, b) /\ Compat(asked, b) = Compat(b, asked)
         /\ Satisfies(asked, "^", b) = (Compare(asked, b) >= 0 \/ Triple(asked) = Triple(b))
         /\ \A c \in Versions : Compare(asked, b) <= 0 /\ Compare(b, c) <= 0 => Compare(asked, c) <= 0

(* Manifests and versions together (pkg.c, version_compat.c).               *)
PackagesSound == ManifestSound /\ VersionsOrdered
=============================================================================
