--------------------------- MODULE SkillWorkspace ---------------------------
(***************************************************************************)
(* The skill directories somebody works in before they publish             *)
(* (commands/write.ts and utils/skill_manifest.ts).  `skuare format`       *)
(* writes the version into SKILL.md; `skuare build` records the versions   *)
(* other skills have there, first in skill-deps.json and then in           *)
(* skill-deps.lock.json, and may stop or fail in between.  Publishing      *)
(* follows the first file; whoever installs reads the second.              *)
(*                                                                         *)
(* Each person has a workspace.  A directory has the name of its skill.    *)
(***************************************************************************)
EXTENDS VersionOrder, FiniteSets

CONSTANTS
    People,
    Skills,
    Aliases,        \* the aliases a reference may be given
    Pool,           \* the versions people type
    FirstVersions,  \* the version each skill starts with, None: no SKILL.md
    FirstEntries,   \* what its dependency files say at the start, None: no files
    MaxEdits, MaxBuilds, MaxBuildBreaks,
    None, Torn      \* no such file; a file truncated and not written

ASSUME PoolAssumption == Pool \subseteq Seq(Token) /\ \A v \in Pool : Countable(v)
ASSUME SentinelAssumption ==
    None # Torn /\ None \notin Pool /\ None \notin Aliases /\ None \notin Skills

\* The versions there can be: the typed ones and those proposed from them.
Versions == Pool \cup {SuggestNextVersion(v) : v \in Pool}

\* An entry is kept under its alias, or under its skill (depKey); a dependency
\* file has at most one for a key.
Entry(key, s, v) == [key |-> key, skill |-> s, version |-> v]
Files == UNION {{{Entry(k, f[k][1], f[k][2]) : k \in K} : f \in [K -> Skills \X Versions]} :
                K \in SUBSET (Skills \cup Aliases)}
ASSUME FileAssumption == \A file \in Files : file \notin {None, Torn}
ASSUME FirstAssumption ==
    /\ FirstVersions \in [Skills -> Versions \cup {None}]
    /\ FirstEntries \in [Skills -> Files \cup {None}]

VARIABLES
    md,     \* metadata.version of each person's SKILL.md
    plain,  \* the entries of skill-deps.json, or None or Torn
    lock,   \* the entries of skill-deps.lock.json, or None or Torn
    build,  \* the build each person runs: what it still has to write
    edits, builds, buildBreaks

workspace == <<md, plain, lock>>
building == <<build, edits, builds, buildBreaks>>

NoBuild == [pc |-> "idle", skill |-> None, entries |-> {}]

EntryKey(s, alias) == IF alias = None THEN s ELSE alias

Entries(file) == IF file = None THEN {} ELSE file

InitWorkspace ==
    /\ md = [p \in People |-> FirstVersions]
    /\ plain = [p \in People |-> FirstEntries]
    /\ lock = [p \in People |-> FirstEntries]
    /\ build = [p \in People |-> NoBuild]
    /\ edits = 0 /\ builds = 0 /\ buildBreaks = 0

-----------------------------------------------------------------------------
(* format: one file at a time, each with the version typed for it. *)
Format(p, s, v) ==
    /\ build[p].pc = "idle" /\ edits < MaxEdits
    /\ md[p][s] # None /\ md[p][s] # v
    /\ md' = [md EXCEPT ![p][s] = v]
    /\ edits' = edits + 1
    /\ UNCHANGED <<plain, lock, build, builds, buildBreaks>>

\* A build of a skill without a SKILL.md first makes one, with the version
\* typed; it goes on as Build, or ends there for a reference it cannot find.
InitTemplate(p, s, v) ==
    /\ build[p].pc = "idle" /\ edits < MaxEdits
    /\ md[p][s] = None
    /\ md' = [md EXCEPT ![p][s] = v]
    /\ edits' = edits + 1
    /\ UNCHANGED <<plain, lock, build, builds, buildBreaks>>

\* The references are added to the entries there are; an entry with the key of
\* a reference is replaced.
AddedBeside(old, new) == old \cup new
Merged(old, new) == {e \in old : \A n \in new : n.key # e.key} \cup new

\* A file that cannot be parsed, or a missing reference, ends the build before
\* it writes; references may not name the target itself.  A build without any
\* writes both files from the entries there are.
Build(p, s, refs) ==
    /\ build[p].pc = "idle" /\ builds < MaxBuilds
    /\ md[p][s] # None
    /\ \A r \in refs : r.skill # s /\ md[p][r.skill] # None
    /\ plain[p][s] # Torn /\ lock[p][s] # Torn
    /\ builds' = builds + 1
    /\ LET new == {Entry(EntryKey(r.skill, r.alias), r.skill, md[p][r.skill]) : r \in refs}
       IN  build' = [build EXCEPT ![p] =
                        [pc |-> "plain", skill |-> s, entries |-> Merged(Entries(plain[p][s]), new)]]
    /\ UNCHANGED <<workspace, edits, buildBreaks>>

WritePlain(p) ==
    LET s == build[p].skill IN
    /\ build[p].pc = "plain"
    /\ plain' = [plain EXCEPT ![p][s] = build[p].entries]
    /\ build' = [build EXCEPT ![p].pc = "lock"]
    /\ UNCHANGED <<md, lock, edits, builds, buildBreaks>>

\* An entry keeps what the old lock resolved it to while its version stays;
\* that is the version itself, so the lock holds the same entries.
KeptLock(p, s) == IF lock[p][s] = None THEN build[p].entries ELSE lock[p][s]
LockEntries(p, s) == build[p].entries

WriteLock(p) ==
    LET s == build[p].skill IN
    /\ build[p].pc = "lock"
    /\ lock' = [lock EXCEPT ![p][s] = LockEntries(p, s)]
    /\ build' = [build EXCEPT ![p] = NoBuild]
    /\ UNCHANGED <<md, plain, edits, builds, buildBreaks>>

\* The build fails or is killed before a write, or in the middle of it.
BuildBreaks(p) ==
    LET s == build[p].skill IN
    /\ build[p].pc # "idle" /\ buildBreaks < MaxBuildBreaks
    /\ buildBreaks' = buildBreaks + 1
    /\ build' = [build EXCEPT ![p] = NoBuild]
    /\ \/ UNCHANGED <<plain, lock>>
       \/ build[p].pc = "plain" /\ plain' = [plain EXCEPT ![p][s] = Torn] /\ UNCHANGED lock
       \/ build[p].pc = "lock" /\ lock' = [lock EXCEPT ![p][s] = Torn] /\ UNCHANGED plain
    /\ UNCHANGED <<md, edits, builds>>

\* `--all` takes every other skill of the directory.
AllReferences(p, s) ==
    [skill : {n \in Skills \ {s} : md[p][n] # None}, alias : {None}]
References == UNION {[skill : {s}, alias : Aliases \cup {None}] : s \in Skills}

WorkspaceNext(p) ==
    \/ \E s \in Skills, v \in Pool : Format(p, s, v) \/ InitTemplate(p, s, v)
    \/ \E s \in Skills, r \in References : Build(p, s, {r})
    \/ \E s \in Skills : Build(p, s, {}) \/ Build(p, s, AllReferences(p, s))
    \/ WritePlain(p) \/ WriteLock(p) \/ BuildBreaks(p)

-----------------------------------------------------------------------------
EntrySet == [key : Skills \cup Aliases, skill : Skills, version : Versions]
Unambiguous(file) ==
    file \in {None, Torn} \/ \A e, f \in file : e.key = f.key => e = f

\* The dependency files keep their form: one entry for a key, whatever order
\* references and aliases were added in.
WorkspaceTypeOK ==
    /\ \A p \in People, s \in Skills :
        /\ plain[p][s] \in {None, Torn} \/ plain[p][s] \subseteq EntrySet
        /\ lock[p][s] \in {None, Torn} \/ lock[p][s] \subseteq EntrySet
        /\ Unambiguous(plain[p][s]) /\ Unambiguous(lock[p][s])

\* Outside a build, and unless one broke, both files of a skill say the same.
FilesAgree ==
    \A p \in People, s \in Skills :
        buildBreaks = 0 /\ build[p].skill # s => plain[p][s] = lock[p][s]
=============================================================================
