---------------------------- MODULE LocalInstall ----------------------------
(***************************************************************************)
(* What `skuare get`, `skuare deps --install` and `skuare remove` do to    *)
(* the skill directories of the tools (commands/query.ts).  A get compares *)
(* every target with what it is about to write, asks before it overwrites  *)
(* an installed skill, and then writes the files of every skill one by     *)
(* one; with --wrap it writes the root alone, with --slink it links each   *)
(* skill to a directory of the user's own.  remove deletes a skill and,    *)
(* with --deps, the dependencies nothing else needs.                       *)
(*                                                                         *)
(* A command may fail or be killed between any two file operations, and    *)
(* two commands may run at once: nothing locks a target.                   *)
(***************************************************************************)
EXTENDS SkillSelection

CONSTANTS
    Targets,        \* the skill directories of the configured tools
    DirOf,          \* the directory of each tool; tools may share one
    Source,         \* the user's own skill directories, which links point to
    Own,            \* the skills found there
    Dep,            \* the direct dependencies of a skill version
    Plan,           \* what DependencyGraph finds for it, itself first
    Procs,
    Requests,       \* what each process may be asked
    MaxCalls, MaxBreaks,
    Torn,           \* a file truncated and not yet written; None: no such file
    Mix             \* a version's whole text and then the end of a longer one

Files == {"md", "deps", "wrap"}
Mixes == {Mix[v] : v \in Versions}
Elements(s) == {s[i] : i \in DOMAIN s}

ASSUME TargetsAssumption ==
    Source \notin Targets /\ \A tool \in DOMAIN DirOf : DirOf[tool] \in Targets
ASSUME VersionsAssumption ==
    Versions # {} /\ None \notin Versions /\ Torn \notin Versions /\ None # Torn
ASSUME MixAssumption ==
    /\ Mixes \cap (Versions \cup {None, Torn}) = {}
    /\ \A v, w \in Versions : Mix[v] = Mix[w] => v = w
ASSUME DepAssumption == Dep \in [Keys -> SUBSET Keys]
ASSUME PlanAssumption ==
    /\ DOMAIN Plan \subseteq Keys
    /\ \A k \in DOMAIN Plan :
        /\ Plan[k] \in Seq(DOMAIN Plan) /\ Plan[k] # <<>> /\ Plan[k][1] = k
        /\ \A h, i \in DOMAIN Plan[k] : Plan[k][h][1] = Plan[k][i][1] => h = i
        /\ \A n \in Elements(Plan[k]) : Dep[n] \subseteq Elements(Plan[k])
ASSUME RequestsAssumption ==
    \A p \in Procs : \A r \in Requests[p] :
        /\ r # None
        /\ r.op \in {"get", "deps", "remove"} /\ r.mode \in {"copy", "wrap", "slink"}
        /\ r.tty \in BOOLEAN /\ r.deps \in BOOLEAN
        /\ r.tools \in Seq(DOMAIN DirOf) /\ r.tools # <<>>
        /\ r.pattern = None => r.ref = Reference(r.ref.author, r.ref.name, r.ref.version)
        /\ r.op = "deps" => /\ Len(r.tools) = 1 /\ r.root \in Skills
                            /\ r.mode = "copy" /\ r.version = None /\ r.pattern = None

VARIABLES
    dir,    \* the version each file of a skill directory comes from
    link,   \* the skills of a target that are links to Source
    job,    \* the command each process runs
    unlinked,   \* the processes whose open file another one has removed
    calls, breaks

vars == <<dir, link, job, unlinked, calls, breaks>>

-----------------------------------------------------------------------------
(* The disk as the command reads it. *)

Place(t, s) == IF <<t, s>> \in link THEN <<Source, s>> ELSE <<t, s>>
At(t, s) == dir[Place(t, s)]
Empty == [f \in Files |-> None]

\* collectSkillDirs: directories with a SKILL.md; a link is not a directory.
Listed(t) == {s \in Skills : <<t, s>> \notin link /\ dir[<<t, s>>].md # None}

\* A dependency or wrap file that is not JSON fails the scan of its target;
\* for remove, so does a skill whose version neither file gives.  SKILL.md says
\* its version at the start, whatever is behind.
IsJSON(x) == x \in Versions \cup {None}
Readable(t) == \A s \in Listed(t) : IsJSON(dir[<<t, s>>].deps) /\ IsJSON(dir[<<t, s>>].wrap)
Stated(x) == IF x \in Mixes THEN CHOOSE v \in Versions : Mix[v] = x ELSE x
VersionAt(at) == IF dir[at].wrap # None THEN dir[at].wrap ELSE Stated(dir[at].md)
Installed(t) == {<<s, VersionAt(<<t, s>>)>> : s \in Listed(t)}
Collectable(t) == Readable(t) /\ \A k \in Installed(t) : k[2] # Torn

SkillsOf(ks) == {k[1] : k \in ks}

\* The installed skills that the dependency file of s names.
Children(t, s) ==
    LET v == dir[<<t, s>>].deps
    IN  IF v \in Versions THEN SkillsOf(Dep[<<s, v>>]) \cap Listed(t) ELSE {}

FilesOf(k) == {"md"} \cup IF Dep[k] = {} THEN {} ELSE {"deps"}

\* The directories of the tools, each once, in the order of the tools.
Added(dirs, d) == IF d \in Elements(dirs) THEN dirs ELSE Append(dirs, d)
TargetsOf(tools) ==
    LET dirs[n \in 0..Len(tools)] ==
            IF n = 0 THEN <<>> ELSE Added(dirs[n - 1], DirOf[tools[n]])
    IN  dirs[Len(tools)]

-----------------------------------------------------------------------------
Idle == [pc |-> "idle", req |-> None, result |-> "none",
         nodes |-> <<>>,      \* the plan, as a sequence of keys
         selected |-> {},     \* the skills remove was told to remove
         scan |-> {},         \* targets still to be scanned
         seen |-> [t \in Targets |-> {}],  \* what the scan listed
         compare |-> {},      \* scanned targets still to be compared
         pending |-> {},      \* targets that need a confirmation
         confirmed |-> {},
         left |-> <<>>,       \* targets still to be written, the current first
         todo |-> <<>>,       \* skills still to be written there
         files |-> {},        \* files still to be written of the current one
         file |-> None,       \* the file being written
         view |-> [s \in Skills |-> {}],   \* the dependencies remove saw
         doomed |-> {}, plan |-> {},       \* skills to remove, left and in all
         before |-> [t \in Targets |-> {}], wrote |-> FALSE, disturbed |-> FALSE]

Init ==
    /\ dir = [p \in (Targets \cup {Source}) \X Skills |->
                IF p[1] = Source /\ p[2] \in Own
                THEN [Empty EXCEPT !.md = CHOOSE v \in Versions : TRUE]
                ELSE Empty]
    /\ link = {} /\ job = [p \in Procs |-> Idle] /\ unlinked = {}
    /\ calls = 0 /\ breaks = 0

Finish(j, result) == [j EXCEPT !.pc = "idle", !.result = result]

\* p's command goes on as j and the disk stays.
Only(p, j) ==
    /\ job' = [job EXCEPT ![p] = j]
    /\ UNCHANGED <<dir, link, unlinked, calls, breaks>>

\* p's command goes on as j, having changed the disk under the others.
Touching(p, j) ==
    /\ job' = [q \in Procs |-> IF q = p THEN [j EXCEPT !.wrote = TRUE]
                               ELSE [job[q] EXCEPT !.disturbed = TRUE]]
    /\ UNCHANGED <<calls, breaks>>

\* The skill versions a get may go on with, once the registry has listed them.
Catalogue == DOMAIN Plan
Selection(r) ==
    IF r.pattern # None THEN RegexSelection(r.pattern, r.version, Catalogue)
    ELSE CatalogSelection(r.ref, r.version, Catalogue, r.tty)

\* A get finds its skill and its plan before it looks at a target.
Begin(p, r) ==
    LET fresh == [Idle EXCEPT !.req = r, !.left = TargetsOf(r.tools),
                              !.before = [t \in Targets |-> Listed(t)]]
        Go(j) == job' = [job EXCEPT ![p] = j]
    IN  /\ job[p].pc = "idle" /\ calls < MaxCalls
        /\ calls' = calls + 1
        /\ \/ r.op # "get" /\ Go([fresh EXCEPT !.pc = r.op])
           \/ /\ r.op = "get"
              /\ \E k \in Selection(r) \cap Catalogue :
                    Go([fresh EXCEPT !.pc = "preview", !.scan = Elements(fresh.left),
                          !.nodes = IF r.mode = "wrap" THEN <<k>> ELSE Plan[k]])
           \/ /\ r.op = "get" /\ (Selection(r) = {} \/ ~(Selection(r) \subseteq Catalogue))
              /\ Go(Finish(fresh, "failed"))
        /\ UNCHANGED <<dir, link, unlinked, breaks>>

\* The nodes of the root's graph, other than itself, that may be meant.
DependencyTargets(r, root) ==
    Chosen(Matching(r.ref, Elements(Plan[root]) \ {root}, TRUE), r.tty)

\* `deps --install`: the root is read from its directory, its dependencies are
\* resolved, and one of them is installed beside it with what it needs.
LoadRoot(p, d) ==
    LET j == job[p]
        t == Head(j.left)
        e == At(t, j.req.root)
        root == <<j.req.root, e.deps>>
        known == /\ e.md # None /\ IsJSON(e.deps) /\ IsJSON(e.wrap)
                 /\ e.wrap # None \/ e.md # Torn
        found == IF known /\ root \in Catalogue THEN DependencyTargets(j.req, root) ELSE {}
    IN  /\ j.pc = "deps"
        /\ \/ /\ d \in found
              /\ Only(p, [j EXCEPT !.pc = "preview", !.scan = {t}, !.nodes = Plan[d]])
           \/ /\ found = {}
              /\ Only(p, Finish(j, "failed"))

-----------------------------------------------------------------------------
(* The preview (buildInstallTargetPreview), for all targets at once. *)

Scan(p, t) ==
    /\ job[p].pc = "preview" /\ t \in job[p].scan
    /\ Only(p, IF Readable(t)
               THEN [job[p] EXCEPT !.scan = @ \ {t}, !.compare = @ \cup {t},
                                   !.seen[t] = Listed(t)]
               ELSE Finish(job[p], "failed"))

Differs(t, k) == \E f \in FilesOf(k) : At(t, k[1])[f] # k[2]

\* A skill the scan listed is overwritten when a file is changed or added.
Overwrites(j, t, k) == k[1] \in j.seen[t] /\ Differs(t, k)

Compare(p, t) ==
    LET j == job[p] IN
    /\ j.pc = "preview" /\ t \in j.compare
    /\ LET pending == IF \E k \in Elements(j.nodes) : Overwrites(j, t, k)
                      THEN j.pending \cup {t} ELSE j.pending
           last == j.scan = {} /\ j.compare = {t}
       IN  Only(p, [j EXCEPT !.compare = @ \ {t}, !.pending = pending,
                             !.pc = IF last THEN "confirm" ELSE @])

\* What the next target needs: all skills again, the first one's files first.
FilesFor(r, k) == FilesOf(k) \cup IF r.mode = "wrap" THEN {"wrap"} ELSE {}
ToWrite(j) == [j EXCEPT !.todo = j.nodes, !.files = FilesFor(j.req, j.nodes[1])]

\* ensureInstallTargetPreviewsConfirmed: every target is settled before
\* anything is written; without a terminal nothing is overwritten.
AskedPerTarget(j) == j.pending \cap {Head(j.left)}
Asked(j) == j.pending

Confirm(p) ==
    LET j == job[p] IN
    /\ j.pc = "confirm"
    /\ \/ /\ Asked(j) = {} \/ j.req.tty
          /\ Only(p, ToWrite([j EXCEPT !.pc = "install", !.confirmed = Asked(j)]))
       \/ /\ Asked(j) # {}
          /\ Only(p, Finish(j, "refused"))

-----------------------------------------------------------------------------
(* The installation, target by target, skill by skill, file by file. *)

\* The files come in the registry's order, the wrap metadata after them.
NextFiles(j) == IF j.files = {"wrap"} THEN j.files ELSE j.files \ {"wrap"}

Ready(p, mode) ==
    /\ job[p].pc = "install" /\ job[p].todo # <<>>
    /\ (job[p].req.op = "get" /\ job[p].req.mode = "slink") <=> (mode = "slink")

IsThere(place, f, k) == dir[place][f] # None
IsSame(place, f, k) == dir[place][f] = k[2]

\* writeSkillFiles compares each file again; writeFile truncates it first.
Truncate(p, f) ==
    LET j == job[p]
        k == Head(j.todo)
        place == Place(Head(j.left), k[1])
    IN  /\ Ready(p, "copy") /\ f \in NextFiles(j)
        /\ IF IsSame(place, f, k) /\ f # "wrap"
           THEN Only(p, [j EXCEPT !.files = @ \ {f}])
           ELSE /\ dir' = [dir EXCEPT ![place][f] = Torn]
                /\ Touching(p, [j EXCEPT !.pc = "fill", !.file = f])
                /\ unlinked' = unlinked \ {p} /\ UNCHANGED link

\* The text is written from the start of the open file: where another process
\* has written a longer one meanwhile, the end of that stays.  What is written
\* to a file that was removed is lost.
Written(now, v) ==
    CASE now \in {Torn, v} -> {v}
      [] now = Mix[v] -> {Mix[v]}
      [] OTHER -> {v, Mix[v]}

Fill(p) ==
    LET j == job[p]
        k == Head(j.todo)
        place == Place(Head(j.left), k[1])
    IN  /\ j.pc = "fill"
        /\ \/ p \in unlinked /\ UNCHANGED dir
           \/ /\ p \notin unlinked
              /\ \E x \in Written(dir[place][j.file], k[2]) :
                    dir' = [dir EXCEPT ![place][j.file] = x]
        /\ Touching(p, [j EXCEPT !.pc = "install", !.files = @ \ {j.file}, !.file = None])
        /\ UNCHANGED <<link, unlinked>>

\* The next skill of the target, the next target, or the end.
RestOf(j) == Tail(j.todo)
AdvanceAsking(j) ==
    IF RestOf(j) # <<>>
    THEN [j EXCEPT !.todo = RestOf(j), !.files = FilesFor(j.req, Head(RestOf(j)))]
    ELSE IF Len(j.left) > 1 THEN [j EXCEPT !.left = Tail(@), !.pc = "confirm"]
         ELSE Finish([j EXCEPT !.todo = <<>>, !.left = <<>>], "ok")
Advance(j) ==
    IF RestOf(j) # <<>>
    THEN [j EXCEPT !.todo = RestOf(j), !.files = FilesFor(j.req, Head(RestOf(j)))]
    ELSE IF Len(j.left) > 1 THEN ToWrite([j EXCEPT !.left = Tail(@)])
         ELSE Finish([j EXCEPT !.todo = <<>>, !.left = <<>>], "ok")

SkillWritten(p) ==
    /\ Ready(p, "copy") /\ job[p].files = {}
    /\ Only(p, Advance(job[p]))

IsSkillDir(at) == dir[at].md # None
IsOccupied(at) == dir[at] # Empty

\* ensureSkillSymlink: a link is kept, a directory is never replaced, and
\* there must be a directory to link to.
Link(p) ==
    LET j == job[p]
        s == Head(j.todo)[1]
        at == <<Head(j.left), s>>
    IN  /\ Ready(p, "slink")
        /\ IF dir[<<Source, s>>].md = None \/ (at \notin link /\ IsOccupied(at))
           THEN Only(p, Finish(j, "failed"))
           ELSE IF at \in link THEN Only(p, Advance(j))
           ELSE /\ link' = link \cup {at}
                /\ Touching(p, Advance(j))
                /\ UNCHANGED <<dir, unlinked>>

\* A file operation fails, or the command is killed; what it did stays.
Breaks(p) ==
    /\ job[p].pc \in {"install", "fill", "rm"} /\ breaks < MaxBreaks
    /\ breaks' = breaks + 1
    /\ job' = [job EXCEPT ![p] = Finish(@, "failed")]
    /\ UNCHANGED <<dir, link, unlinked, calls>>

-----------------------------------------------------------------------------
(* remove, target by target. *)

NextTarget(j) ==
    IF Len(j.left) > 1 THEN [j EXCEPT !.pc = "remove", !.left = Tail(@)]
    ELSE Finish([j EXCEPT !.left = <<>>], "ok")

\* A target in which nothing answers is reported as one without the skill.
Select(p) ==
    LET j == job[p]
        t == Head(j.left)
        found == IF Collectable(t) THEN LocalSelections(j.req.ref, Installed(t), j.req.tty) ELSE {}
    IN  /\ j.pc = "remove"
        /\ \/ found = {} /\ Only(p, Finish(j, "failed"))
           \/ {} \in found /\ Only(p, NextTarget(j))
           \/ \E S \in found \ {{}} :
                Only(p, [j EXCEPT !.pc = "plan", !.selected = SkillsOf(S), !.seen[t] = Listed(t)])

\* buildRemovePlan's walk: what the selected skills need.
Subtree(S, children) ==
    {s \in Skills : \A T \in SUBSET Skills :
        (S \subseteq T /\ \A x \in T : children[x] \subseteq T) => s \in T}

\* Its loop: a skill of the subtree goes once all that need it go.
ParentsOf(s, children) == {x \in Skills : s \in children[x]}
WholeSubtree(S, children) == Subtree(S, children)
Removable(S, children) ==
    {s \in Subtree(S, children) : \A T \in SUBSET Skills :
        /\ S \subseteq T
        /\ \A x \in Subtree(S, children) :
              ParentsOf(x, children) \subseteq T => x \in T
        => s \in T}

PlanRemoval(p) ==
    LET j == job[p]
        t == Head(j.left)
        view == [s \in Skills |-> IF s \in Listed(t) THEN Children(t, s) ELSE {}]
        selected == j.selected \cap Listed(t)
        plan == IF j.req.deps THEN Removable(selected, view) ELSE selected
    IN  /\ j.pc = "plan"
        /\ Only(p, IF ~Collectable(t) THEN Finish(j, "failed")
                   ELSE [j EXCEPT !.pc = "rm", !.view = view, !.plan = plan,
                                  !.doomed = plan, !.seen[t] = Listed(t)])

\* rm -r of one directory, a file at a time.
HasOpen(q, at, f) == LET j == job[q] IN
    j.pc = "fill" /\ j.file = f /\ Place(Head(j.left), Head(j.todo)[1]) = at

RemoveFile(p, f) ==
    LET j == job[p]
        at == <<Head(j.left), CHOOSE s \in j.doomed : TRUE>>
    IN  /\ j.pc = "rm" /\ j.doomed # {}
        /\ dir[at][f] # None
        /\ dir' = [dir EXCEPT ![at][f] = None]
        /\ unlinked' = unlinked \cup {q \in Procs : HasOpen(q, at, f)}
        /\ Touching(p, j)
        /\ UNCHANGED link

SkillRemoved(p) ==
    LET j == job[p]
        s == CHOOSE s \in j.doomed : TRUE
    IN  /\ j.pc = "rm"
        /\ IF j.doomed = {} THEN Only(p, NextTarget(j))
           ELSE /\ dir[<<Head(j.left), s>>] = Empty
                /\ Only(p, [j EXCEPT !.doomed = @ \ {s}])

Next ==
    \E p \in Procs :
        \/ \E r \in Requests[p] : Begin(p, r)
        \/ \E d \in Keys : LoadRoot(p, d)
        \/ \E t \in Targets : Scan(p, t) \/ Compare(p, t)
        \/ Confirm(p)
        \/ \E f \in Files : Truncate(p, f) \/ RemoveFile(p, f)
        \/ Fill(p) \/ SkillWritten(p) \/ Link(p) \/ Breaks(p)
        \/ Select(p) \/ PlanRemoval(p) \/ SkillRemoved(p)

Spec == Init /\ [][Next]_vars

-----------------------------------------------------------------------------
(* Properties. *)

\* Every variable keeps its type: a file holds a version, a version and the end
\* of a longer one two commands wrote at once, or nothing.  A link stands where
\* no directory is, and only a file that is being written, or whose write
\* broke, is torn.
TypeOK ==
    /\ dir \in [(Targets \cup {Source}) \X Skills -> [Files -> Versions \cup Mixes \cup {None, Torn}]]
    /\ link \subseteq Targets \X Skills
    /\ \A at \in link : dir[at] = Empty
    /\ \A p \in Procs : job[p].pc \in
          {"idle", "preview", "confirm", "install", "fill", "deps", "remove", "plan", "rm"}
    /\ breaks = 0 =>
          \A at \in DOMAIN dir, f \in Files : dir[at][f] = Torn =>
              \E p \in Procs : HasOpen(p, at, f) /\ p \notin unlinked

Installs(r) == r # None /\ r.op # "remove" /\ r.mode # "slink"

\* A get or deps --install that reports success, and that no other command
\* disturbed, has left every skill of its plan whole in every target, whatever
\* earlier commands that broke, removed or linked skills had left there.
InstalledIsComplete ==
    \A p \in Procs : LET j == job[p] IN
        j.pc = "idle" /\ j.result = "ok" /\ Installs(j.req) /\ ~j.disturbed =>
            \A t \in Elements(TargetsOf(j.req.tools)), k \in Elements(j.nodes) :
                \A f \in FilesFor(j.req, k) : At(t, k[1])[f] = k[2]

\* A command acts on a skill that answers to the reference it was given: get
\* and deps at the version asked for, also where the list they chose from named
\* another, and remove without a terminal never where a second skill answers.
ActsOnWhatWasAsked ==
    \A p \in Procs :
        LET j == job[p]
            r == j.req
            given == IF r.version # None THEN r.version ELSE r.ref.version
        IN  /\ j.nodes # <<>> /\ r.pattern = None =>
                  /\ Answers(r.ref, j.nodes[1][1])
                  /\ given # None => j.nodes[1][2] = given
            /\ j.pc = "plan" =>
                  /\ \A s \in j.selected : Answers(r.ref, s)
                  /\ \/ r.tty \/ r.ref.version # None
                     \/ {s \in j.seen[Head(j.left)] : Answers(r.ref, s)} \subseteq j.selected
                     \/ \E s \in j.selected : IdOf[s] = RequestedID(r.ref)

\* A command the user declined, or that had nobody to ask, changed nothing in
\* any target (all targets are confirmed before the first is written).
RefusedChangesNothing ==
    \A p \in Procs : job[p].result = "refused" => ~job[p].wrote

\* No file of a skill that was installed when the command began is overwritten
\* before the user agreed to it for that target, another command aside.
OverwritesAreConfirmed ==
    [][\A p \in Procs, f \in Files :
        LET j == job[p]
            t == Head(j.left)
            s == Head(j.todo)[1]
        IN  /\ j.pc = "install" /\ job'[p].pc = "fill" /\ job'[p].file = f
            /\ s \in j.before[t] /\ ~j.disturbed
            /\ f # "wrap" /\ At(t, s)[f] \notin {None, Torn}
            => t \in j.confirmed]_vars

\* The same without the exceptions for links and for files other commands left:
\* catalog.ts says existing local skill files are never overwritten silently.
NoSilentOverwrite ==
    [][\A t \in Targets, s \in Skills, f \in {"md", "deps"} :
        At(t, s)[f] \in Versions /\ At(t, s)'[f] = Torn =>
            \E p \in Procs : job[p].pc = "install" /\ t \in job[p].confirmed]_vars

\* What `remove --deps` keeps is what a skill that stays still reaches without
\* passing through the selected one, and it removes all else of the subtree;
\* where installed skills depend on each other in a cycle it may keep more.
StillNeeded(S, children, installed) ==
    {s \in Skills : \A T \in SUBSET Skills :
        /\ installed \ Subtree(S, children) \subseteq T
        /\ \A x \in T : children[x] \ S \subseteq T
        => s \in T}
Cyclic(children) ==
    \E T \in (SUBSET Skills) \ {{}} : \A s \in T : children[s] \cap T # {}
RemovesWhatNothingNeeds ==
    \A p \in Procs : LET j == job[p] IN
        j.pc = "rm" /\ j.req.deps /\ j.left # <<>> =>
            LET S == j.selected \cap j.seen[Head(j.left)]
                spared == StillNeeded(S, j.view, j.seen[Head(j.left)])
            IN  /\ j.plan \cap spared \subseteq S
                /\ ~Cyclic(j.view) => j.plan = S \cup (Subtree(S, j.view) \ spared)
=============================================================================
