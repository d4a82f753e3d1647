----------------------------- MODULE Publishing -----------------------------
(***************************************************************************)
(* `skuare publish`, `skuare update` and `skuare delete` of several people *)
(* against one registry (commands/write.ts).  A publish first uploads what *)
(* skill-deps.json names, depth first, and then the skill; an update reads *)
(* the registry's versions, has a greater one chosen, writes it into       *)
(* SKILL.md and publishes.  The registry takes each request in one step,   *)
(* as FSStoreRefines shows of the server; its answer may be lost.          *)
(***************************************************************************)
EXTENDS SkillWorkspace

CONSTANTS
    Published,      \* the skill versions in the registry at the start
    MaxCommands, MaxLost

Keys == Skills \X Versions
ASSUME PublishedAssumption == Published \in SUBSET Keys /\ IsFiniteSet(Published)
ASSUME KeysAssumption == \A ks \in SUBSET Keys : ks \notin {None, Torn}

VARIABLES
    registry,   \* what each version's dependency file says, Torn if it cannot
                \* be read, None if there is no such version
    ever,       \* the versions the registry has ever had
    job,        \* the command each person runs
    commands, lost

service == <<registry, ever>>
vars == <<workspace, building, service, job, commands, lost>>

VersionsOf(s) == {v \in Versions : registry[<<s, v>>] # None}

\* What people who install an upload of p's directory read of it
\* (parseDependencyRefs): the lock if there is one, else the other file.
Needs(file) == IF file = Torn THEN Torn ELSE {<<e.skill, e.version>> : e \in Entries(file)}
Bundle(p, s) == Needs(IF lock[p][s] # None THEN lock[p][s] ELSE plain[p][s])

NoJob == [op |-> "none", pc |-> "idle", result |-> "none", skill |-> None,
          force |-> FALSE, tty |-> FALSE,
          stack |-> <<>>,     \* the skills being uploaded, the root first
          uploaded |-> {},    \* the dependencies uploaded by this command
          found |-> {},       \* the versions an update found
          max |-> <<>>,       \* the greatest of them
          chosen |-> None]

Init ==
    /\ InitWorkspace
    /\ registry = [k \in Keys |-> IF k \in Published THEN {} ELSE None]
    /\ ever = Published
    /\ job = [p \in People |-> NoJob]
    /\ commands = 0 /\ lost = 0

Finish(p, result) ==
    job' = [job EXCEPT ![p].pc = "idle", ![p].result = result]

-----------------------------------------------------------------------------
(* The start of a command. *)

Free(p) == job[p].pc = "idle" /\ build[p].pc = "idle" /\ commands < MaxCommands

\* uploadDependencies reads the root's skill-deps.json; an unreadable one ends
\* the command.
Frame(p, s) == [skill |-> s, version |-> md[p][s], left |-> Entries(plain[p][s])]
Uploading(p, j) ==
    IF plain[p][j.skill] = Torn
    THEN [j EXCEPT !.pc = "idle", !.result = "failed"]
    ELSE [j EXCEPT !.pc = "upload", !.stack = <<Frame(p, j.skill)>>]

\* A directory can be published when it holds a SKILL.md.
IsSkillDir(p, s) == md[p][s] # None

Publish(p, s, force) ==
    /\ Free(p) /\ IsSkillDir(p, s)
    /\ commands' = commands + 1
    /\ job' = [job EXCEPT ![p] =
        Uploading(p, [NoJob EXCEPT !.op = "publish", !.skill = s, !.force = force])]
    /\ UNCHANGED <<workspace, building, service, lost>>

Delete(p, s, v) ==
    /\ Free(p) /\ registry[<<s, v>>] # None
    /\ commands' = commands + 1
    /\ registry' = [registry EXCEPT ![<<s, v>>] = None]
    /\ job' = [job EXCEPT ![p] =
        [NoJob EXCEPT !.op = "delete", !.skill = s, !.result = "ok"]]
    /\ UNCHANGED <<workspace, building, ever, lost>>

\* The reference given must name a skill of the catalogue.
Update(p, s, tty) ==
    /\ Free(p) /\ IsSkillDir(p, s) /\ VersionsOf(s) # {}
    /\ commands' = commands + 1
    /\ job' = [job EXCEPT ![p] =
        [NoJob EXCEPT !.op = "update", !.pc = "select", !.skill = s, !.tty = tty]]
    /\ UNCHANGED <<workspace, building, service, lost>>

\* loadRemoteSkill asks again, for the skill's versions: all may be gone.
LoadRemoteSkill(p) ==
    LET found == VersionsOf(job[p].skill) IN
    /\ job[p].pc = "select"
    /\ job' = [job EXCEPT ![p] =
        IF found = {} THEN [@ EXCEPT !.pc = "idle", !.result = "failed"]
        ELSE [@ EXCEPT !.pc = "choose", !.found = found,
                       !.max = MaxVersion(found)]]
    /\ UNCHANGED <<workspace, building, service, commands, lost>>

\* The version proposed to the user; without a terminal it is the local one.
IsGreaterByPrefix(v, w) == ComparePrefix(v, w) >= 0
IsGreater(v, w) == CompareVersions(v, w) > 0

Default(p, j) ==
    IF IsGreater(md[p][j.skill], j.max) THEN md[p][j.skill]
    ELSE SuggestNextVersion(j.max)

\* With a terminal the question is put again until the answer is greater.  The
\* chosen version goes into SKILL.md before anything is uploaded.
Choose(p, v) ==
    LET j == job[p] IN
    /\ j.pc = "choose"
    /\ v \in IF j.tty THEN Pool \cup {Default(p, j)} ELSE {md[p][j.skill]}
    /\ IF IsGreater(v, j.max)
       THEN /\ md' = [md EXCEPT ![p][j.skill] = v]
            /\ job' = [job EXCEPT ![p] =
                IF plain[p][j.skill] = Torn
                THEN [j EXCEPT !.pc = "idle", !.result = "failed", !.chosen = v]
                ELSE [j EXCEPT !.pc = "upload", !.chosen = v,
                               !.stack = <<[Frame(p, j.skill) EXCEPT !.version = v]>>]]
       ELSE /\ ~j.tty
            /\ UNCHANGED md /\ Finish(p, "failed")
    /\ UNCHANGED <<plain, lock, building, service, commands, lost>>

-----------------------------------------------------------------------------
(* The uploads. *)

Current(j) == j.stack[Len(j.stack)]
Visiting(j) == {j.stack[i].skill : i \in 2..Len(j.stack)}
Key(e) == <<e.skill, e.version>>

VersionIgnored(p, e) == md[p][e.skill] # None
VersionMatches(p, e) == md[p][e.skill] = e.version

\* One more dependency of the current skill (uploadOneDependency): passed over
\* when it was uploaded, else its own dependencies come first.  A cycle, a
\* version that SKILL.md no longer has or an unreadable file ends the command.
Visit(p) ==
    LET j == job[p] IN
    /\ j.pc = "upload"
    /\ \E e \in Current(j).left :
        LET rest == [j.stack EXCEPT ![Len(j.stack)].left = @ \ {e}] IN
        job' = [job EXCEPT ![p] =
            IF Key(e) \in j.uploaded THEN [j EXCEPT !.stack = rest]
            ELSE IF /\ e.skill \notin Visiting(j)
                    /\ VersionMatches(p, e) /\ plain[p][e.skill] # Torn
            THEN [j EXCEPT !.stack = Append(rest, Frame(p, e.skill))]
            ELSE [j EXCEPT !.pc = "idle", !.result = "failed", !.stack = <<>>]]
    /\ UNCHANGED <<workspace, building, service, commands, lost>>

\* The server stores a new version, and with force any.
Store(p, k, force) ==
    IF registry[k] = None \/ force
    THEN /\ registry' = [registry EXCEPT ![k] = Bundle(p, k[1])]
         /\ ever' = ever \cup {k}
    ELSE UNCHANGED service

Taken(k) == registry[k] # None

StopsAtFirst(j) == [j EXCEPT !.pc = "idle", !.result = "exists", !.stack = <<>>]
DependencyDone(j) ==
    [j EXCEPT !.stack = SubSeq(@, 1, Len(@) - 1),
              !.uploaded = @ \cup {Key(Current(j))}]

\* A dependency that is there already counts as uploaded; for the root a
\* warning is printed and the command succeeds, a conflict under force aside.
Upload(p) ==
    LET j == job[p]
        k == Key(Current(j))
    IN  /\ j.pc = "upload" /\ Current(j).left = {}
        /\ Store(p, k, j.force)
        /\ job' = [job EXCEPT ![p] =
            IF Len(j.stack) > 1 THEN DependencyDone(j)
            ELSE [j EXCEPT !.pc = "idle", !.stack = <<>>,
                           !.result = IF Taken(k) /\ ~j.force THEN "exists" ELSE "ok"]]
        /\ UNCHANGED <<workspace, building, commands, lost>>

\* The request or its answer is lost, or the server fails: the command ends.
UploadFails(p) ==
    LET j == job[p] IN
    /\ j.pc = "upload" /\ Current(j).left = {} /\ lost < MaxLost
    /\ lost' = lost + 1
    /\ Store(p, Key(Current(j)), j.force) \/ UNCHANGED service
    /\ job' = [job EXCEPT ![p].pc = "idle", ![p].result = "failed", ![p].stack = <<>>]
    /\ UNCHANGED <<workspace, building, commands>>

WorkspaceStep(p) ==
    /\ job[p].pc = "idle"
    /\ WorkspaceNext(p)
    /\ UNCHANGED <<service, job, commands, lost>>

Next ==
    \E p \in People :
        \/ WorkspaceStep(p)
        \/ \E s \in Skills, b \in BOOLEAN : Publish(p, s, b) \/ Update(p, s, b)
        \/ \E k \in Keys : Delete(p, k[1], k[2])
        \/ \E v \in Versions : Choose(p, v)
        \/ LoadRemoteSkill(p)
        \/ Visit(p) \/ Upload(p) \/ UploadFails(p)

Spec == Init /\ [][Next]_vars

-----------------------------------------------------------------------------
(* Properties. *)

\* Every variable keeps its type, and the stack of an upload holds each
\* dependency once.
TypeOK ==
    /\ WorkspaceTypeOK
    /\ registry \in [Keys -> (SUBSET Keys) \cup {None, Torn}]
    /\ ever \in SUBSET Keys
    /\ \A p \in People :
        /\ job[p].pc \in {"idle", "select", "choose", "upload"}
        /\ job[p].result \in {"none", "ok", "exists", "failed"}
        /\ (job[p].pc = "upload") = (job[p].stack # <<>>)
        /\ \A i, n \in 2..Len(job[p].stack) :
              job[p].stack[i].skill = job[p].stack[n].skill => i = n

\* What the registry offers can be installed: every dependency an installer
\* reads from a published version was itself published, whatever order,
\* failure or lost answer it was reached through (a later delete aside).
PublishedIsInstallable ==
    buildBreaks = 0 =>
        \A k \in Keys : registry[k] # None => registry[k] # Torn /\ registry[k] \subseteq ever

\* A publish that ends well, a warning included, leaves the registry with the
\* skill's version, however many earlier attempts broke; a retry finishes.
Settled(j) == j.op \in {"publish", "update"} /\ j.result \in {"ok", "exists"}
SuccessIsComplete ==
    [][\A p \in People :
        job[p].pc = "upload" /\ job'[p].pc = "idle" /\ Settled(job'[p]) =>
            /\ registry'[<<job[p].skill, md[p][job[p].skill]>>] # None
            /\ Needs(plain[p][job[p].skill]) \subseteq ever']_vars

\* An update without force never replaces a version, and what it adds is
\* greater than each version the skill had when the update looked, however
\* SKILL.md or the registry changed since and whatever version was proposed.
UpdatesGoForward ==
    [][\A p \in People : LET j == job[p]
                             k == <<j.skill, j.chosen>> IN
        j.op = "update" /\ j.pc = "upload" /\ job'[p].pc = "idle" /\ job'[p].result = "ok" =>
            /\ ~Taken(k) /\ registry'[k] # None
            /\ \A v \in j.found : CompareVersions(j.chosen, v) > 0]_vars
=============================================================================
