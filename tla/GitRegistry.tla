----------------------------- MODULE GitRegistry -----------------------------
(***************************************************************************)
(* The Git registry of skuare-cli (registry/git_backend.ts).  A process of *)
(* the CLI works on its machine's checkout of the remote repository: it    *)
(* refreshes it, changes files, commits them all and pushes.  Processes on *)
(* one machine share the checkout and take no lock.  The time of the last  *)
(* refresh is kept in a file inside the checkout, which every commit takes *)
(* along.                                                                  *)
(*                                                                         *)
(* One git command, or one step on the files of one version, is an action. *)
(* A tree maps each version (key) to its content; where the author's       *)
(* directory puts it is left out.  A branch is the sequence of its commits.*)
(***************************************************************************)
EXTENDS SequencesExt

CONSTANTS
    Skills, Guides,   \* versions of skills, and of AGENTS.md
    Contents,
    Machines, Procs,
    CheckoutOf,       \* the machine a process runs on
    Requests,         \* the calls users make
    Edits,            \* what people push with git itself: <<key, value>>
    MaxCalls,         \* bound: calls begun
    MaxEdits,         \* bound: commits pushed with git itself
    MaxTroubles,      \* bound: failing commands and file operations, and interrupts
    None,             \* no such version; no request; not committed by skuare
    Partial           \* a version of which only some files are written

Keys == Skills \cup Guides
Values == Contents \cup {None, Partial}
Item == Keys \X Contents

\* What an import is given: it lists its skills before its AGENTS.md.
Bundle == {its \in Seq(Item) :
             \A i, n \in DOMAIN its : i < n /\ its[i][1] \in Guides => its[n][1] \in Guides}

Request == [op : {"publish", "delete", "import", "get"}, key : Keys,
            content : Contents, force : BOOLEAN, items : Bundle, skip : BOOLEAN]

ASSUME CheckoutAssumption == CheckoutOf \in [Procs -> Machines]
ASSUME RequestsAssumption == Requests \subseteq Request /\ Edits \subseteq Keys \X Values
ASSUME KeysAssumption == Skills \cap Guides = {}
ASSUME SentinelAssumption ==
    /\ None \notin Request \cup Contents \cup Machines
    /\ None # Partial /\ Partial \notin Contents
ASSUME BoundAssumption == {MaxCalls, MaxEdits, MaxTroubles} \subseteq Nat

Tree == [Keys -> Values]
Commit == [tree : Tree, meta : (Machines \X Nat) \cup {None}, by : Machines \cup {None}]

VARIABLES
    remote,    \* the branch of the remote repository
    head,      \* the branch of each checkout; <<>> before it is cloned
    work,      \* the files of each checkout
    stamped,   \* .skuare-git-cache.json differs from the one committed
    pc, req, answer,
    item,      \* the <<key, content>> a process writes
    todo,      \* the items of an import that are still to be looked at
    settled,   \* the items of an import written or found unchanged
    wrote,     \* an import wrote something
    asked,     \* history: the calls begun
    promised,  \* history: [head, want] of the calls answered ok
    calls, edits, troubles

checkouts == <<head, work, stamped>>
locals == <<item, todo, settled, wrote>>
counters == <<calls, edits, troubles>>
vars == <<remote, checkouts, pc, req, answer, locals, asked, promised, counters>>

Empty == [k \in Keys |-> None]
Seed == [tree |-> Empty, meta |-> None, by |-> None]

Init ==
    /\ remote = <<Seed>>
    /\ head = [m \in Machines |-> <<>>]
    /\ work = [m \in Machines |-> Empty]
    /\ stamped = [m \in Machines |-> FALSE]
    /\ pc = [p \in Procs |-> "idle"]
    /\ req = [p \in Procs |-> None]
    /\ answer = [p \in Procs |-> "none"]
    /\ item = [p \in Procs |-> None]
    /\ todo = [p \in Procs |-> <<>>]
    /\ settled = [p \in Procs |-> {}]
    /\ wrote = [p \in Procs |-> FALSE]
    /\ asked = {} /\ promised = {}
    /\ calls = 0 /\ edits = 0 /\ troubles = 0

-----------------------------------------------------------------------------
M(p) == CheckoutOf[p]
Files(p) == work[M(p)]

Goto(p, l) == pc' = [pc EXCEPT ![p] = l]
Return(p, a) == Goto(p, "reply") /\ answer' = [answer EXCEPT ![p] = a]

\* What a call answered ok has promised: these versions in this branch.
Want(p) ==
    CASE req[p].op = "publish" -> {<<req[p].key, req[p].content>>}
      [] req[p].op = "delete" -> {<<req[p].key, None>>}
      [] req[p].op = "import" -> settled[p]
      [] OTHER -> {}
Promise(p) == promised' = promised \cup
    {[op |-> req[p].op, head |-> head[M(p)], want |-> Want(p)]}

Begin(p) ==
    /\ pc[p] = "idle" /\ calls < MaxCalls
    /\ \E r \in Requests :
         /\ req' = [req EXCEPT ![p] = r]
         /\ todo' = [todo EXCEPT ![p] = r.items]
         /\ asked' = asked \cup {r}
    /\ Goto(p, "clone")
    /\ calls' = calls + 1
    /\ UNCHANGED <<remote, checkouts, answer, item, settled, wrote, promised,
                   edits, troubles>>

\* The command ends; nothing it left in the checkout is undone.
Exit(p) ==
    /\ Goto(p, "idle")
    /\ req' = [req EXCEPT ![p] = None]
    /\ answer' = [answer EXCEPT ![p] = "none"]
    /\ item' = [item EXCEPT ![p] = None]
    /\ todo' = [todo EXCEPT ![p] = <<>>]
    /\ settled' = [settled EXCEPT ![p] = {}]
    /\ wrote' = [wrote EXCEPT ![p] = FALSE]

Reply(p) ==
    /\ pc[p] = "reply" /\ Exit(p)
    /\ UNCHANGED <<remote, checkouts, asked, promised, counters>>

-----------------------------------------------------------------------------
(* The checkout: cloned once, refreshed before every write and before a    *)
(* read that finds it old.                                                 *)

\* writeGitRegistryCacheMetadata
Stamps(m) == stamped' = [stamped EXCEPT ![m] = TRUE]

Clone(p) ==
    /\ pc[p] = "clone"
    /\ IF head[M(p)] # <<>>
         THEN UNCHANGED checkouts
         ELSE /\ head' = [head EXCEPT ![M(p)] = remote]
              /\ work' = [work EXCEPT ![M(p)] = Last(remote).tree]
              /\ Stamps(M(p))
    /\ Goto(p, "refresh")
    /\ UNCHANGED <<remote, req, answer, locals, asked, promised, counters>>

\* git pull --ff-only goes through only if the branch can be fast-forwarded
\* and no file it would touch has been changed locally.
Changed(m) == {k \in Keys : Last(head[m]).tree[k] # Last(remote).tree[k]}
CanPull(m) ==
    /\ IsPrefix(head[m], remote)
    /\ \A k \in Changed(m) : work[m][k] = Last(head[m]).tree[k]
    /\ Last(head[m]).meta # Last(remote).meta => ~stamped[m]
PulledChangesOnly(m) == [k \in Changed(m) |-> Last(remote).tree[k]]
Pulled(m) == [k \in Keys |-> IF k \in Changed(m) THEN Last(remote).tree[k] ELSE work[m][k]]

FirstStep(op) == CASE op = "import" -> "import" [] op = "get" -> "read" [] OTHER -> "check"

\* When the pull fails, git fetch is enough for the refresh to count as done.
PullOrFetch(m) ==
    /\ Stamps(m)
    /\ IF CanPull(m)
         THEN /\ head' = [head EXCEPT ![m] = remote]
              /\ work' = [work EXCEPT ![m] = Pulled(m)]
         ELSE UNCHANGED <<head, work>>

\* A read refreshes a checkout whose last refresh is older than the TTL.
Refresh(p) ==
    /\ pc[p] = "refresh"
    /\ \/ PullOrFetch(M(p))
       \/ req[p].op = "get" /\ UNCHANGED checkouts
    /\ Goto(p, FirstStep(req[p].op))
    /\ UNCHANGED <<remote, req, answer, locals, asked, promised, counters>>

-----------------------------------------------------------------------------
(* Publish and delete change the files of one version.                     *)

OverwritesAlways(p) == TRUE
Overwrites(p) == req[p].force

\* writeSkillPayload
CheckSkill(p) ==
    /\ pc[p] = "check" /\ req[p].op = "publish" /\ req[p].key \in Skills
    /\ item' = [item EXCEPT ![p] = <<req[p].key, req[p].content>>]
    /\ \/ Files(p)[req[p].key] = None /\ Goto(p, "write") /\ UNCHANGED answer
       \/ /\ Files(p)[req[p].key] # None
          /\ IF Overwrites(p) THEN Goto(p, "remove") /\ UNCHANGED answer
                              ELSE Return(p, "exists")
    /\ UNCHANGED <<remote, checkouts, req, todo, settled, wrote, asked, promised, counters>>

\* writeAgentsMD: a version that exists is never replaced.
CheckAgentsMD(p) ==
    /\ pc[p] = "check" /\ req[p].op = "publish" /\ req[p].key \in Guides
    /\ item' = [item EXCEPT ![p] = <<req[p].key, req[p].content>>]
    /\ IF Files(p)[req[p].key] = None THEN Goto(p, "write") /\ UNCHANGED answer
                                      ELSE Return(p, "exists")
    /\ UNCHANGED <<remote, checkouts, req, todo, settled, wrote, asked, promised, counters>>

\* deleteSkill, deleteAgentsMD
CheckDelete(p) ==
    /\ pc[p] = "check" /\ req[p].op = "delete"
    /\ IF Files(p)[req[p].key] = None THEN Return(p, "notfound")
                                      ELSE Goto(p, "remove") /\ UNCHANGED answer
    /\ UNCHANGED <<remote, checkouts, req, locals, asked, promised, counters>>

Put(p, k, x) == work' = [work EXCEPT ![M(p)][k] = x]

RemoveOld(p) ==
    /\ pc[p] = "remove"
    /\ Put(p, req[p].key, None)
    /\ Goto(p, IF req[p].op = "delete" THEN "commit" ELSE "write")
    /\ UNCHANGED <<remote, head, stamped, req, answer, locals, asked, promised,
                   counters>>

WriteFirst(p) ==
    /\ pc[p] = "write"
    /\ Put(p, item[p][1], Partial)
    /\ Goto(p, "writing")
    /\ UNCHANGED <<remote, head, stamped, req, answer, locals, asked, promised,
                   counters>>

WriteRest(p) ==
    /\ pc[p] = "writing"
    /\ Put(p, item[p][1], item[p][2])
    /\ IF req[p].op = "import"
         THEN /\ Goto(p, "import")
              /\ settled' = [settled EXCEPT ![p] = @ \cup {item[p]}]
              /\ wrote' = [wrote EXCEPT ![p] = TRUE]
         ELSE Goto(p, "commit") /\ UNCHANGED <<settled, wrote>>
    /\ UNCHANGED <<remote, head, stamped, req, answer, item, todo, asked,
                   promised, counters>>

-----------------------------------------------------------------------------
(* importResources looks at the items one by one and commits once.         *)

Skip(p, new) == /\ todo' = [todo EXCEPT ![p] = Tail(@)]
                /\ settled' = [settled EXCEPT ![p] = new]
                /\ UNCHANGED <<pc, answer, item>>

ImportItem(p) ==
    /\ pc[p] = "import" /\ todo[p] # <<>>
    /\ LET it == Head(todo[p])
           here == Files(p)[it[1]] IN
         \/ /\ here = None
            /\ item' = [item EXCEPT ![p] = it]
            /\ todo' = [todo EXCEPT ![p] = Tail(@)]
            /\ Goto(p, "write") /\ UNCHANGED <<answer, settled>>
         \/ here = it[2] /\ Skip(p, settled[p] \cup {it})
         \/ here \notin {None, it[2]} /\ req[p].skip /\ Skip(p, settled[p])
         \/ /\ here \notin {None, it[2]} /\ (~req[p].skip \/ here = Partial)
            /\ Return(p, "exists") /\ UNCHANGED <<item, todo, settled>>
    /\ UNCHANGED <<remote, checkouts, req, wrote, asked, promised, counters>>

ImportDone(p) ==
    /\ pc[p] = "import" /\ todo[p] = <<>>
    /\ IF wrote[p] THEN Goto(p, "commit") /\ UNCHANGED <<answer, promised>>
                   ELSE Return(p, "ok") /\ Promise(p)
    /\ UNCHANGED <<remote, checkouts, req, locals, asked, counters>>

-----------------------------------------------------------------------------
(* commitAndPush: status, add -A, commit, push, stamp.                     *)

Clean(m) == work[m] = Last(head[m]).tree /\ ~stamped[m]

NewCommit(m) ==
    [tree |-> work[m], by |-> m,
     meta |-> IF stamped[m] THEN <<m, Len(head[m]) + 1>> ELSE Last(head[m]).meta]

CommitAll(p) ==
    /\ pc[p] = "commit"
    /\ IF Clean(M(p))
         THEN Return(p, "ok") /\ Promise(p) /\ UNCHANGED <<head, stamped>>
         ELSE /\ head' = [head EXCEPT ![M(p)] = Append(@, NewCommit(M(p)))]
              /\ stamped' = [stamped EXCEPT ![M(p)] = FALSE]
              /\ Goto(p, "push") /\ UNCHANGED <<answer, promised>>
    /\ UNCHANGED <<remote, work, req, locals, asked, counters>>

\* The remote takes a push only if it is a fast-forward.
Forced(m) == TRUE
Accepts(m) == IsPrefix(remote, head[m])

IgnoresRejection(p) ==
    /\ pc[p] = "push"
    /\ remote' = IF Accepts(M(p)) THEN head[M(p)] ELSE remote
    /\ Goto(p, "stamp")
    /\ UNCHANGED <<checkouts, req, answer, locals, asked, promised, counters>>

Push(p) ==
    /\ pc[p] = "push"
    /\ IF Accepts(M(p))
         THEN remote' = head[M(p)] /\ Goto(p, "stamp") /\ UNCHANGED answer
         ELSE Return(p, "error") /\ UNCHANGED remote
    /\ UNCHANGED <<checkouts, req, locals, asked, promised, counters>>

Stamp(p) ==
    /\ pc[p] = "stamp"
    /\ Stamps(M(p))
    /\ Return(p, "ok") /\ Promise(p)
    /\ UNCHANGED <<remote, head, work, req, locals, asked, counters>>

-----------------------------------------------------------------------------
(* A read is answered from the files of the checkout: a version of which   *)
(* only some files are written is readable once its Markdown file is there.*)

Read(p) ==
    /\ pc[p] = "read"
    /\ LET here == Files(p)[req[p].key] IN
         \/ here = None /\ Return(p, "notfound")
         \/ here # None /\ Return(p, "ok")
         \/ here = Partial /\ Return(p, "error")
    /\ UNCHANGED <<remote, checkouts, req, locals, asked, promised, counters>>

-----------------------------------------------------------------------------
(* What the processes do not control.                                      *)

\* A git command or a file operation fails.  A read that cannot refresh goes
\* on with the checkout as it is (allowStaleReadCache); a refresh whose pull
\* fails while its fetch works leaves the branch where it was.
Fail(p) ==
    /\ troubles < MaxTroubles /\ troubles' = troubles + 1
    /\ \/ /\ pc[p] \notin {"idle", "reply"} /\ ~(pc[p] = "refresh" /\ req[p].op = "get")
          /\ Return(p, "error") /\ UNCHANGED stamped
       \/ /\ pc[p] = "refresh"
          /\ Stamps(M(p)) \/ (req[p].op = "get" /\ UNCHANGED stamped)
          /\ Goto(p, FirstStep(req[p].op)) /\ UNCHANGED answer
    /\ UNCHANGED <<remote, head, work, req, locals, asked, promised, calls, edits>>

\* The user interrupts the command.
Kill(p) ==
    /\ troubles < MaxTroubles /\ troubles' = troubles + 1
    /\ pc[p] # "idle" /\ Exit(p)
    /\ UNCHANGED <<remote, checkouts, asked, promised, calls, edits>>

\* Somebody commits to the remote with git itself.
Edit ==
    /\ edits < MaxEdits /\ edits' = edits + 1
    /\ \E e \in Edits :
         /\ Last(remote).tree[e[1]] # e[2]
         /\ remote' = Append(remote, [Last(remote) EXCEPT !.tree[e[1]] = e[2], !.by = None])
    /\ UNCHANGED <<checkouts, pc, req, answer, locals, asked, promised, calls, troubles>>

Finished == /\ calls = MaxCalls /\ \A p \in Procs : pc[p] = "idle"
            /\ UNCHANGED vars

Write(p) == \/ CheckSkill(p) \/ CheckAgentsMD(p) \/ CheckDelete(p) \/ RemoveOld(p)
            \/ WriteFirst(p) \/ WriteRest(p) \/ ImportItem(p) \/ ImportDone(p)
            \/ CommitAll(p) \/ Push(p) \/ Stamp(p)

Next == \/ \E p \in Procs : \/ Begin(p) \/ Clone(p) \/ Refresh(p) \/ Write(p) \/ Read(p)
                            \/ Reply(p) \/ Fail(p) \/ Kill(p)
        \/ Edit \/ Finished

Spec == Init /\ [][Next]_vars

-----------------------------------------------------------------------------
Labels == {"idle", "clone", "refresh", "check", "remove", "write", "writing", "import",
           "commit", "push", "stamp", "read", "reply"}

TypeOK ==
    /\ remote \in Seq(Commit) /\ remote # <<>>
    /\ head \in [Machines -> Seq(Commit)]
    /\ work \in [Machines -> Tree]
    /\ stamped \in [Machines -> BOOLEAN]
    /\ pc \in [Procs -> Labels]
    /\ req \in [Procs -> Request \cup {None}]
    /\ answer \in [Procs -> {"none", "ok", "exists", "notfound", "error"}]
    /\ item \in [Procs -> Item \cup {None}]
    /\ todo \in [Procs -> Seq(Item)]
    /\ settled \in [Procs -> SUBSET Item]
    /\ wrote \in [Procs -> BOOLEAN]
    /\ asked \subseteq Requests
    /\ calls \in Nat /\ edits \in Nat /\ troubles \in Nat

Replaces(r, k) == r.key = k /\ (r.op = "delete" \/ (r.op = "publish" /\ r.force))
Puts(r, k, x) == \/ r.op = "publish" /\ <<r.key, r.content>> = <<k, x>>
                 \/ r.op = "import" /\ <<k, x>> \in ToSet(r.items)

(* The remote's history only grows, and in what skuare adds to it a        *)
(* published version is changed or deleted only if some call asked for     *)
(* that, and a content appears only where some call put it: stale          *)
(* checkouts, interrupted commands and left-over files never overwrite     *)
(* what others have published (writeSkillPayload, writeAgentsMD,           *)
(* deleteSkill, importResources, commitAndPush).                           *)
Justified(old, new, k) ==
    /\ old \in Contents => \E r \in asked : Replaces(r, k)
    /\ new \in Contents => \E r \in asked : Puts(r, k, new)
RemoteIsImmutable ==
    [][/\ IsPrefix(remote, remote')
       /\ \A i \in Len(remote) + 1 .. Len(remote') : remote'[i].by # None =>
            \A k \in Keys : remote'[i].tree[k] # remote'[i - 1].tree[k] =>
                Justified(remote'[i - 1].tree[k], remote'[i].tree[k], k)]_vars

(* When nobody is working, what every call answered with success has       *)
(* promised is in the remote: the branch it left in the checkout is part   *)
(* of the remote's history, and its last commit holds the promised         *)
(* versions (publishSkill, publishAgentsMD, deleteSkill, deleteAgentsMD,   *)
(* commitAndPush).                                                         *)
Kept(pr) == /\ IsPrefix(pr.head, remote)
            /\ \A w \in pr.want : Last(pr.head).tree[w[1]] = w[2]
AllIdle == \A p \in Procs : pc[p] = "idle"
AnsweredIsPublished ==
    AllIdle => \A pr \in promised : pr.op \in {"publish", "delete"} => Kept(pr)

(* The same for the versions an import reports as imported or unchanged    *)
(* (importResources).                                                      *)
ImportedIsPublished ==
    AllIdle => \A pr \in promised : pr.op = "import" => Kept(pr)

(* A write starts from what the remote holds: once the forced refresh is   *)
(* passed without an error, the checkout contains the remote's history     *)
(* (refresh, publishSkill).                                                *)
WritesStartFromRemote ==
    [][\A p \in Procs :
         pc[p] = "refresh" /\ pc'[p] \in {"check", "import"} =>
            IsPrefix(remote, head'[M(p)])]_vars
=============================================================================
