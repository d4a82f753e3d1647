------------------------------- MODULE FSStore -------------------------------
(***************************************************************************)
(* The file-system store of skuare-svc (internal/store/fs_store.go).       *)
(*                                                                         *)
(* A version lives in <specDir>/<author>/<skill>/<version>/.  The list of  *)
(* versions is one shared file, .skuare/index.json.  Create and Delete     *)
(* hold a file lock per skill; Reindex, GetVersion and Validate hold none. *)
(* Each action below is one file-system call of a handler; the calls of    *)
(* different workers interleave freely.  A worker is one request being     *)
(* served, by this process or by another one on the same directory (flock  *)
(* excludes both).                                                         *)
(*                                                                         *)
(* Data is abstracted: the files of one version are a member of Contents,  *)
(* an entry of index.json keeps the fields that locate a version, and the  *)
(* JSON list is the set of its entries.                                    *)
(***************************************************************************)
EXTENDS Naturals, FiniteSets

CONSTANTS
    Skills, Versions, Authors, Contents,
    Hidden,       \* authors whose directory findSkillVersionDir and Reindex skip
    Workers,
    Requests,     \* the calls that clients make
    MaxCalls,     \* bound: calls begun in one behaviour
    MaxFaults,    \* bound: file-system calls that return an error
    MaxCrashes,   \* bound: crashes of the server
    None,         \* nothing: no directory, no file, no owner, no author
    Partial,      \* a directory of which RemoveAll has removed some files
    Corrupt       \* an index file that json.Unmarshal rejects

Ops == {"create", "delete", "reindex", "get", "validate"}

Request == [op : Ops, skill : Skills, version : Versions,
            author : Authors, content : Contents, force : BOOLEAN]

ASSUME RequestsAssumption == Requests \subseteq Request
ASSUME HiddenAssumption == Hidden \subseteq Authors
ASSUME SentinelAssumption ==
    /\ None \notin Request \cup Workers \cup Authors \cup Contents
    /\ None # Partial /\ Partial \notin Contents
    /\ \A i \in SUBSET [skill : Skills, version : Versions, author : Authors] :
         i \notin {None, Corrupt}
ASSUME BoundAssumption == {MaxCalls, MaxFaults, MaxCrashes} \subseteq Nat

Dir == Authors \X Skills \X Versions
Entry == [skill : Skills, version : Versions, author : Authors]
IndexFile == (SUBSET Entry) \cup {Corrupt}

VARIABLES
    live,      \* live[a, s, v]: what the version directory holds
    bak,       \* .bak-<time> directories, with what they hold
    parents,   \* the <author>/<skill> directories that exist
    kept,      \* history: the content last installed and not deleted since
    index,     \* .skuare/index.json
    idxTmp,    \* .skuare/index.json.tmp
    fd,        \* where the index file a worker is writing is linked now
    lock,      \* owner of .skuare/locks/<skill>.lock
    pc, req, answer, \* a worker's next call, its request and its reply
    home,      \* existingDir / versionDir: the author found
    saved,     \* what the backup directory or the first read held
    snap,      \* the entries held in memory
    todo,      \* directory listings still to visit
    touched,   \* history: a read's version changed while it was running, a
               \* reindex overlapped another call or could not list a directory
    calls, faults, crashes

disk == <<live, bak, parents, kept>>
idx == <<index, idxTmp, fd>>
locals == <<home, saved, snap, todo>>
counters == <<calls, faults, crashes>>
vars == <<disk, idx, lock, pc, req, answer, locals, touched, counters>>

Listing == [authors : SUBSET Authors, skills : SUBSET (Authors \X Skills),
            versions : SUBSET Dir]
NoListing == [authors |-> {}, skills |-> {}, versions |-> {}]
Emptyfd == [w \in Workers |-> "none"]

Init ==
    /\ live = [d \in Dir |-> None]
    /\ bak = {}
    /\ parents = {}
    /\ kept = [x \in Skills \X Versions |-> None]
    /\ index = {}                      \* NewFSStore writes an empty index
    /\ idxTmp = None
    /\ fd = Emptyfd
    /\ lock = [s \in Skills |-> None]
    /\ pc = [w \in Workers |-> "idle"]
    /\ req = [w \in Workers |-> None]
    /\ answer = [w \in Workers |-> "none"]
    /\ home = [w \in Workers |-> None]
    /\ saved = [w \in Workers |-> None]
    /\ snap = [w \in Workers |-> {}]
    /\ todo = [w \in Workers |-> NoListing]
    /\ touched = [w \in Workers |-> FALSE]
    /\ calls = 0 /\ faults = 0 /\ crashes = 0

-----------------------------------------------------------------------------
Visible == Authors \ Hidden
Homes(s, v) == {a \in Visible : live[<<a, s, v>>] # None}

Target(w) == <<req[w].author, req[w].skill, req[w].version>>
HomeDir(w) == <<home[w], req[w].skill, req[w].version>>
Same(e, r) == e.skill = r.skill /\ e.version = r.version

Goto(w, l) == pc' = [pc EXCEPT ![w] = l]
Return(w, a) == Goto(w, "reply") /\ answer' = [answer EXCEPT ![w] = a]

\* History: readers of <<s, v>> in progress have the version change under them.
Touch(s, v) ==
    touched' = [x \in Workers |->
        \/ touched[x]
        \/ /\ pc[x] # "idle" /\ req[x].op \in {"get", "validate"}
           /\ req[x].skill = s /\ req[x].version = v]

\* Create refuses a version that exists, unless the request says force.
OverwritesAlways(r) == TRUE
Overwrites(r) == r.force

\* flock(LOCK_EX) blocks while another descriptor holds the lock; the deferred
\* unlock runs on every path out of the handler.
LockIgnored(s) == TRUE
LockFree(s) == lock[s] = None
UnlockedOnSuccess(w) ==
    IF answer[w] = "ok" THEN [s \in Skills |-> IF lock[s] = w THEN None ELSE lock[s]]
    ELSE lock
Unlocked(w) == [s \in Skills |-> IF lock[s] = w THEN None ELSE lock[s]]

\* The old version is renamed aside, and renamed back if the new one cannot
\* take its place.
RemovedInstead(w) == {}
MovedAside(w) == {[dir |-> HomeDir(w), content |-> live[HomeDir(w)]]}
NotPutBack(w) == live
PutBack(w) == [live EXCEPT ![HomeDir(w)] = saved[w]]

\* cleanupEmptyParents: best effort, every error is swallowed.
CleanupParents(a, s, baks) ==
    \/ parents' = parents
    \/ /\ \A v \in Versions : live[<<a, s, v>>] = None
       /\ \A b \in baks : b.dir[1] # a \/ b.dir[2] # s
       /\ parents' = parents \ {<<a, s>>}

-----------------------------------------------------------------------------
(* A call arrives, and is answered; the deferred unlock is part of Reply.  *)

FirstStep(op) ==
    CASE op \in {"create", "delete"} -> "lock"
      [] op = "reindex" -> "readRoot"
      [] op = "get" -> "getIndex"
      [] op = "validate" -> "findRoot"

Begin(w) ==
    /\ pc[w] = "idle" /\ calls < MaxCalls
    /\ \E r \in Requests :
         /\ req' = [req EXCEPT ![w] = r]
         /\ Goto(w, FirstStep(r.op))
         /\ touched' = [x \in Workers |->
              \/ x = w /\ r.op = "reindex" /\ \E y \in Workers : pc[y] # "idle"
              \/ x # w /\ touched[x]
              \/ x # w /\ pc[x] # "idle" /\ req[x].op = "reindex"]
    /\ calls' = calls + 1
    /\ UNCHANGED <<disk, idx, lock, answer, locals, faults, crashes>>

Reply(w) ==
    /\ pc[w] = "reply"
    /\ Goto(w, "idle")
    /\ lock' = Unlocked(w)
    /\ req' = [req EXCEPT ![w] = None]
    /\ answer' = [answer EXCEPT ![w] = "none"]
    /\ home' = [home EXCEPT ![w] = None]
    /\ saved' = [saved EXCEPT ![w] = None]
    /\ snap' = [snap EXCEPT ![w] = {}]
    /\ todo' = [todo EXCEPT ![w] = NoListing]
    /\ touched' = [touched EXCEPT ![w] = FALSE]
    /\ UNCHANGED <<disk, idx, counters>>

Acquire(w) ==
    /\ pc[w] = "lock" /\ LockFree(req[w].skill)
    /\ lock' = [lock EXCEPT ![req[w].skill] = w]
    /\ Goto(w, "find")
    /\ UNCHANGED <<disk, idx, req, answer, locals, touched, counters>>

-----------------------------------------------------------------------------
(* Create: stage in a temporary directory, move the old version aside,     *)
(* move the new one in, drop the old one, upsert the index.                *)

CreateFind(w) ==
    /\ pc[w] = "find" /\ req[w].op = "create"
    /\ LET homes == Homes(req[w].skill, req[w].version) IN
         \/ /\ homes = {}
            /\ Goto(w, "stage") /\ UNCHANGED <<home, answer>>
         \/ /\ homes # {} /\ ~Overwrites(req[w])
            /\ Return(w, "exists") /\ UNCHANGED home
         \/ /\ Overwrites(req[w])
            /\ \E a \in homes : home' = [home EXCEPT ![w] = a]
            /\ Goto(w, "stage") /\ UNCHANGED answer
    /\ UNCHANGED <<disk, idx, lock, req, saved, snap, todo, touched, counters>>

Stage(w) ==
    /\ pc[w] = "stage"
    /\ parents' = parents \cup {<<req[w].author, req[w].skill>>}
    /\ Goto(w, IF home[w] = None THEN "install" ELSE "backup")
    /\ UNCHANGED <<live, bak, kept, idx, lock, req, answer, locals, touched, counters>>

Backup(w) ==
    /\ pc[w] = "backup"
    /\ saved' = [saved EXCEPT ![w] = live[HomeDir(w)]]
    /\ bak' = bak \cup MovedAside(w)
    /\ live' = [live EXCEPT ![HomeDir(w)] = None]
    /\ Touch(req[w].skill, req[w].version)
    /\ Goto(w, "install")
    /\ UNCHANGED <<parents, kept, idx, lock, req, answer, home, snap, todo, counters>>

Install(w) ==
    /\ pc[w] = "install" /\ live[Target(w)] = None
    /\ live' = [live EXCEPT ![Target(w)] = req[w].content]
    /\ kept' = [kept EXCEPT ![<<req[w].skill, req[w].version>>] = req[w].content]
    /\ Touch(req[w].skill, req[w].version)
    /\ Goto(w, IF home[w] = None THEN "readIndex" ELSE "discard")
    /\ UNCHANGED <<bak, parents, idx, lock, req, answer, locals, counters>>

\* rename(2) refuses a target directory that is not empty: only a hidden
\* author's version can be there, findSkillVersionDir having missed it.
InstallBlocked(w) ==
    /\ pc[w] = "install" /\ live[Target(w)] # None
    /\ IF home[w] = None
         THEN Return(w, "error")
         ELSE Goto(w, "restore") /\ UNCHANGED answer
    /\ UNCHANGED <<disk, idx, lock, req, locals, touched, counters>>

RestoreAndSucceed(w) ==
    /\ pc[w] = "restore"
    /\ live' = PutBack(w)
    /\ bak' = bak \ {[dir |-> HomeDir(w), content |-> saved[w]]}
    /\ Touch(req[w].skill, req[w].version)
    /\ Return(w, "ok")
    /\ UNCHANGED <<parents, kept, idx, lock, req, locals, counters>>

Restore(w) ==
    /\ pc[w] = "restore"
    /\ live' = PutBack(w)
    /\ bak' = bak \ {[dir |-> HomeDir(w), content |-> saved[w]]}
    /\ Touch(req[w].skill, req[w].version)
    /\ Return(w, "error")
    /\ UNCHANGED <<parents, kept, idx, lock, req, locals, counters>>

Discard(w) ==
    /\ pc[w] = "discard"
    /\ bak' = bak \ {[dir |-> HomeDir(w), content |-> saved[w]]}
    /\ CleanupParents(home[w], req[w].skill, bak')
    /\ Goto(w, "readIndex")
    /\ UNCHANGED <<live, kept, idx, lock, req, answer, locals, touched, counters>>

-----------------------------------------------------------------------------
(* Delete: remove the directory, drop the index entries, clean parents.    *)

DeleteFind(w) ==
    /\ pc[w] = "find" /\ req[w].op = "delete"
    /\ LET homes == Homes(req[w].skill, req[w].version) IN
         \/ /\ homes = {}
            /\ Return(w, "notfound") /\ UNCHANGED home
         \/ /\ \E a \in homes : home' = [home EXCEPT ![w] = a]
            /\ Goto(w, "remove") /\ UNCHANGED answer
    /\ UNCHANGED <<disk, idx, lock, req, saved, snap, todo, touched, counters>>

\* RemoveAll takes the files one by one, then the directory.
RemoveFiles(w) ==
    /\ pc[w] = "remove"
    /\ live' = [live EXCEPT ![HomeDir(w)] = Partial]
    /\ kept' = [kept EXCEPT ![<<req[w].skill, req[w].version>>] = None]
    /\ Touch(req[w].skill, req[w].version)
    /\ Goto(w, "removing")
    /\ UNCHANGED <<bak, parents, idx, lock, req, answer, locals, counters>>

RemoveDir(w) ==
    /\ pc[w] = "removing"
    /\ live' = [live EXCEPT ![HomeDir(w)] = None]
    /\ Touch(req[w].skill, req[w].version)
    /\ Goto(w, "readIndex")
    /\ UNCHANGED <<bak, parents, kept, idx, lock, req, answer, locals, counters>>

DeleteCleanup(w) ==
    /\ pc[w] = "cleanup"
    /\ CleanupParents(home[w], req[w].skill, bak)
    /\ Return(w, "ok")
    /\ UNCHANGED <<live, bak, kept, idx, lock, req, locals, touched, counters>>

-----------------------------------------------------------------------------
(* The index: upsertIndex, deleteIndexEntry and writeIndex.  Every writer  *)
(* uses the same index.json.tmp and no lock covers the file.               *)

NewEntryWithoutPath(r) == [skill |-> r.skill, version |-> r.version, author |-> None]
NewEntry(r) == [skill |-> r.skill, version |-> r.version, author |-> r.author]

\* upsertIndex replaces the first entry of that skill and version, or appends.
Upserts(i, r) ==
    LET old == {e \in i : Same(e, r)} IN
    IF old = {} THEN {i \cup {NewEntry(r)}}
    ELSE {(i \ {e}) \cup {NewEntry(r)} : e \in old}

Dropped(i, r) == {e \in i : ~Same(e, r)}

ReadIndex(w) ==
    /\ pc[w] = "readIndex"
    /\ IF index = Corrupt
         THEN Return(w, "error") /\ UNCHANGED snap
         ELSE /\ \E new \in IF req[w].op = "create" THEN Upserts(index, req[w])
                            ELSE {Dropped(index, req[w])} :
                   snap' = [snap EXCEPT ![w] = new]
              /\ Goto(w, "openTmp") /\ UNCHANGED answer
    /\ UNCHANGED <<disk, idx, lock, req, home, saved, todo, touched, counters>>

\* os.WriteFile opens with O_TRUNC; an empty file reads as an empty index.
OpenTmp(w) ==
    /\ pc[w] = "openTmp"
    /\ idxTmp' = {}
    /\ fd' = [fd EXCEPT ![w] = "tmp"]
    /\ Goto(w, "writeTmp")
    /\ UNCHANGED <<disk, index, lock, req, answer, locals, touched, counters>>

\* Writing at offset 0 over a file another worker has just written may leave
\* the tail of the longer text behind.
Overwritten(old, new) == IF old = {} THEN {new} ELSE {new, Corrupt}

WriteTmp(w) ==
    /\ pc[w] = "writeTmp"
    /\ \/ /\ fd[w] = "tmp" /\ idxTmp' \in Overwritten(idxTmp, snap[w]) /\ UNCHANGED index
       \/ /\ fd[w] = "index" /\ index' \in Overwritten(index, snap[w]) /\ UNCHANGED idxTmp
       \/ /\ fd[w] = "gone" /\ UNCHANGED <<index, idxTmp>>
    /\ fd' = [fd EXCEPT ![w] = "none"]
    /\ Goto(w, "renameIndex")
    /\ UNCHANGED <<disk, lock, req, answer, locals, touched, counters>>

\* The rename takes the file along with every descriptor open on it.
Moved(f) == CASE f = "tmp" -> "index" [] f = "index" -> "gone" [] OTHER -> f

RenameIndex(w) ==
    /\ pc[w] = "renameIndex"
    /\ IF idxTmp = None
         THEN Return(w, "error") /\ UNCHANGED idx
         ELSE /\ index' = idxTmp
              /\ idxTmp' = None
              /\ fd' = [x \in Workers |-> Moved(fd[x])]
              /\ IF req[w].op = "delete"
                   THEN Goto(w, "cleanup") /\ UNCHANGED answer
                   ELSE Return(w, "ok")
    /\ UNCHANGED <<disk, lock, req, locals, touched, counters>>

-----------------------------------------------------------------------------
(* Reindex: three nested ReadDir loops, then writeIndex.  No lock.         *)

\* Set what is left to visit at each level of the nested listings.
Visit(w, as, ss, vs) ==
    todo' = [todo EXCEPT ![w] = [authors |-> as, skills |-> ss, versions |-> vs]]

AuthorDirs == {a \in Visible : \E s \in Skills : <<a, s>> \in parents}

ReindexRoot(w) ==
    /\ pc[w] = "readRoot"
    /\ Visit(w, AuthorDirs, {}, {})
    /\ Goto(w, "scan")
    /\ UNCHANGED <<disk, idx, lock, req, answer, home, saved, snap, touched, counters>>

ReindexAuthor(w) ==
    /\ pc[w] = "scan" /\ todo[w].skills = {} /\ todo[w].versions = {}
    /\ \E a \in todo[w].authors :
         Visit(w, todo[w].authors \ {a}, {p \in parents : p[1] = a}, {})
    /\ UNCHANGED <<disk, idx, lock, pc, req, answer, home, saved, snap, touched, counters>>

ReindexSkill(w) ==
    /\ pc[w] = "scan" /\ todo[w].versions = {}
    /\ \E p \in todo[w].skills :
         Visit(w, todo[w].authors, todo[w].skills \ {p},
               {d \in Dir : d[1] = p[1] /\ d[2] = p[2] /\ live[d] # None})
    /\ UNCHANGED <<disk, idx, lock, pc, req, answer, home, saved, snap, touched, counters>>

\* validateVersionDir: the version is listed if its SKILL.md can be read.
ReindexVersion(w) ==
    /\ pc[w] = "scan"
    /\ \E d \in todo[w].versions :
         /\ Visit(w, todo[w].authors, todo[w].skills, todo[w].versions \ {d})
         /\ \/ /\ live[d] # None
               /\ snap' = [snap EXCEPT ![w] =
                    @ \cup {[skill |-> d[2], version |-> d[3], author |-> d[1]]}]
            \/ live[d] \in {None, Partial} /\ UNCHANGED snap
    /\ UNCHANGED <<disk, idx, lock, pc, req, answer, home, saved, touched, counters>>

ReindexWriteEarly(w) ==
    /\ pc[w] = "scan" /\ todo[w].skills = {} /\ todo[w].versions = {}
    /\ Goto(w, "openTmp")
    /\ UNCHANGED <<disk, idx, lock, req, answer, locals, touched, counters>>

ReindexWrite(w) ==
    /\ pc[w] = "scan" /\ todo[w] = NoListing
    /\ Goto(w, "openTmp")
    /\ UNCHANGED <<disk, idx, lock, req, answer, locals, touched, counters>>

-----------------------------------------------------------------------------
(* GetVersion: the index names the directory, then the files are read.     *)

GetIndex(w) ==
    /\ pc[w] = "getIndex"
    /\ \/ index = Corrupt /\ Return(w, "error") /\ UNCHANGED home
       \/ /\ index # Corrupt /\ \A e \in index : ~Same(e, req[w])
          /\ Return(w, "notfound") /\ UNCHANGED home
       \/ /\ index # Corrupt
          /\ \E e \in index : Same(e, req[w]) /\ home' = [home EXCEPT ![w] = e.author]
          /\ Goto(w, "readFirst") /\ UNCHANGED answer
    /\ UNCHANGED <<disk, idx, lock, req, saved, snap, todo, touched, counters>>

ReadFirst(w) ==
    /\ pc[w] = "readFirst"
    /\ IF live[HomeDir(w)] = None
         THEN Return(w, "notfound") /\ UNCHANGED saved
         ELSE /\ saved' = [saved EXCEPT ![w] = live[HomeDir(w)]]
              /\ Goto(w, "readRest") /\ UNCHANGED answer
    /\ UNCHANGED <<disk, idx, lock, req, home, snap, todo, touched, counters>>

\* listFiles skips what it cannot read: whatever it meets, the reply is 200.
ReadRest(w) ==
    /\ pc[w] = "readRest"
    /\ Return(w, IF live[HomeDir(w)] = saved[w] THEN "ok" ELSE "torn")
    /\ UNCHANGED <<disk, idx, lock, req, locals, touched, counters>>

-----------------------------------------------------------------------------
(* Validate: findSkillVersionDir without the lock, then read SKILL.md.     *)

FindRoot(w) ==
    /\ pc[w] = "findRoot"
    /\ Visit(w, AuthorDirs, {}, {})
    /\ Goto(w, "probe")
    /\ UNCHANGED <<disk, idx, lock, req, answer, home, saved, snap, touched, counters>>

ProbesOne(w) == TRUE
EndOfProbes(w) == todo[w].authors = {}

Probe(w) ==
    /\ pc[w] = "probe"
    /\ \/ /\ EndOfProbes(w)
          /\ Return(w, "notfound") /\ UNCHANGED <<todo, home>>
       \/ \E a \in todo[w].authors :
            IF live[<<a, req[w].skill, req[w].version>>] = None
              THEN /\ Visit(w, todo[w].authors \ {a}, {}, {})
                   /\ UNCHANGED <<pc, answer, home>>
              ELSE /\ home' = [home EXCEPT ![w] = a]
                   /\ Goto(w, "readMD") /\ UNCHANGED <<todo, answer>>
    /\ UNCHANGED <<disk, idx, lock, req, saved, snap, touched, counters>>

ReadMD(w) ==
    /\ pc[w] = "readMD"
    /\ \/ live[HomeDir(w)] # None /\ Return(w, "ok")
       \/ live[HomeDir(w)] \in {None, Partial} /\ Return(w, "notfound")
    /\ UNCHANGED <<disk, idx, lock, req, locals, touched, counters>>

-----------------------------------------------------------------------------
(* Faults: one file-system call of a step returns an error.                *)

Fallible == {"lock", "find", "stage", "backup", "remove", "removing", "discard",
             "readIndex", "openTmp", "renameIndex", "readRoot", "getIndex",
             "readFirst", "findRoot", "probe", "readMD", "restore"}

\* Reindex passes over a directory or a SKILL.md that it cannot read.
Skipped(w) ==
    \/ /\ \E a \in todo[w].authors : Visit(w, todo[w].authors \ {a}, {}, {})
       /\ todo[w].skills = {} /\ todo[w].versions = {}
    \/ /\ \E p \in todo[w].skills : Visit(w, todo[w].authors, todo[w].skills \ {p}, {})
       /\ todo[w].versions = {}
    \/ \E d \in todo[w].versions :
         Visit(w, todo[w].authors, todo[w].skills, todo[w].versions \ {d})

Fail(w) ==
    /\ faults < MaxFaults /\ faults' = faults + 1
    /\ \/ /\ pc[w] \in Fallible
          /\ Return(w, "error") /\ UNCHANGED <<idx, todo, touched>>
       \/ /\ pc[w] = "install"
          /\ IF home[w] = None THEN Return(w, "error")
             ELSE Goto(w, "restore") /\ UNCHANGED answer
          /\ UNCHANGED <<idx, todo, touched>>
       \/ /\ pc[w] = "readRest" /\ Return(w, "torn")
          /\ touched' = [touched EXCEPT ![w] = TRUE]
          /\ UNCHANGED <<idx, todo>>
       \/ /\ pc[w] = "scan" /\ Skipped(w)
          /\ touched' = [touched EXCEPT ![w] = TRUE]
          /\ UNCHANGED <<idx, pc, answer>>
       \/ /\ pc[w] = "writeTmp"          \* a short write
          /\ idxTmp' = IF fd[w] = "tmp" THEN Corrupt ELSE idxTmp
          /\ index' = IF fd[w] = "index" THEN Corrupt ELSE index
          /\ fd' = [fd EXCEPT ![w] = "none"]
          /\ Return(w, "error") /\ UNCHANGED <<todo, touched>>
    /\ UNCHANGED <<disk, lock, req, home, saved, snap, calls, crashes>>

\* The process dies and is started again: locks and memory go, files stay.
Crash ==
    /\ crashes < MaxCrashes /\ crashes' = crashes + 1
    /\ \E w \in Workers : pc[w] # "idle"
    /\ pc' = [w \in Workers |-> "idle"]
    /\ req' = [w \in Workers |-> None]
    /\ answer' = [w \in Workers |-> "none"]
    /\ lock' = [s \in Skills |-> None]
    /\ fd' = Emptyfd
    /\ home' = [w \in Workers |-> None]
    /\ saved' = [w \in Workers |-> None]
    /\ snap' = [w \in Workers |-> {}]
    /\ todo' = [w \in Workers |-> NoListing]
    /\ touched' = [w \in Workers |-> FALSE]
    /\ UNCHANGED <<disk, index, idxTmp, calls, faults>>

-----------------------------------------------------------------------------
Create(w) == \/ CreateFind(w) \/ Stage(w) \/ Backup(w) \/ Install(w)
             \/ InstallBlocked(w) \/ Restore(w) \/ Discard(w)
Delete(w) == DeleteFind(w) \/ RemoveFiles(w) \/ RemoveDir(w) \/ DeleteCleanup(w)
IndexWrite(w) == ReadIndex(w) \/ OpenTmp(w) \/ WriteTmp(w) \/ RenameIndex(w)
Reindex(w) == \/ ReindexRoot(w) \/ ReindexAuthor(w) \/ ReindexSkill(w)
              \/ ReindexVersion(w) \/ ReindexWrite(w)
GetVersion(w) == GetIndex(w) \/ ReadFirst(w) \/ ReadRest(w)
Validate(w) == FindRoot(w) \/ Probe(w) \/ ReadMD(w)

\* What a worker does for the call it is serving.
Serve(w) == \/ Acquire(w) \/ Create(w) \/ Delete(w) \/ IndexWrite(w)
            \/ Reindex(w) \/ GetVersion(w) \/ Validate(w) \/ Reply(w)

\* The clients have nothing more to ask.
Finished == /\ calls = MaxCalls /\ \A w \in Workers : pc[w] = "idle"
            /\ UNCHANGED vars

Next == \/ \E w \in Workers : Begin(w) \/ Serve(w) \/ Fail(w)
        \/ Crash
        \/ Finished

Spec == Init /\ [][Next]_vars
FairSpec == Spec /\ \A w \in Workers : WF_vars(Serve(w))

-----------------------------------------------------------------------------
Labels == {"idle", "reply", "install", "writeTmp", "scan", "readRest", "cleanup"}
          \cup Fallible
Answers == {"none", "ok", "exists", "notfound", "error", "torn"}

DiskOK ==
    /\ live \in [Dir -> Contents \cup {None, Partial}]
    /\ bak \subseteq [dir : Dir, content : Contents \cup {None, Partial}]
    /\ parents \subseteq Authors \X Skills
    /\ kept \in [Skills \X Versions -> Contents \cup {None}]
IndexOK ==
    /\ index \in IndexFile /\ idxTmp \in IndexFile \cup {None}
    /\ fd \in [Workers -> {"none", "tmp", "index", "gone"}]
ControlOK ==
    /\ lock \in [Skills -> Workers \cup {None}]
    /\ pc \in [Workers -> Labels]
    /\ req \in [Workers -> Request \cup {None}]
    /\ answer \in [Workers -> Answers]
LocalsOK ==
    /\ home \in [Workers -> Authors \cup {None}]
    /\ saved \in [Workers -> Contents \cup {None, Partial}]
    /\ snap \in [Workers -> SUBSET Entry]
    /\ todo \in [Workers -> Listing]
HistoryOK ==
    /\ touched \in [Workers -> BOOLEAN]
    /\ calls \in Nat /\ faults \in Nat /\ crashes \in Nat

TypeOK == DiskOK /\ IndexOK /\ ControlOK /\ LocalsOK /\ HistoryOK

\* The steps between lockSkill and the return of the handler.
Critical(w) ==
    /\ pc[w] \in {"find", "stage", "backup", "install", "restore", "discard",
                  "remove", "removing", "cleanup", "readIndex",
                  "openTmp", "writeTmp", "renameIndex"}
    /\ req[w].op \in {"create", "delete"}

(* At most one author a reader can see holds a given skill and version, so *)
(* findSkillVersionDir finds the same one whatever order it searches in:   *)
(* a forced Create that moves a version to another author never leaves two *)
(* copies, whatever fails and wherever it crashes (Create, 98-159).        *)
OneHome == \A s \in Skills, v \in Versions :
               \A a, b \in Homes(s, v) : a = b

\* Published and not deleted, and no hidden author is in the way.
Published(s, v) == /\ kept[<<s, v>>] # None
                   /\ \A a \in Hidden : live[<<a, s, v>>] = None

(* The content last installed and not deleted since is still on the disk,  *)
(* in a version directory or in a .bak directory: no failure, crash or     *)
(* interleaving of the swap destroys both copies (Create, 139-159).        *)
NeverLost ==
    \A s \in Skills, v \in Versions : kept[<<s, v>>] # None =>
        \E a \in Authors : \/ live[<<a, s, v>>] = kept[<<s, v>>]
                          \/ [dir |-> <<a, s, v>>, content |-> kept[<<s, v>>]] \in bak

(* Without a crash, and while the disk has failed at most once, a          *)
(* published version is in place whenever no call holds its skill's lock:  *)
(* a forced Create that fails puts the old version back (Create, 147-151). *)
FailedSwapRestores ==
    crashes = 0 /\ faults =< 1 =>
        \A s \in Skills, v \in Versions : Published(s, v) /\ lock[s] = None =>
            \E a \in Authors : live[<<a, s, v>>] = kept[<<s, v>>]

(* What a visible version holds changes only by the call that owns the     *)
(* skill's lock, for that very version, and that call is a Delete or a     *)
(* Create with force (Create, 94-108; Delete, 276-288).                    *)
PublishedIsImmutable ==
    [][\A a \in Visible, s \in Skills, v \in Versions :
         live[<<a, s, v>>] # None /\ live'[<<a, s, v>>] # live[<<a, s, v>>] =>
            \E w \in Workers : /\ lock[s] = w /\ Critical(w)
                              /\ req[w].skill = s /\ req[w].version = v
                              /\ (req[w].op = "delete" \/ req[w].force)]_vars

(* A read that no writer of its version overlapped answers as if it were   *)
(* alone: Validate finds the version exactly when it is there, GetVersion  *)
(* never returns files of two contents (GetVersion, Validate).             *)
UndisturbedReadsAreExact ==
    \A w \in Workers : pc[w] = "reply" /\ ~touched[w] =>
        LET r == req[w]
            homes == Homes(r.skill, r.version) IN
        CASE r.op = "validate" ->
               /\ answer[w] = "ok" => homes # {}
               /\ answer[w] = "notfound" =>
                    \A a \in homes : live[<<a, r.skill, r.version>>] = Partial
          [] r.op = "get" ->
               /\ answer[w] # "torn"
               /\ answer[w] = "ok" => live[HomeDir(w)] = saved[w]
          [] OTHER -> TRUE

Listed == {<<e.author, e.skill, e.version>> : e \in index}
OnDisk == {d \in Dir : live[d] # None /\ d[1] \in Visible}

\* A Reindex that ran alone, listed every directory and answered ok.
Repaired(w) == pc[w] = "reply" /\ req[w].op = "reindex" /\ answer[w] = "ok" /\ ~touched[w]
AllListed ==
    /\ index # Corrupt
    /\ \A s \in Skills, v \in Versions : Published(s, v) =>
             \E a \in Authors : <<a, s, v>> \in Listed

(* A Reindex that ran alone and answered ok has made the index list every  *)
(* version published by a visible author and not deleted, whatever writes  *)
(* to the index were lost or failed before (Reindex, 337-382).             *)
ReindexRepairs ==
    crashes = 0 /\ faults =< 1 => \A w \in Workers : Repaired(w) => AllListed

(* The same after a crash at any point of the calls before it.             *)
RepairAfterCrash == \A w \in Workers : Repaired(w) => AllListed

(* With no lock held, no Reindex running and no fault so far, the index    *)
(* lists exactly the versions on the disk (Create, Delete, upsertIndex,    *)
(* deleteIndexEntry).                                                      *)
IndexMatchesDisk ==
    /\ \A s \in Skills : lock[s] = None
    /\ \A w \in Workers : pc[w] # "idle" => req[w].op # "reindex"
    /\ faults = 0 /\ crashes = 0
    => index # Corrupt /\ Listed = OnDisk

(* Every call is answered: a worker that waits for a skill's lock gets it  *)
(* because each call that holds it lets it go on every path out of it.     *)
EveryCallIsAnswered == \A w \in Workers : pc[w] # "idle" ~> pc[w] = "idle"
=============================================================================
