---------------------------- MODULE FSStoreProofs ----------------------------
(***************************************************************************)
(* TypeOK, OneHome, NeverLost and PublishedIsImmutable of FSStore hold for *)
(* every set of skills, versions, authors, contents, workers and requests, *)
(* and any number of calls, faults and crashes.                            *)
(*                                                                         *)
(* None of them is inductive: that the swap of a forced Create is safe     *)
(* rests on the file lock (Held), on what the label of a worker says of    *)
(* its request and of the author it found (Local), and on what it says of  *)
(* the directories of its version (Swap).                                  *)
(***************************************************************************)
EXTENDS FSStore, TLAPS

LocalOK(w) ==
    /\ pc[w] # "idle" => req[w] \in Request
    /\ pc[w] \in {"lock", "find", "readIndex"} => req[w].op \in {"create", "delete"}
    /\ pc[w] \in {"readRoot", "scan"} => req[w].op = "reindex"
    /\ pc[w] \in {"idle", "lock", "find"} => home[w] = None
    /\ pc[w] \in {"readIndex", "openTmp", "writeTmp", "renameIndex"} /\ req[w].op = "delete" =>
         home[w] \in Visible
    /\ pc[w] \in {"stage", "backup", "install", "restore", "discard"} => req[w].op = "create"
    /\ pc[w] \in {"remove", "removing", "cleanup"} => req[w].op = "delete"
    /\ pc[w] \in {"stage", "backup"} /\ home[w] # None => req[w].force
    /\ pc[w] \in {"stage", "install"} => home[w] \in Visible \cup {None}
    /\ pc[w] \in {"backup", "restore", "discard", "remove", "removing", "cleanup"} =>
         home[w] \in Visible
    /\ pc[w] \in {"readFirst", "readRest", "readMD"} => home[w] \in Authors
Local == \A w \in Workers : LocalOK(w)

Held == \A w \in Workers : Critical(w) => lock[req[w].skill] = w

Key(w) == <<req[w].skill, req[w].version>>
SwapOK(w) ==
    /\ pc[w] \in {"stage", "backup", "remove"} =>
         \A a \in Visible : live[<<a, req[w].skill, req[w].version>>] # None => a = home[w]
    /\ pc[w] \in {"install", "restore"} =>
         \A a \in Visible : live[<<a, req[w].skill, req[w].version>>] = None
    /\ pc[w] = "discard" => live[Target(w)] = kept[Key(w)]
    /\ pc[w] = "removing" => kept[Key(w)] = None
Swap == \A w \in Workers : SwapOK(w)

IInv == TypeOK /\ Local /\ Held /\ Swap /\ OneHome /\ NeverLost

-----------------------------------------------------------------------------
LEMMA TypeInit == Init => TypeOK
  BY SentinelAssumption DEF Init, TypeOK, DiskOK, IndexOK, ControlOK, LocalsOK, HistoryOK,
     Labels, Answers, Emptyfd, NoListing, Listing, IndexFile

LEMMA VisitType ==
    ASSUME todo \in [Workers -> Listing], NEW w \in Workers,
           NEW as, NEW ss, NEW vs, Visit(w, as, ss, vs),
           as \subseteq Authors, ss \subseteq Authors \X Skills, vs \subseteq Dir
    PROVE  todo' \in [Workers -> Listing]
  BY DEF Visit, Listing

LEMMA UpsertsType ==
    ASSUME NEW i \in SUBSET Entry, NEW r \in Request
    PROVE  Upserts(i, r) \subseteq SUBSET Entry
  <1>1. NewEntry(r) \in Entry
    BY DEF NewEntry, Entry, Request
  <1> QED
    BY <1>1 DEF Upserts

LEMMA TypeStep ==
    ASSUME TypeOK, Local, [Next]_vars
    PROVE  TypeOK'
  <1> USE DEF TypeOK
  <1>f. /\ UNCHANGED disk => DiskOK'
        /\ UNCHANGED idx => IndexOK'
        /\ UNCHANGED locals => LocalsOK'
        /\ UNCHANGED <<touched, counters>> => HistoryOK'
    BY DEF disk, idx, locals, counters, DiskOK, IndexOK, LocalsOK, HistoryOK
  <1>1. ASSUME NEW w \in Workers, Acquire(w) PROVE TypeOK'
    BY <1>f, <1>1 DEF Acquire, ControlOK, Goto, Return, Labels, Fallible,
       Answers, Local, LocalOK, Request
  <1>2. ASSUME NEW w \in Workers, CreateFind(w) PROVE TypeOK'
    <2>1. ControlOK'
      BY <1>f, <1>2 DEF CreateFind, ControlOK, Goto, Return, Labels,
         Fallible, Answers, Local, LocalOK, Homes, Visible
    <2>2. LocalsOK'
      BY <1>f, <1>2 DEF CreateFind, LocalsOK, Local, LocalOK, Homes, Visible
    <2> QED
      BY <1>f, <1>2, <2>1, <2>2 DEF CreateFind, locals
  <1>3. ASSUME NEW w \in Workers, Stage(w) PROVE TypeOK'
    BY <1>f, <1>3 DEF Stage, ControlOK, DiskOK, disk, Goto, Return, Labels,
       Fallible, Answers, Local, LocalOK, Request
  <1>4. ASSUME NEW w \in Workers, Backup(w) PROVE TypeOK'
    BY <1>f, <1>4 DEF Backup, ControlOK, DiskOK, LocalsOK, HistoryOK, disk,
       locals, counters, Goto, Return, Labels, Fallible, Answers, Local,
       LocalOK, MovedAside, Touch, HomeDir, Dir, Request, Visible
  <1>5. ASSUME NEW w \in Workers, Install(w) PROVE TypeOK'
    BY <1>f, <1>5 DEF Install, ControlOK, DiskOK, HistoryOK, disk, counters,
       Goto, Return, Labels, Fallible, Answers, Local, LocalOK, Target,
       Touch, Dir, Request
  <1>6. ASSUME NEW w \in Workers, InstallBlocked(w) PROVE TypeOK'
    BY <1>f, <1>6 DEF InstallBlocked, ControlOK, Goto, Return, Labels,
       Fallible, Answers, Local, LocalOK
  <1>7. ASSUME NEW w \in Workers, Restore(w) PROVE TypeOK'
    <2>1. ControlOK'
      BY <1>f, <1>7 DEF Restore, ControlOK, Goto, Return, Labels, Fallible,
         Answers, Local, LocalOK, PutBack, Touch, HomeDir, Dir, Request,
         Visible
    <2>2. DiskOK'
      BY <1>7 DEF Restore, DiskOK, LocalsOK, Local, LocalOK, PutBack, HomeDir,
         Dir, Request, Visible
    <2>3. HistoryOK'
      BY <1>7 DEF Restore, HistoryOK, Touch, counters
    <2> QED
      BY <1>f, <1>7, <2>1, <2>2, <2>3 DEF Restore, disk, counters
  <1>8. ASSUME NEW w \in Workers, Discard(w) PROVE TypeOK'
    BY <1>f, <1>8 DEF Discard, ControlOK, DiskOK, disk, Goto, Return,
       Labels, Fallible, Answers, Local, LocalOK, CleanupParents, HomeDir,
       Dir, Visible
  <1>9. ASSUME NEW w \in Workers, DeleteFind(w) PROVE TypeOK'
    <2>1. ControlOK'
      BY <1>f, <1>9 DEF DeleteFind, ControlOK, Goto, Return, Labels,
         Fallible, Answers, Local, LocalOK, Homes, Visible
    <2>2. LocalsOK'
      BY <1>f, <1>9 DEF DeleteFind, LocalsOK, Local, LocalOK, Homes, Visible
    <2> QED
      BY <1>f, <1>9, <2>1, <2>2 DEF DeleteFind, locals
  <1>10. ASSUME NEW w \in Workers, RemoveFiles(w) PROVE TypeOK'
    BY <1>f, <1>10 DEF RemoveFiles, ControlOK, DiskOK, HistoryOK, disk,
       counters, Goto, Return, Labels, Fallible, Answers, Local, LocalOK,
       Touch, HomeDir, Dir, Request
  <1>11. ASSUME NEW w \in Workers, RemoveDir(w) PROVE TypeOK'
    BY <1>f, <1>11 DEF RemoveDir, ControlOK, DiskOK, HistoryOK, disk,
       counters, Goto, Return, Labels, Fallible, Answers, Local, LocalOK,
       Touch, HomeDir, Dir, Request
  <1>12. ASSUME NEW w \in Workers, DeleteCleanup(w) PROVE TypeOK'
    BY <1>f, <1>12 DEF DeleteCleanup, ControlOK, DiskOK, disk, Goto, Return,
       Labels, Fallible, Answers, Local, LocalOK, CleanupParents
  <1>13. ASSUME NEW w \in Workers, ReadIndex(w) PROVE TypeOK'
    <2>1. ControlOK'
      BY <1>f, <1>13 DEF ReadIndex, ControlOK, Goto, Return, Labels,
         Fallible, Answers, Local, LocalOK, Upserts, NewEntry, Same, Entry,
         IndexFile, IndexOK, Request
    <2>2. snap' \in [Workers -> SUBSET Entry]
      <3>1. CASE index = Corrupt
        BY <1>13, <3>1 DEF ReadIndex, LocalsOK
      <3>2. CASE index # Corrupt
        <4>1. index \in SUBSET Entry /\ req[w] \in Request
          BY <1>13, <3>2 DEF ReadIndex, IndexOK, IndexFile, Local, LocalOK
        <4>2. Upserts(index, req[w]) \subseteq SUBSET Entry
          BY <4>1, UpsertsType
        <4>3. Dropped(index, req[w]) \in SUBSET Entry
          BY <4>1 DEF Dropped
        <4> QED
          BY <1>13, <3>2, <4>2, <4>3 DEF ReadIndex, LocalsOK
      <3> QED
        BY <3>1, <3>2
    <2>3. LocalsOK'
      BY <1>13, <2>2 DEF ReadIndex, LocalsOK
    <2> QED
      BY <1>f, <1>13, <2>1, <2>3 DEF ReadIndex
  <1>14. ASSUME NEW w \in Workers, OpenTmp(w) PROVE TypeOK'
    BY <1>f, <1>14 DEF OpenTmp, ControlOK, IndexOK, idx, Goto, Return,
       Labels, Fallible, Answers, Local, LocalOK, IndexFile
  <1>15. ASSUME NEW w \in Workers, WriteTmp(w) PROVE TypeOK'
    <2>1. ControlOK'
      BY <1>f, <1>15 DEF WriteTmp, ControlOK, Goto, Return, Labels,
         Fallible, Answers, Local, LocalOK, Overwritten, IndexFile, LocalsOK
    <2>2. snap[w] \in IndexFile /\ Corrupt \in IndexFile
      BY DEF LocalsOK, IndexFile
    <2>3. \A old : Overwritten(old, snap[w]) \subseteq IndexFile
      BY <2>2 DEF Overwritten
    <2>4. IndexOK'
      BY <1>15, <2>3 DEF WriteTmp, IndexOK
    <2> QED
      BY <1>f, <1>15, <2>1, <2>4 DEF WriteTmp, idx
  <1>16. ASSUME NEW w \in Workers, RenameIndex(w) PROVE TypeOK'
    BY <1>f, <1>16 DEF RenameIndex, ControlOK, IndexOK, idx, Goto, Return,
       Labels, Fallible, Answers, Local, LocalOK, Moved
  <1>17. ASSUME NEW w \in Workers, ReindexRoot(w) PROVE TypeOK'
    BY <1>f, <1>17 DEF ReindexRoot, ControlOK, LocalsOK, locals, Goto,
       Return, Labels, Fallible, Answers, Local, LocalOK, Visit, Listing,
       AuthorDirs, Visible
  <1>18. ASSUME NEW w \in Workers, ReindexAuthor(w) PROVE TypeOK'
    <2>1. PICK a \in todo[w].authors :
            Visit(w, todo[w].authors \ {a}, {p \in parents : p[1] = a}, {})
      BY <1>18 DEF ReindexAuthor
    <2>2. /\ todo[w].authors \ {a} \in SUBSET Authors
          /\ {p \in parents : p[1] = a} \in SUBSET (Authors \X Skills)
      BY DEF LocalsOK, Listing, DiskOK
    <2>3. todo' \in [Workers -> Listing]
      BY <2>1, <2>2, VisitType DEF LocalsOK
    <2> QED
      BY <1>f, <1>18, <2>3 DEF ReindexAuthor, LocalsOK, ControlOK
  <1>19. ASSUME NEW w \in Workers, ReindexSkill(w) PROVE TypeOK'
    <2>1. PICK p \in todo[w].skills :
            Visit(w, todo[w].authors, todo[w].skills \ {p},
                  {d \in Dir : d[1] = p[1] /\ d[2] = p[2] /\ live[d] # None})
      BY <1>19 DEF ReindexSkill
    <2>2. /\ todo[w].authors \in SUBSET Authors
          /\ todo[w].skills \ {p} \in SUBSET (Authors \X Skills)
          /\ {d \in Dir : d[1] = p[1] /\ d[2] = p[2] /\ live[d] # None} \in SUBSET Dir
      BY DEF LocalsOK, Listing
    <2>3. todo' \in [Workers -> Listing]
      BY <2>1, <2>2, VisitType DEF LocalsOK
    <2> QED
      BY <1>f, <1>19, <2>3 DEF ReindexSkill, LocalsOK, ControlOK
  <1>20. ASSUME NEW w \in Workers, ReindexVersion(w) PROVE TypeOK'
    <2>1. PICK d \in todo[w].versions :
            /\ Visit(w, todo[w].authors, todo[w].skills, todo[w].versions \ {d})
            /\ \/ snap' = [snap EXCEPT ![w] =
                     @ \cup {[skill |-> d[2], version |-> d[3], author |-> d[1]]}]
               \/ UNCHANGED snap
      BY <1>20 DEF ReindexVersion
    <2>2. /\ todo[w].authors \in SUBSET Authors
          /\ todo[w].skills \in SUBSET (Authors \X Skills)
          /\ todo[w].versions \ {d} \in SUBSET Dir
          /\ d \in Dir
      BY DEF LocalsOK, Listing
    <2>3. todo' \in [Workers -> Listing]
      BY <2>1, <2>2, VisitType DEF LocalsOK
    <2>4. [skill |-> d[2], version |-> d[3], author |-> d[1]] \in Entry
      BY <2>2 DEF Dir, Entry
    <2>5. snap' \in [Workers -> SUBSET Entry]
      BY <2>1, <2>4 DEF LocalsOK
    <2> QED
      BY <1>f, <1>20, <2>3, <2>5 DEF ReindexVersion, LocalsOK, ControlOK
  <1>21. ASSUME NEW w \in Workers, ReindexWrite(w) PROVE TypeOK'
    BY <1>f, <1>21 DEF ReindexWrite, ControlOK, Goto, Return, Labels,
       Fallible, Answers, Local, LocalOK
  <1>22. ASSUME NEW w \in Workers, GetIndex(w) PROVE TypeOK'
    <2>1. ControlOK'
      BY <1>f, <1>22 DEF GetIndex, ControlOK, Goto, Return, Labels,
         Fallible, Answers, Local, LocalOK, IndexOK, IndexFile, Entry
    <2>2. index # Corrupt => \A e \in index : e.author \in Authors
      BY DEF IndexOK, IndexFile, Entry
    <2>3. LocalsOK'
      BY <1>22, <2>2 DEF GetIndex, LocalsOK
    <2> QED
      BY <1>f, <1>22, <2>1, <2>3 DEF GetIndex
  <1>23. ASSUME NEW w \in Workers, ReadFirst(w) PROVE TypeOK'
    <2>1. ControlOK'
      BY <1>f, <1>23 DEF ReadFirst, ControlOK, Goto, Return, Labels,
         Fallible, Answers, Local, LocalOK, DiskOK, HomeDir, Dir, Request
    <2>2. LocalsOK'
      BY <1>f, <1>23 DEF ReadFirst, LocalsOK, Local, LocalOK, DiskOK,
         HomeDir, Dir, Request
    <2> QED
      BY <1>f, <1>23, <2>1, <2>2 DEF ReadFirst, locals
  <1>24. ASSUME NEW w \in Workers, ReadRest(w) PROVE TypeOK'
    BY <1>f, <1>24 DEF ReadRest, ControlOK, Goto, Return, Labels, Fallible,
       Answers, Local, LocalOK
  <1>25. ASSUME NEW w \in Workers, FindRoot(w) PROVE TypeOK'
    BY <1>f, <1>25 DEF FindRoot, ControlOK, LocalsOK, locals, Goto, Return,
       Labels, Fallible, Answers, Local, LocalOK, Visit, Listing,
       AuthorDirs, Visible
  <1>26. ASSUME NEW w \in Workers, Probe(w) PROVE TypeOK'
    <2>1. ControlOK'
      BY <1>f, <1>26 DEF Probe, ControlOK, Goto, Return, Labels, Fallible,
         Answers, Local, LocalOK, Visit, Listing
    <2>2. todo' \in [Workers -> Listing] /\ home' \in [Workers -> Authors \cup {None}]
      <3>1. CASE UNCHANGED todo
        BY <1>26, <3>1 DEF Probe, LocalsOK, Listing
      <3>2. CASE \E a \in todo[w].authors : Visit(w, todo[w].authors \ {a}, {}, {}) /\ UNCHANGED home
        <4>1. PICK a \in todo[w].authors : Visit(w, todo[w].authors \ {a}, {}, {})
          BY <3>2
        <4>2. todo[w].authors \ {a} \in SUBSET Authors
          BY DEF LocalsOK, Listing
        <4> QED
          BY <3>2, <4>1, <4>2, VisitType DEF LocalsOK
      <3> QED
        BY <1>26, <3>1, <3>2 DEF Probe
    <2>3. LocalsOK'
      BY <1>26, <2>2 DEF Probe, LocalsOK
    <2> QED
      BY <1>f, <1>26, <2>1, <2>3 DEF Probe
  <1>27. ASSUME NEW w \in Workers, ReadMD(w) PROVE TypeOK'
    BY <1>f, <1>27 DEF ReadMD, ControlOK, Goto, Return, Labels, Fallible,
       Answers, Local, LocalOK
  <1>28. ASSUME NEW w \in Workers, Reply(w) PROVE TypeOK'
    BY <1>f, <1>28 DEF Reply, ControlOK, LocalsOK, HistoryOK, locals,
       counters, Goto, Return, Labels, Fallible, Answers, Local, LocalOK,
       Unlocked, NoListing, Listing
  <1>29. ASSUME NEW w \in Workers, Begin(w) PROVE TypeOK'
    <2>1. ControlOK'
      BY <1>f, <1>29, RequestsAssumption DEF Begin, ControlOK, Goto, Return,
         Labels, Fallible, Answers, Local, LocalOK, FirstStep, Request, Ops
    <2>2. HistoryOK'
      BY <1>29 DEF Begin, HistoryOK
    <2> QED
      BY <1>f, <1>29, RequestsAssumption, <2>1, <2>2 DEF Begin, counters
  <1>30. ASSUME NEW w \in Workers, Fail(w) PROVE TypeOK'
    <2>1. ControlOK'
      BY <1>f, <1>30 DEF Fail, ControlOK, Goto, Return, Labels, Fallible,
         Answers, Local, LocalOK, Visit, Skipped, IndexFile, Listing
    <2>2. IndexOK'
      BY <1>f, <1>30 DEF Fail, IndexOK, IndexFile, idx
    <2>3. todo' \in [Workers -> Listing]
      <3>1. CASE UNCHANGED todo
        BY <3>1 DEF LocalsOK
      <3>2. CASE Skipped(w)
        <4>1. /\ todo[w].authors \in SUBSET Authors /\ todo[w].versions \in SUBSET Dir
              /\ todo[w].skills \in SUBSET (Authors \X Skills)
          BY DEF LocalsOK, Listing
        <4>2. CASE \E a \in todo[w].authors : Visit(w, todo[w].authors \ {a}, {}, {})
          BY <4>1, <4>2, VisitType DEF LocalsOK
        <4>3. CASE \E p \in todo[w].skills :
                      Visit(w, todo[w].authors, todo[w].skills \ {p}, {})
          BY <4>1, <4>3, VisitType DEF LocalsOK
        <4>4. CASE \E d \in todo[w].versions :
                      Visit(w, todo[w].authors, todo[w].skills, todo[w].versions \ {d})
          BY <4>1, <4>4, VisitType DEF LocalsOK
        <4> QED
          BY <3>2, <4>2, <4>3, <4>4 DEF Skipped
      <3> QED
        BY <1>30, <3>1, <3>2 DEF Fail
    <2>4. LocalsOK'
      BY <1>30, <2>3 DEF Fail, LocalsOK
    <2>5. HistoryOK'
      <3>1. touched' = [touched EXCEPT ![w] = TRUE] \/ UNCHANGED touched
        BY <1>30 DEF Fail
      <3>2. faults' = faults + 1 /\ UNCHANGED <<calls, crashes>>
        BY <1>30 DEF Fail
      <3>3. touched' \in [Workers -> BOOLEAN]
        BY <3>1 DEF HistoryOK
      <3>4. calls' \in Nat /\ faults' \in Nat /\ crashes' \in Nat
        BY <3>2 DEF HistoryOK
      <3> QED
        BY <3>3, <3>4 DEF HistoryOK
    <2> QED
      BY <1>f, <1>30, <2>1, <2>2, <2>4, <2>5 DEF Fail
  <1>31. ASSUME Crash PROVE TypeOK'
    BY <1>f, <1>31 DEF Crash, Emptyfd, NoListing, Listing, ControlOK,
       LocalsOK, HistoryOK, IndexOK, counters, Labels, Answers
  <1>32. CASE UNCHANGED vars
    BY <1>f, <1>32 DEF vars, ControlOK
  <1> QED
    BY <1>1, <1>2, <1>3, <1>4, <1>5, <1>6, <1>7, <1>8, <1>9, <1>10, <1>11,
       <1>12, <1>13, <1>14, <1>15, <1>16, <1>17, <1>18, <1>19, <1>20, <1>21,
       <1>22, <1>23, <1>24, <1>25, <1>26, <1>27, <1>28, <1>29, <1>30, <1>31,
       <1>32
    DEF Next, Serve, Create, Delete, IndexWrite, Reindex, GetVersion, Validate, Finished

-----------------------------------------------------------------------------
(* The label of a worker tells its operation and what it has found. *)

LEMMA LocalStep ==
    ASSUME TypeOK, Local, [Next]_vars
    PROVE  Local'
  <1>1. ASSUME NEW w \in Workers, Acquire(w) PROVE Local'
    BY <1>1 DEF Goto, Return, Local, LocalOK, TypeOK, ControlOK, LocalsOK,
       locals, Acquire
  <1>2. ASSUME NEW w \in Workers, CreateFind(w) PROVE Local'
    <2>1. \/ Goto(w, "stage") /\ UNCHANGED home
          \/ Return(w, "exists") /\ UNCHANGED home
          \/ /\ Goto(w, "stage")
             /\ req[w].force /\ \E a \in Visible : home' = [home EXCEPT ![w] = a]
      BY <1>2 DEF CreateFind, Homes, Overwrites
    <2>2. home[w] = None
      BY <1>2 DEF CreateFind, Local, LocalOK
    <2> QED
      BY <1>2, <2>1, <2>2 DEF CreateFind, Goto, Return, Local, LocalOK,
         TypeOK, ControlOK, LocalsOK
  <1>3. ASSUME NEW w \in Workers, Stage(w) PROVE Local'
    BY <1>3 DEF Goto, Return, Local, LocalOK, TypeOK, ControlOK, LocalsOK,
       locals, Stage
  <1>4. ASSUME NEW w \in Workers, Backup(w) PROVE Local'
    BY <1>4 DEF Goto, Return, Local, LocalOK, TypeOK, ControlOK, LocalsOK,
       locals, Backup, Visible
  <1>5. ASSUME NEW w \in Workers, Install(w) PROVE Local'
    BY <1>5 DEF Goto, Return, Local, LocalOK, TypeOK, ControlOK, LocalsOK,
       locals, Install, Visible
  <1>6. ASSUME NEW w \in Workers, InstallBlocked(w) PROVE Local'
    BY <1>6 DEF Goto, Return, Local, LocalOK, TypeOK, ControlOK, LocalsOK,
       locals, InstallBlocked
  <1>7. ASSUME NEW w \in Workers, Restore(w) PROVE Local'
    BY <1>7 DEF Goto, Return, Local, LocalOK, TypeOK, ControlOK, LocalsOK,
       locals, Restore
  <1>8. ASSUME NEW w \in Workers, Discard(w) PROVE Local'
    BY <1>8 DEF Goto, Return, Local, LocalOK, TypeOK, ControlOK, LocalsOK,
       locals, Discard
  <1>9. ASSUME NEW w \in Workers, DeleteFind(w) PROVE Local'
    <2>1. \/ Return(w, "notfound") /\ UNCHANGED home
          \/ /\ Goto(w, "remove")
             /\ \E a \in Visible : home' = [home EXCEPT ![w] = a]
      BY <1>9 DEF DeleteFind, Homes
    <2> QED
      BY <1>9, <2>1 DEF DeleteFind, Goto, Return, Local, LocalOK, TypeOK,
         ControlOK, LocalsOK
  <1>10. ASSUME NEW w \in Workers, RemoveFiles(w) PROVE Local'
    BY <1>10 DEF Goto, Return, Local, LocalOK, TypeOK, ControlOK, LocalsOK,
       locals, RemoveFiles
  <1>11. ASSUME NEW w \in Workers, RemoveDir(w) PROVE Local'
    BY <1>11 DEF Goto, Return, Local, LocalOK, TypeOK, ControlOK, LocalsOK,
       locals, RemoveDir
  <1>12. ASSUME NEW w \in Workers, DeleteCleanup(w) PROVE Local'
    BY <1>12 DEF Goto, Return, Local, LocalOK, TypeOK, ControlOK, LocalsOK,
       locals, DeleteCleanup
  <1>13. ASSUME NEW w \in Workers, ReadIndex(w) PROVE Local'
    BY <1>13 DEF Goto, Return, Local, LocalOK, TypeOK, ControlOK, LocalsOK,
       locals, ReadIndex
  <1>14. ASSUME NEW w \in Workers, OpenTmp(w) PROVE Local'
    BY <1>14 DEF Goto, Return, Local, LocalOK, TypeOK, ControlOK, LocalsOK,
       locals, OpenTmp
  <1>15. ASSUME NEW w \in Workers, WriteTmp(w) PROVE Local'
    BY <1>15 DEF Goto, Return, Local, LocalOK, TypeOK, ControlOK, LocalsOK,
       locals, WriteTmp
  <1>16. ASSUME NEW w \in Workers, RenameIndex(w) PROVE Local'
    <2>1. \/ pc' = [pc EXCEPT ![w] = "reply"]
          \/ pc' = [pc EXCEPT ![w] = "cleanup"] /\ req[w].op = "delete"
      BY <1>16 DEF RenameIndex, Goto, Return
    <2> QED
      BY <1>16, <2>1 DEF RenameIndex, Local, LocalOK, TypeOK, ControlOK, locals
  <1>17. ASSUME NEW w \in Workers, ReindexRoot(w) PROVE Local'
    BY <1>17 DEF Goto, Return, Local, LocalOK, TypeOK, ControlOK, LocalsOK,
       locals, ReindexRoot
  <1>18. ASSUME NEW w \in Workers, ReindexAuthor(w) PROVE Local'
    BY <1>18 DEF Goto, Return, Local, LocalOK, TypeOK, ControlOK, LocalsOK,
       locals, ReindexAuthor
  <1>19. ASSUME NEW w \in Workers, ReindexSkill(w) PROVE Local'
    BY <1>19 DEF Goto, Return, Local, LocalOK, TypeOK, ControlOK, LocalsOK,
       locals, ReindexSkill
  <1>20. ASSUME NEW w \in Workers, ReindexVersion(w) PROVE Local'
    BY <1>20 DEF Goto, Return, Local, LocalOK, TypeOK, ControlOK, LocalsOK,
       locals, ReindexVersion
  <1>21. ASSUME NEW w \in Workers, ReindexWrite(w) PROVE Local'
    BY <1>21 DEF Goto, Return, Local, LocalOK, TypeOK, ControlOK, LocalsOK,
       locals, ReindexWrite
  <1>22. ASSUME NEW w \in Workers, GetIndex(w) PROVE Local'
    BY <1>22 DEF Goto, Return, Local, LocalOK, TypeOK, ControlOK, LocalsOK,
       locals, GetIndex, IndexOK, IndexFile, Entry
  <1>23. ASSUME NEW w \in Workers, ReadFirst(w) PROVE Local'
    BY <1>23 DEF Goto, Return, Local, LocalOK, TypeOK, ControlOK, LocalsOK,
       locals, ReadFirst
  <1>24. ASSUME NEW w \in Workers, ReadRest(w) PROVE Local'
    BY <1>24 DEF Goto, Return, Local, LocalOK, TypeOK, ControlOK, LocalsOK,
       locals, ReadRest
  <1>25. ASSUME NEW w \in Workers, FindRoot(w) PROVE Local'
    BY <1>25 DEF Goto, Return, Local, LocalOK, TypeOK, ControlOK, LocalsOK,
       locals, FindRoot
  <1>26. ASSUME NEW w \in Workers, Probe(w) PROVE Local'
    <2>1. todo[w].authors \subseteq Authors
      BY DEF TypeOK, LocalsOK, Listing
    <2>2. \/ pc' = [pc EXCEPT ![w] = "reply"] /\ UNCHANGED home
          \/ UNCHANGED <<pc, home>>
          \/ /\ pc' = [pc EXCEPT ![w] = "readMD"]
             /\ \E a \in Authors : home' = [home EXCEPT ![w] = a]
      BY <1>26, <2>1 DEF Probe, Goto, Return
    <2> QED
      BY <1>26, <2>2 DEF Probe, Local, LocalOK, TypeOK, ControlOK, LocalsOK
  <1>27. ASSUME NEW w \in Workers, ReadMD(w) PROVE Local'
    BY <1>27 DEF Goto, Return, Local, LocalOK, TypeOK, ControlOK, LocalsOK,
       locals, ReadMD
  <1>28. ASSUME NEW w \in Workers, Reply(w) PROVE Local'
    BY <1>28 DEF Goto, Return, Local, LocalOK, TypeOK, ControlOK, LocalsOK,
       locals, Reply
  <1>29. ASSUME NEW w \in Workers, Begin(w) PROVE Local'
    BY <1>29, RequestsAssumption DEF Goto, Return, Local, LocalOK, TypeOK,
       ControlOK, LocalsOK, locals, Begin, FirstStep, Ops, Request
  <1>30. ASSUME NEW w \in Workers, Fail(w) PROVE Local'
    BY <1>30 DEF Goto, Return, Local, LocalOK, TypeOK, ControlOK, LocalsOK,
       locals, Fail, Fallible
  <1>31. ASSUME Crash PROVE Local'
    BY <1>31 DEF Crash, Goto, Return, Local, LocalOK, TypeOK, ControlOK, LocalsOK, locals
  <1>32. CASE UNCHANGED vars
    BY <1>32 DEF vars, Goto, Return, Local, LocalOK, TypeOK, ControlOK, LocalsOK, locals
  <1> QED
    BY <1>1, <1>2, <1>3, <1>4, <1>5, <1>6, <1>7, <1>8, <1>9, <1>10, <1>11,
       <1>12, <1>13, <1>14, <1>15, <1>16, <1>17, <1>18, <1>19, <1>20, <1>21,
       <1>22, <1>23, <1>24, <1>25, <1>26, <1>27, <1>28, <1>29, <1>30, <1>31,
       <1>32 DEF Next, Serve, Create, Delete, IndexWrite, Reindex, GetVersion,
       Validate, Finished

-----------------------------------------------------------------------------
(* The file lock. *)

LEMMA HeldStep ==
    ASSUME TypeOK, Local, Held, [Next]_vars
    PROVE  Held'
  <1>1. ASSUME NEW w \in Workers, Acquire(w) PROVE Held'
    BY <1>1, SentinelAssumption DEF Goto, Return, Held, Critical, TypeOK,
       ControlOK, Local, LocalOK, Acquire, LockFree, Request
  <1>2. ASSUME NEW w \in Workers, CreateFind(w) PROVE Held'
    BY <1>2 DEF Goto, Return, Held, Critical, TypeOK, ControlOK, Local,
       LocalOK, CreateFind
  <1>3. ASSUME NEW w \in Workers, Stage(w) PROVE Held'
    BY <1>3 DEF Goto, Return, Held, Critical, TypeOK, ControlOK, Local,
       LocalOK, Stage
  <1>4. ASSUME NEW w \in Workers, Backup(w) PROVE Held'
    BY <1>4 DEF Goto, Return, Held, Critical, TypeOK, ControlOK, Local,
       LocalOK, Backup
  <1>5. ASSUME NEW w \in Workers, Install(w) PROVE Held'
    BY <1>5 DEF Goto, Return, Held, Critical, TypeOK, ControlOK, Local,
       LocalOK, Install
  <1>6. ASSUME NEW w \in Workers, InstallBlocked(w) PROVE Held'
    BY <1>6 DEF Goto, Return, Held, Critical, TypeOK, ControlOK, Local,
       LocalOK, InstallBlocked
  <1>7. ASSUME NEW w \in Workers, Restore(w) PROVE Held'
    BY <1>7 DEF Goto, Return, Held, Critical, TypeOK, ControlOK, Local,
       LocalOK, Restore
  <1>8. ASSUME NEW w \in Workers, Discard(w) PROVE Held'
    BY <1>8 DEF Goto, Return, Held, Critical, TypeOK, ControlOK, Local,
       LocalOK, Discard
  <1>9. ASSUME NEW w \in Workers, DeleteFind(w) PROVE Held'
    BY <1>9 DEF Goto, Return, Held, Critical, TypeOK, ControlOK, Local,
       LocalOK, DeleteFind
  <1>10. ASSUME NEW w \in Workers, RemoveFiles(w) PROVE Held'
    BY <1>10 DEF Goto, Return, Held, Critical, TypeOK, ControlOK, Local,
       LocalOK, RemoveFiles
  <1>11. ASSUME NEW w \in Workers, RemoveDir(w) PROVE Held'
    BY <1>11 DEF Goto, Return, Held, Critical, TypeOK, ControlOK, Local,
       LocalOK, RemoveDir
  <1>12. ASSUME NEW w \in Workers, DeleteCleanup(w) PROVE Held'
    BY <1>12 DEF Goto, Return, Held, Critical, TypeOK, ControlOK, Local,
       LocalOK, DeleteCleanup
  <1>13. ASSUME NEW w \in Workers, ReadIndex(w) PROVE Held'
    BY <1>13 DEF Goto, Return, Held, Critical, TypeOK, ControlOK, Local,
       LocalOK, ReadIndex
  <1>14. ASSUME NEW w \in Workers, OpenTmp(w) PROVE Held'
    BY <1>14 DEF Goto, Return, Held, Critical, TypeOK, ControlOK, Local,
       LocalOK, OpenTmp
  <1>15. ASSUME NEW w \in Workers, WriteTmp(w) PROVE Held'
    BY <1>15 DEF Goto, Return, Held, Critical, TypeOK, ControlOK, Local,
       LocalOK, WriteTmp
  <1>16. ASSUME NEW w \in Workers, RenameIndex(w) PROVE Held'
    BY <1>16 DEF Goto, Return, Held, Critical, TypeOK, ControlOK, Local,
       LocalOK, RenameIndex
  <1>17. ASSUME NEW w \in Workers, ReindexRoot(w) PROVE Held'
    BY <1>17 DEF Goto, Return, Held, Critical, TypeOK, ControlOK, Local,
       LocalOK, ReindexRoot
  <1>18. ASSUME NEW w \in Workers, ReindexAuthor(w) PROVE Held'
    BY <1>18 DEF Goto, Return, Held, Critical, TypeOK, ControlOK, Local,
       LocalOK, ReindexAuthor
  <1>19. ASSUME NEW w \in Workers, ReindexSkill(w) PROVE Held'
    BY <1>19 DEF Goto, Return, Held, Critical, TypeOK, ControlOK, Local,
       LocalOK, ReindexSkill
  <1>20. ASSUME NEW w \in Workers, ReindexVersion(w) PROVE Held'
    BY <1>20 DEF Goto, Return, Held, Critical, TypeOK, ControlOK, Local,
       LocalOK, ReindexVersion
  <1>21. ASSUME NEW w \in Workers, ReindexWrite(w) PROVE Held'
    BY <1>21 DEF Goto, Return, Held, Critical, TypeOK, ControlOK, Local,
       LocalOK, ReindexWrite
  <1>22. ASSUME NEW w \in Workers, GetIndex(w) PROVE Held'
    BY <1>22 DEF Goto, Return, Held, Critical, TypeOK, ControlOK, Local,
       LocalOK, GetIndex
  <1>23. ASSUME NEW w \in Workers, ReadFirst(w) PROVE Held'
    BY <1>23 DEF Goto, Return, Held, Critical, TypeOK, ControlOK, Local,
       LocalOK, ReadFirst
  <1>24. ASSUME NEW w \in Workers, ReadRest(w) PROVE Held'
    BY <1>24 DEF Goto, Return, Held, Critical, TypeOK, ControlOK, Local,
       LocalOK, ReadRest
  <1>25. ASSUME NEW w \in Workers, FindRoot(w) PROVE Held'
    BY <1>25 DEF Goto, Return, Held, Critical, TypeOK, ControlOK, Local,
       LocalOK, FindRoot
  <1>26. ASSUME NEW w \in Workers, Probe(w) PROVE Held'
    BY <1>26 DEF Goto, Return, Held, Critical, TypeOK, ControlOK, Local,
       LocalOK, Probe
  <1>27. ASSUME NEW w \in Workers, ReadMD(w) PROVE Held'
    BY <1>27 DEF Goto, Return, Held, Critical, TypeOK, ControlOK, Local,
       LocalOK, ReadMD
  <1>28. ASSUME NEW w \in Workers, Reply(w) PROVE Held'
    BY <1>28 DEF Goto, Return, Held, Critical, TypeOK, ControlOK, Local,
       LocalOK, Reply, Unlocked, Request
  <1>29. ASSUME NEW w \in Workers, Begin(w) PROVE Held'
    BY <1>29, RequestsAssumption DEF Goto, Return, Held, Critical, TypeOK,
       ControlOK, Local, LocalOK, Begin, FirstStep, Ops, Request
  <1>30. ASSUME NEW w \in Workers, Fail(w) PROVE Held'
    BY <1>30 DEF Goto, Return, Held, Critical, TypeOK, ControlOK, Local,
       LocalOK, Fail, Fallible
  <1>31. ASSUME Crash PROVE Held'
    BY <1>31 DEF Crash, Goto, Return, Held, Critical, TypeOK, ControlOK, Local, LocalOK
  <1>32. CASE UNCHANGED vars
    BY <1>32 DEF vars, Goto, Return, Held, Critical, TypeOK, ControlOK, Local, LocalOK
  <1> QED
    BY <1>1, <1>2, <1>3, <1>4, <1>5, <1>6, <1>7, <1>8, <1>9, <1>10, <1>11,
       <1>12, <1>13, <1>14, <1>15, <1>16, <1>17, <1>18, <1>19, <1>20, <1>21,
       <1>22, <1>23, <1>24, <1>25, <1>26, <1>27, <1>28, <1>29, <1>30, <1>31,
       <1>32 DEF Next, Serve, Create, Delete, IndexWrite, Reindex, GetVersion,
       Validate, Finished

-----------------------------------------------------------------------------
(* The swap. *)

\* No two workers are past the lock of one skill.
LEMMA Exclusive ==
    ASSUME Held, NEW w \in Workers, NEW x \in Workers, Critical(w), Critical(x),
           req[w].skill = req[x].skill
    PROVE  w = x
  BY DEF Held

\* Only six steps touch the directories of published versions.
LEMMA DiskSteps ==
    ASSUME [Next]_vars
    PROVE  \/ UNCHANGED <<live, bak, kept>>
           \/ \E w \in Workers : \/ Backup(w) \/ Install(w) \/ Restore(w)
                                 \/ Discard(w) \/ RemoveFiles(w) \/ RemoveDir(w)
  BY DEF Next, vars, disk, Serve, Create, Delete, IndexWrite, Reindex,
     GetVersion, Validate,
     Begin, Acquire, CreateFind, Stage, InstallBlocked, DeleteFind, DeleteCleanup, ReadIndex,
     OpenTmp, WriteTmp, RenameIndex, ReindexRoot, ReindexAuthor, ReindexSkill, ReindexVersion,
     ReindexWrite, GetIndex, ReadFirst, ReadRest, FindRoot, Probe, ReadMD, Reply, Fail, Crash,
     Finished

LEMMA SwapStep ==
    ASSUME TypeOK, Local, Held, Swap, OneHome, [Next]_vars
    PROVE  Swap'
  <1>1. ASSUME NEW w \in Workers, Acquire(w) PROVE Swap'
    BY <1>1 DEF Goto, Return, Swap, SwapOK, Key, Target, TypeOK, ControlOK,
       LocalsOK, Local, LocalOK, disk, locals, Acquire
  <1>2. ASSUME NEW w \in Workers, CreateFind(w) PROVE Swap'
    <2> DEFINE s == req[w].skill
               v == req[w].version
    <2>1. req[w] \in Request
      BY <1>2 DEF CreateFind, Local, LocalOK
    <2>2. \/ Return(w, "exists")
          \/ /\ Goto(w, "stage")
             /\ \/ Homes(s, v) = {}
                \/ \E a \in Homes(s, v) : home' = [home EXCEPT ![w] = a]
      BY <1>2 DEF CreateFind
    <2>3. ASSUME NEW b \in Visible, live[<<b, s, v>>] # None, Goto(w, "stage")
          PROVE  b = home'[w]
      <3>1. ~Return(w, "exists")
        BY <2>3 DEF Return, Goto, TypeOK, ControlOK
      <3>2. b \in Homes(s, v)
        BY <2>3 DEF Homes
      <3>3. PICK a \in Homes(s, v) : home' = [home EXCEPT ![w] = a]
        BY <2>2, <3>1, <3>2
      <3>4. a = b
        BY <2>1, <3>2 DEF OneHome, Request
      <3> QED
        BY <3>3, <3>4 DEF TypeOK, LocalsOK
    <2>4. SwapOK(w)'
      BY <1>2, <2>2, <2>3 DEF CreateFind, SwapOK, disk, Goto, Return, TypeOK, ControlOK
    <2>5. ASSUME NEW x \in Workers, x # w PROVE SwapOK(x)'
      BY <1>2, <2>2, <2>5 DEF CreateFind, Swap, SwapOK, Key, Target, disk, Goto, Return,
         TypeOK, ControlOK, LocalsOK
    <2> QED
      BY <2>4, <2>5 DEF Swap
  <1>3. ASSUME NEW w \in Workers, Stage(w) PROVE Swap'
    <2>1. /\ req[w] \in Request
          /\ home[w] \in Visible \cup {None}
          /\ \A a \in Visible : live[<<a, req[w].skill, req[w].version>>] # None => a = home[w]
      BY <1>3 DEF Stage, Local, LocalOK, Swap, SwapOK
    <2>2. None \notin Visible
      BY SentinelAssumption DEF Visible
    <2>3. SwapOK(w)'
      BY <1>3, <2>1, <2>2 DEF Stage, SwapOK, locals, Goto, TypeOK, ControlOK
    <2>4. ASSUME NEW x \in Workers, x # w PROVE SwapOK(x)'
      BY <1>3, <2>4 DEF Stage, Swap, SwapOK, Key, Target, locals, Goto, TypeOK, ControlOK
    <2> QED
      BY <2>3, <2>4 DEF Swap
  <1>4. ASSUME NEW w \in Workers, Backup(w) PROVE Swap'
    <2> DEFINE s == req[w].skill
               v == req[w].version
    <2>1. /\ req[w] \in Request /\ home[w] \in Visible /\ Critical(w)
          /\ \A a \in Visible : live[<<a, s, v>>] # None => a = home[w]
      BY <1>4 DEF Backup, Local, LocalOK, Swap, SwapOK, Critical
    <2>2. /\ live' = [live EXCEPT ![<<home[w], s, v>>] = None]
          /\ UNCHANGED <<kept, req, home>>
      BY <1>4 DEF Backup, HomeDir
    <2>3. \A a \in Visible : live'[<<a, s, v>>] = None
      BY <2>1, <2>2 DEF TypeOK, DiskOK, Dir, Request, Visible
    <2>4. SwapOK(w)'
      BY <1>4, <2>2, <2>3 DEF Backup, SwapOK, Goto, TypeOK, ControlOK
    <2>5. ASSUME NEW x \in Workers, x # w PROVE SwapOK(x)'
      <3>1. pc'[x] = pc[x]
        BY <1>4, <2>5 DEF Backup, Goto, TypeOK, ControlOK
      <3>2. CASE Critical(x)
        <4>1. req[x].skill # s /\ req[x] \in Request
          BY <2>1, <2>5, <3>2, Exclusive DEF Critical, Local, LocalOK
        <4>2. \A a \in Authors : live'[<<a, req[x].skill, req[x].version>>]
                                   = live[<<a, req[x].skill, req[x].version>>]
          BY <2>2, <4>1 DEF TypeOK, DiskOK, Dir, Request
        <4> QED
          BY <2>2, <3>1, <4>1, <4>2 DEF Swap, SwapOK, Key, Target, Visible, Request
      <3>3. CASE ~Critical(x)
        BY <2>2, <3>1, <3>3 DEF Critical, SwapOK, Local, LocalOK
      <3> QED
        BY <3>2, <3>3
    <2> QED
      BY <2>4, <2>5 DEF Swap
  <1>5. ASSUME NEW w \in Workers, Install(w) PROVE Swap'
    BY <1>5 DEF Goto, Return, Swap, SwapOK, Key, Target, TypeOK, ControlOK,
       LocalsOK, Local, LocalOK, disk, locals, Install, Held, Critical,
       DiskOK, Dir, Request, HomeDir, Homes
  <1>6. ASSUME NEW w \in Workers, InstallBlocked(w) PROVE Swap'
    BY <1>6 DEF Goto, Return, Swap, SwapOK, Key, Target, TypeOK, ControlOK,
       LocalsOK, Local, LocalOK, disk, locals, InstallBlocked
  <1>7. ASSUME NEW w \in Workers, Restore(w) PROVE Swap'
    BY <1>7 DEF Goto, Return, Swap, SwapOK, Key, Target, TypeOK, ControlOK,
       LocalsOK, Local, LocalOK, disk, locals, Restore, Held, Critical,
       DiskOK, Dir, Request, HomeDir, Homes, PutBack
  <1>8. ASSUME NEW w \in Workers, Discard(w) PROVE Swap'
    BY <1>8 DEF Goto, Return, Swap, SwapOK, Key, Target, TypeOK, ControlOK,
       LocalsOK, Local, LocalOK, disk, locals, Discard, DiskOK
  <1>9. ASSUME NEW w \in Workers, DeleteFind(w) PROVE Swap'
    <2> DEFINE s == req[w].skill
               v == req[w].version
    <2>1. req[w] \in Request
      BY <1>9 DEF DeleteFind, Local, LocalOK
    <2>2. \/ Return(w, "notfound")
          \/ /\ Goto(w, "remove")
             /\ \E a \in Homes(s, v) : home' = [home EXCEPT ![w] = a]
      BY <1>9 DEF DeleteFind
    <2>3. ASSUME NEW b \in Visible, live[<<b, s, v>>] # None, Goto(w, "remove")
          PROVE  b = home'[w]
      <3>1. ~Return(w, "notfound")
        BY <2>3 DEF Return, Goto, TypeOK, ControlOK
      <3>2. b \in Homes(s, v)
        BY <2>3 DEF Homes
      <3>3. PICK a \in Homes(s, v) : home' = [home EXCEPT ![w] = a]
        BY <2>2, <3>1, <3>2
      <3>4. a = b
        BY <2>1, <3>2 DEF OneHome, Request
      <3> QED
        BY <3>3, <3>4 DEF TypeOK, LocalsOK
    <2>4. SwapOK(w)'
      BY <1>9, <2>2, <2>3 DEF DeleteFind, SwapOK, disk, Goto, Return, TypeOK, ControlOK
    <2>5. ASSUME NEW x \in Workers, x # w PROVE SwapOK(x)'
      BY <1>9, <2>2, <2>5 DEF DeleteFind, Swap, SwapOK, Key, Target, disk, Goto, Return,
         TypeOK, ControlOK, LocalsOK
    <2> QED
      BY <2>4, <2>5 DEF Swap
  <1>10. ASSUME NEW w \in Workers, RemoveFiles(w) PROVE Swap'
    BY <1>10 DEF Goto, Return, Swap, SwapOK, Key, Target, TypeOK, ControlOK,
       LocalsOK, Local, LocalOK, disk, locals, RemoveFiles, Held, Critical,
       DiskOK, Dir, Request, HomeDir, Homes
  <1>11. ASSUME NEW w \in Workers, RemoveDir(w) PROVE Swap'
    BY <1>11 DEF Goto, Return, Swap, SwapOK, Key, Target, TypeOK, ControlOK,
       LocalsOK, Local, LocalOK, disk, locals, RemoveDir, Held, Critical,
       DiskOK, Dir, Request, HomeDir, Homes
  <1>12. ASSUME NEW w \in Workers, DeleteCleanup(w) PROVE Swap'
    BY <1>12 DEF Goto, Return, Swap, SwapOK, Key, Target, TypeOK, ControlOK,
       LocalsOK, Local, LocalOK, disk, locals, DeleteCleanup
  <1>13. ASSUME NEW w \in Workers, ReadIndex(w) PROVE Swap'
    BY <1>13 DEF Goto, Return, Swap, SwapOK, Key, Target, TypeOK, ControlOK,
       LocalsOK, Local, LocalOK, disk, locals, ReadIndex
  <1>14. ASSUME NEW w \in Workers, OpenTmp(w) PROVE Swap'
    BY <1>14 DEF Goto, Return, Swap, SwapOK, Key, Target, TypeOK, ControlOK,
       LocalsOK, Local, LocalOK, disk, locals, OpenTmp
  <1>15. ASSUME NEW w \in Workers, WriteTmp(w) PROVE Swap'
    BY <1>15 DEF Goto, Return, Swap, SwapOK, Key, Target, TypeOK, ControlOK,
       LocalsOK, Local, LocalOK, disk, locals, WriteTmp
  <1>16. ASSUME NEW w \in Workers, RenameIndex(w) PROVE Swap'
    BY <1>16 DEF Goto, Return, Swap, SwapOK, Key, Target, TypeOK, ControlOK,
       LocalsOK, Local, LocalOK, disk, locals, RenameIndex
  <1>17. ASSUME NEW w \in Workers, ReindexRoot(w) PROVE Swap'
    BY <1>17 DEF Goto, Return, Swap, SwapOK, Key, Target, TypeOK, ControlOK,
       LocalsOK, Local, LocalOK, disk, locals, ReindexRoot
  <1>18. ASSUME NEW w \in Workers, ReindexAuthor(w) PROVE Swap'
    BY <1>18 DEF Goto, Return, Swap, SwapOK, Key, Target, TypeOK, ControlOK,
       LocalsOK, Local, LocalOK, disk, locals, ReindexAuthor
  <1>19. ASSUME NEW w \in Workers, ReindexSkill(w) PROVE Swap'
    BY <1>19 DEF Goto, Return, Swap, SwapOK, Key, Target, TypeOK, ControlOK,
       LocalsOK, Local, LocalOK, disk, locals, ReindexSkill
  <1>20. ASSUME NEW w \in Workers, ReindexVersion(w) PROVE Swap'
    BY <1>20 DEF Goto, Return, Swap, SwapOK, Key, Target, TypeOK, ControlOK,
       LocalsOK, Local, LocalOK, disk, locals, ReindexVersion
  <1>21. ASSUME NEW w \in Workers, ReindexWrite(w) PROVE Swap'
    BY <1>21 DEF Goto, Return, Swap, SwapOK, Key, Target, TypeOK, ControlOK,
       LocalsOK, Local, LocalOK, disk, locals, ReindexWrite
  <1>22. ASSUME NEW w \in Workers, GetIndex(w) PROVE Swap'
    BY <1>22 DEF Goto, Return, Swap, SwapOK, Key, Target, TypeOK, ControlOK,
       LocalsOK, Local, LocalOK, disk, locals, GetIndex
  <1>23. ASSUME NEW w \in Workers, ReadFirst(w) PROVE Swap'
    BY <1>23 DEF Goto, Return, Swap, SwapOK, Key, Target, TypeOK, ControlOK,
       LocalsOK, Local, LocalOK, disk, locals, ReadFirst
  <1>24. ASSUME NEW w \in Workers, ReadRest(w) PROVE Swap'
    BY <1>24 DEF Goto, Return, Swap, SwapOK, Key, Target, TypeOK, ControlOK,
       LocalsOK, Local, LocalOK, disk, locals, ReadRest
  <1>25. ASSUME NEW w \in Workers, FindRoot(w) PROVE Swap'
    BY <1>25 DEF Goto, Return, Swap, SwapOK, Key, Target, TypeOK, ControlOK,
       LocalsOK, Local, LocalOK, disk, locals, FindRoot
  <1>26. ASSUME NEW w \in Workers, Probe(w) PROVE Swap'
    <2>1. /\ pc'[w] \in {"probe", "reply", "readMD"}
          /\ \A x \in Workers \ {w} : pc'[x] = pc[x] /\ home'[x] = home[x]
          /\ UNCHANGED <<live, kept, req>>
      BY <1>26 DEF Probe, Goto, Return, disk, TypeOK, ControlOK, LocalsOK
    <2> QED
      BY <2>1 DEF Swap, SwapOK, Key, Target
  <1>27. ASSUME NEW w \in Workers, ReadMD(w) PROVE Swap'
    BY <1>27 DEF Goto, Return, Swap, SwapOK, Key, Target, TypeOK, ControlOK,
       LocalsOK, Local, LocalOK, disk, locals, ReadMD
  <1>28. ASSUME NEW w \in Workers, Reply(w) PROVE Swap'
    BY <1>28 DEF Goto, Return, Swap, SwapOK, Key, Target, TypeOK, ControlOK,
       LocalsOK, Local, LocalOK, disk, locals, Reply
  <1>29. ASSUME NEW w \in Workers, Begin(w) PROVE Swap'
    BY <1>29, RequestsAssumption DEF Goto, Return, Swap, SwapOK, Key, Target,
       TypeOK, ControlOK, LocalsOK, Local, LocalOK, disk, locals, Begin,
       FirstStep, Ops, Request
  <1>30. ASSUME NEW w \in Workers, Fail(w) PROVE Swap'
    BY <1>30 DEF Goto, Return, Swap, SwapOK, Key, Target, TypeOK, ControlOK,
       LocalsOK, Local, LocalOK, disk, locals, Fail, Fallible
  <1>31. ASSUME Crash PROVE Swap'
    BY <1>31 DEF Crash, Goto, Return, Swap, SwapOK, Key, Target, TypeOK,
       ControlOK, LocalsOK, Local, LocalOK, disk, locals
  <1>32. CASE UNCHANGED vars
    BY <1>32 DEF vars, Goto, Return, Swap, SwapOK, Key, Target, TypeOK,
       ControlOK, LocalsOK, Local, LocalOK, disk, locals
  <1> QED
    BY <1>1, <1>2, <1>3, <1>4, <1>5, <1>6, <1>7, <1>8, <1>9, <1>10, <1>11,
       <1>12, <1>13, <1>14, <1>15, <1>16, <1>17, <1>18, <1>19, <1>20, <1>21,
       <1>22, <1>23, <1>24, <1>25, <1>26, <1>27, <1>28, <1>29, <1>30, <1>31,
       <1>32 DEF Next, Serve, Create, Delete, IndexWrite, Reindex, GetVersion,
       Validate, Finished

LEMMA OneHomeStep ==
    ASSUME TypeOK, Local, Held, Swap, OneHome, [Next]_vars
    PROVE  OneHome'
  <1> USE DEF OneHome, Homes, Visible, Dir, Request, DiskOK, TypeOK
  <1>1. ASSUME NEW w \in Workers, Backup(w) PROVE OneHome'
    BY <1>1 DEF Backup, HomeDir, Local, LocalOK
  <1>2. ASSUME NEW w \in Workers, Install(w) PROVE OneHome'
    <2>1. /\ req[w] \in Request
          /\ \A a \in Visible : live[<<a, req[w].skill, req[w].version>>] = None
      BY <1>2 DEF Install, Swap, SwapOK, Local, LocalOK
    <2>2. live' = [live EXCEPT ![<<req[w].author, req[w].skill, req[w].version>>] = req[w].content]
      BY <1>2 DEF Install, Target
    <2> QED
      BY <2>1, <2>2
  <1>3. ASSUME NEW w \in Workers, Restore(w) PROVE OneHome'
    BY <1>3 DEF Restore, PutBack, HomeDir, Swap, SwapOK, Local, LocalOK
  <1>4. ASSUME NEW w \in Workers, RemoveFiles(w) PROVE OneHome'
    BY <1>4 DEF RemoveFiles, HomeDir, Swap, SwapOK, Local, LocalOK
  <1>5. ASSUME NEW w \in Workers, RemoveDir(w) PROVE OneHome'
    BY <1>5 DEF RemoveDir, HomeDir, Local, LocalOK
  <1>6. CASE UNCHANGED live
    BY <1>6
  <1> QED
    BY <1>1, <1>2, <1>3, <1>4, <1>5, <1>6, DiskSteps DEF Discard

LEMMA NeverLostStep ==
    ASSUME TypeOK, Local, Held, Swap, NeverLost, [Next]_vars
    PROVE  NeverLost'
  <1> USE DEF TypeOK, DiskOK, Dir, Request, Visible
  <1> SUFFICES ASSUME NEW s \in Skills, NEW v \in Versions, kept'[<<s, v>>] # None
               PROVE  \E a \in Authors :
                        \/ live'[<<a, s, v>>] = kept'[<<s, v>>]
                        \/ [dir |-> <<a, s, v>>, content |-> kept'[<<s, v>>]] \in bak'
    BY DEF NeverLost
  <1> DEFINE Safe(a) == \/ live[<<a, s, v>>] = kept[<<s, v>>]
                        \/ [dir |-> <<a, s, v>>, content |-> kept[<<s, v>>]] \in bak
  <1>0. kept[<<s, v>>] # None => \E a \in Authors : Safe(a)
    BY DEF NeverLost
  <1>1. ASSUME NEW w \in Workers, Backup(w) PROVE \E a \in Authors : Safe(a)'
    <2>1. PICK a \in Authors : Safe(a)
      BY <1>0, <1>1 DEF Backup
    <2>2. /\ home[w] \in Authors /\ req[w] \in Request
          /\ live' = [live EXCEPT ![HomeDir(w)] = None]
          /\ bak' = bak \cup {[dir |-> HomeDir(w), content |-> live[HomeDir(w)]]}
          /\ kept' = kept
      BY <1>1 DEF Backup, MovedAside, Local, LocalOK
    <2>3. CASE <<a, s, v>> = HomeDir(w)
      BY <2>1, <2>2, <2>3
    <2>4. CASE <<a, s, v>> # HomeDir(w)
      BY <2>1, <2>2, <2>4
    <2> QED
      BY <2>3, <2>4
  <1>2. ASSUME NEW w \in Workers, Install(w) PROVE \E a \in Authors : Safe(a)'
    <2>1. /\ req[w] \in Request /\ bak' = bak /\ live[Target(w)] = None
          /\ live' = [live EXCEPT ![Target(w)] = req[w].content]
          /\ kept' = [kept EXCEPT ![<<req[w].skill, req[w].version>>] = req[w].content]
      BY <1>2 DEF Install, Local, LocalOK
    <2>2. CASE <<s, v>> = <<req[w].skill, req[w].version>>
      BY <2>1, <2>2 DEF Target
    <2>3. CASE <<s, v>> # <<req[w].skill, req[w].version>>
      <3>1. PICK a \in Authors : Safe(a)
        BY <1>0, <2>1, <2>3
      <3>2. <<a, s, v>> # Target(w)
        BY <2>3 DEF Target
      <3> QED
        BY <2>1, <2>3, <3>1, <3>2
    <2> QED
      BY <2>2, <2>3
  <1>3. ASSUME NEW w \in Workers, Restore(w) PROVE \E a \in Authors : Safe(a)'
    <2>1. PICK a \in Authors : Safe(a)
      BY <1>0, <1>3 DEF Restore
    <2>2. /\ home[w] \in Visible /\ req[w] \in Request /\ kept' = kept
          /\ live[HomeDir(w)] = None
          /\ live' = [live EXCEPT ![HomeDir(w)] = saved[w]]
          /\ bak' = bak \ {[dir |-> HomeDir(w), content |-> saved[w]]}
      BY <1>3 DEF Restore, PutBack, HomeDir, Swap, SwapOK, Local, LocalOK
    <2>3. CASE live[<<a, s, v>>] = kept[<<s, v>>]
      <3>1. <<a, s, v>> # HomeDir(w)
        BY <1>3, <2>2, <2>3 DEF Restore
      <3> QED
        BY <2>2, <2>3, <3>1
    <2>4. CASE [dir |-> <<a, s, v>>, content |-> kept[<<s, v>>]] \in bak
      <3>1. CASE [dir |-> <<a, s, v>>, content |-> kept[<<s, v>>]]
                   = [dir |-> HomeDir(w), content |-> saved[w]]
        <4>1. <<a, s, v>> = HomeDir(w) /\ kept[<<s, v>>] = saved[w]
          BY <3>1
        <4> QED
          BY <2>2, <4>1
      <3>2. CASE [dir |-> <<a, s, v>>, content |-> kept[<<s, v>>]]
                   # [dir |-> HomeDir(w), content |-> saved[w]]
        BY <2>2, <2>4, <3>2
      <3> QED
        BY <3>1, <3>2
    <2> QED
      BY <2>1, <2>3, <2>4
  <1>4. ASSUME NEW w \in Workers, Discard(w) PROVE \E a \in Authors : Safe(a)'
    <2>1. /\ req[w] \in Request /\ kept' = kept /\ live' = live
          /\ live[Target(w)] = kept[<<req[w].skill, req[w].version>>]
          /\ bak' = bak \ {[dir |-> HomeDir(w), content |-> saved[w]]}
      BY <1>4 DEF Discard, Key, Swap, SwapOK, Local, LocalOK
    <2>2. CASE <<s, v>> = <<req[w].skill, req[w].version>>
      BY <2>1, <2>2 DEF Target
    <2>3. CASE <<s, v>> # <<req[w].skill, req[w].version>>
      <3>1. PICK a \in Authors : Safe(a)
        BY <1>0, <2>1
      <3>2. [dir |-> <<a, s, v>>, content |-> kept[<<s, v>>]]
              # [dir |-> HomeDir(w), content |-> saved[w]]
        BY <2>3 DEF HomeDir
      <3> QED
        BY <2>1, <3>1, <3>2
    <2> QED
      BY <2>2, <2>3
  <1>5. ASSUME NEW w \in Workers, RemoveFiles(w) PROVE \E a \in Authors : Safe(a)'
    BY <1>0, <1>5 DEF RemoveFiles, HomeDir, Local, LocalOK
  <1>6. ASSUME NEW w \in Workers, RemoveDir(w) PROVE \E a \in Authors : Safe(a)'
    <2>1. /\ req[w] \in Request /\ kept' = kept /\ bak' = bak
          /\ kept[<<req[w].skill, req[w].version>>] = None
          /\ live' = [live EXCEPT ![HomeDir(w)] = None]
      BY <1>6 DEF RemoveDir, Key, Swap, SwapOK, Local, LocalOK
    <2>2. PICK a \in Authors : Safe(a)
      BY <1>0, <2>1
    <2>3. <<a, s, v>> # HomeDir(w)
      BY <2>1 DEF HomeDir
    <2> QED
      BY <2>1, <2>2, <2>3
  <1>7. CASE UNCHANGED <<live, bak, kept>>
    BY <1>0, <1>7
  <1> QED
    BY <1>1, <1>2, <1>3, <1>4, <1>5, <1>6, <1>7, DiskSteps

-----------------------------------------------------------------------------
LEMMA Inductive == Spec => []IInv
  <1>1. Init => IInv
    <2>1. Init => TypeOK
      BY TypeInit
    <2>2. Init => Local /\ Held /\ Swap
      BY DEF Init, Local, LocalOK, Held, Critical, Swap, SwapOK
    <2>3. Init => OneHome /\ NeverLost
      BY DEF Init, OneHome, NeverLost, Homes, Visible, Dir
    <2> QED
      BY <2>1, <2>2, <2>3 DEF IInv
  <1>2. IInv /\ [Next]_vars => IInv'
    BY TypeStep, LocalStep, HeldStep, SwapStep, OneHomeStep, NeverLostStep DEF IInv
  <1> QED
    BY <1>1, <1>2, PTL DEF Spec

(* Every variable keeps its type, whatever the bounds (all the handlers).  *)
THEOREM TypeSafety == Spec => []TypeOK
  BY Inductive, PTL DEF IInv

(* At most one visible author holds a skill's version, through every       *)
(* interleaving, failure and crash of Create and Delete.                   *)
THEOREM OneHomeTheorem == Spec => []OneHome
  BY Inductive, PTL DEF IInv

(* The swap of a forced Create never destroys both copies of a version.    *)
THEOREM NeverLostTheorem == Spec => []NeverLost
  BY Inductive, PTL DEF IInv

(* A published version changes only under a Delete or a forced Create of   *)
(* that version, by the owner of the skill's lock.                         *)
THEOREM Immutability == Spec => PublishedIsImmutable
  <1> DEFINE Step(a, s, v) ==
        live[<<a, s, v>>] # None /\ live'[<<a, s, v>>] # live[<<a, s, v>>] =>
            \E w \in Workers : /\ lock[s] = w /\ Critical(w)
                              /\ req[w].skill = s /\ req[w].version = v
                              /\ (req[w].op = "delete" \/ req[w].force)
  <1>1. ASSUME IInv, [Next]_vars, NEW a \in Visible, NEW s \in Skills, NEW v \in Versions
        PROVE  Step(a, s, v)
    <2> USE DEF IInv, TypeOK, DiskOK, Dir, Request, Visible
    <2>1. ASSUME NEW w \in Workers, Backup(w) PROVE Step(a, s, v)
      BY <1>1, <2>1, SentinelAssumption DEF Backup, HomeDir, Local, LocalOK,
         Held, Critical
    <2>2. ASSUME NEW w \in Workers, Install(w) PROVE Step(a, s, v)
      BY <1>1, <2>2 DEF Install, Target, Local, LocalOK
    <2>3. ASSUME NEW w \in Workers, Restore(w) PROVE Step(a, s, v)
      BY <1>1, <2>3 DEF Restore, PutBack, HomeDir, Swap, SwapOK, Local, LocalOK
    <2>4. ASSUME NEW w \in Workers, RemoveFiles(w) \/ RemoveDir(w) PROVE Step(a, s, v)
      BY <1>1, <2>4 DEF RemoveFiles, RemoveDir, HomeDir, Local, LocalOK, Held, Critical
    <2>5. CASE UNCHANGED live
      BY <2>5
    <2> QED
      BY <1>1, <2>1, <2>2, <2>3, <2>4, <2>5, DiskSteps DEF Discard
  <1>2. IInv /\ [Next]_vars =>
          [\A a \in Visible, s \in Skills, v \in Versions : Step(a, s, v)]_vars
    BY <1>1
  <1> QED
    BY <1>2, Inductive, PTL DEF PublishedIsImmutable, Spec

-----------------------------------------------------------------------------
(* A forced Create that fails puts the old version back.                   *)

\* A step of one worker leaves what the others hold alone.
LEMMA Frame ==
    ASSUME TypeOK, NEW w \in Workers, Begin(w) \/ Serve(w) \/ Fail(w),
           NEW x \in Workers, x # w
    PROVE  /\ pc'[x] = pc[x] /\ req'[x] = req[x] /\ answer'[x] = answer[x]
           /\ home'[x] = home[x] /\ saved'[x] = saved[x]
  <1> USE DEF TypeOK, ControlOK, LocalsOK, Goto, Return, locals
  <1>1. CASE Begin(w) \/ Acquire(w) \/ Reply(w) \/ Fail(w)
    BY <1>1 DEF Begin, Acquire, Reply, Fail
  <1>2. CASE Create(w)
    BY <1>2 DEF Create, CreateFind, Stage, Backup, Install, InstallBlocked, Restore, Discard
  <1>3. CASE Delete(w)
    BY <1>3 DEF Delete, DeleteFind, RemoveFiles, RemoveDir, DeleteCleanup
  <1>4. CASE IndexWrite(w)
    BY <1>4 DEF IndexWrite, ReadIndex, OpenTmp, WriteTmp, RenameIndex
  <1>5. CASE Reindex(w)
    BY <1>5 DEF Reindex, ReindexRoot, ReindexAuthor, ReindexSkill, ReindexVersion, ReindexWrite
  <1>6. CASE GetVersion(w)
    BY <1>6 DEF GetVersion, GetIndex, ReadFirst, ReadRest
  <1>7. CASE Validate(w)
    BY <1>7 DEF Validate, FindRoot, Probe, ReadMD
  <1> QED
    BY <1>1, <1>2, <1>3, <1>4, <1>5, <1>6, <1>7 DEF Serve

\* What a worker that has moved the old version aside may do next.
LEMMA AsideSteps ==
    ASSUME NEW w \in Workers, Begin(w) \/ Serve(w) \/ Fail(w), pc[w] \in {"install", "restore"}
    PROVE  Install(w) \/ InstallBlocked(w) \/ Restore(w) \/ Fail(w)
  BY DEF Serve, Create, Delete, IndexWrite, Reindex, GetVersion, Validate,
     Begin, Acquire, CreateFind, Stage, Backup, Discard, DeleteFind, RemoveFiles, RemoveDir,
     DeleteCleanup, ReadIndex, OpenTmp, WriteTmp, RenameIndex, ReindexRoot, ReindexAuthor,
     ReindexSkill, ReindexVersion, ReindexWrite, GetIndex, ReadFirst, ReadRest, FindRoot,
     Probe, ReadMD, Reply

\* Why a worker is to put the old version back.
Explained(w) ==
    pc[w] = "restore" =>
        faults >= 1 \/ \E a \in Hidden : live[<<a, req[w].skill, req[w].version>>] # None

Aside(w, s, v) ==
    /\ pc[w] \in {"install", "restore"} /\ home[w] # None
    /\ req[w].skill = s /\ req[w].version = v

\* A published version is in place, or a worker knows what to put back.
Recoverable ==
    crashes = 0 /\ faults =< 1 =>
        \A s \in Skills, v \in Versions : Published(s, v) =>
            \/ \E a \in Authors : live[<<a, s, v>>] = kept[<<s, v>>]
            \/ \E w \in Workers : Aside(w, s, v) /\ saved[w] = kept[<<s, v>>]

SwapIInv == (\A w \in Workers : Explained(w)) /\ Recoverable

LEMMA ExplainedStep ==
    ASSUME IInv, \A w \in Workers : Explained(w), [Next]_vars, NEW w \in Workers
    PROVE  Explained(w)'
  <1> USE DEF IInv, TypeOK, ControlOK, HistoryOK
  <1>1. CASE Crash \/ UNCHANGED vars
    BY <1>1 DEF Crash, vars, disk, counters, Explained
  <1>2. ASSUME NEW x \in Workers, Begin(x) \/ Serve(x) \/ Fail(x) PROVE Explained(w)'
    <2>1. faults' \in Nat /\ faults' >= faults
      BY <1>2 DEF Serve, Create, Delete, IndexWrite, Reindex, GetVersion, Validate,
         Begin, Acquire, CreateFind, Stage, Backup, Install, InstallBlocked, Restore, Discard,
         DeleteFind, RemoveFiles, RemoveDir, DeleteCleanup, ReadIndex, OpenTmp, WriteTmp,
         RenameIndex, ReindexRoot, ReindexAuthor, ReindexSkill, ReindexVersion, ReindexWrite,
         GetIndex, ReadFirst, ReadRest, FindRoot, Probe, ReadMD, Reply, Fail, counters
    <2>2. \A d \in Dir : d[1] \in Hidden /\ live[d] # None => live'[d] # None
      <3>1. [Next]_vars
        OBVIOUS
      <3>2. ASSUME NEW y \in Workers, Install(y)
            PROVE  \A d \in Dir : live[d] # None => live'[d] = live[d]
        BY <3>2 DEF Install, Target, DiskOK
      <3>3. ASSUME NEW y \in Workers,
                   Backup(y) \/ Restore(y) \/ RemoveFiles(y) \/ RemoveDir(y)
            PROVE  \A d \in Dir : d[1] \in Hidden => live'[d] = live[d]
        BY <3>3 DEF Backup, Restore, RemoveFiles, RemoveDir, PutBack, HomeDir, DiskOK, Dir,
           Local, LocalOK, Visible
      <3> QED
        BY <3>1, <3>2, <3>3, DiskSteps DEF Discard
    <2>3. CASE x # w
      <3>1. pc'[w] = pc[w] /\ req'[w] = req[w]
        BY <1>2, <2>3, Frame
      <3>2. pc[w] = "restore" => req[w] \in Request
        BY DEF Local, LocalOK
      <3>3. \A a \in Hidden : pc[w] = "restore" => <<a, req[w].skill, req[w].version>> \in Dir
        BY <3>2, HiddenAssumption DEF Dir, Request
      <3>4. faults >= 1 => faults' >= 1
        BY <2>1
      <3>5. ASSUME NEW a \in Hidden, pc[w] = "restore",
                   live[<<a, req[w].skill, req[w].version>>] # None
            PROVE  live'[<<a, req[w].skill, req[w].version>>] # None
        <4>1. <<a, req[w].skill, req[w].version>>[1] = a
          OBVIOUS
        <4> QED
          BY <2>2, <3>3, <3>5, <4>1
      <3> QED
        BY <3>1, <3>4, <3>5 DEF Explained
    <2>4. CASE x = w
      <3> SUFFICES ASSUME pc'[w] = "restore" PROVE Explained(w)'
        BY DEF Explained
      <3>1. Fail(w) \/ InstallBlocked(w)
        BY <1>2, <2>4, RequestsAssumption DEF Serve, Create, Delete, IndexWrite, Reindex, GetVersion, Validate,
           Begin, Acquire, CreateFind, Stage, Backup, Install, Restore, Discard, FirstStep,
           DeleteFind, RemoveFiles, RemoveDir, DeleteCleanup, ReadIndex, OpenTmp, WriteTmp,
           RenameIndex, ReindexRoot, ReindexAuthor, ReindexSkill, ReindexVersion,
           ReindexWrite, GetIndex, ReadFirst, ReadRest, FindRoot, Probe, ReadMD, Reply,
           Goto, Return, Request, Ops
      <3>2. CASE Fail(w)
        BY <3>2 DEF Fail, Explained
      <3>3. CASE InstallBlocked(w)
        <4>1. /\ req[w] \in Request /\ live[Target(w)] # None /\ pc[w] = "install"
              /\ UNCHANGED <<req, live>>
          BY <3>3 DEF InstallBlocked, Local, LocalOK, disk
        <4>2. req[w].author \in Hidden
          BY <4>1 DEF Swap, SwapOK, Target, Visible, Request
        <4> QED
          BY <4>1, <4>2 DEF Explained, Target
      <3> QED
        BY <3>1, <3>2, <3>3
    <2> QED
      BY <2>3, <2>4
  <1> QED
    BY <1>1, <1>2 DEF Next, Finished


LEMMA RecoverableStep ==
    ASSUME IInv, SwapIInv, [Next]_vars
    PROVE  Recoverable'
  <1> DEFINE Known(s, v) ==
               \/ \E a \in Authors : live[<<a, s, v>>] = kept[<<s, v>>]
               \/ \E w \in Workers : Aside(w, s, v) /\ saved[w] = kept[<<s, v>>]
  <1> SUFFICES ASSUME crashes' = 0, faults' =< 1,
                      NEW s \in Skills, NEW v \in Versions, Published(s, v)'
               PROVE  Known(s, v)'
    BY DEF Recoverable
  <1>0. /\ crashes \in Nat /\ faults \in Nat
        /\ live \in [Dir -> Contents \cup {None, Partial}]
        /\ kept \in [Skills \X Versions -> Contents \cup {None}]
        /\ \A a \in Authors : <<a, s, v>> \in Dir
        /\ <<s, v>> \in Skills \X Versions
    BY DEF IInv, TypeOK, HistoryOK, DiskOK, Dir
  <1>1. CASE UNCHANGED vars
    <2>1. Known(s, v)
      BY <1>1 DEF Recoverable, SwapIInv, vars, disk, counters, Published
    <2> QED
      BY <1>1, <2>1 DEF vars, disk, locals, Aside
  <1>2. ~Crash
    BY <1>0 DEF Crash
  <1>3. ASSUME NEW w \in Workers, Begin(w) \/ Serve(w) \/ Fail(w)
        PROVE  Known(s, v)'
    <2>1. crashes' = crashes /\ (faults' = faults \/ (Fail(w) /\ faults' = faults + 1))
      BY <1>3 DEF Serve, Create, Delete, IndexWrite, Reindex, GetVersion, Validate,
         Begin, Acquire, CreateFind, Stage, Backup, Install, InstallBlocked, Restore, Discard,
         DeleteFind, RemoveFiles, RemoveDir, DeleteCleanup, ReadIndex, OpenTmp, WriteTmp,
         RenameIndex, ReindexRoot, ReindexAuthor, ReindexSkill, ReindexVersion, ReindexWrite,
         GetIndex, ReadFirst, ReadRest, FindRoot, Probe, ReadMD, Reply, Fail, counters
    <2>2. Published(s, v) => Known(s, v)
      BY <1>0, <2>1 DEF Recoverable, SwapIInv
    <2>3. ASSUME NEW x \in Workers, Aside(x, s, v), saved[x] = kept[<<s, v>>], x # w,
                 kept'[<<s, v>>] = kept[<<s, v>>]
          PROVE  Known(s, v)'
      <3>1. Aside(x, s, v)' /\ saved'[x] = saved[x]
        BY <1>3, <2>3, Frame DEF IInv, Aside
      <3> QED
        BY <2>3, <3>1
    <2>4. \A x \in Workers : Aside(x, s, v) => Critical(x) /\ req[x].skill = s
      BY DEF Aside, Critical, IInv, Local, LocalOK
    <2>5. Published(s, v) => \A a \in Authors : live[<<a, s, v>>] # None => a \in Visible
      BY DEF Published, Visible
    <2> DEFINE Ours == req[w].skill = s /\ req[w].version = v
    <2>6. CASE Backup(w)
      <3>1. /\ req[w] \in Request /\ home[w] \in Visible /\ pc[w] = "backup"
            /\ live' = [live EXCEPT ![<<home[w], req[w].skill, req[w].version>>] = None]
            /\ kept' = kept /\ saved' = [saved EXCEPT ![w] = live[HomeDir(w)]]
            /\ pc' = [pc EXCEPT ![w] = "install"] /\ UNCHANGED <<req, home>>
            /\ Critical(w)
        BY <2>6 DEF Backup, HomeDir, IInv, Local, LocalOK, disk, Goto, Critical
      <3>2. Published(s, v)
        BY <1>0, <3>1, HiddenAssumption DEF Published, Visible
      <3>3. ASSUME NEW a \in Authors, live[<<a, s, v>>] = kept[<<s, v>>], ~Ours
            PROVE  Known(s, v)'
        <4>1. live'[<<a, s, v>>] = live[<<a, s, v>>]
          BY <1>0, <3>1, <3>3
        <4> QED
          BY <3>1, <3>3, <4>1
      <3>4. ASSUME NEW a \in Authors, live[<<a, s, v>>] = kept[<<s, v>>], Ours
            PROVE  Known(s, v)'
        <4>1. a = home[w]
          BY <2>5, <3>1, <3>2, <3>4 DEF IInv, Swap, SwapOK, Published
        <4>2. saved'[w] = kept'[<<s, v>>]
          BY <3>1, <3>4, <4>1 DEF HomeDir, IInv, TypeOK, LocalsOK
        <4>3. Aside(w, s, v)'
          BY <3>1, <3>4, SentinelAssumption DEF Aside, Visible, IInv, TypeOK, ControlOK
        <4> QED
          BY <4>2, <4>3
      <3> QED
        BY <2>2, <2>3, <3>1, <3>2, <3>3, <3>4 DEF Aside
    <2>7. CASE Install(w)
      <3>1. /\ req[w] \in Request /\ live[Target(w)] = None
            /\ live' = [live EXCEPT ![Target(w)] = req[w].content]
            /\ kept' = [kept EXCEPT ![<<req[w].skill, req[w].version>>] = req[w].content]
        BY <2>7 DEF Install, IInv, Local, LocalOK
      <3>2. CASE Ours
        <4>1. Target(w) = <<req[w].author, s, v>> /\ req[w].author \in Authors
          BY <3>1, <3>2 DEF Target, Request
        <4> QED
          BY <1>0, <3>1, <3>2, <4>1
      <3>3. CASE ~Ours
        <4>1. /\ kept'[<<s, v>>] = kept[<<s, v>>]
              /\ \A a \in Authors : live'[<<a, s, v>>] = live[<<a, s, v>>]
          BY <1>0, <3>1, <3>3 DEF Target
        <4>2. Published(s, v)
          BY <4>1, HiddenAssumption DEF Published
        <4> QED
          BY <2>2, <2>3, <3>3, <4>1, <4>2 DEF Aside
      <3> QED
        BY <3>2, <3>3
    <2>8. CASE Restore(w)
      <3>1. /\ req[w] \in Request /\ home[w] \in Visible /\ pc[w] = "restore" /\ kept' = kept
            /\ live' = [live EXCEPT ![<<home[w], req[w].skill, req[w].version>>] = saved[w]]
            /\ Critical(w)
        BY <2>8 DEF Restore, PutBack, HomeDir, IInv, Local, LocalOK, Critical
      <3>2. Published(s, v)
        BY <1>0, <3>1, HiddenAssumption DEF Published, Visible
      <3>3. CASE ~Ours
        <4>1. \A a \in Authors : live'[<<a, s, v>>] = live[<<a, s, v>>]
          BY <1>0, <3>1, <3>3
        <4> QED
          BY <2>2, <2>3, <3>1, <3>2, <3>3, <4>1 DEF Aside
      <3>4. CASE Ours
        <4>1. ~\E a \in Authors : live[<<a, s, v>>] = kept[<<s, v>>]
          BY <2>5, <3>1, <3>2, <3>4 DEF IInv, Swap, SwapOK, Published
        <4>2. PICK x \in Workers : Aside(x, s, v) /\ saved[x] = kept[<<s, v>>]
          BY <2>2, <3>2, <4>1
        <4>3. x = w
          BY <2>4, <3>1, <3>4, <4>2, Exclusive DEF IInv
        <4>4. live'[<<home[w], s, v>>] = kept'[<<s, v>>] /\ home[w] \in Authors
          BY <1>0, <3>1, <3>4, <4>2, <4>3 DEF Visible
        <4> QED
          BY <4>4
      <3> QED
        BY <3>3, <3>4
    <2>9. CASE RemoveFiles(w) \/ RemoveDir(w)
      <3>1. /\ req[w] \in Request /\ home[w] \in Visible
            /\ \E x : live' = [live EXCEPT ![<<home[w], req[w].skill, req[w].version>>] = x]
            /\ Ours => kept'[<<s, v>>] = None
            /\ ~Ours => kept'[<<s, v>>] = kept[<<s, v>>]
            /\ pc[w] \in {"remove", "removing"}
        BY <1>0, <2>9 DEF RemoveFiles, RemoveDir, HomeDir, IInv, Local, LocalOK, Swap, SwapOK,
           Key, Request
      <3>2. ~Ours
        BY <3>1 DEF Published
      <3>3. \A a \in Authors : live'[<<a, s, v>>] = live[<<a, s, v>>]
        BY <1>0, <3>1, <3>2
      <3>4. Published(s, v)
        BY <3>1, <3>2, <3>3, HiddenAssumption DEF Published
      <3> QED
        BY <2>2, <2>3, <3>1, <3>2, <3>3, <3>4 DEF Aside
    <2>10. CASE UNCHANGED <<live, kept>>
      <3>1. Published(s, v)
        BY <2>10 DEF Published
      <3>2. CASE \E a \in Authors : live[<<a, s, v>>] = kept[<<s, v>>]
        BY <2>10, <3>2
      <3>3. CASE Aside(w, s, v) /\ saved[w] = kept[<<s, v>>]
        <4>1. Install(w) \/ InstallBlocked(w) \/ Restore(w) \/ Fail(w)
          BY <1>3, <3>3, AsideSteps DEF Aside
        <4>2. Fail(w) => pc[w] # "restore"
          <5> SUFFICES ASSUME Fail(w), pc[w] = "restore" PROVE FALSE
            OBVIOUS
          <5>1. faults' = faults + 1
            BY DEF Fail
          <5>2. faults >= 1
            BY <3>1, <3>3 DEF Published, Aside, SwapIInv, Explained
          <5> QED
            BY <1>0, <5>1, <5>2
        <4>3. CASE InstallBlocked(w) \/ Fail(w)
          <5>1. /\ pc' = [pc EXCEPT ![w] = "restore"] /\ UNCHANGED <<req, home, saved, kept>>
            BY <3>3, <4>2, <4>3 DEF InstallBlocked, Fail, Aside, Goto, disk, locals, Fallible
          <5> QED
            BY <3>3, <5>1 DEF Aside, IInv, TypeOK, ControlOK
        <4>4. CASE Install(w)
          BY <2>7, <4>4
        <4>5. CASE Restore(w)
          BY <2>8, <4>5
        <4> QED
          BY <4>1, <4>3, <4>4, <4>5
      <3> QED
        BY <2>2, <2>3, <2>10, <3>1, <3>2, <3>3
    <2> QED
      <3>1. \/ UNCHANGED <<live, kept>>
            \/ Backup(w) \/ Install(w) \/ Restore(w) \/ RemoveFiles(w) \/ RemoveDir(w)
        BY <1>3 DEF Serve, Create, Delete, IndexWrite, Reindex, GetVersion, Validate, disk,
           Begin, Acquire, CreateFind, Stage, InstallBlocked, Discard, DeleteFind,
           DeleteCleanup, ReadIndex, OpenTmp, WriteTmp, RenameIndex, ReindexRoot,
           ReindexAuthor, ReindexSkill, ReindexVersion, ReindexWrite, GetIndex, ReadFirst,
           ReadRest, FindRoot, Probe, ReadMD, Reply, Fail
      <3> QED
        BY <2>6, <2>7, <2>8, <2>9, <2>10, <3>1
  <1> QED
    BY <1>1, <1>2, <1>3 DEF Next, Finished

LEMMA SwapInductive == Spec => []SwapIInv
  <1>1. Init => SwapIInv
    BY DEF Init, SwapIInv, Explained, Recoverable, Published
  <1>2. IInv /\ SwapIInv /\ [Next]_vars => SwapIInv'
    BY ExplainedStep, RecoverableStep DEF SwapIInv
  <1> QED
    BY <1>1, <1>2, Inductive, PTL DEF Spec

(* Without a crash and with at most one failure: whenever no call holds a  *)
(* skill's lock, each of its published versions is in place with the       *)
(* content last put there (Create, 147-151).                               *)
THEOREM FailedSwapTheorem == Spec => []FailedSwapRestores
  <1>1. IInv /\ SwapIInv => FailedSwapRestores
    <2> SUFFICES ASSUME IInv, SwapIInv, crashes = 0, faults =< 1,
                        NEW s \in Skills, NEW v \in Versions, Published(s, v), lock[s] = None
                 PROVE  \E a \in Authors : live[<<a, s, v>>] = kept[<<s, v>>]
      BY DEF FailedSwapRestores
    <2>1. ASSUME NEW w \in Workers, Aside(w, s, v) PROVE FALSE
      <3>1. Critical(w) /\ req[w].skill = s
        BY <2>1 DEF Aside, Critical, IInv, Local, LocalOK
      <3> QED
        BY <3>1, SentinelAssumption DEF IInv, Held
    <2> QED
      BY <2>1 DEF SwapIInv, Recoverable
  <1> QED
    BY <1>1, Inductive, SwapInductive, PTL
=============================================================================
