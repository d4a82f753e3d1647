------------------------- MODULE FSStoreIndexProofs -------------------------
(***************************************************************************)
(* What readers of the store are told: UndisturbedReadsAreExact and        *)
(* ReindexRepairs hold for every value of the constants, and               *)
(* IndexMatchesDisk while there is one skill, so that its lock happens to  *)
(* guard the index too, no Reindex, and no Create for an author whose      *)
(* directory is not searched.                                              *)
(***************************************************************************)
EXTENDS FSStoreRefinesProofs

-----------------------------------------------------------------------------
(* The directories that the listings start from.                           *)

Holding == {"stage", "backup", "install", "restore", "remove"}
ParentOf(w) ==
    /\ pc[w] \in {"backup", "install"} => <<req[w].author, req[w].skill>> \in parents
    /\ pc[w] \in Holding /\ home[w] # None =>
         <<home[w], req[w].skill>> \in parents
Parents ==
    /\ \A d \in Dir : live[d] # None => <<d[1], d[2]>> \in parents
    /\ \A w \in Workers : ParentOf(w)

\* Only the owner of a skill's lock removes a directory of that skill, and
\* only when no version is in it.
LEMMA ParentsStay ==
    ASSUME IInv, NEW w \in Workers, Begin(w) \/ Serve(w) \/ Fail(w),
           NEW a \in Authors, NEW s \in Skills, <<a, s>> \in parents
    PROVE  \/ <<a, s>> \in parents'
           \/ /\ Discard(w) \/ DeleteCleanup(w)
              /\ s = req[w].skill /\ Critical(w)
              /\ \A v \in Versions : live[<<a, s, v>>] = None
              /\ live' = live
  <1>1. CASE Discard(w) \/ DeleteCleanup(w)
    <2>1. \E baks : CleanupParents(home[w], req[w].skill, baks)
      BY <1>1 DEF Discard, DeleteCleanup
    <2>2. \/ parents' = parents
          \/ /\ \A v \in Versions : live[<<home[w], req[w].skill, v>>] = None
             /\ parents' = parents \ {<<home[w], req[w].skill>>}
      BY <2>1 DEF CleanupParents
    <2>3. Critical(w) /\ live' = live
      BY <1>1 DEF Discard, DeleteCleanup, Critical, IInv, Local, LocalOK
    <2> QED
      BY <1>1, <2>2, <2>3
  <1>2. CASE ~(Discard(w) \/ DeleteCleanup(w))
    <2>1. parents \subseteq parents'
      BY <1>2 DEF Serve, Create, Delete, IndexWrite, Reindex, GetVersion, Validate, disk,
         Begin, Acquire, CreateFind, Stage, Backup, Install, InstallBlocked, Restore,
         DeleteFind, RemoveFiles, RemoveDir, ReadIndex, OpenTmp, WriteTmp,
         RenameIndex, ReindexRoot, ReindexAuthor, ReindexSkill, ReindexVersion, ReindexWrite,
         GetIndex, ReadFirst, ReadRest, FindRoot, Probe, ReadMD, Reply, Fail
    <2> QED
      BY <2>1
  <1> QED
    BY <1>1, <1>2

LEMMA ParentsStep ==
    ASSUME IInv, Parents, [Next]_vars
    PROVE  Parents'
  <1>1. CASE UNCHANGED vars
    BY <1>1 DEF vars, disk, locals, Parents, ParentOf
  <1>2. CASE Crash
    BY <1>2 DEF Crash, disk, Parents, ParentOf
  <1>3. ASSUME NEW w \in Workers, Begin(w) \/ Serve(w) \/ Fail(w) PROVE Parents'
    <2>1. ASSUME NEW x \in Workers, x # w PROVE ParentOf(x)'
      <3>1. pc'[x] = pc[x] /\ req'[x] = req[x] /\ home'[x] = home[x]
        BY <1>3, <2>1, Frame DEF IInv
      <3> SUFFICES ASSUME pc[x] \in Holding PROVE ParentOf(x)'
        BY <3>1 DEF ParentOf, Holding
      <3>2. req[x] \in Request /\ Critical(x) /\ home[x] \in Visible \cup {None}
        BY DEF IInv, Local, LocalOK, Critical, Holding
      <3>3. ASSUME NEW a \in Authors, <<a, req[x].skill>> \in parents
            PROVE  <<a, req[x].skill>> \in parents'
        BY <1>3, <2>1, <3>2, <3>3, ParentsStay, Exclusive DEF Request, IInv
      <3> QED
        BY <3>1, <3>2, <3>3 DEF ParentOf, Parents, Visible, Request, Holding
    <2>2. ParentOf(w)'
      <3> SUFFICES ASSUME pc'[w] \in Holding PROVE ParentOf(w)'
        BY DEF ParentOf, Holding
      <3>1. \/ CreateFind(w) \/ DeleteFind(w) \/ Stage(w)
            \/ Backup(w) \/ InstallBlocked(w) \/ Fail(w)
        <4>1. ~Begin(w)
          <5>1. \A r \in Requests : FirstStep(r.op) \notin Holding
            BY RequestsAssumption DEF FirstStep, Request, Ops, Holding
          <5> QED
            BY <5>1 DEF Begin, Goto, IInv, TypeOK, ControlOK
        <4> QED
          BY <1>3, <4>1 DEF Serve, Create, Delete, IndexWrite, Reindex, GetVersion, Validate,
             Acquire, Install, Restore, Discard, Holding,
             RemoveFiles, RemoveDir, DeleteCleanup, ReadIndex, OpenTmp, WriteTmp,
             RenameIndex, ReindexRoot, ReindexAuthor, ReindexSkill, ReindexVersion,
             ReindexWrite, GetIndex, ReadFirst, ReadRest, FindRoot, Probe, ReadMD, Reply,
             Goto, Return, IInv, TypeOK, ControlOK
      <3>2. CASE CreateFind(w) \/ DeleteFind(w)
        <4>1. /\ req[w] \in Request /\ req' = req /\ parents' = parents /\ home[w] = None
              /\ pc'[w] \in {"stage", "remove"}
              /\ \/ home' = home
                 \/ \E a \in Homes(req[w].skill, req[w].version) :
                        home' = [home EXCEPT ![w] = a]
          BY <3>2 DEF CreateFind, DeleteFind, IInv, Local, LocalOK, disk, Goto, Return,
             TypeOK, ControlOK, Holding
        <4>2. ASSUME NEW a \in Homes(req[w].skill, req[w].version)
              PROVE  <<a, req[w].skill>> \in parents
          <5>1. <<a, req[w].skill, req[w].version>> \in Dir
            BY <4>1 DEF Homes, Dir, Visible, Request
          <5> QED
            BY <5>1 DEF Parents, Homes
        <4> QED
          BY <4>1, <4>2 DEF ParentOf, IInv, TypeOK, LocalsOK
      <3>3. CASE Stage(w)
        BY <3>3 DEF Stage, Parents, ParentOf, Goto, IInv, TypeOK, ControlOK, locals, Holding
      <3>4. CASE Backup(w)
        BY <3>4 DEF Backup, Parents, ParentOf, Goto, IInv, TypeOK, ControlOK, locals, Holding,
           Local, LocalOK, Swap, SwapOK
      <3>5. CASE InstallBlocked(w)
        BY <3>5 DEF InstallBlocked, Parents, ParentOf, Goto, IInv, TypeOK, ControlOK, locals,
           disk, Holding
      <3>6. CASE Fail(w)
        BY <3>6 DEF Fail, Parents, ParentOf, Goto, Return, IInv, TypeOK, ControlOK, disk, Holding
      <3> QED
        BY <3>1, <3>2, <3>3, <3>4, <3>5, <3>6
    <2>3. ASSUME NEW d \in Dir, live'[d] # None PROVE <<d[1], d[2]>> \in parents'
      <3>1. d = <<d[1], d[2], d[3]>> /\ d[1] \in Authors /\ d[2] \in Skills /\ d[3] \in Versions
        BY DEF Dir
      <3>2. CASE live[d] # None
        <4>1. <<d[1], d[2]>> \in parents
          BY <3>2 DEF Parents
        <4> QED
          BY <1>3, <2>3, <3>1, <3>2, <4>1, ParentsStay
      <3>3. CASE live[d] = None
        <4>0. live \in [Dir -> Contents \cup {None, Partial}]
          BY DEF IInv, TypeOK, DiskOK
        <4>1. \/ Install(w) /\ d = Target(w)
              \/ (Restore(w) \/ RemoveFiles(w)) /\ d = HomeDir(w)
          BY <1>3, <2>3, <3>3, <4>0 DEF Serve, Create, Delete, IndexWrite, Reindex, GetVersion,
             Validate, disk, Begin, Acquire, CreateFind, Stage, Backup, Install, InstallBlocked,
             Restore, PutBack, Discard, DeleteFind, RemoveFiles, RemoveDir, DeleteCleanup,
             ReadIndex, OpenTmp, WriteTmp,
             RenameIndex, ReindexRoot, ReindexAuthor, ReindexSkill, ReindexVersion,
             ReindexWrite, GetIndex, ReadFirst, ReadRest, FindRoot, Probe, ReadMD, Reply, Fail
        <4>2. /\ Install(w) => pc[w] = "install" /\ parents' = parents
              /\ Restore(w) => pc[w] = "restore" /\ home[w] # None /\ parents' = parents
              /\ RemoveFiles(w) => pc[w] = "remove" /\ home[w] # None /\ parents' = parents
          BY SentinelAssumption DEF Install, Restore, RemoveFiles, IInv, Local, LocalOK, Visible
        <4>3. CASE Install(w)
          <5>1. pc[w] = "install" /\ parents' = parents
            BY <4>2, <4>3
          <5>2. d[1] = req[w].author /\ d[2] = req[w].skill
            BY <4>1, <4>3, <5>1 DEF Restore, RemoveFiles, Target
          <5> QED
            BY <5>1, <5>2 DEF Parents, ParentOf
        <4>4. CASE Restore(w) \/ RemoveFiles(w)
          <5>1. pc[w] \in {"restore", "remove"} /\ home[w] # None /\ parents' = parents
            BY <4>2, <4>4
          <5>2. d[1] = home[w] /\ d[2] = req[w].skill
            BY <4>1, <4>4, <5>1 DEF Install, HomeDir
          <5> QED
            BY <5>1, <5>2 DEF Parents, ParentOf, Holding
        <4> QED
          BY <4>1, <4>3, <4>4
      <3> QED
        BY <3>2, <3>3
    <2> QED
      BY <2>1, <2>2, <2>3 DEF Parents
  <1> QED
    BY <1>1, <1>2, <1>3 DEF Next, Finished

LEMMA ParentsInductive == Spec => []Parents
  <1>1. Init => Parents
    BY DEF Init, Parents, ParentOf, Holding
  <1>2. IInv /\ Parents /\ [Next]_vars => Parents'
    BY ParentsStep
  <1> QED
    BY <1>1, <1>2, Inductive, PTL DEF Spec

-----------------------------------------------------------------------------
(* A read that no writer of its version overlapped.                        *)

HomesOf(w) == Homes(req[w].skill, req[w].version)

ReadOK(w) ==
    /\ pc[w] \in {"findRoot", "probe", "readMD"} => req[w].op = "validate"
    /\ pc[w] \in {"getIndex", "readFirst", "readRest"} => req[w].op = "get"
    /\ pc[w] \in {"openTmp", "writeTmp", "renameIndex"} =>
         req[w].op \in {"create", "delete", "reindex"}
    /\ pc[w] = "probe" => todo[w].authors \subseteq Visible
    /\ pc[w] = "reply" /\ req[w].op = "get" /\ answer[w] = "ok" => home[w] \in Authors
    /\ ~touched[w] =>
         /\ pc[w] = "probe" => HomesOf(w) \subseteq todo[w].authors
         /\ pc[w] = "readMD" => home[w] \in HomesOf(w)
         /\ pc[w] = "readRest" => live[HomeDir(w)] = saved[w]
         /\ pc[w] = "reply" /\ req[w].op = "validate" =>
              /\ answer[w] = "ok" => HomesOf(w) # {}
              /\ answer[w] = "notfound" =>
                   \A a \in HomesOf(w) : live[<<a, req[w].skill, req[w].version>>] = Partial
         /\ pc[w] = "reply" /\ req[w].op = "get" =>
              answer[w] # "torn" /\ (answer[w] = "ok" => live[HomeDir(w)] = saved[w])
Reading == \A w \in Workers : ReadOK(w)

\* Every step of another worker that touches the version of a read marks it.
LEMMA Untouched ==
    ASSUME IInv, NEW x \in Workers, Begin(x) \/ Serve(x) \/ Fail(x),
           NEW w \in Workers, w # x, pc[w] # "idle", ~touched'[w]
    PROVE  /\ ~touched[w] /\ todo'[w] = todo[w]
           /\ req[w].op \in {"get", "validate"} =>
                \A a \in Authors : live'[<<a, req[w].skill, req[w].version>>]
                                     = live[<<a, req[w].skill, req[w].version>>]
           /\ req[w].op = "reindex" => ~Begin(x)
  <1>0. /\ req[w] \in Request /\ touched \in [Workers -> BOOLEAN]
        /\ live \in [Dir -> Contents \cup {None, Partial}]
        /\ todo \in [Workers -> Listing]
    BY DEF IInv, Local, LocalOK, TypeOK, HistoryOK, DiskOK, LocalsOK
  <1>1. CASE Backup(x) \/ Install(x) \/ Restore(x) \/ RemoveFiles(x) \/ RemoveDir(x)
    <2>1. /\ Touch(req[x].skill, req[x].version) /\ todo' = todo
          /\ \E a, c : live' = [live EXCEPT ![<<a, req[x].skill, req[x].version>>] = c]
      BY <1>1 DEF Backup, Install, Restore, RemoveFiles, RemoveDir, PutBack, Target, HomeDir, locals
    <2>2. ~touched[w] /\ (req[w].op \in {"get", "validate"} =>
                             ~(req[w].skill = req[x].skill /\ req[w].version = req[x].version))
      BY <2>1 DEF Touch
    <2>3. ASSUME NEW a \in Authors, req[w].op \in {"get", "validate"}
          PROVE  live'[<<a, req[w].skill, req[w].version>>]
                   = live[<<a, req[w].skill, req[w].version>>]
      BY <1>0, <2>1, <2>2, <2>3 DEF Dir, Request
    <2>4. ~Begin(x)
      BY <1>1 DEF Begin, Backup, Install, Restore, RemoveFiles, RemoveDir
    <2> QED
      BY <2>1, <2>2, <2>3, <2>4
  <1>2. CASE Begin(x)
    BY <1>0, <1>2 DEF Begin, disk, locals
  <1>3. CASE Reply(x) \/ Fail(x)
    BY <1>0, <1>3 DEF Reply, Fail, disk, Visit, Skipped, Begin, Fallible
  <1>4. CASE ~(Reply(x) \/ Fail(x) \/ Begin(x)) /\ UNCHANGED <<live, touched>>
    <2>1. todo'[w] = todo[w]
      BY <1>0, <1>4 DEF Serve, Create, Delete, IndexWrite, Reindex, GetVersion, Validate, locals,
         Acquire, CreateFind, Stage, Backup, Install, InstallBlocked, Restore, Discard,
         DeleteFind, RemoveFiles, RemoveDir, DeleteCleanup, ReadIndex, OpenTmp, WriteTmp,
         RenameIndex, ReindexRoot, ReindexAuthor, ReindexSkill, ReindexVersion, ReindexWrite,
         GetIndex, ReadFirst, ReadRest, FindRoot, Probe, ReadMD, Visit
    <2> QED
      BY <1>4, <2>1
  <1> QED
    <2>1. \/ Backup(x) \/ Install(x) \/ Restore(x) \/ RemoveFiles(x) \/ RemoveDir(x)
          \/ Reply(x) \/ Fail(x) \/ Begin(x) \/ UNCHANGED <<live, touched>>
      BY DEF Serve, Create, Delete, IndexWrite, Reindex, GetVersion, Validate, disk,
         Acquire, CreateFind, Stage, InstallBlocked, Discard,
         DeleteFind, DeleteCleanup, ReadIndex, OpenTmp, WriteTmp,
         RenameIndex, ReindexRoot, ReindexAuthor, ReindexSkill, ReindexVersion, ReindexWrite,
         GetIndex, ReadFirst, ReadRest, FindRoot, Probe, ReadMD
    <2> QED
      BY <1>1, <1>2, <1>3, <1>4, <2>1

\* A step of another worker.
LEMMA ReadingFrame ==
    ASSUME IInv, NEW x \in Workers, Begin(x) \/ Serve(x) \/ Fail(x),
           NEW w \in Workers, w # x, ReadOK(w)
    PROVE  ReadOK(w)'
  <1>1. /\ pc'[w] = pc[w] /\ req'[w] = req[w] /\ answer'[w] = answer[w]
        /\ home'[w] = home[w] /\ saved'[w] = saved[w]
    BY Frame DEF IInv
  <1>2. pc[w] = "probe" => todo'[w] = todo[w]
    BY DEF Serve, Create, Delete, IndexWrite, Reindex, GetVersion, Validate, locals, Listing,
       Acquire, CreateFind, Stage, Backup, Install, InstallBlocked, Restore, Discard, Begin,
       DeleteFind, RemoveFiles, RemoveDir, DeleteCleanup, ReadIndex, OpenTmp, WriteTmp,
       RenameIndex, ReindexRoot, ReindexAuthor, ReindexSkill, ReindexVersion, ReindexWrite,
       GetIndex, ReadFirst, ReadRest, FindRoot, Probe, ReadMD, Visit, Reply, Fail, Skipped,
       IInv, TypeOK, LocalsOK
  <1>3. /\ pc[w] \in {"probe", "readMD"} => req[w].op = "validate"
        /\ pc[w] = "readRest" => req[w].op = "get" /\ home[w] \in Authors
    BY DEF ReadOK, IInv, Local, LocalOK
  <1>4. /\ ReadOK(w)!1 /\ ReadOK(w)!2 /\ ReadOK(w)!3 /\ ReadOK(w)!4 /\ ReadOK(w)!5
    BY DEF ReadOK
  <1>5. CASE touched'[w] \/ pc[w] = "idle"
    BY <1>1, <1>2, <1>4, <1>5 DEF ReadOK
  <1>6. CASE ~touched'[w] /\ pc[w] # "idle"
    <2>1. /\ ~touched[w]
          /\ req[w].op \in {"get", "validate"} =>
               \A a \in Authors : live'[<<a, req[w].skill, req[w].version>>]
                                    = live[<<a, req[w].skill, req[w].version>>]
      BY <1>6, Untouched
    <2>2. req[w].op \in {"get", "validate"} => HomesOf(w)' = HomesOf(w)
      BY <1>1, <2>1 DEF HomesOf, Homes, Visible
    <2>3. pc[w] = "readMD" \/ (pc[w] = "reply" /\ req[w].op = "validate") =>
              HomesOf(w) \subseteq Authors
      BY DEF HomesOf, Homes, Visible
    <2>4. /\ pc[w] = "readRest" \/ (pc[w] = "reply" /\ req[w].op = "get" /\ answer[w] = "ok") =>
               live'[HomeDir(w)'] = live[HomeDir(w)]
      BY <1>1, <1>3, <1>4, <2>1 DEF HomeDir
    <2>5. ReadOK(w)!6
      BY <2>1 DEF ReadOK
    <2> QED
      BY <1>1, <1>2, <1>4, <2>1, <2>2, <2>3, <2>4, <2>5, <1>3 DEF ReadOK
  <1> QED
    BY <1>5, <1>6

\* The author directories hold every home.
LEMMA HomesAreListed ==
    ASSUME IInv, Parents, NEW w \in Workers, req[w] \in Request
    PROVE  HomesOf(w) \subseteq AuthorDirs /\ AuthorDirs \subseteq Visible
  <1> SUFFICES ASSUME NEW a \in HomesOf(w) PROVE a \in AuthorDirs
    BY DEF AuthorDirs
  <1>1. /\ a \in Visible /\ <<a, req[w].skill, req[w].version>> \in Dir
        /\ live[<<a, req[w].skill, req[w].version>>] # None /\ req[w].skill \in Skills
    BY DEF HomesOf, Homes, Visible, Dir, Request
  <1>2. <<a, req[w].skill>> \in parents
    BY <1>1 DEF Parents
  <1> QED
    BY <1>1, <1>2 DEF AuthorDirs

\* A step of its own, one case per operation that the clauses speak of.
LEMMA ReadingOwn ==
    ASSUME IInv, Parents, NEW w \in Workers, ReadOK(w), Begin(w) \/ Serve(w) \/ Fail(w)
    PROVE  ReadOK(w)'
  <1>0. /\ pc \in [Workers -> Labels] /\ answer \in [Workers -> Answers]
        /\ home \in [Workers -> Authors \cup {None}] /\ todo \in [Workers -> Listing]
        /\ saved \in [Workers -> Contents \cup {None, Partial}]
        /\ req \in [Workers -> Request \cup {None}]
        /\ touched \in [Workers -> BOOLEAN]
    BY DEF IInv, TypeOK, ControlOK, LocalsOK, HistoryOK
  <1>1. CASE Begin(w)
    <2>1. PICK r \in Requests : /\ pc' = [pc EXCEPT ![w] = FirstStep(r.op)]
                                /\ req' = [req EXCEPT ![w] = r]
      BY <1>1 DEF Begin, Goto
    <2>2. r.op \in Ops
      BY RequestsAssumption DEF Request
    <2> QED
      BY <1>0, <2>1, <2>2 DEF ReadOK, FirstStep, Ops
  <1>2. CASE Reply(w)
    BY <1>0, <1>2 DEF Reply, ReadOK, Goto
  <1>3. CASE FindRoot(w)
    <2>1. /\ pc'[w] = "probe" /\ pc[w] = "findRoot" /\ UNCHANGED <<req, live, touched>>
          /\ todo'[w].authors = AuthorDirs
      BY <1>0, <1>3 DEF FindRoot, Goto, Visit, disk
    <2>2. req[w] \in Request /\ req[w].op = "validate"
      BY <2>1 DEF ReadOK, IInv, Local, LocalOK
    <2>3. HomesOf(w)' = HomesOf(w)
      BY <2>1 DEF HomesOf, Homes, Visible
    <2> QED
      BY <2>1, <2>2, <2>3, HomesAreListed DEF ReadOK
  <1>4. CASE Probe(w)
    <2>1. /\ pc[w] = "probe" /\ req[w].op = "validate" /\ UNCHANGED <<req, live, touched, saved>>
          /\ todo[w].authors \subseteq Visible /\ req[w] \in Request
          /\ ~touched[w] => HomesOf(w) \subseteq todo[w].authors
      BY <1>4 DEF Probe, ReadOK, disk, IInv, Local, LocalOK
    <2>2. HomesOf(w)' = HomesOf(w)
      BY <2>1 DEF HomesOf, Homes, Visible
    <2>3. CASE EndOfProbes(w)
      <3>1. CASE Return(w, "notfound")
        BY <1>0, <2>1, <2>2, <2>3, <3>1 DEF Return, Goto, ReadOK, EndOfProbes
      <3>2. CASE ~Return(w, "notfound")
        BY <1>4, <2>3, <3>2 DEF Probe, EndOfProbes
      <3> QED
        BY <3>1, <3>2
    <2>4. CASE ~EndOfProbes(w)
      <3>1. PICK a \in todo[w].authors :
              IF live[<<a, req[w].skill, req[w].version>>] = None
                THEN /\ Visit(w, todo[w].authors \ {a}, {}, {})
                     /\ UNCHANGED <<pc, answer, home>>
                ELSE /\ home' = [home EXCEPT ![w] = a]
                     /\ Goto(w, "readMD") /\ UNCHANGED <<todo, answer>>
        BY <1>4, <2>4 DEF Probe
      <3>2. CASE live[<<a, req[w].skill, req[w].version>>] = None
        <4>1. /\ todo'[w].authors = todo[w].authors \ {a} /\ pc' = pc
              /\ a \notin HomesOf(w)
          BY <1>0, <3>1, <3>2 DEF Visit, HomesOf, Homes
        <4> QED
          BY <2>1, <2>2, <4>1 DEF ReadOK
      <3>3. CASE live[<<a, req[w].skill, req[w].version>>] # None
        <4>1. home'[w] = a /\ pc'[w] = "readMD" /\ a \in HomesOf(w)
          BY <1>0, <2>1, <3>1, <3>3 DEF Goto, HomesOf, Homes
        <4> QED
          BY <2>1, <2>2, <4>1 DEF ReadOK
      <3> QED
        BY <3>2, <3>3
    <2> QED
      BY <2>3, <2>4
  <1>5. CASE ReadMD(w)
    <2>1. /\ pc[w] = "readMD" /\ pc'[w] = "reply" /\ UNCHANGED <<req, live, touched, home>>
          /\ req[w].op = "validate" /\ req[w] \in Request
          /\ ~touched[w] => home[w] \in HomesOf(w)
          /\ answer'[w] = "notfound" => live[HomeDir(w)] \in {None, Partial}
      BY <1>0, <1>5 DEF ReadMD, ReadOK, disk, locals, Return, Goto, IInv, Local, LocalOK
    <2>2. HomesOf(w)' = HomesOf(w)
      BY <2>1 DEF HomesOf, Homes, Visible
    <2>3. ASSUME ~touched[w], NEW a \in HomesOf(w) PROVE a = home[w] /\ live[HomeDir(w)] # None
      BY <2>1, <2>3 DEF IInv, OneHome, HomesOf, Request, Homes, HomeDir
    <2> QED
      BY <2>1, <2>2, <2>3 DEF ReadOK, HomeDir
  <1>6. CASE ReadFirst(w)
    <2>1. /\ UNCHANGED <<req, live, touched, home>> /\ req[w].op = "get"
          /\ \/ pc'[w] = "reply" /\ answer'[w] = "notfound"
             \/ pc'[w] = "readRest" /\ saved'[w] = live[HomeDir(w)]
      BY <1>0, <1>6 DEF ReadFirst, ReadOK, disk, Return, Goto
    <2> QED
      BY <2>1 DEF ReadOK, HomeDir
  <1>7. CASE ReadRest(w)
    <2>1. /\ pc[w] = "readRest" /\ pc'[w] = "reply" /\ UNCHANGED <<req, live, touched, home, saved>>
          /\ req[w].op = "get" /\ home[w] \in Authors
          /\ answer'[w] = IF live[HomeDir(w)] = saved[w] THEN "ok" ELSE "torn"
          /\ ~touched[w] => live[HomeDir(w)] = saved[w]
      BY <1>0, <1>7 DEF ReadRest, ReadOK, disk, locals, Return, Goto, IInv, Local, LocalOK
    <2> QED
      BY <2>1 DEF ReadOK, HomeDir
  <1>8. CASE GetIndex(w)
    <2>1. /\ pc[w] = "getIndex" /\ req' = req
          /\ \/ pc'[w] = "reply" /\ answer'[w] \in {"error", "notfound"}
             \/ pc'[w] = "readFirst"
      BY <1>0, <1>8 DEF GetIndex, Return, Goto
    <2> QED
      BY <2>1 DEF ReadOK
  <1>9. CASE Fail(w)
    <2>1. req' = req /\ home' = home
      BY <1>9 DEF Fail
    <2>2. \/ pc'[w] = "reply" /\ answer'[w] = "error"
          \/ pc'[w] = "restore"
          \/ pc'[w] = "reply" /\ answer'[w] = "torn" /\ req[w].op = "get" /\ touched'[w]
          \/ pc'[w] = "scan"
      BY <1>0, <1>9 DEF Fail, Return, Goto, ReadOK
    <2> QED
      BY <2>1, <2>2 DEF ReadOK
  <1>10. CASE Acquire(w) \/ Create(w) \/ Delete(w) \/ IndexWrite(w) \/ Reindex(w)
    <2>1. req' = req /\ req[w].op \in {"create", "delete", "reindex"}
      BY <1>10 DEF Acquire, Create, Delete, IndexWrite, Reindex,
         CreateFind, Stage, Backup, Install, InstallBlocked, Restore, Discard,
         DeleteFind, RemoveFiles, RemoveDir, DeleteCleanup, ReadIndex, OpenTmp, WriteTmp,
         RenameIndex, ReindexRoot, ReindexAuthor, ReindexSkill, ReindexVersion, ReindexWrite,
         ReadOK, IInv, Local, LocalOK
    <2>2. pc'[w] \notin {"findRoot", "probe", "readMD", "getIndex", "readFirst", "readRest"}
      BY <1>0, <1>10 DEF Acquire, Create, Delete, IndexWrite, Reindex, Goto, Return,
         CreateFind, Stage, Backup, Install, InstallBlocked, Restore, Discard,
         DeleteFind, RemoveFiles, RemoveDir, DeleteCleanup, ReadIndex, OpenTmp, WriteTmp,
         RenameIndex, ReindexRoot, ReindexAuthor, ReindexSkill, ReindexVersion, ReindexWrite
    <2> QED
      BY <2>1, <2>2 DEF ReadOK
  <1> QED
    BY <1>1, <1>2, <1>3, <1>4, <1>5, <1>6, <1>7, <1>8, <1>9, <1>10 DEF Serve, GetVersion, Validate

LEMMA ReadingInductive == Spec => []Reading
  <1>1. Init => Reading
    BY DEF Init, Reading, ReadOK
  <1>2. IInv /\ Parents /\ Reading /\ [Next]_vars => Reading'
    <2> SUFFICES ASSUME IInv, Parents, Reading, [Next]_vars, NEW w \in Workers
                 PROVE  ReadOK(w)'
      BY DEF Reading
    <2>1. CASE UNCHANGED vars
      BY <2>1 DEF vars, disk, locals, Reading, ReadOK, HomesOf, Homes, Visible, HomeDir
    <2>2. CASE Crash
      BY <2>2 DEF Crash, ReadOK
    <2>3. ASSUME NEW x \in Workers, Begin(x) \/ Serve(x) \/ Fail(x) PROVE ReadOK(w)'
      BY <2>3, ReadingFrame, ReadingOwn DEF Reading
    <2> QED
      BY <2>1, <2>2, <2>3 DEF Next, Finished
  <1> QED
    BY <1>1, <1>2, Inductive, ParentsInductive, PTL DEF Spec

(* Validate and GetVersion take no lock, but when no writer of the version *)
(* came in between they answer what the directories say, whatever else     *)
(* runs (GetVersion, Validate).                                            *)
THEOREM UndisturbedReadsTheorem == Spec => []UndisturbedReadsAreExact
  <1>1. Reading => UndisturbedReadsAreExact
    BY DEF Reading, ReadOK, UndisturbedReadsAreExact, HomesOf
  <1> QED
    BY <1>1, ReadingInductive, PTL

-----------------------------------------------------------------------------
(* A Reindex that ran alone and could list every directory.                *)

EntryOf(d) == [skill |-> d[2], version |-> d[3], author |-> d[1]]
Needed == {d \in Dir : d[1] \in Visible /\ live[d] \in Contents}

RepairOK(w) ==
    pc[w] # "idle" /\ ~touched[w] /\ req[w].op = "reindex" =>
        /\ \A x \in Workers \ {w} : pc[x] = "idle"
        /\ pc[w] = "scan" =>
             \A d \in Needed : \/ EntryOf(d) \in snap[w]
                               \/ d \in todo[w].versions
                               \/ <<d[1], d[2]>> \in todo[w].skills
                               \/ d[1] \in todo[w].authors
        /\ pc[w] \in {"openTmp", "writeTmp", "renameIndex"} =>
             \A d \in Needed : EntryOf(d) \in snap[w]
        /\ pc[w] = "writeTmp" => fd[w] = "tmp" /\ idxTmp = {}
        /\ pc[w] = "renameIndex" => idxTmp = snap[w]
        /\ pc[w] = "reply" /\ answer[w] = "ok" =>
             index # Corrupt /\ \A d \in Needed : EntryOf(d) \in index
Repairing == \A w \in Workers : RepairOK(w)

\* While it runs alone no other call is there to move, and none may start.
LEMMA RepairFrame ==
    ASSUME IInv, NEW x \in Workers, Begin(x) \/ Serve(x) \/ Fail(x),
           NEW w \in Workers, w # x, RepairOK(w)
    PROVE  RepairOK(w)'
  <1>1. pc'[w] = pc[w] /\ req'[w] = req[w]
    BY Frame DEF IInv
  <1> SUFFICES ASSUME pc[w] # "idle", ~touched'[w], req[w].op = "reindex" PROVE FALSE
    BY <1>1 DEF RepairOK
  <1>2. ~touched[w] /\ ~Begin(x)
    BY Untouched
  <1>3. pc[x] = "idle"
    BY <1>2 DEF RepairOK
  <1> QED
    BY <1>2, <1>3 DEF Serve, Create, Delete, IndexWrite, Reindex, GetVersion, Validate,
       Acquire, CreateFind, Stage, Backup, Install, InstallBlocked, Restore, Discard,
       DeleteFind, RemoveFiles, RemoveDir, DeleteCleanup, ReadIndex, OpenTmp, WriteTmp,
       RenameIndex, ReindexRoot, ReindexAuthor, ReindexSkill, ReindexVersion, ReindexWrite,
       GetIndex, ReadFirst, ReadRest, FindRoot, Probe, ReadMD, Reply, Fail, Fallible

\* The directories a Reindex reads stay as they are while it takes a step.
LEMMA RepairDisk ==
    ASSUME IInv, Reading, NEW w \in Workers, Serve(w) \/ Fail(w), req[w].op = "reindex"
    PROVE  /\ \/ Reindex(w) \/ OpenTmp(w) \/ WriteTmp(w) \/ RenameIndex(w)
              \/ Reply(w) \/ Fail(w)
           /\ pc[w] # "idle" /\ req[w] \in Request
           /\ UNCHANGED <<live, parents>>
           /\ Reply(w) \/ UNCHANGED req
  <1>1. /\ pc[w] # "idle" => req[w] \in Request
        /\ pc[w] \notin {"lock", "find", "readIndex", "stage", "backup", "install", "restore",
                         "discard", "remove", "removing", "cleanup", "findRoot", "probe",
                         "readMD", "getIndex", "readFirst", "readRest"}
    BY DEF IInv, Local, LocalOK, Reading, ReadOK
  <1>2. \/ Reindex(w) \/ OpenTmp(w) \/ WriteTmp(w) \/ RenameIndex(w)
        \/ Reply(w) \/ Fail(w)
    BY <1>1 DEF Serve, Create, Delete, IndexWrite, GetVersion, Validate,
       Acquire, CreateFind, Stage, Backup, Install, InstallBlocked, Restore, Discard,
       DeleteFind, RemoveFiles, RemoveDir, DeleteCleanup, ReadIndex,
       GetIndex, ReadFirst, ReadRest, FindRoot, Probe, ReadMD
  <1> QED
    BY <1>1, <1>2 DEF Reindex, OpenTmp, WriteTmp,
       RenameIndex, ReindexRoot, ReindexAuthor, ReindexSkill, ReindexVersion, ReindexWrite,
       Reply, Fail, Fallible, disk

LEMMA RepairScan ==
    ASSUME IInv, Parents, Reading, NEW w \in Workers, RepairOK(w), Reindex(w),
           req[w].op = "reindex"
    PROVE  RepairOK(w)'
  <1>0. /\ pc \in [Workers -> Labels] /\ todo \in [Workers -> Listing]
        /\ snap \in [Workers -> SUBSET Entry] /\ live \in [Dir -> Contents \cup {None, Partial}]
    BY DEF IInv, TypeOK, DiskOK, ControlOK, LocalsOK
  <1>1. /\ UNCHANGED <<live, parents, req, touched>> /\ pc'[w] \in {"scan", "openTmp"}
        /\ pc[w] # "idle" /\ \A x \in Workers \ {w} : pc'[x] = pc[x]
    BY <1>0 DEF Reindex, ReindexRoot, ReindexAuthor, ReindexSkill, ReindexVersion, ReindexWrite,
       disk, Goto
  <1> SUFFICES ASSUME ~touched[w]
               PROVE  /\ pc'[w] = "scan" =>
                           \A d \in Needed : \/ EntryOf(d) \in snap'[w]
                                             \/ d \in todo'[w].versions
                                             \/ <<d[1], d[2]>> \in todo'[w].skills
                                             \/ d[1] \in todo'[w].authors
                      /\ pc'[w] = "openTmp" => \A d \in Needed : EntryOf(d) \in snap'[w]
    <2>1. Needed' = Needed
      BY <1>1 DEF Needed
    <2> QED
      BY <1>1, <2>1 DEF RepairOK
  <1>2. \A d \in Needed : /\ d = <<d[1], d[2], d[3]>> /\ d \in Dir /\ d[1] \in AuthorDirs
                          /\ <<d[1], d[2]>> \in parents /\ live[d] \notin {None, Partial}
    <2> SUFFICES ASSUME NEW d \in Needed
                 PROVE  /\ d = <<d[1], d[2], d[3]>> /\ d \in Dir /\ d[1] \in AuthorDirs
                        /\ <<d[1], d[2]>> \in parents /\ live[d] \notin {None, Partial}
      OBVIOUS
    <2>1. d = <<d[1], d[2], d[3]>> /\ d \in Dir /\ d[2] \in Skills /\ d[1] \in Visible
      BY DEF Needed, Dir
    <2>2. live[d] \notin {None, Partial}
      BY SentinelAssumption DEF Needed
    <2>3. <<d[1], d[2]>> \in parents
      BY <2>1, <2>2 DEF Parents
    <2> QED
      BY <2>1, <2>2, <2>3 DEF AuthorDirs
  <1>3. CASE ReindexRoot(w)
    <2>1. todo'[w].authors = AuthorDirs /\ pc'[w] = "scan"
      BY <1>0, <1>3 DEF ReindexRoot, Visit, Goto
    <2> QED
      BY <1>2, <2>1
  <1>4. CASE pc[w] = "scan"
    <2>1. \A d \in Needed : \/ EntryOf(d) \in snap[w]
                            \/ d \in todo[w].versions
                            \/ <<d[1], d[2]>> \in todo[w].skills
                            \/ d[1] \in todo[w].authors
      BY <1>4 DEF RepairOK
    <2>2. CASE ReindexAuthor(w)
      <3>1. PICK a \in todo[w].authors :
              Visit(w, todo[w].authors \ {a}, {p \in parents : p[1] = a}, {})
        BY <2>2 DEF ReindexAuthor
      <3>2. /\ todo'[w].authors = todo[w].authors \ {a}
            /\ todo'[w].skills = {p \in parents : p[1] = a}
            /\ snap' = snap /\ pc' = pc /\ todo[w].skills = {} /\ todo[w].versions = {}
        BY <1>0, <2>2, <3>1 DEF Visit, ReindexAuthor
      <3>3. ASSUME NEW d \in Needed, d[1] = a PROVE <<d[1], d[2]>> \in todo'[w].skills
        BY <1>2, <3>2, <3>3
      <3> QED
        BY <1>4, <2>1, <3>2, <3>3
    <2>3. CASE ReindexSkill(w)
      <3>1. PICK p \in todo[w].skills :
              Visit(w, todo[w].authors, todo[w].skills \ {p},
                    {d \in Dir : d[1] = p[1] /\ d[2] = p[2] /\ live[d] # None})
        BY <2>3 DEF ReindexSkill
      <3>2. /\ todo'[w].authors = todo[w].authors
            /\ todo'[w].skills = todo[w].skills \ {p}
            /\ todo'[w].versions = {d \in Dir : d[1] = p[1] /\ d[2] = p[2] /\ live[d] # None}
            /\ snap' = snap /\ pc' = pc /\ todo[w].versions = {}
        BY <1>0, <2>3, <3>1 DEF Visit, ReindexSkill
      <3>3. ASSUME NEW d \in Needed, <<d[1], d[2]>> = p PROVE d \in todo'[w].versions
        BY <1>2, <3>2, <3>3
      <3> QED
        BY <1>4, <2>1, <3>2, <3>3
    <2>4. CASE ReindexVersion(w)
      <3>1. PICK c \in todo[w].versions :
              /\ Visit(w, todo[w].authors, todo[w].skills, todo[w].versions \ {c})
              /\ \/ /\ live[c] # None
                    /\ snap' = [snap EXCEPT ![w] = @ \cup {EntryOf(c)}]
                 \/ live[c] \in {None, Partial} /\ UNCHANGED snap
        BY <2>4 DEF ReindexVersion, EntryOf
      <3>2. /\ todo'[w].authors = todo[w].authors
            /\ todo'[w].skills = todo[w].skills
            /\ todo'[w].versions = todo[w].versions \ {c}
            /\ pc' = pc /\ snap[w] \subseteq snap'[w]
        BY <1>0, <2>4, <3>1 DEF Visit, ReindexVersion
      <3>3. ASSUME c \in Needed PROVE EntryOf(c) \in snap'[w]
        BY <1>0, <1>2, <3>1, <3>3
      <3> QED
        BY <1>4, <2>1, <3>2, <3>3
    <2>5. CASE ReindexWrite(w)
      BY <1>0, <2>1, <2>5 DEF ReindexWrite, NoListing, Goto, locals
    <2> QED
      BY <1>4, <2>2, <2>3, <2>4, <2>5 DEF Reindex, ReindexRoot
  <1> QED
    BY <1>3, <1>4 DEF Reindex, ReindexAuthor, ReindexSkill, ReindexVersion, ReindexWrite

LEMMA RepairOwn ==
    ASSUME IInv, Parents, Reading, NEW w \in Workers, RepairOK(w),
           Begin(w) \/ Serve(w) \/ Fail(w)
    PROVE  RepairOK(w)'
  <1>0. /\ pc \in [Workers -> Labels] /\ answer \in [Workers -> Answers]
        /\ req \in [Workers -> Request \cup {None}] /\ fd \in [Workers -> {"none", "tmp", "index", "gone"}]
        /\ snap \in [Workers -> SUBSET Entry] /\ touched \in [Workers -> BOOLEAN]
    BY DEF IInv, TypeOK, ControlOK, LocalsOK, IndexOK, HistoryOK
  <1>1. CASE Begin(w)
    <2>1. PICK r \in Requests :
            /\ req' = [req EXCEPT ![w] = r] /\ pc' = [pc EXCEPT ![w] = FirstStep(r.op)]
            /\ touched'[w] = (r.op = "reindex" /\ \E y \in Workers : pc[y] # "idle")
      BY <1>1 DEF Begin, Goto
    <2>2. CASE r.op = "reindex"
      BY <1>0, <2>1, <2>2 DEF RepairOK, FirstStep
    <2>3. CASE r.op # "reindex"
      BY <1>0, <2>1, <2>3 DEF RepairOK
    <2> QED
      BY <2>2, <2>3
  <1>2. CASE req[w].op # "reindex" /\ ~Begin(w)
    <2>1. Reply(w) \/ req' = req
      BY <1>2 DEF Serve, Create, Delete, IndexWrite, Reindex, GetVersion, Validate,
         Acquire, CreateFind, Stage, Backup, Install, InstallBlocked, Restore, Discard,
         DeleteFind, RemoveFiles, RemoveDir, DeleteCleanup, ReadIndex, OpenTmp, WriteTmp,
         RenameIndex, ReindexRoot, ReindexAuthor, ReindexSkill, ReindexVersion, ReindexWrite,
         GetIndex, ReadFirst, ReadRest, FindRoot, Probe, ReadMD, Fail
    <2>2. Reply(w) => pc'[w] = "idle"
      BY <1>0 DEF Reply, Goto
    <2> QED
      BY <1>2, <2>1, <2>2 DEF RepairOK
  <1>3. CASE req[w].op = "reindex" /\ ~Begin(w)
    <2>1. /\ \/ Reindex(w) \/ OpenTmp(w) \/ WriteTmp(w) \/ RenameIndex(w)
             \/ Reply(w) \/ Fail(w)
          /\ pc[w] # "idle" /\ req[w] \in Request
          /\ UNCHANGED <<live, parents>> /\ Needed' = Needed
          /\ Reply(w) \/ UNCHANGED req
      BY <1>3, RepairDisk DEF Needed
    <2>2. CASE Reindex(w)
      BY <1>3, <2>2, RepairScan
    <2>3. CASE OpenTmp(w)
      <3>1. /\ pc' = [pc EXCEPT ![w] = "writeTmp"] /\ UNCHANGED <<snap, touched>>
            /\ idxTmp' = {} /\ fd'[w] = "tmp" /\ pc[w] = "openTmp"
        BY <1>0, <2>3 DEF OpenTmp, Goto, locals
      <3> QED
        BY <1>0, <1>3, <2>1, <3>1 DEF RepairOK
    <2>4. CASE WriteTmp(w)
      <3>1. /\ pc' = [pc EXCEPT ![w] = "renameIndex"] /\ UNCHANGED <<snap, touched>>
            /\ pc[w] = "writeTmp"
            /\ fd[w] = "tmp" => idxTmp' \in Overwritten(idxTmp, snap[w])
        BY <1>0, <2>4 DEF WriteTmp, Goto, locals
      <3>2. Overwritten({}, snap[w]) = {snap[w]}
        BY DEF Overwritten
      <3> QED
        BY <1>0, <1>3, <2>1, <3>1, <3>2 DEF RepairOK
    <2>5. CASE RenameIndex(w)
      <3>1. /\ pc[w] = "renameIndex" /\ UNCHANGED <<snap, touched>>
            /\ \/ idxTmp = None
               \/ pc' = [pc EXCEPT ![w] = "reply"] /\ index' = idxTmp
        BY <1>0, <1>3, <2>5 DEF RenameIndex, Return, Goto, locals
      <3>2. idxTmp = None => pc' = [pc EXCEPT ![w] = "reply"] /\ answer'[w] = "error"
        BY <1>0, <2>5 DEF RenameIndex, Return, Goto
      <3>3. snap[w] # Corrupt
        BY <1>0, SentinelAssumption DEF Entry
      <3> QED
        BY <1>0, <1>3, <2>1, <3>1, <3>2, <3>3 DEF RepairOK
    <2>6. CASE Reply(w)
      BY <1>0, <2>6 DEF Reply, RepairOK, Goto
    <2>7. CASE Fail(w)
      <3>1. \/ touched'[w]
            \/ pc' = [pc EXCEPT ![w] = "reply"] /\ answer'[w] = "error"
            \/ pc' = [pc EXCEPT ![w] = "restore"] /\ pc[w] = "install"
        BY <1>0, <2>7 DEF Fail, Return, Goto
      <3>2. touched[w] => touched'[w]
        BY <1>0, <2>7 DEF Fail
      <3>3. pc[w] # "install"
        BY <1>3 DEF IInv, Local, LocalOK
      <3> QED
        BY <1>0, <1>3, <2>1, <3>1, <3>2, <3>3 DEF RepairOK
    <2> QED
      BY <2>1, <2>2, <2>3, <2>4, <2>5, <2>6, <2>7
  <1> QED
    BY <1>1, <1>2, <1>3

LEMMA RepairingInductive == Spec => []Repairing
  <1>1. Init => Repairing
    BY DEF Init, Repairing, RepairOK
  <1>2. IInv /\ Parents /\ Reading /\ Repairing /\ [Next]_vars => Repairing'
    <2> SUFFICES ASSUME IInv, Parents, Reading, Repairing, [Next]_vars, NEW w \in Workers
                 PROVE  RepairOK(w)'
      BY DEF Repairing
    <2>1. CASE UNCHANGED vars
      <3>1. Needed' = Needed
        BY <2>1 DEF vars, disk, Needed
      <3> QED
        BY <2>1, <3>1 DEF vars, idx, locals, Repairing, RepairOK
    <2>2. CASE Crash
      BY <2>2 DEF Crash, RepairOK
    <2>3. ASSUME NEW x \in Workers, Begin(x) \/ Serve(x) \/ Fail(x) PROVE RepairOK(w)'
      BY <2>3, RepairFrame, RepairOwn DEF Repairing
    <2> QED
      BY <2>1, <2>2, <2>3 DEF Next, Finished
  <1> QED
    BY <1>1, <1>2, Inductive, ParentsInductive, ReadingInductive, PTL DEF Spec

(* Without a crash, and after at most one failure of the disk, a Reindex   *)
(* that ran alone, could list every directory and answered ok has put      *)
(* every published version back on the index (Reindex, 337-382).           *)
THEOREM ReindexTheorem == Spec => []ReindexRepairs
  <1>1. IInv /\ SwapIInv /\ Repairing => ReindexRepairs
    <2> SUFFICES ASSUME IInv, SwapIInv, Repairing, crashes = 0, faults =< 1,
                        NEW w \in Workers, Repaired(w)
                 PROVE  AllListed
      BY DEF ReindexRepairs
    <2>1. /\ \A x \in Workers : pc[x] \in {"idle", "reply"}
          /\ index # Corrupt /\ \A d \in Needed : EntryOf(d) \in index
      BY DEF Repairing, RepairOK, Repaired
    <2>2. ASSUME NEW s \in Skills, NEW v \in Versions, Published(s, v)
          PROVE  \E a \in Authors : <<a, s, v>> \in Listed
      <3>1. PICK a \in Authors : live[<<a, s, v>>] = kept[<<s, v>>]
        BY <2>1, <2>2 DEF SwapIInv, Recoverable, Aside
      <3>2. kept[<<s, v>>] \in Contents /\ kept[<<s, v>>] # None
        BY <2>2 DEF IInv, TypeOK, DiskOK, Published
      <3>3. a \in Visible
        BY <2>2, <3>1, <3>2 DEF Published, Visible
      <3>4. <<a, s, v>> \in Needed
        BY <3>1, <3>2, <3>3 DEF Needed, Dir
      <3>5. EntryOf(<<a, s, v>>) \in index
        BY <2>1, <3>4
      <3>6. <<EntryOf(<<a, s, v>>).author, EntryOf(<<a, s, v>>).skill,
              EntryOf(<<a, s, v>>).version>> = <<a, s, v>>
        BY DEF EntryOf
      <3> QED
        BY <3>5, <3>6 DEF Listed
    <2> QED
      BY <2>1, <2>2 DEF AllListed
  <1> QED
    BY <1>1, Inductive, SwapInductive, RepairingInductive, PTL

-----------------------------------------------------------------------------
(* The index, while one skill's lock guards it.                            *)

On(e) == e.author \in Visible /\ live[<<e.author, e.skill, e.version>>] # None

\* The index lists what is on the disk, but for the version that w writes,
\* which it lists where w found it.
Lists(i) == i \in SUBSET Entry /\ \A e \in Entry : e \in i <=> On(e)
Behind(w) ==
    /\ index \in SUBSET Entry
    /\ \A e \in Entry : e \in index <=>
            IF Same(e, req[w]) THEN e.author = home[w] ELSE On(e)

MatchOK(w) ==
    /\ pc[w] # "idle" => req[w].op # "reindex"
    /\ Critical(w) =>
         /\ pc[w] \in {"find", "stage", "backup", "remove", "removing", "cleanup"} =>
              Lists(index)
         /\ pc[w] \in {"stage", "backup", "removing"} /\ home[w] # None => live[HomeDir(w)] # None
         /\ pc[w] \in {"install", "discard", "readIndex"} => Behind(w)
         /\ pc[w] \in {"discard", "readIndex"} /\ req[w].op = "create" =>
              live[Target(w)] # None
         /\ pc[w] = "readIndex" /\ req[w].op = "delete" =>
              \A a \in Visible : live[<<a, req[w].skill, req[w].version>>] = None
         /\ pc[w] \in {"openTmp", "writeTmp"} => Lists(snap[w])
         /\ pc[w] = "writeTmp" => idxTmp = {} /\ fd[w] = "tmp"
         /\ pc[w] = "renameIndex" => Lists(idxTmp)

Matching ==
    faults = 0 /\ crashes = 0 =>
        /\ \A w \in Workers : MatchOK(w)
        /\ (\A w \in Workers : ~Critical(w)) => Lists(index)

OneSkill == \A s, t \in Skills : s = t
NoReindex == \A r \in Requests : r.op # "reindex"

\* The lock of the one skill there is excludes everyone else.
LEMMA OnlyCritical ==
    ASSUME OneSkill, IInv, NEW w \in Workers, Critical(w), NEW x \in Workers, x # w
    PROVE  ~Critical(x)
  <1>1. \A y \in Workers : Critical(y) => req[y].skill \in Skills
    BY DEF IInv, Local, LocalOK, Critical, Request
  <1> QED
    BY <1>1, Exclusive DEF OneSkill, IInv

\* What a worker outside its skill's lock leaves alone.
LEMMA OutsideQuiet ==
    ASSUME IInv, Reading, NEW w \in Workers, Begin(w) \/ Serve(w), ~Critical(w),
           pc[w] # "idle" => req[w].op # "reindex"
    PROVE  /\ UNCHANGED <<live, index, idxTmp, fd>>
           /\ Acquire(w) \/ ~Critical(w)'
           /\ \A x \in Workers : x # w => snap'[x] = snap[x]
           /\ Begin(w) \/ pc'[w] = "idle" \/ (pc[w] # "idle" /\ req' = req)
  <1>0. pc \in [Workers -> Labels] /\ snap \in [Workers -> SUBSET Entry]
    BY DEF IInv, TypeOK, ControlOK, LocalsOK
  <1>1. /\ pc[w] \in {"find", "stage", "backup", "install", "restore", "discard",
                      "remove", "removing", "cleanup", "readIndex"} =>
             req[w].op \in {"create", "delete"}
        /\ pc[w] \in {"openTmp", "writeTmp", "renameIndex"} =>
             req[w].op \in {"create", "delete", "reindex"}
        /\ pc[w] \in {"readRoot", "scan"} => req[w].op = "reindex"
    BY DEF IInv, Local, LocalOK, Reading, ReadOK
  <1>2. /\ pc[w] \notin {"find", "stage", "backup", "install", "restore", "discard",
                         "remove", "removing", "cleanup", "readIndex",
                         "openTmp", "writeTmp", "renameIndex"}
        /\ pc[w] \notin {"readRoot", "scan"}
    BY <1>1 DEF Critical
  <1>3. Acquire(w) \/ GetVersion(w) \/ Validate(w) \/ Reply(w) \/ Begin(w)
    BY <1>2 DEF Serve, Create, Delete, IndexWrite, Reindex,
       CreateFind, Stage, Backup, Install, InstallBlocked, Restore, Discard,
       DeleteFind, RemoveFiles, RemoveDir, DeleteCleanup, ReadIndex, OpenTmp, WriteTmp,
       RenameIndex, ReindexRoot, ReindexAuthor, ReindexSkill, ReindexVersion, ReindexWrite
  <1>4. CASE Begin(w)
    <2>1. \A r \in Requests : FirstStep(r.op) \in {"lock", "readRoot", "getIndex", "findRoot"}
      BY RequestsAssumption DEF FirstStep, Request, Ops
    <2> QED
      BY <1>0, <1>4, <2>1 DEF Begin, Goto, disk, idx, locals, Critical
  <1>5. CASE ~Begin(w)
    BY <1>0, <1>2, <1>3, <1>5 DEF Acquire, GetVersion, Validate, GetIndex, ReadFirst, ReadRest,
       FindRoot, Probe, ReadMD, Reply, Goto, Return, disk, idx, locals, Critical, Visit
  <1> QED
    BY <1>4, <1>5

\* A worker that holds no lock and does not touch the index.
LEMMA MatchOutside ==
    ASSUME OneSkill, NoReindex, IInv, Reading, Matching, faults = 0, crashes = 0,
           NEW w \in Workers, Begin(w) \/ Serve(w), ~Critical(w)
    PROVE  /\ \A x \in Workers : MatchOK(x)'
           /\ (\A x \in Workers : ~Critical(x)') => Lists(index)'
  <1>0. pc \in [Workers -> Labels] /\ req \in [Workers -> Request \cup {None}]
    BY DEF IInv, TypeOK, ControlOK
  <1>1. pc[w] # "idle" => req[w].op # "reindex"
    BY DEF Matching, MatchOK
  <1>2. /\ UNCHANGED <<live, index, idxTmp, fd>>
        /\ Acquire(w) \/ ~Critical(w)'
        /\ \A x \in Workers : x # w => snap'[x] = snap[x]
        /\ Begin(w) \/ pc'[w] = "idle" \/ (pc[w] # "idle" /\ req' = req)
    BY <1>1, OutsideQuiet
  <1>3. /\ \A e : On(e)' = On(e)
        /\ \A i : Lists(i)' <=> Lists(i)
    BY <1>2 DEF On, Lists
  <1>4. ASSUME NEW x \in Workers, x # w PROVE MatchOK(x)' /\ Critical(x)' = Critical(x)
    <2>1. pc'[x] = pc[x] /\ req'[x] = req[x] /\ home'[x] = home[x]
      BY <1>4, Frame DEF IInv
    <2>2. MatchOK(x)
      BY DEF Matching
    <2>3. Behind(x)' <=> Behind(x)
      BY <1>2, <1>3, <2>1 DEF Behind
    <2>4. Critical(x)' = Critical(x)
      BY <2>1 DEF Critical
    <2> QED
      BY <1>2, <1>3, <1>4, <2>1, <2>2, <2>3, <2>4 DEF MatchOK, HomeDir, Target
  <1>5. pc'[w] # "idle" => req'[w].op # "reindex"
    <2>1. Begin(w) => req'[w] \in Requests
      BY <1>0 DEF Begin
    <2> QED
      BY <1>1, <1>2, <2>1 DEF NoReindex
  <1>6. CASE Acquire(w)
    <2>1. pc'[w] = "find" /\ req' = req /\ lock[req[w].skill] = None /\ req[w] \in Request
      BY <1>0, <1>6 DEF Acquire, Goto, LockFree, IInv, Local, LocalOK
    <2>2. ASSUME NEW x \in Workers, Critical(x) PROVE FALSE
      <3>1. lock[req[x].skill] = x /\ req[x] \in Request
        BY <2>2 DEF IInv, Held, Local, LocalOK, Critical
      <3>2. req[x].skill = req[w].skill
        BY <2>1, <3>1 DEF OneSkill, Request
      <3> QED
        BY <2>1, <3>1, <3>2, SentinelAssumption
    <2>3. Lists(index)
      BY <2>2 DEF Matching
    <2>4. MatchOK(w)'
      BY <1>2, <1>3, <1>5, <2>1, <2>3 DEF MatchOK
    <2> QED
      BY <1>2, <1>3, <1>4, <2>3, <2>4
  <1>7. CASE ~Critical(w)'
    <2>1. MatchOK(w)'
      BY <1>5, <1>7 DEF MatchOK
    <2>2. (\A x \in Workers : ~Critical(x)') => Lists(index)
      BY <1>4 DEF Matching
    <2> QED
      BY <1>2, <1>3, <1>4, <2>1, <2>2
  <1> QED
    BY <1>2, <1>6, <1>7

\* The owner of the lock: it finds, stages, moves aside.
LEMMA MatchFind ==
    ASSUME IInv, NEW w \in Workers, MatchOK(w), Critical(w), CreateFind(w) \/ DeleteFind(w)
    PROVE  MatchOK(w)' /\ (~Critical(w)' => Lists(index)')
  <1>1. /\ pc \in [Workers -> Labels] /\ home \in [Workers -> Authors \cup {None}]
        /\ home[w] = None /\ req[w] \in Request /\ pc[w] = "find"
    BY DEF IInv, TypeOK, ControlOK, LocalsOK, Local, LocalOK, CreateFind, DeleteFind
  <1>2. /\ UNCHANGED <<live, index, req>>
        /\ pc'[w] \in {"stage", "remove", "reply"}
        /\ home'[w] = None \/ home'[w] \in Homes(req[w].skill, req[w].version)
    BY <1>1 DEF CreateFind, DeleteFind, Goto, Return, disk, idx
  <1>3. Lists(index)' /\ req[w].op # "reindex"
    BY <1>1, <1>2 DEF MatchOK, Lists, On
  <1> QED
    BY <1>2, <1>3 DEF MatchOK, HomeDir, Homes

LEMMA SameEntry ==
    ASSUME NEW r \in Request, NEW e \in Entry, Same(e, r)
    PROVE  e = [skill |-> r.skill, version |-> r.version, author |-> e.author]
  BY DEF Same, Entry, Request

LEMMA MatchSwap ==
    ASSUME IInv, Writing, NEW w \in Workers, MatchOK(w), Critical(w),
           Stage(w) \/ Backup(w) \/ Install(w) \/ Discard(w)
    PROVE  MatchOK(w)' /\ Critical(w)'
  <1>0. /\ pc \in [Workers -> Labels] /\ home \in [Workers -> Authors \cup {None}]
        /\ live \in [Dir -> Contents \cup {None, Partial}] /\ req[w] \in Request
        /\ req[w].op # "reindex"
        /\ None \notin Authors /\ req[w].content # None /\ req[w].content \in Contents
    BY SentinelAssumption DEF IInv, TypeOK, DiskOK, ControlOK, LocalsOK, Local, LocalOK, Critical,
       MatchOK, Request
  <1>1. ASSUME NEW e \in Entry PROVE <<e.author, e.skill, e.version>> \in Dir
    BY DEF Entry, Dir
  <1>2. CASE Stage(w)
    <2>1. /\ UNCHANGED <<live, index, req, home>> /\ pc[w] = "stage" /\ req[w].op = "create"
          /\ home[w] = None => pc'[w] = "install"
          /\ home[w] # None => pc'[w] = "backup"
      BY <1>0, <1>2 DEF Stage, Goto, idx, locals, IInv, Local, LocalOK
    <2>2. Lists(index) /\ (home[w] # None => live[HomeDir(w)] # None)
      BY <2>1 DEF MatchOK
    <2>3. CASE home[w] # None
      BY <1>0, <2>1, <2>2, <2>3 DEF MatchOK, Lists, On, HomeDir, Critical
    <2>4. CASE home[w] = None
      <3>1. ASSUME NEW e \in Entry, Same(e, req[w]) PROVE ~On(e)
        BY <2>1, <2>4, <3>1, <1>0 DEF IInv, Swap, SwapOK, On, Same, Visible, Entry
      <3>2. ASSUME NEW e \in Entry PROVE e.author # None
        BY <1>0 DEF Entry
      <3>3. Behind(w)'
        BY <2>1, <2>2, <2>4, <3>1, <3>2 DEF Behind, Lists, On
      <3> QED
        BY <1>0, <2>1, <2>4, <3>3 DEF MatchOK, Critical
    <2> QED
      BY <2>3, <2>4
  <1>3. CASE Backup(w)
    <2>1. /\ UNCHANGED <<index, req, home>> /\ pc[w] = "backup" /\ pc'[w] = "install"
          /\ live' = [live EXCEPT ![HomeDir(w)] = None]
          /\ home[w] \in Visible /\ req[w].op = "create"
      BY <1>0, <1>3 DEF Backup, Goto, idx, IInv, Local, LocalOK
    <2>2. Lists(index) /\ live[HomeDir(w)] # None
      BY <2>1, <1>0 DEF MatchOK, Visible
    <2>3. ASSUME NEW e \in Entry, Same(e, req[w]) PROVE e \in index <=> e.author = home[w]
      <3>1. e \in index <=> On(e)
        BY <2>2 DEF Lists
      <3>2. <<e.author, e.skill, e.version>> = <<e.author, req[w].skill, req[w].version>>
        BY <2>3 DEF Same
      <3>3. On(e) => e.author = home[w]
        BY <2>1, <3>2 DEF IInv, Swap, SwapOK, On
      <3>4. e.author = home[w] => On(e)
        BY <2>1, <2>2, <3>2 DEF On, HomeDir
      <3> QED
        BY <3>1, <3>3, <3>4
    <2>4. ASSUME NEW e \in Entry, ~Same(e, req[w]) PROVE On(e)' = On(e)
      BY <1>0, <1>1, <2>1, <2>4 DEF On, HomeDir, Same
    <2>5. Behind(w)'
      BY <2>1, <2>2, <2>3, <2>4 DEF Behind, Lists
    <2> QED
      BY <1>0, <2>1, <2>5 DEF MatchOK, Critical
  <1>4. CASE Install(w)
    <2>1. /\ UNCHANGED <<index, req, home>> /\ pc[w] = "install"
          /\ pc'[w] \in {"readIndex", "discard"}
          /\ live' = [live EXCEPT ![Target(w)] = req[w].content]
          /\ req[w].op = "create"
      <3>1. pc[w] = "install" => req[w].op = "create"
        BY DEF IInv, Local, LocalOK
      <3>2. pc'[w] \in {"readIndex", "discard"}
        BY <1>0, <1>4 DEF Install, Goto
      <3> QED
        BY <1>4, <3>1, <3>2 DEF Install, idx, locals
    <2>2. Behind(w)
      BY <2>1 DEF MatchOK
    <2>3. ASSUME NEW e \in Entry, ~Same(e, req[w]) PROVE On(e)' = On(e)
      BY <1>0, <1>1, <2>1, <2>3 DEF On, Target, Same
    <2>4. Behind(w)'
      BY <2>1, <2>2, <2>3 DEF Behind
    <2>5. live'[Target(w)'] # None
      BY <1>0, <2>1 DEF Target, Request, Dir
    <2> QED
      BY <1>0, <2>1, <2>4, <2>5 DEF MatchOK, Critical
  <1>5. CASE Discard(w)
    <2>1. /\ UNCHANGED <<live, index, req, home>> /\ pc[w] = "discard" /\ pc'[w] = "readIndex"
          /\ req[w].op = "create"
      BY <1>0, <1>5 DEF Discard, Goto, idx, locals, IInv, Local, LocalOK
    <2> QED
      BY <1>0, <2>1 DEF MatchOK, Behind, On, Target, Critical
  <1> QED
    BY <1>2, <1>3, <1>4, <1>5

LEMMA MatchRemove ==
    ASSUME IInv, Writing, NEW w \in Workers, MatchOK(w), Critical(w),
           RemoveFiles(w) \/ RemoveDir(w) \/ DeleteCleanup(w)
    PROVE  MatchOK(w)' /\ (~Critical(w)' => Lists(index)')
  <1>0. /\ pc \in [Workers -> Labels]
        /\ live \in [Dir -> Contents \cup {None, Partial}] /\ req[w] \in Request
        /\ req[w].op # "reindex" /\ None # Partial
    BY SentinelAssumption DEF IInv, TypeOK, DiskOK, ControlOK, LocalsOK, Local, LocalOK, Critical,
       MatchOK
  <1>1. ASSUME NEW e \in Entry PROVE <<e.author, e.skill, e.version>> \in Dir
    BY DEF Entry, Dir
  <1>2. CASE RemoveFiles(w)
    <2>1. /\ UNCHANGED <<index, req, home>> /\ pc[w] = "remove" /\ pc'[w] = "removing"
          /\ live' = [live EXCEPT ![HomeDir(w)] = Partial]
          /\ req[w].op = "delete" /\ live[HomeDir(w)] # None
      BY <1>0, <1>2 DEF RemoveFiles, Goto, idx, locals, IInv, Local, LocalOK, Writing, WritingOK
    <2>2. \A e \in Entry : On(e)' = On(e)
      BY <1>0, <1>1, <2>1 DEF On
    <2>3. live'[HomeDir(w)'] # None
      <3>1. HomeDir(w) \in Dir /\ HomeDir(w)' = HomeDir(w)
        BY <1>0, <1>2, <2>1 DEF HomeDir, Dir, Request, Visible, IInv, Local, LocalOK, RemoveFiles
      <3> QED
        BY <1>0, <2>1, <3>1
    <2> QED
      BY <1>0, <2>1, <2>2, <2>3 DEF MatchOK, Lists, Critical
  <1>3. CASE RemoveDir(w)
    <2>1. /\ UNCHANGED <<index, req, home>> /\ pc[w] = "removing" /\ pc'[w] = "readIndex"
          /\ live' = [live EXCEPT ![HomeDir(w)] = None]
          /\ req[w].op = "delete" /\ home[w] \in Visible
          /\ \A a \in Visible : live[<<a, req[w].skill, req[w].version>>] # None => a = home[w]
      BY <1>0, <1>3 DEF RemoveDir, Goto, idx, locals, IInv, Local, LocalOK, Writing, WritingOK
    <2>2. Lists(index) /\ live[HomeDir(w)] # None
      BY <2>1, SentinelAssumption DEF MatchOK, Visible
    <2>3. ASSUME NEW e \in Entry, Same(e, req[w]) PROVE e \in index <=> e.author = home[w]
      <3>1. e \in index <=> On(e)
        BY <2>2 DEF Lists
      <3>2. <<e.author, e.skill, e.version>> = <<e.author, req[w].skill, req[w].version>>
        BY <2>3 DEF Same
      <3> QED
        BY <2>1, <2>2, <3>1, <3>2 DEF On, HomeDir
    <2>4. ASSUME NEW e \in Entry, ~Same(e, req[w]) PROVE On(e)' = On(e)
      BY <1>0, <1>1, <2>1, <2>4 DEF On, HomeDir, Same
    <2>5. Behind(w)'
      BY <2>1, <2>2, <2>3, <2>4 DEF Behind, Lists
    <2>6. \A a \in Visible : live'[<<a, req'[w].skill, req'[w].version>>] = None
      BY <1>0, <2>1 DEF HomeDir, Dir, Visible, Request
    <2> QED
      BY <1>0, <2>1, <2>5, <2>6 DEF MatchOK, Critical
  <1>4. CASE DeleteCleanup(w)
    <2>1. UNCHANGED <<live, index, req, home>> /\ pc[w] = "cleanup" /\ pc'[w] = "reply"
      BY <1>0, <1>4 DEF DeleteCleanup, Goto, Return, idx, locals
    <2> QED
      BY <1>0, <2>1 DEF MatchOK, Lists, On, Critical
  <1> QED
    BY <1>2, <1>3, <1>4

\* What upsertIndex makes of an index that lists the version where it was.
LEMMA UpsertedLists ==
    ASSUME NEW i \in SUBSET Entry, NEW r \in Request, NEW a,
           \A e \in Entry : e \in i <=> IF Same(e, r) THEN e.author = a ELSE On(e),
           \A e \in Entry : Same(e, r) => (On(e) <=> e.author = r.author),
           NEW new \in Upserts(i, r)
    PROVE  Lists(new)
  <1>1. NewEntry(r) \in Entry /\ Same(NewEntry(r), r) /\ NewEntry(r).author = r.author
    BY DEF NewEntry, Entry, Request, Same
  <1>2. ASSUME NEW e \in Entry, NEW f \in Entry, Same(e, r), Same(f, r), e.author = f.author
        PROVE  e = f
    <2>1. /\ e = [skill |-> r.skill, version |-> r.version, author |-> e.author]
          /\ f = [skill |-> r.skill, version |-> r.version, author |-> f.author]
      BY <1>2, SameEntry
    <2> QED
      BY <1>2, <2>1
  <1>3. PICK gone : /\ new = (i \ gone) \cup {NewEntry(r)}
                    /\ gone \subseteq i
                    /\ \A e \in Entry : e \in gone => Same(e, r)
                    /\ \A e \in Entry : Same(e, r) /\ e \in i => e \in gone
    <2>1. CASE {e \in i : Same(e, r)} = {}
      <3>1. new = (i \ {}) \cup {NewEntry(r)}
        BY <2>1 DEF Upserts
      <3> QED
        BY <2>1, <3>1
    <2>2. CASE {e \in i : Same(e, r)} # {}
      <3>1. PICK old \in {e \in i : Same(e, r)} : new = (i \ {old}) \cup {NewEntry(r)}
        BY <2>2 DEF Upserts
      <3>2. \A e \in Entry : Same(e, r) /\ e \in i => e = old
        BY <1>2, <3>1
      <3>3. /\ {old} \subseteq i /\ \A e \in Entry : e \in {old} => Same(e, r)
            /\ \A e \in Entry : Same(e, r) /\ e \in i => e \in {old}
        BY <3>1, <3>2
      <3> QED
        BY <3>1, <3>3
    <2> QED
      BY <2>1, <2>2
  <1>4. ASSUME NEW e \in Entry PROVE e \in new <=> On(e)
    <2>1. CASE Same(e, r)
      BY <1>1, <1>2, <1>3, <2>1
    <2>2. CASE ~Same(e, r)
      BY <1>1, <1>3, <2>2
    <2> QED
      BY <2>1, <2>2
  <1> QED
    BY <1>1, <1>3, <1>4 DEF Lists

LEMMA MatchIndex ==
    ASSUME IInv, Writing, NEW w \in Workers, MatchOK(w), Critical(w), IndexWrite(w)
    PROVE  MatchOK(w)' /\ (~Critical(w)' => Lists(index)')
  <1>0. /\ pc \in [Workers -> Labels] /\ snap \in [Workers -> SUBSET Entry]
        /\ fd \in [Workers -> {"none", "tmp", "index", "gone"}]
        /\ req[w] \in Request /\ req[w].op \in {"create", "delete"}
    BY DEF IInv, TypeOK, ControlOK, IndexOK, LocalsOK, Local, LocalOK, Critical
  <1>s. ASSUME NEW i, i \in SUBSET Entry PROVE i # Corrupt /\ i # None
    BY <1>s, SentinelAssumption DEF Entry
  <1>1. CASE ReadIndex(w)
    <2>1. /\ Behind(w) /\ index # Corrupt /\ pc[w] = "readIndex"
          /\ UNCHANGED <<live, index, idxTmp, fd, req, home>>
      BY <1>1, <1>s DEF ReadIndex, MatchOK, Behind, disk, idx
    <2>2. /\ pc'[w] = "openTmp"
          /\ snap'[w] \in IF req[w].op = "create" THEN Upserts(index, req[w])
                          ELSE {Dropped(index, req[w])}
      BY <1>0, <1>1, <2>1 DEF ReadIndex, Goto
    <2>3. CASE req[w].op = "create"
      <3>1. req[w].author \in Visible /\ live[Target(w)] # None
        BY <1>0, <2>1, <2>3 DEF MatchOK, Writing, WritingOK
      <3>2. ASSUME NEW e \in Entry, Same(e, req[w]) PROVE On(e) <=> e.author = req[w].author
        <4>1. <<e.author, e.skill, e.version>> = <<e.author, req[w].skill, req[w].version>>
          BY <3>2 DEF Same
        <4>2. e.author = req[w].author => On(e)
          BY <3>1, <4>1 DEF On, Target
        <4>3. req[w].author \in Homes(req[w].skill, req[w].version)
          BY <3>1 DEF Homes, Target
        <4>4. On(e) => e.author \in Homes(req[w].skill, req[w].version)
          BY <4>1 DEF Homes, On
        <4> QED
          BY <1>0, <4>2, <4>3, <4>4 DEF IInv, OneHome, Request
      <3>3. Lists(snap'[w])
        BY <1>0, <2>1, <2>2, <2>3, <3>2, UpsertedLists DEF Behind
      <3> QED
        BY <2>1, <2>2, <2>3, <3>3, <1>0 DEF MatchOK, Lists, On, Critical
    <2>4. CASE req[w].op # "create"
      <3>1. \A a \in Visible : live[<<a, req[w].skill, req[w].version>>] = None
        BY <1>0, <2>1, <2>4 DEF MatchOK
      <3>2. ASSUME NEW e \in Entry, Same(e, req[w]) PROVE ~On(e)
        <4>1. <<e.author, e.skill, e.version>> = <<e.author, req[w].skill, req[w].version>>
          BY <3>2 DEF Same
        <4> QED
          BY <3>1, <4>1 DEF On
      <3>3. Lists(Dropped(index, req[w]))
        BY <2>1, <3>2 DEF Lists, Behind, Dropped
      <3> QED
        BY <2>1, <2>2, <2>4, <3>3, <1>0 DEF MatchOK, Lists, On, Critical
    <2> QED
      BY <2>3, <2>4
  <1>2. CASE OpenTmp(w)
    <2>1. /\ pc[w] = "openTmp" /\ pc'[w] = "writeTmp" /\ UNCHANGED <<live, req, snap>>
          /\ idxTmp' = {} /\ fd'[w] = "tmp"
      BY <1>0, <1>2 DEF OpenTmp, Goto, disk, locals
    <2> QED
      BY <1>0, <2>1 DEF MatchOK, Lists, On, Critical
  <1>3. CASE WriteTmp(w)
    <2>1. /\ pc[w] = "writeTmp" /\ pc'[w] = "renameIndex" /\ UNCHANGED <<live, req>>
          /\ fd[w] = "tmp" => idxTmp' \in Overwritten(idxTmp, snap[w])
      BY <1>0, <1>3 DEF WriteTmp, Goto, disk
    <2>2. Overwritten({}, snap[w]) = {snap[w]}
      BY DEF Overwritten
    <2>3. idxTmp' = snap[w] /\ Lists(snap[w])
      BY <2>1, <2>2 DEF MatchOK
    <2> QED
      BY <1>0, <2>1, <2>3 DEF MatchOK, Lists, On, Critical
  <1>4. CASE RenameIndex(w)
    <2>1. pc[w] = "renameIndex" /\ UNCHANGED <<live, req>> /\ Lists(idxTmp)
      BY <1>4 DEF RenameIndex, disk, MatchOK
    <2>2. /\ index' = idxTmp /\ pc'[w] \in {"cleanup", "reply"}
      BY <1>0, <1>4, <1>s, <2>1 DEF RenameIndex, Goto, Return, Lists
    <2> QED
      BY <1>0, <2>1, <2>2 DEF MatchOK, Lists, On, Critical
  <1> QED
    BY <1>1, <1>2, <1>3, <1>4 DEF IndexWrite

LEMMA MatchingStep ==
    ASSUME OneSkill, NoReindex, IInv, Writing, Reading, Matching, [Next]_vars
    PROVE  Matching'
  <1>0. faults \in Nat /\ crashes \in Nat
    BY DEF IInv, TypeOK, HistoryOK
  <1>1. CASE UNCHANGED vars
    <2>1. /\ \A i : Lists(i)' <=> Lists(i)
          /\ \A w \in Workers : Behind(w)' <=> Behind(w)
      BY <1>1 DEF vars, disk, idx, locals, Lists, Behind, On
    <2> QED
      BY <1>1, <2>1 DEF vars, disk, idx, locals, counters, Matching, MatchOK, Critical, HomeDir,
         Target
  <1>2. CASE Crash
    BY <1>0, <1>2 DEF Crash, Matching
  <1>3. ASSUME NEW w \in Workers, Begin(w) \/ Serve(w) \/ Fail(w), faults' = 0, crashes' = 0
        PROVE  /\ \A x \in Workers : MatchOK(x)'
               /\ (\A x \in Workers : ~Critical(x)') => Lists(index)'
    <2>1. ~Fail(w) /\ faults' = faults /\ crashes' = crashes
      <3>1. ~Fail(w)
        BY <1>0, <1>3 DEF Fail
      <3> QED
        BY <1>3, <3>1 DEF Serve, Create, Delete, IndexWrite, Reindex, GetVersion, Validate,
           Begin, Acquire, CreateFind, Stage, Backup, Install, InstallBlocked, Restore, Discard,
           DeleteFind, RemoveFiles, RemoveDir, DeleteCleanup, ReadIndex, OpenTmp, WriteTmp,
           RenameIndex, ReindexRoot, ReindexAuthor, ReindexSkill, ReindexVersion, ReindexWrite,
           GetIndex, ReadFirst, ReadRest, FindRoot, Probe, ReadMD, Reply, counters
    <2>2. CASE ~Critical(w)
      BY <1>3, <2>1, <2>2, MatchOutside
    <2>3. CASE Critical(w)
      <3>1. MatchOK(w)
        BY <1>3, <2>1 DEF Matching
      <3>2. \/ CreateFind(w) \/ DeleteFind(w) \/ Stage(w) \/ Backup(w) \/ Install(w)
            \/ Discard(w) \/ RemoveFiles(w) \/ RemoveDir(w) \/ DeleteCleanup(w)
            \/ IndexWrite(w)
        <4>1. ~InstallBlocked(w)
          BY InstallIsFree
        <4>2. ~Restore(w)
          BY <1>0, <1>3, <2>1 DEF Writing, WritingOK, Restore
        <4> QED
          BY <1>3, <2>1, <2>3, <4>1, <4>2 DEF Critical, Serve, Create, Delete, Reindex,
             GetVersion, Validate, Begin, Acquire, ReindexRoot, ReindexAuthor, ReindexSkill,
             ReindexVersion, ReindexWrite, GetIndex, ReadFirst, ReadRest, FindRoot, Probe,
             ReadMD, Reply
      <3>3. MatchOK(w)' /\ (~Critical(w)' => Lists(index)')
        BY <2>3, <3>1, <3>2, MatchFind, MatchSwap, MatchRemove, MatchIndex
      <3>4. ASSUME NEW x \in Workers, x # w PROVE MatchOK(x)'
        <4>1. pc'[x] = pc[x] /\ req'[x] = req[x]
          BY <1>3, <3>4, Frame DEF IInv
        <4>2. MatchOK(x) /\ ~Critical(x)
          BY <1>3, <2>1, <2>3, <3>4, OnlyCritical DEF Matching
        <4> QED
          BY <4>1, <4>2 DEF MatchOK, Critical
      <3> QED
        BY <3>3, <3>4
    <2> QED
      BY <2>2, <2>3
  <1> QED
    BY <1>1, <1>2, <1>3 DEF Next, Finished, Matching

(* As long as there is one skill, no Reindex and no Create for an author   *)
(* whose directory is not searched, the index lists what is on the disk    *)
(* whenever the lock is free: a skill's lock is all that keeps the index,  *)
(* and a second skill is what breaks it (upsertIndex, deleteIndexEntry).   *)
THEOREM IndexTheorem ==
    ASSUME OneSkill, NoReindex, NoHiddenCreates
    PROVE  Spec => []IndexMatchesDisk
  <1>1. Init => Matching
    BY DEF Init, Matching, MatchOK, Critical, Lists, On, Dir, Entry, Visible
  <1>2. IInv /\ Writing /\ Reading /\ Matching /\ [Next]_vars => Matching'
    BY MatchingStep
  <1>3. IInv /\ Matching => IndexMatchesDisk
    <2> SUFFICES ASSUME IInv, Matching, \A s \in Skills : lock[s] = None, faults = 0, crashes = 0
                 PROVE  index # Corrupt /\ Listed = OnDisk
      BY DEF IndexMatchesDisk
    <2>1. ASSUME NEW w \in Workers, Critical(w) PROVE FALSE
      BY <2>1, SentinelAssumption DEF IInv, Held, Local, LocalOK, Critical, Request
    <2>2. Lists(index)
      BY <2>1 DEF Matching
    <2>3. index # Corrupt
      BY <2>2, SentinelAssumption DEF Lists, Entry
    <2>4. ASSUME NEW d \in OnDisk PROVE d \in Listed
      <3>1. EntryOf(d) \in Entry /\ On(EntryOf(d)) /\ d = <<d[1], d[2], d[3]>>
        BY DEF OnDisk, Dir, EntryOf, Entry, On
      <3>2. <<EntryOf(d).author, EntryOf(d).skill, EntryOf(d).version>> = d
        BY <3>1 DEF EntryOf
      <3>3. EntryOf(d) \in index
        BY <2>2, <3>1 DEF Lists
      <3> QED
        BY <3>2, <3>3 DEF Listed
    <2>5. ASSUME NEW e \in index
          PROVE  <<e.author, e.skill, e.version>> \in OnDisk
      <3>1. e \in Entry /\ On(e)
        BY <2>2 DEF Lists
      <3> QED
        BY <3>1 DEF OnDisk, On, Entry, Dir
    <2> QED
      BY <2>3, <2>4, <2>5 DEF Listed
  <1> QED
    BY <1>1, <1>2, <1>3, Inductive, WritingInductive, ReadingInductive, PTL DEF Spec
=============================================================================
