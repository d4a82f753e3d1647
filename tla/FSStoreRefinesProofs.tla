------------------------ MODULE FSStoreRefinesProofs ------------------------
(***************************************************************************)
(* The store implements Registry: Spec => ImplementsRegistry, for every    *)
(* set of skills, versions, authors, workers and requests and any number   *)
(* of calls, faults and crashes, as long as no Create names an author      *)
(* whose directory the store does not search (NoHiddenCreates): such a     *)
(* version is answered "ok" and can never be found.                        *)
(*                                                                         *)
(* Every step of FSStore is shown to be a step of Registry or to change    *)
(* nothing of it (Simulation).  It rests on the invariants of              *)
(* FSStoreProofs and on what the label of a writer says of its directory,  *)
(* of its request and of its answer (Writing).                             *)
(***************************************************************************)
EXTENDS FSStoreRefines, FSStoreProofs

NoHiddenCreates == \A r \in Requests : r.op = "create" => r.author \in Visible

Reads == {"getIndex", "readFirst", "readRest", "findRoot", "probe", "readMD"}

WritingOK(w) ==
    /\ pc[w] # "idle" /\ req[w].op = "create" => req[w].author \in Visible
    /\ pc[w] \in {"install", "restore"} /\ home[w] # None => req[w].force
    /\ pc[w] = "remove" => live[HomeDir(w)] # None
    /\ pc[w] = "removing" =>
         \A a \in Visible : live[<<a, req[w].skill, req[w].version>>] # None => a = home[w]
    /\ pc[w] \in Reads => req[w].op \in {"get", "validate"}
    /\ pc[w] = "reply" /\ req[w].op \in {"create", "delete"} =>
         answer[w] \in {"ok", "exists", "notfound", "error"}
    /\ pc[w] = "restore" => faults >= 1
Writing == \A w \in Workers : WritingOK(w)

-----------------------------------------------------------------------------
\* The labels after each kind of step.
LEMMA InstallIsFree ==
    ASSUME IInv, Writing, NEW w \in Workers
    PROVE  ~InstallBlocked(w)
  <1> SUFFICES ASSUME InstallBlocked(w) PROVE FALSE
    OBVIOUS
  <1>1. /\ pc[w] = "install" /\ live[Target(w)] # None /\ req[w].author \in Visible
    BY DEF InstallBlocked, Writing, WritingOK, IInv, Local, LocalOK
  <1> QED
    BY <1>1 DEF IInv, Swap, SwapOK, Target

LEMMA WritingStep ==
    ASSUME NoHiddenCreates, IInv, Writing, [Next]_vars, NEW w \in Workers
    PROVE  WritingOK(w)'
  <1> USE DEF IInv, TypeOK, ControlOK, LocalsOK
  <1>1. CASE UNCHANGED vars
    BY <1>1 DEF vars, disk, locals, counters, Writing, WritingOK, HomeDir
  <1>2. CASE Crash
    BY <1>2 DEF Crash, WritingOK, Reads
  <1>3. ASSUME NEW x \in Workers, Begin(x) \/ Serve(x) \/ Fail(x), x # w
        PROVE  WritingOK(w)'
    <2>1. /\ pc'[w] = pc[w] /\ req'[w] = req[w] /\ answer'[w] = answer[w] /\ home'[w] = home[w]
      BY <1>3, Frame
    <2>2. faults' \in Nat /\ faults' >= faults /\ faults \in Nat
      BY <1>3 DEF Serve, Create, Delete, IndexWrite, Reindex, GetVersion, Validate,
         Begin, Acquire, CreateFind, Stage, Backup, Install, InstallBlocked, Restore, Discard,
         DeleteFind, RemoveFiles, RemoveDir, DeleteCleanup, ReadIndex, OpenTmp, WriteTmp,
         RenameIndex, ReindexRoot, ReindexAuthor, ReindexSkill, ReindexVersion, ReindexWrite,
         GetIndex, ReadFirst, ReadRest, FindRoot, Probe, ReadMD, Reply, Fail, counters, HistoryOK
    <2>3. ASSUME pc[w] \in {"remove", "removing"}, NEW a \in Authors
          PROVE  live'[<<a, req[w].skill, req[w].version>>] = live[<<a, req[w].skill, req[w].version>>]
      <3>1. Critical(w) /\ req[w] \in Request
        BY <2>3 DEF Critical, Local, LocalOK
      <3>2. CASE UNCHANGED live
        BY <3>2
      <3>3. CASE UNCHANGED live => FALSE
        <4>1. Backup(x) \/ Install(x) \/ Restore(x) \/ RemoveFiles(x) \/ RemoveDir(x)
          BY <1>3, <3>3 DEF Serve, Create, Delete, IndexWrite, Reindex, GetVersion, Validate,
             disk, Begin, Acquire, CreateFind, Stage, InstallBlocked, Discard, DeleteFind,
             DeleteCleanup, ReadIndex, OpenTmp, WriteTmp, RenameIndex, ReindexRoot,
             ReindexAuthor, ReindexSkill, ReindexVersion, ReindexWrite, GetIndex, ReadFirst,
             ReadRest, FindRoot, Probe, ReadMD, Reply, Fail
        <4>2. Critical(x)
          BY <4>1 DEF Backup, Install, Restore, RemoveFiles, RemoveDir, Critical, Local, LocalOK
        <4>3. req[x].skill # req[w].skill
          BY <1>3, <3>1, <4>2, Exclusive
        <4>4. \E b, y : live' = [live EXCEPT ![<<b, req[x].skill, req[x].version>>] = y]
          BY <4>1 DEF Backup, Install, Restore, RemoveFiles, RemoveDir, PutBack, Target, HomeDir
        <4> QED
          BY <3>1, <4>3, <4>4, <2>3 DEF DiskOK, Dir, Request
      <3> QED
        BY <3>2, <3>3
    <2>4. pc[w] = "remove" => home[w] \in Authors
      BY DEF Local, LocalOK, Visible
    <2>5. pc[w] = "remove" => live'[HomeDir(w)'] # None
      BY <2>1, <2>3, <2>4 DEF Writing, WritingOK, HomeDir
    <2>6. pc[w] = "removing" =>
            \A a \in Visible : live'[<<a, req[w].skill, req[w].version>>] # None => a = home[w]
      BY <2>3 DEF Writing, WritingOK, Visible
    <2>7. pc[w] = "restore" => faults' >= 1
      BY <2>2 DEF Writing, WritingOK
    <2> HIDE DEF IInv, TypeOK, ControlOK, LocalsOK
    <2> QED
      BY <2>1, <2>5, <2>6, <2>7 DEF Writing, WritingOK
  <1>i. ~InstallBlocked(w)
    BY InstallIsFree
  <1>4. CASE Begin(w)
    <2>1. PICK r \in Requests : req' = [req EXCEPT ![w] = r] /\ pc' = [pc EXCEPT ![w] = FirstStep(r.op)]
      BY <1>4 DEF Begin, Goto
    <2>2. r.op \in Ops /\ req'[w] = r /\ (r.op = "create" => r.author \in Visible)
      BY <2>1, RequestsAssumption DEF Request, NoHiddenCreates
    <2>3. \/ r.op \in {"create", "delete"} /\ pc'[w] = "lock"
          \/ r.op = "reindex" /\ pc'[w] = "readRoot"
          \/ r.op = "get" /\ pc'[w] = "getIndex"
          \/ r.op = "validate" /\ pc'[w] = "findRoot"
      BY <2>1, <2>2 DEF FirstStep, Ops
    <2> QED
      BY <2>2, <2>3 DEF WritingOK, Reads
  <1>5. CASE Acquire(w)
    BY <1>5 DEF Acquire, Writing, WritingOK, Goto, Return, Local, LocalOK, Reads
  <1>6. CASE CreateFind(w)
    BY <1>6 DEF CreateFind, Writing, WritingOK, Goto, Return, Local, LocalOK, Reads, locals
  <1>7. CASE Stage(w)
    BY <1>7 DEF Stage, Writing, WritingOK, Goto, Return, Local, LocalOK, Reads, locals
  <1>8. CASE Backup(w)
    BY <1>8 DEF Backup, Writing, WritingOK, Goto, Return, Local, LocalOK, Reads
  <1>9. CASE Install(w)
    BY <1>9 DEF Install, Writing, WritingOK, Goto, Return, Local, LocalOK, Reads
  <1>10. CASE Restore(w)
    BY <1>10 DEF Restore, Writing, WritingOK, Goto, Return, Local, LocalOK, Reads
  <1>11. CASE Discard(w)
    BY <1>11 DEF Discard, Writing, WritingOK, Goto, Return, Local, LocalOK, Reads, locals
  <1>12. CASE DeleteFind(w)
    <2>1. CASE Return(w, "notfound")
      BY <1>12, <2>1 DEF DeleteFind, Return, Goto, Writing, WritingOK, Reads
    <2>2. CASE Goto(w, "remove")
      <3>1. PICK a \in Homes(req[w].skill, req[w].version) : home' = [home EXCEPT ![w] = a]
        BY <1>12, <2>2 DEF DeleteFind, Goto, Return
      <3>2. live' = live /\ req' = req /\ home'[w] = a /\ pc'[w] = "remove"
        BY <1>12, <2>2, <3>1 DEF DeleteFind, disk, Goto
      <3>3. live'[HomeDir(w)'] # None
        BY <3>1, <3>2 DEF HomeDir, Homes
      <3> QED
        BY <1>12, <3>2, <3>3 DEF DeleteFind, WritingOK, Reads
    <2>3. Return(w, "notfound") \/ Goto(w, "remove")
      BY <1>12 DEF DeleteFind
    <2> QED
      BY <2>1, <2>2, <2>3
  <1>13. CASE RemoveFiles(w)
    BY <1>13 DEF RemoveFiles, Writing, WritingOK, Goto, Return, Local, LocalOK, Reads, HomeDir, Swap,
       SwapOK, DiskOK, Dir, Request, locals
  <1>14. CASE RemoveDir(w)
    BY <1>14 DEF RemoveDir, Writing, WritingOK, Goto, Return, Local, LocalOK, Reads
  <1>15. CASE DeleteCleanup(w)
    BY <1>15 DEF DeleteCleanup, Writing, WritingOK, Goto, Return, Local, LocalOK, Reads
  <1>16. CASE ReadIndex(w)
    BY <1>16 DEF ReadIndex, Writing, WritingOK, Goto, Return, Local, LocalOK, Reads
  <1>17. CASE OpenTmp(w)
    BY <1>17 DEF OpenTmp, Writing, WritingOK, Goto, Return, Local, LocalOK, Reads
  <1>18. CASE WriteTmp(w)
    BY <1>18 DEF WriteTmp, Writing, WritingOK, Goto, Return, Local, LocalOK, Reads
  <1>19. CASE RenameIndex(w)
    BY <1>19 DEF RenameIndex, Writing, WritingOK, Goto, Return, Local, LocalOK, Reads
  <1>20. CASE ReindexRoot(w)
    BY <1>20 DEF ReindexRoot, Writing, WritingOK, Goto, Return, Local, LocalOK, Reads
  <1>21. CASE ReindexAuthor(w)
    BY <1>21 DEF ReindexAuthor, Writing, WritingOK, Goto, Return, Local, LocalOK, Reads
  <1>22. CASE ReindexSkill(w)
    BY <1>22 DEF ReindexSkill, Writing, WritingOK, Goto, Return, Local, LocalOK, Reads
  <1>23. CASE ReindexVersion(w)
    BY <1>23 DEF ReindexVersion, Writing, WritingOK, Goto, Return, Local, LocalOK, Reads
  <1>24. CASE ReindexWrite(w)
    BY <1>24 DEF ReindexWrite, Writing, WritingOK, Goto, Return, Local, LocalOK, Reads
  <1>25. CASE GetIndex(w)
    BY <1>25 DEF GetIndex, Writing, WritingOK, Goto, Return, Local, LocalOK, Reads
  <1>26. CASE ReadFirst(w)
    BY <1>26 DEF ReadFirst, Writing, WritingOK, Goto, Return, Local, LocalOK, Reads
  <1>27. CASE ReadRest(w)
    BY <1>27 DEF ReadRest, Writing, WritingOK, Goto, Return, Local, LocalOK, Reads
  <1>28. CASE FindRoot(w)
    BY <1>28 DEF FindRoot, Writing, WritingOK, Goto, Return, Local, LocalOK, Reads, locals
  <1>29. CASE Probe(w)
    <2>1. /\ pc[w] = "probe" /\ req' = req
          /\ \/ pc'[w] = "reply" /\ answer'[w] = "notfound"
             \/ pc'[w] \in {"probe", "readMD"}
      BY <1>29 DEF Probe, Goto, Return
    <2> QED
      BY <2>1 DEF Writing, WritingOK, Reads
  <1>30. CASE ReadMD(w)
    BY <1>30 DEF ReadMD, Writing, WritingOK, Goto, Return, Local, LocalOK, Reads
  <1>31. CASE Reply(w)
    BY <1>31 DEF Reply, Writing, WritingOK, Goto, Return, Local, LocalOK, Reads
  <1>32. CASE Fail(w)
    BY <1>32 DEF Fail, Writing, WritingOK, Goto, Return, Local, LocalOK, Reads, Fallible, HistoryOK
  <1> QED
    BY <1>1, <1>2, <1>3, <1>i, <1>4, <1>5, <1>6, <1>7, <1>8, <1>9, <1>10, <1>11, <1>12, <1>13, <1>14, <1>15, <1>16, <1>17, <1>18, <1>19, <1>20, <1>21, <1>22, <1>23, <1>24, <1>25, <1>26, <1>27, <1>28, <1>29, <1>30, <1>31, <1>32 DEF Next, Serve, Create, Delete,
       IndexWrite, Reindex, GetVersion, Validate, Finished

LEMMA WritingInductive ==
    ASSUME NoHiddenCreates
    PROVE  Spec => []Writing
  <1>1. Init => Writing
    BY DEF Init, Writing, WritingOK, Reads
  <1>2. IInv /\ Writing /\ [Next]_vars => Writing'
    BY WritingStep DEF Writing
  <1> QED
    BY <1>1, <1>2, Inductive, PTL DEF Spec

-----------------------------------------------------------------------------
(* What the mapped variables are.                                          *)

RegIs(s, v) ==
    /\ \A a \in Homes(s, v) : RegOf(s, v) = live[<<a, s, v>>]
    /\ Homes(s, v) = {} => \A w \in Workers : Swapping(w, s, v) => RegOf(s, v) = saved[w]
    /\ Homes(s, v) = {} /\ (\A w \in Workers : ~Swapping(w, s, v)) => RegOf(s, v) = None

LEMMA SwappingIsCritical ==
    ASSUME IInv, NEW w \in Workers, NEW s, NEW v, Swapping(w, s, v)
    PROVE  Critical(w)
  BY DEF IInv, Local, LocalOK, Critical, Swapping

LEMMA RegFacts ==
    ASSUME IInv, NEW s \in Skills, NEW v \in Versions
    PROVE  RegIs(s, v)
  <1>1. \A a, b \in Homes(s, v) : a = b
    BY DEF IInv, OneHome
  <1>2. \A w, x \in Workers : Swapping(w, s, v) /\ Swapping(x, s, v) => w = x
    BY SwappingIsCritical DEF IInv, Held, Swapping
  <1> QED
    BY <1>1, <1>2 DEF RegIs, RegOf

LEMMA RegFactsNext ==
    ASSUME IInv', NEW s \in Skills, NEW v \in Versions
    PROVE  RegIs(s, v)'
  <1>1. \A a, b \in Homes(s, v)' : a = b
    BY DEF IInv, OneHome
  <1>2. \A w \in Workers : Swapping(w, s, v)' => Critical(w)'
    BY DEF IInv, Local, LocalOK, Critical, Swapping
  <1>3. \A w, x \in Workers : Swapping(w, s, v)' /\ Swapping(x, s, v)' => w = x
    BY <1>2 DEF IInv, Held, Swapping
  <1> QED
    BY <1>1, <1>3 DEF RegIs, RegOf

LEMMA RegSame ==
    ASSUME IInv, IInv', NEW s \in Skills, NEW v \in Versions,
           \A a \in Visible : live'[<<a, s, v>>] = live[<<a, s, v>>],
           \A x \in Workers : /\ Swapping(x, s, v)' <=> Swapping(x, s, v)
                              /\ Swapping(x, s, v) => saved'[x] = saved[x]
    PROVE  RegOf(s, v)' = RegOf(s, v)
  <1>1. Homes(s, v)' = Homes(s, v)
    BY DEF Homes, Visible
  <1>2. RegIs(s, v) /\ RegIs(s, v)'
    BY RegFacts, RegFactsNext
  <1>3. \A a \in Homes(s, v) : a \in Visible
    BY DEF Homes
  <1>4. CASE Homes(s, v) # {}
    <2>1. PICK a \in Homes(s, v) : TRUE
      BY <1>4
    <2>2. RegOf(s, v) = live[<<a, s, v>>] /\ RegOf(s, v)' = live'[<<a, s, v>>]
      BY <1>1, <1>2, <2>1 DEF RegIs
    <2> QED
      BY <1>3, <2>1, <2>2
  <1>5. CASE Homes(s, v) = {} /\ \E w \in Workers : Swapping(w, s, v)
    <2>1. PICK w \in Workers : Swapping(w, s, v)
      BY <1>5
    <2>2. RegOf(s, v) = saved[w] /\ RegOf(s, v)' = saved'[w]
      BY <1>1, <1>2, <1>5, <2>1 DEF RegIs
    <2> QED
      BY <2>1, <2>2
  <1>6. CASE Homes(s, v) = {} /\ \A w \in Workers : ~Swapping(w, s, v)
    BY <1>1, <1>2, <1>6 DEF RegIs
  <1> QED
    BY <1>4, <1>5, <1>6

Reg == [x \in Skills \X Versions |-> RegOf(x[1], x[2])]
Calls == [w \in Workers |-> CallOf(w)]

LEMMA RegPut ==
    ASSUME NEW s \in Skills, NEW v \in Versions, NEW e, RegOf(s, v)' = e,
           \A t \in Skills, u \in Versions : <<t, u>> # <<s, v>> => RegOf(t, u)' = RegOf(t, u)
    PROVE  Reg' = [Reg EXCEPT ![<<s, v>>] = e]
  <1>1. ASSUME NEW x \in Skills \X Versions
        PROVE  RegOf(x[1], x[2])' = IF x = <<s, v>> THEN e ELSE Reg[x]
    <2>1. x[1] \in Skills /\ x[2] \in Versions /\ x = <<x[1], x[2]>>
      OBVIOUS
    <2>2. Reg[x] = RegOf(x[1], x[2])
      BY DEF Reg
    <2>3. CASE x = <<s, v>>
      <3>1. x[1] = s /\ x[2] = v
        BY <2>3
      <3> QED
        BY <2>3, <3>1
    <2>4. CASE x # <<s, v>>
      BY <2>1, <2>2, <2>4
    <2> QED
      BY <2>3, <2>4
  <1>2. Reg' = [x \in Skills \X Versions |-> IF x = <<s, v>> THEN e ELSE Reg[x]]
    BY <1>1 DEF Reg
  <1>3. <<s, v>> \in Skills \X Versions /\ DOMAIN Reg = Skills \X Versions
    BY DEF Reg
  <1> QED
    BY <1>2, <1>3 DEF Reg

Moving(w) == pc[w] \in {"install", "restore"} /\ home[w] # None

\* A step that moves no directory and begins no swap is not seen in the map.
LEMMA RegQuiet ==
    ASSUME IInv, IInv', NEW w \in Workers, Begin(w) \/ Serve(w) \/ Fail(w),
           live' = live,
           \/ ~Moving(w) /\ ~Moving(w)'
           \/ Moving(w) /\ Moving(w)' /\ UNCHANGED <<req, saved>>
    PROVE  Reg' = Reg
  <1>1. ASSUME NEW s \in Skills, NEW v \in Versions PROVE RegOf(s, v)' = RegOf(s, v)
    <2>1. \A x \in Workers : /\ Swapping(x, s, v)' <=> Swapping(x, s, v)
                             /\ Swapping(x, s, v) => saved'[x] = saved[x]
      <3> SUFFICES ASSUME NEW x \in Workers
                   PROVE  /\ Swapping(x, s, v)' <=> Swapping(x, s, v)
                          /\ Swapping(x, s, v) => saved'[x] = saved[x]
        OBVIOUS
      <3>1. CASE x # w
        BY <3>1, Frame DEF IInv, Swapping
      <3>2. CASE x = w
        BY <3>2 DEF Swapping, Moving
      <3> QED
        BY <3>1, <3>2
    <2> QED
      BY <2>1, RegSame
  <1> QED
    BY <1>1 DEF Reg

\* A step on one version leaves the others.
LEMMA RegElsewhere ==
    ASSUME IInv, IInv', NEW w \in Workers, Serve(w) \/ Fail(w), req' = req,
           \A a \in Authors, s \in Skills, v \in Versions :
               <<s, v>> # Key(w) => live'[<<a, s, v>>] = live[<<a, s, v>>],
           NEW s \in Skills, NEW v \in Versions, <<s, v>> # Key(w)
    PROVE  RegOf(s, v)' = RegOf(s, v)
  <1>1. ASSUME NEW x \in Workers
        PROVE  /\ Swapping(x, s, v)' <=> Swapping(x, s, v)
               /\ Swapping(x, s, v) => saved'[x] = saved[x]
    <2>1. CASE x # w
      BY <2>1, Frame DEF IInv, Swapping
    <2>2. CASE x = w
      BY <2>2 DEF Swapping, Key
    <2> QED
      BY <2>1, <2>2
  <1> QED
    BY <1>1, RegSame DEF Visible

-----------------------------------------------------------------------------
(* The calls.                                                              *)

Writer(w) == pc[w] # "idle" /\ req[w].op \in {"create", "delete"}
Out(w) == IF pc[w] = "reply" THEN answer[w] ELSE Progress(pc[w])
Asked(w) == [op |-> req[w].op, key |-> <<req[w].skill, req[w].version>>,
             content |-> req[w].content, force |-> req[w].force]

LEMMA CallIs ==
    ASSUME IInv, Writing, NEW w \in Workers, Writer(w)
    PROVE  /\ Calls[w] # None /\ Calls[w] = [req |-> Asked(w), out |-> Out(w)]
           /\ Calls[w].req = Asked(w) /\ Calls[w].out = Out(w)
  <1>1. req[w] \in Request
    BY DEF IInv, Local, LocalOK, Writer
  <1>2. Asked(w) \in R!Request
    BY <1>1 DEF Asked, R!Request, Request, Writer
  <1>3. Calls[w] = [req |-> Asked(w), out |-> Out(w)]
    BY DEF Calls, CallOf, Writer, Asked, Out
  <1>4. Out(w) \in {"pending", "damaged", "done", "ok", "exists", "notfound", "error"}
    BY DEF Out, Progress, Writing, WritingOK, Writer
  <1> QED
    BY <1>2, <1>3, <1>4, NoCallAssumption DEF R!Request

\* The call of one worker moves on.
LEMMA Moves ==
    ASSUME IInv, Writing, NEW w \in Workers, Serve(w) \/ Fail(w),
           Writer(w), req' = req, pc'[w] # "idle", NEW from, NEW to,
           Out(w) = from, Out(w)' = to
    PROVE  R!Moves(w, from, to)
  <1>1. ASSUME NEW x \in Workers, x # w PROVE CallOf(x)' = CallOf(x)
    BY <1>1, Frame DEF IInv, CallOf
  <1>2. CallOf(w)' = [req |-> Asked(w), out |-> to]
    BY DEF CallOf, Writer, Out, Asked
  <1>3. Calls[w] # None /\ Calls[w] = [req |-> Asked(w), out |-> from]
    BY CallIs
  <1>4. [Calls[w] EXCEPT !.out = to] = [req |-> Asked(w), out |-> to]
    BY <1>3
  <1>5. Calls' = [Calls EXCEPT ![w] = [Calls[w] EXCEPT !.out = to]]
    BY <1>1, <1>2, <1>4 DEF Calls
  <1> QED
    BY <1>3, <1>5 DEF R!Moves, Calls

LEMMA CallsQuiet ==
    ASSUME IInv, NEW w \in Workers, Begin(w) \/ Serve(w) \/ Fail(w),
           \/ ~Writer(w) /\ ~Writer(w)'
           \/ Writer(w) /\ req' = req /\ pc'[w] # "idle" /\ Out(w)' = Out(w)
    PROVE  Calls' = Calls
  <1>1. ASSUME NEW x \in Workers, x # w PROVE CallOf(x)' = CallOf(x)
    BY <1>1, Frame DEF IInv, CallOf
  <1>2. CallOf(w)' = CallOf(w)
    BY DEF CallOf, Writer, Out
  <1> QED
    BY <1>1, <1>2 DEF Calls

-----------------------------------------------------------------------------
(* Every step of a worker is one of Registry's, or changes nothing there.  *)

Quiet == Reg' = Reg /\ Calls' = Calls
Simulated(w) == R!Serve(w) \/ Quiet \/ (R!Lose(w) /\ faults' > 1)

\* A step of the call of w that leaves the map alone.
LEMMA CallMoves ==
    ASSUME IInv, IInv', Writing, NEW w \in Workers, Serve(w) \/ Fail(w),
           Writer(w), req' = req, pc'[w] # "idle", live' = live,
           ~Moving(w), ~Moving(w)'
    PROVE  /\ Out(w)' = Out(w) => Quiet
           /\ Out(w) \in {"pending", "damaged", "done"} /\ Out(w)' = "error" => R!GiveUp(w)
           /\ Out(w) = "done" /\ Out(w)' = "ok" => R!Succeed(w)
  <1>1. Reg' = Reg
    BY RegQuiet
  <1>2. Out(w)' = Out(w) => Quiet
    BY <1>1, CallsQuiet DEF Quiet
  <1>3. ASSUME NEW from \in {"pending", "damaged", "done"}, Out(w) = from, Out(w)' = "error"
        PROVE  R!GiveUp(w)
    <2>1. R!Moves(w, from, "error")
      BY <1>3, Moves
    <2> QED
      BY <1>1, <2>1 DEF R!GiveUp, Reg
  <1>4. ASSUME Out(w) = "done", Out(w)' = "ok" PROVE R!Succeed(w)
    BY <1>1, <1>4, Moves DEF R!Succeed, Reg
  <1> QED
    BY <1>2, <1>3, <1>4

LEMMA BeginSim ==
    ASSUME IInv, IInv', Writing, NEW w \in Workers, Begin(w)
    PROVE  Simulated(w)
  <1>1. PICK r \in Requests :
          /\ req' = [req EXCEPT ![w] = r] /\ pc' = [pc EXCEPT ![w] = FirstStep(r.op)]
    BY DEF Begin, Goto
  <1>2. /\ pc[w] = "idle" /\ r \in Request /\ req'[w] = r /\ live' = live
        /\ pc'[w] \in {"lock", "readRoot", "getIndex", "findRoot"}
    <2>1. FirstStep(r.op) \in {"lock", "readRoot", "getIndex", "findRoot"}
      BY RequestsAssumption DEF FirstStep, Request, Ops
    <2> QED
      BY <1>1, <2>1, RequestsAssumption DEF Begin, IInv, TypeOK, ControlOK, disk
  <1>3. Reg' = Reg
    BY <1>2, RegQuiet DEF Moving
  <1>4. CASE r.op \in {"create", "delete"}
    <2> DEFINE q == [op |-> r.op, key |-> <<r.skill, r.version>>,
                     content |-> r.content, force |-> r.force]
    <2>1. q \in R!Request
      BY <1>2, <1>4 DEF Request, R!Request
    <2>2. CallOf(w)' = [req |-> q, out |-> "pending"]
      BY <1>2, <1>4 DEF CallOf, Progress
    <2>3. Calls[w] = None
      BY <1>2 DEF Calls, CallOf
    <2>4. ASSUME NEW x \in Workers, x # w PROVE CallOf(x)' = CallOf(x)
      BY <2>4, Frame DEF IInv, CallOf
    <2>5. Calls' = [Calls EXCEPT ![w] = [req |-> q, out |-> "pending"]]
      BY <2>2, <2>4 DEF Calls
    <2>6. R!Invoke(w)
      BY <1>3, <2>1, <2>3, <2>5 DEF R!Invoke, Calls, Reg
    <2> QED
      BY <2>6 DEF Simulated, R!Serve
  <1>5. CASE r.op \notin {"create", "delete"}
    <2>1. Calls' = Calls
      BY <1>2, <1>5, CallsQuiet DEF Writer
    <2> QED
      BY <1>3, <2>1 DEF Simulated, Quiet
  <1> QED
    BY <1>4, <1>5

LEMMA ReplySim ==
    ASSUME IInv, IInv', Writing, NEW w \in Workers, Reply(w)
    PROVE  Simulated(w)
  <1>1. pc[w] = "reply" /\ pc'[w] = "idle" /\ live' = live /\ Serve(w)
    BY DEF Reply, Goto, IInv, TypeOK, ControlOK, disk, Serve
  <1>2. Reg' = Reg
    BY <1>1, RegQuiet DEF Moving
  <1>3. CASE Writer(w)
    <2>1. /\ Calls[w] # None /\ Calls[w].out \in {"ok", "exists", "notfound", "error"}
      <3>1. Calls[w] # None /\ Calls[w].out = Out(w)
        BY <1>3, CallIs
      <3>2. Out(w) \in {"ok", "exists", "notfound", "error"}
        BY <1>1, <1>3 DEF Writing, WritingOK, Writer, Out
      <3> QED
        BY <3>1, <3>2
    <2>2. ASSUME NEW x \in Workers, x # w PROVE CallOf(x)' = CallOf(x)
      BY <1>1, <2>2, Frame DEF IInv, CallOf
    <2>3. CallOf(w)' = None
      BY <1>1 DEF CallOf
    <2>4. Calls' = [Calls EXCEPT ![w] = None]
      BY <2>2, <2>3 DEF Calls
    <2>5. R!Receive(w)
      BY <1>2, <2>1, <2>4 DEF R!Receive, Calls, Reg
    <2> QED
      BY <2>5 DEF Simulated, R!Serve
  <1>4. CASE ~Writer(w)
    <2>1. Calls' = Calls
      BY <1>1, <1>4, CallsQuiet DEF Writer
    <2> QED
      BY <1>2, <2>1 DEF Simulated, Quiet
  <1> QED
    BY <1>3, <1>4

LEMMA NotWriterSim ==
    ASSUME IInv, IInv', Writing, NEW w \in Workers, Serve(w) \/ Fail(w), ~Reply(w), ~Writer(w)
    PROVE  Simulated(w)
  <1>1. /\ live' = live /\ req' = req /\ ~Moving(w) /\ pc'[w] \notin {"install", "restore"}
    <2> USE DEF IInv, TypeOK, ControlOK, Writer
    <2>1. ~Acquire(w) /\ ~Create(w) /\ ~Delete(w)
      BY DEF Acquire, Create, Delete, CreateFind, Stage, Backup, Install, InstallBlocked,
         Restore, Discard, DeleteFind, RemoveFiles, RemoveDir, DeleteCleanup, Local, LocalOK
    <2>2. ~Moving(w)
      BY DEF Moving, Local, LocalOK
    <2>3. CASE IndexWrite(w)
      BY <2>2, <2>3 DEF IndexWrite, ReadIndex, OpenTmp, WriteTmp, RenameIndex, Goto, Return, disk
    <2>4. CASE Reindex(w)
      BY <2>2, <2>4 DEF Reindex, ReindexRoot, ReindexAuthor, ReindexSkill, ReindexVersion,
         ReindexWrite, Goto, disk
    <2>5. CASE GetVersion(w)
      BY <2>2, <2>5 DEF GetVersion, GetIndex, ReadFirst, ReadRest, Goto, Return, disk
    <2>6. CASE Validate(w)
      BY <2>2, <2>6 DEF Validate, FindRoot, Probe, ReadMD, Goto, Return, disk
    <2>7. CASE Fail(w)
      BY <2>2, <2>7 DEF Fail, Goto, Return, disk, Local, LocalOK
    <2> QED
      BY <2>1, <2>3, <2>4, <2>5, <2>6, <2>7 DEF Serve
  <1>2. Reg' = Reg
    BY <1>1, RegQuiet DEF Moving
  <1>3. Calls' = Calls
    <2>1. pc[w] # "idle"
      BY DEF Serve, Create, Delete, IndexWrite, Reindex, GetVersion, Validate, Acquire,
         CreateFind, Stage, Backup, Install, InstallBlocked, Restore, Discard, DeleteFind,
         RemoveFiles, RemoveDir, DeleteCleanup, ReadIndex, OpenTmp, WriteTmp, RenameIndex,
         ReindexRoot, ReindexAuthor, ReindexSkill, ReindexVersion, ReindexWrite, GetIndex,
         ReadFirst, ReadRest, FindRoot, Probe, ReadMD, Reply, Fail, Fallible
    <2> QED
      BY <1>1, <2>1, CallsQuiet DEF Writer
  <1> QED
    BY <1>2, <1>3 DEF Simulated, Quiet

\* Nobody else has moved a version of the skill that w has locked.
LEMMA Alone ==
    ASSUME IInv, NEW w \in Workers, Critical(w), ~Moving(w), NEW x \in Workers
    PROVE  ~Swapping(x, req[w].skill, req[w].version)
  BY SwappingIsCritical, Exclusive DEF IInv, Swapping, Moving

LEMMA AloneNext ==
    ASSUME IInv', NEW w \in Workers, Critical(w)', ~Moving(w)', NEW x \in Workers,
           NEW s, NEW v, s = req'[w].skill
    PROVE  ~Swapping(x, s, v)'
  <1> SUFFICES ASSUME Swapping(x, s, v)' PROVE FALSE
    OBVIOUS
  <1>1. Critical(x)'
    BY DEF IInv, Local, LocalOK, Critical, Swapping
  <1>2. x = w
    BY <1>1 DEF IInv, Held, Swapping
  <1> QED
    BY <1>2 DEF Swapping, Moving

LEMMA RefuseSim ==
    ASSUME IInv, IInv', Writing, NEW w \in Workers, CreateFind(w) \/ DeleteFind(w)
    PROVE  Simulated(w)
  <1> DEFINE s == req[w].skill
             v == req[w].version
  <1>1. /\ pc[w] = "find" /\ req[w].op \in {"create", "delete"} /\ req[w] \in Request
        /\ Serve(w) /\ req' = req /\ live' = live
        /\ pc'[w] \in {"stage", "remove", "reply"}
    BY DEF CreateFind, DeleteFind, IInv, Local, LocalOK, Serve, Create, Delete, disk,
       Goto, Return, TypeOK, ControlOK
  <1>2. Writer(w) /\ Critical(w) /\ ~Moving(w) /\ ~Moving(w)' /\ Out(w) = "pending"
    BY <1>1 DEF Writer, Critical, Moving, Out, Progress
  <1>3. /\ s \in Skills /\ v \in Versions /\ RegIs(s, v)
        /\ Reg' = Reg /\ Reg[<<s, v>>] = RegOf(s, v)
        /\ \A x \in Workers : ~Swapping(x, s, v)
    BY <1>1, <1>2, RegFacts, RegQuiet, Alone DEF Request, Reg
  <1>4. Calls[w].req = Asked(w)
    BY <1>2, CallIs
  <1>5. CASE pc'[w] # "reply"
    <2>1. Out(w)' = Out(w)
      BY <1>1, <1>2, <1>5 DEF Out, Progress
    <2> QED
      BY <1>1, <1>2, <2>1, CallMoves DEF Simulated
  <1>6. CASE pc'[w] = "reply" /\ CreateFind(w)
    <2>1. Homes(s, v) # {} /\ ~req[w].force /\ answer'[w] = "exists"
      BY <1>6 DEF CreateFind, Overwrites, Goto, Return, IInv, TypeOK, ControlOK
    <2>2. Reg[<<s, v>>] # None
      BY <1>3, <2>1 DEF RegIs, Homes
    <2>3. R!Moves(w, "pending", "exists")
      BY <1>1, <1>2, <1>6, <2>1, Moves DEF Out
    <2>4. Asked(w).op = "create" /\ ~Asked(w).force /\ Asked(w).key = <<s, v>>
      BY <1>6, <2>1 DEF CreateFind, Asked
    <2> QED
      BY <1>3, <1>4, <2>2, <2>3, <2>4 DEF Simulated, R!Serve, R!Refuse, Reg, Calls
  <1>7. CASE pc'[w] = "reply" /\ DeleteFind(w)
    <2>1. Homes(s, v) = {} /\ answer'[w] = "notfound"
      BY <1>7 DEF DeleteFind, Goto, Return, IInv, TypeOK, ControlOK
    <2>2. Reg[<<s, v>>] = None
      BY <1>3, <2>1 DEF RegIs
    <2>3. R!Moves(w, "pending", "notfound")
      BY <1>1, <1>2, <1>7, <2>1, Moves DEF Out
    <2>4. Asked(w).op = "delete" /\ Asked(w).key = <<s, v>>
      BY <1>7 DEF DeleteFind, Asked
    <2> QED
      BY <1>3, <1>4, <2>2, <2>3, <2>4 DEF Simulated, R!Serve, R!Refuse, Reg, Calls
  <1> QED
    BY <1>5, <1>6, <1>7

\* Between the two renames the map shows the version that was moved aside.
LEMMA BackupSim ==
    ASSUME IInv, IInv', Writing, NEW w \in Workers, Backup(w)
    PROVE  Simulated(w)
  <1> DEFINE s == req[w].skill
             v == req[w].version
  <1>1. /\ pc[w] = "backup" /\ req[w].op = "create" /\ req[w] \in Request
        /\ home[w] \in Visible /\ Serve(w) /\ req' = req /\ home' = home
        /\ live' = [live EXCEPT ![<<home[w], s, v>>] = None]
        /\ saved' = [saved EXCEPT ![w] = live[<<home[w], s, v>>]]
        /\ pc'[w] = "install"
    BY DEF Backup, HomeDir, IInv, Local, LocalOK, Serve, Create, Goto, TypeOK, ControlOK
  <1>2. Writer(w) /\ Critical(w) /\ ~Moving(w) /\ Out(w) = "pending" /\ Out(w)' = "pending"
    BY <1>1 DEF Writer, Critical, Moving, Out, Progress
  <1>3. /\ s \in Skills /\ v \in Versions /\ RegIs(s, v) /\ RegIs(s, v)'
        /\ \A x \in Workers : ~Swapping(x, s, v)
    BY <1>1, <1>2, RegFacts, RegFactsNext, Alone DEF Request
  <1>4. \A a \in Visible : live[<<a, s, v>>] # None => a = home[w]
    BY <1>1 DEF IInv, Swap, SwapOK
  <1>5. RegOf(s, v) = live[<<home[w], s, v>>]
    BY <1>1, <1>3, <1>4 DEF RegIs, Homes
  <1>6. RegOf(s, v)' = live[<<home[w], s, v>>]
    <2>1. ASSUME NEW a \in Visible PROVE live'[<<a, s, v>>] = None
      <3>1. <<a, s, v>> \in Dir /\ <<home[w], s, v>> \in Dir
        BY <1>1, <1>3 DEF Dir, Visible
      <3>2. live \in [Dir -> Contents \cup {None, Partial}]
        BY DEF IInv, TypeOK, DiskOK
      <3>3. CASE a = home[w]
        BY <1>1, <3>1, <3>2, <3>3
      <3>4. CASE a # home[w]
        BY <1>1, <1>4, <3>1, <3>2, <3>4
      <3> QED
        BY <3>3, <3>4
    <2>2. Homes(s, v)' = {}
      BY <1>1, <2>1 DEF Homes, Visible
    <2>3. Swapping(w, s, v)'
      BY <1>1, SentinelAssumption DEF Swapping, Visible
    <2>4. saved'[w] = live[<<home[w], s, v>>]
      BY <1>1 DEF IInv, TypeOK, LocalsOK
    <2> QED
      BY <1>3, <2>2, <2>3, <2>4 DEF RegIs
  <1>7. \A a \in Authors, t \in Skills, u \in Versions :
            <<t, u>> # <<s, v>> => live'[<<a, t, u>>] = live[<<a, t, u>>]
    BY <1>1 DEF IInv, TypeOK, DiskOK, Dir
  <1>8. \A t \in Skills, u \in Versions : RegOf(t, u)' = RegOf(t, u)
    BY <1>1, <1>5, <1>6, <1>7, RegElsewhere DEF Key
  <1>9. Calls' = Calls
    BY <1>1, <1>2, CallsQuiet
  <1> QED
    BY <1>8, <1>9 DEF Simulated, Quiet, Reg

LEMMA InstallSim ==
    ASSUME IInv, IInv', Writing, NEW w \in Workers, Install(w)
    PROVE  Simulated(w)
  <1> DEFINE s == req[w].skill
             v == req[w].version
  <1>1. /\ pc[w] = "install" /\ req[w].op = "create" /\ req[w] \in Request
        /\ Serve(w) /\ req' = req /\ home' = home
        /\ live' = [live EXCEPT ![<<req[w].author, s, v>>] = req[w].content]
        /\ pc'[w] \in {"readIndex", "discard"} /\ req[w].author \in Visible
        /\ home[w] # None => req[w].force
    BY DEF Install, Target, IInv, Local, LocalOK, Serve, Create, Goto, TypeOK, ControlOK,
       Writing, WritingOK, locals
  <1>2. Writer(w) /\ Critical(w) /\ Critical(w)' /\ ~Moving(w)' /\ Out(w) = "pending" /\ Out(w)' = "done"
    BY <1>1 DEF Writer, Critical, Moving, Out, Progress
  <1>3. s \in Skills /\ v \in Versions /\ RegIs(s, v) /\ RegIs(s, v)' /\ Reg[<<s, v>>] = RegOf(s, v)
    BY <1>1, RegFacts, RegFactsNext DEF Request, Reg
  <1>4. R!Moves(w, "pending", "done") /\ Calls[w].req = Asked(w)
    BY <1>1, <1>2, Moves, CallIs
  <1>5. \A a \in Visible : live[<<a, s, v>>] = None
    BY <1>1 DEF IInv, Swap, SwapOK
  <1>6. req[w].force \/ Reg[<<s, v>>] = None
    <2> SUFFICES ASSUME ~req[w].force PROVE RegOf(s, v) = None
      BY <1>3
    <2>1. ~Moving(w)
      BY <1>1 DEF Moving
    <2>2. \A x \in Workers : ~Swapping(x, s, v)
      BY <1>2, <2>1, Alone
    <2> QED
      BY <1>3, <1>5, <2>2 DEF RegIs, Homes
  <1>7. RegOf(s, v)' = req[w].content
    <2>1. live'[<<req[w].author, s, v>>] = req[w].content
      BY <1>1, <1>3 DEF IInv, TypeOK, DiskOK, Dir, Visible
    <2>2. req[w].content # None
      BY <1>1, SentinelAssumption DEF Request
    <2>3. req[w].author \in Homes(s, v)'
      BY <1>1, <2>1, <2>2 DEF Homes, Visible
    <2> QED
      BY <1>1, <1>3, <2>1, <2>3 DEF RegIs
  <1>8. \A a \in Authors, t \in Skills, u \in Versions :
            <<t, u>> # <<s, v>> => live'[<<a, t, u>>] = live[<<a, t, u>>]
    BY <1>1 DEF IInv, TypeOK, DiskOK, Dir
  <1>9. \A t \in Skills, u \in Versions : <<t, u>> # <<s, v>> => RegOf(t, u)' = RegOf(t, u)
    BY <1>1, <1>8, RegElsewhere DEF Key
  <1>10. Reg' = [Reg EXCEPT ![<<s, v>>] = req[w].content]
    <2> HIDE DEF s, v
    <2>1. req' = req
      BY <1>1
    <2>2. s' = s /\ v' = v
      BY <2>1 DEF s, v
    <2> QED
      BY <1>3, <1>7, <1>9, <2>2, RegPut
  <1>11. /\ Asked(w).op = "create" /\ Asked(w).force = req[w].force
         /\ Asked(w).key = <<s, v>> /\ Asked(w).content = req[w].content
    BY <1>1 DEF Asked
  <1>12. R!Put(w)
    BY <1>4, <1>6, <1>10, <1>11 DEF R!Put, Reg, Calls
  <1> QED
    BY <1>12 DEF Simulated, R!Serve

LEMMA RemoveSim ==
    ASSUME IInv, IInv', Writing, NEW w \in Workers, RemoveFiles(w) \/ RemoveDir(w)
    PROVE  Simulated(w)
  <1> DEFINE s == req[w].skill
             v == req[w].version
             rest == IF pc[w] = "remove" THEN Partial ELSE None
  <1>1. /\ pc[w] \in {"remove", "removing"} /\ req[w].op = "delete" /\ req[w] \in Request
        /\ home[w] \in Visible /\ Serve(w) /\ req' = req /\ home' = home
        /\ live' = [live EXCEPT ![<<home[w], s, v>>] = rest]
        /\ pc'[w] = IF pc[w] = "remove" THEN "removing" ELSE "readIndex"
    BY DEF RemoveFiles, RemoveDir, HomeDir, IInv, Local, LocalOK, Serve, Delete, Goto,
       TypeOK, ControlOK, locals
  <1>2. Writer(w) /\ Critical(w) /\ Critical(w)' /\ ~Moving(w) /\ ~Moving(w)'
    BY <1>1 DEF Writer, Critical, Moving
  <1>3. /\ s \in Skills /\ v \in Versions /\ RegIs(s, v) /\ RegIs(s, v)'
        /\ Reg[<<s, v>>] = RegOf(s, v)
        /\ \A x \in Workers : ~Swapping(x, s, v)
        /\ \A x \in Workers : ~Swapping(x, s, v)'
    BY <1>1, <1>2, RegFacts, RegFactsNext, Alone, AloneNext DEF Request, Reg
  <1>4. \A a \in Visible : live[<<a, s, v>>] # None => a = home[w]
    BY <1>1 DEF IInv, Swap, SwapOK, Writing, WritingOK
  <1>5. ASSUME NEW a \in Visible
        PROVE  live'[<<a, s, v>>] = IF a = home[w] THEN rest ELSE None
    <2>1. <<a, s, v>> \in Dir /\ <<home[w], s, v>> \in Dir
      BY <1>1, <1>3 DEF Dir, Visible
    <2>2. live \in [Dir -> Contents \cup {None, Partial}]
      BY DEF IInv, TypeOK, DiskOK
    <2>3. CASE a = home[w]
      BY <1>1, <2>1, <2>2, <2>3
    <2>4. CASE a # home[w]
      BY <1>1, <1>4, <2>1, <2>2, <2>4
    <2> QED
      BY <2>3, <2>4
  <1>6. RegOf(s, v)' = rest
    <2>1. CASE pc[w] = "remove"
      <3>1. home[w] \in Homes(s, v)'
        BY <1>1, <1>5, <2>1, SentinelAssumption DEF Homes, Visible
      <3> QED
        BY <1>1, <1>3, <1>5, <2>1, <3>1 DEF RegIs
    <2>2. CASE pc[w] # "remove"
      <3>1. Homes(s, v)' = {}
        BY <1>1, <1>5, <2>2 DEF Homes, Visible
      <3> QED
        BY <1>1, <1>3, <2>2, <3>1 DEF RegIs
    <2> QED
      BY <2>1, <2>2
  <1>7. \A a \in Authors, t \in Skills, u \in Versions :
            <<t, u>> # <<s, v>> => live'[<<a, t, u>>] = live[<<a, t, u>>]
    BY <1>1 DEF IInv, TypeOK, DiskOK, Dir
  <1>8. \A t \in Skills, u \in Versions : <<t, u>> # <<s, v>> => RegOf(t, u)' = RegOf(t, u)
    BY <1>1, <1>7, RegElsewhere DEF Key
  <1>9. Reg' = [Reg EXCEPT ![<<s, v>>] = rest]
    <2> HIDE DEF s, v, rest
    <2>1. s' = s /\ v' = v
      BY <1>1 DEF s, v
    <2> QED
      BY <1>3, <1>6, <1>8, <2>1, RegPut
  <1>10. Calls[w].req = Asked(w) /\ Asked(w).op = "delete" /\ Asked(w).key = <<s, v>>
    BY <1>1, <1>2, CallIs DEF Asked
  <1>11. CASE pc[w] = "remove"
    <2>1. R!Moves(w, "pending", "damaged")
      BY <1>1, <1>2, <1>11, Moves DEF Out, Progress
    <2>2. Reg[<<s, v>>] # None
      <3>1. home[w] \in Homes(s, v) /\ live[<<home[w], s, v>>] # None
        BY <1>1, <1>11 DEF Writing, WritingOK, HomeDir, Homes
      <3> QED
        BY <1>3, <3>1 DEF RegIs
    <2>3. R!Damage(w)
      BY <1>9, <1>10, <1>11, <2>1, <2>2 DEF R!Damage, Reg, Calls
    <2> QED
      BY <2>3 DEF Simulated, R!Serve
  <1>12. CASE pc[w] = "removing"
    <2>1. R!Moves(w, "damaged", "done")
      BY <1>1, <1>2, <1>12, Moves DEF Out, Progress
    <2>2. R!Remove(w)
      BY <1>9, <1>10, <1>12, <2>1 DEF R!Remove, Reg, Calls
    <2> QED
      BY <2>2 DEF Simulated, R!Serve
  <1> QED
    BY <1>1, <1>11, <1>12

\* What a writer that has moved a version aside holds is what the map shows.
LEMMA MovedAsideIs ==
    ASSUME IInv, Writing, NEW w \in Workers, pc[w] = "restore"
    PROVE  /\ RegOf(req[w].skill, req[w].version) = saved[w]
           /\ \A a \in Visible : live[<<a, req[w].skill, req[w].version>>] = None
           /\ Writer(w) /\ Critical(w) /\ Out(w) = "pending" /\ req[w].op = "create"
           /\ req[w] \in Request /\ home[w] \in Visible /\ req[w].force
  <1>1. /\ req[w] \in Request /\ home[w] \in Visible /\ req[w].op = "create"
        /\ \A a \in Visible : live[<<a, req[w].skill, req[w].version>>] = None
    BY DEF IInv, Local, LocalOK, Swap, SwapOK
  <1>2. home[w] # None
    BY <1>1, SentinelAssumption DEF Visible
  <1>3. Swapping(w, req[w].skill, req[w].version) /\ req[w].force
    BY <1>2 DEF Swapping, Writing, WritingOK
  <1>4. RegIs(req[w].skill, req[w].version)
    BY <1>1, RegFacts DEF Request
  <1> QED
    BY <1>1, <1>3, <1>4 DEF RegIs, Homes, Writer, Critical, Out, Progress

LEMMA RestoreSim ==
    ASSUME IInv, IInv', Writing, NEW w \in Workers, Restore(w)
    PROVE  Simulated(w)
  <1> DEFINE s == req[w].skill
             v == req[w].version
  <1>1. /\ pc[w] = "restore" /\ Serve(w) /\ req' = req /\ home' = home
        /\ live' = [live EXCEPT ![<<home[w], s, v>>] = saved[w]]
        /\ pc'[w] = "reply" /\ answer'[w] = "error"
    BY DEF Restore, PutBack, HomeDir, IInv, Serve, Create, Goto, Return, TypeOK, ControlOK, locals
  <1>2. /\ RegOf(s, v) = saved[w] /\ Writer(w) /\ Critical(w) /\ Out(w) = "pending"
        /\ \A a \in Visible : live[<<a, s, v>>] = None
        /\ req[w] \in Request /\ home[w] \in Visible
    BY <1>1, MovedAsideIs
  <1>3. s \in Skills /\ v \in Versions /\ RegIs(s, v)' /\ ~Moving(w)'
    BY <1>1, <1>2, RegFactsNext DEF Request, Moving
  <1>4. ASSUME NEW x \in Workers PROVE ~Swapping(x, s, v)'
    <2>1. CASE x = w
      BY <1>1, <2>1 DEF Swapping
    <2>2. CASE x # w
      <3>1. Swapping(x, s, v)' => Swapping(x, s, v)
        BY <1>1, <2>2, Frame DEF IInv, Swapping
      <3>2. ~Swapping(x, s, v)
        BY <1>2, <2>2, SwappingIsCritical, Exclusive DEF Swapping, IInv
      <3> QED
        BY <3>1, <3>2
    <2> QED
      BY <2>1, <2>2
  <1>5. ASSUME NEW a \in Visible
        PROVE  live'[<<a, s, v>>] = IF a = home[w] THEN saved[w] ELSE None
    <2>1. <<a, s, v>> \in Dir /\ <<home[w], s, v>> \in Dir
      BY <1>2, <1>3 DEF Dir, Visible
    <2>2. live \in [Dir -> Contents \cup {None, Partial}]
      BY DEF IInv, TypeOK, DiskOK
    <2>3. CASE a = home[w]
      BY <1>1, <2>1, <2>2, <2>3
    <2>4. CASE a # home[w]
      BY <1>1, <1>2, <2>1, <2>2, <2>4
    <2> QED
      BY <2>3, <2>4
  <1>6. RegOf(s, v)' = RegOf(s, v)
    <2>1. CASE saved[w] # None
      <3>1. home[w] \in Homes(s, v)'
        BY <1>1, <1>2, <1>5, <2>1 DEF Homes, Visible
      <3> QED
        BY <1>1, <1>2, <1>3, <1>5, <3>1 DEF RegIs
    <2>2. CASE saved[w] = None
      <3>1. Homes(s, v)' = {}
        BY <1>1, <1>5, <2>2 DEF Homes, Visible
      <3> QED
        BY <1>1, <1>2, <1>3, <1>4, <2>2, <3>1 DEF RegIs
    <2> QED
      BY <2>1, <2>2
  <1>7. \A a \in Authors, t \in Skills, u \in Versions :
            <<t, u>> # <<s, v>> => live'[<<a, t, u>>] = live[<<a, t, u>>]
    BY <1>1 DEF IInv, TypeOK, DiskOK, Dir
  <1>8. \A t \in Skills, u \in Versions : RegOf(t, u)' = RegOf(t, u)
    BY <1>1, <1>6, <1>7, RegElsewhere DEF Key
  <1>9. R!Moves(w, "pending", "error")
    BY <1>1, <1>2, Moves DEF Out
  <1>10. R!GiveUp(w)
    BY <1>8, <1>9 DEF R!GiveUp
  <1> QED
    BY <1>10 DEF Simulated, R!Serve

\* The second failure: the old version stays in its .bak directory.
LEMMA LoseSim ==
    ASSUME IInv, IInv', Writing, NEW w \in Workers, Fail(w), pc[w] = "restore"
    PROVE  Simulated(w)
  <1> DEFINE s == req[w].skill
             v == req[w].version
  <1>1. /\ req' = req /\ live' = live /\ faults' = faults + 1
        /\ pc'[w] = "reply" /\ answer'[w] = "error"
    BY DEF Fail, Goto, Return, Fallible, IInv, TypeOK, ControlOK, disk
  <1>2. /\ Writer(w) /\ Critical(w) /\ Out(w) = "pending" /\ req[w].op = "create"
        /\ \A a \in Visible : live[<<a, s, v>>] = None
        /\ req[w] \in Request /\ req[w].force
    BY MovedAsideIs
  <1>3. s \in Skills /\ v \in Versions /\ RegIs(s, v)'
    BY <1>1, <1>2, RegFactsNext DEF Request
  <1>4. ASSUME NEW x \in Workers PROVE ~Swapping(x, s, v)'
    <2>1. CASE x = w
      BY <1>1, <2>1 DEF Swapping
    <2>2. CASE x # w
      <3>1. Swapping(x, s, v)' => Swapping(x, s, v)
        BY <1>1, <2>2, Frame DEF IInv, Swapping
      <3>2. ~Swapping(x, s, v)
        BY <1>2, <2>2, SwappingIsCritical, Exclusive DEF Swapping, IInv
      <3> QED
        BY <3>1, <3>2
    <2> QED
      BY <2>1, <2>2
  <1>5. RegOf(s, v)' = None
    <2>1. Homes(s, v)' = {}
      BY <1>1, <1>2 DEF Homes, Visible
    <2> QED
      BY <1>1, <1>3, <1>4, <2>1 DEF RegIs
  <1>6. \A t \in Skills, u \in Versions : <<t, u>> # <<s, v>> => RegOf(t, u)' = RegOf(t, u)
    BY <1>1, RegElsewhere DEF Key
  <1>7. Reg' = [Reg EXCEPT ![<<s, v>>] = None]
    <2> HIDE DEF s, v
    <2>1. s' = s /\ v' = v
      BY <1>1 DEF s, v
    <2> QED
      BY <1>3, <1>5, <1>6, <2>1, RegPut
  <1>8. R!Moves(w, "pending", "error") /\ Calls[w] # None /\ Calls[w].out = "pending"
    BY <1>1, <1>2, Moves, CallIs DEF Out
  <1>9. /\ Calls[w].req.op = "create" /\ Calls[w].req.force /\ Calls[w].req.key = <<s, v>>
    <2>1. Calls[w].req = Asked(w)
      BY <1>2, CallIs
    <2> QED
      BY <1>2, <2>1 DEF Asked
  <1>10. R!Lose(w)
    BY <1>7, <1>8, <1>9 DEF R!Lose, R!Replaced, Reg, Calls
  <1>11. faults' > 1
    BY <1>1 DEF IInv, TypeOK, HistoryOK, Writing, WritingOK
  <1> QED
    BY <1>10, <1>11 DEF Simulated

LEMMA FailSim ==
    ASSUME IInv, IInv', Writing, NEW w \in Workers, Fail(w), Writer(w)
    PROVE  Simulated(w)
  <1>1. CASE pc[w] = "restore"
    BY <1>1, LoseSim
  <1>2. CASE pc[w] = "install" /\ home[w] # None
    <2>1. /\ pc'[w] = "restore" /\ req' = req /\ saved' = saved /\ home' = home /\ live' = live
      BY <1>2 DEF Fail, Goto, Fallible, IInv, TypeOK, ControlOK, disk
    <2>2. Reg' = Reg
      BY <1>2, <2>1, RegQuiet DEF Moving
    <2>3. Calls' = Calls
      BY <1>2, <2>1, CallsQuiet DEF Out, Progress
    <2> QED
      BY <2>2, <2>3 DEF Simulated, Quiet
  <1>3. CASE pc[w] # "restore" /\ ~(pc[w] = "install" /\ home[w] # None)
    <2>1. /\ pc'[w] = "reply" /\ answer'[w] = "error" /\ req' = req /\ live' = live
          /\ pc[w] \notin {"idle", "reply"}
      BY <1>3 DEF Fail, Goto, Return, Fallible, IInv, TypeOK, ControlOK, disk, Writing,
         WritingOK, Reads, Writer, Local, LocalOK
    <2>2. Out(w) \in {"pending", "damaged", "done"} /\ Out(w)' = "error"
      BY <2>1 DEF Out, Progress
    <2>3. R!GiveUp(w)
      BY <1>3, <2>1, <2>2, CallMoves DEF Moving
    <2> QED
      BY <2>3 DEF Simulated, R!Serve
  <1> QED
    BY <1>1, <1>2, <1>3

\* The remaining steps of a Create or Delete.
LEMMA PlainSim ==
    ASSUME IInv, IInv', Writing, NEW w \in Workers, Writer(w),
           \/ Acquire(w) \/ Stage(w) \/ Discard(w) \/ DeleteCleanup(w) \/ IndexWrite(w)
    PROVE  Simulated(w)
  <1>1. /\ Serve(w) /\ req' = req /\ live' = live /\ ~Moving(w) /\ ~Moving(w)'
        /\ \/ pc[w] \in {"lock", "stage"} /\ pc'[w] \in {"find", "install", "backup"}
           \/ /\ pc[w] \in {"discard", "readIndex", "openTmp", "writeTmp", "renameIndex", "cleanup"}
              /\ \/ pc'[w] \in {"readIndex", "openTmp", "writeTmp", "renameIndex", "cleanup"}
                 \/ pc'[w] = "reply" /\ answer'[w] \in {"ok", "error"}
    <2> USE DEF IInv, TypeOK, ControlOK, LocalsOK, Goto, Return, Moving
    <2>1. CASE Acquire(w)
      BY <2>1 DEF Acquire, Serve, disk
    <2>2. CASE Stage(w)
      BY <2>2 DEF Stage, Serve, Create, disk, locals
    <2>3. CASE Discard(w)
      BY <2>3 DEF Discard, Serve, Create, disk
    <2>4. CASE DeleteCleanup(w)
      BY <2>4 DEF DeleteCleanup, Serve, Delete, disk
    <2>5. CASE IndexWrite(w)
      BY <2>5 DEF IndexWrite, ReadIndex, OpenTmp, WriteTmp, RenameIndex, Serve, disk
    <2> QED
      BY <2>1, <2>2, <2>3, <2>4, <2>5
  <1>2. \/ Out(w)' = Out(w)
        \/ Out(w) = "done" /\ Out(w)' \in {"ok", "error"}
    BY <1>1 DEF Out, Progress
  <1> QED
    BY <1>1, <1>2, CallMoves DEF Simulated, R!Serve

LEMMA WorkerSim ==
    ASSUME IInv, IInv', Writing, NEW w \in Workers, Begin(w) \/ Serve(w) \/ Fail(w)
    PROVE  Simulated(w)
  <1>1. Create(w) \/ Delete(w) \/ Acquire(w) => Writer(w)
    BY DEF Acquire, Create, Delete, CreateFind, Stage, Backup, Install, InstallBlocked,
       Restore, Discard, DeleteFind, RemoveFiles, RemoveDir, DeleteCleanup, IInv, Local,
       LocalOK, Writer
  <1>2. CASE Writer(w) /\ Serve(w)
    <2>1. CASE Create(w)
      BY <1>1, <2>1, InstallIsFree, RefuseSim, BackupSim, InstallSim, RestoreSim, PlainSim
         DEF Create
    <2>2. CASE Delete(w)
      BY <1>1, <2>2, RefuseSim, RemoveSim, PlainSim DEF Delete
    <2>3. CASE Acquire(w) \/ IndexWrite(w)
      BY <1>2, <2>3, PlainSim
    <2>4. CASE Reply(w)
      BY <2>4, ReplySim
    <2>5. ~Reindex(w) /\ ~GetVersion(w) /\ ~Validate(w)
      BY <1>2 DEF Reindex, ReindexRoot, ReindexAuthor, ReindexSkill, ReindexVersion,
         ReindexWrite, GetVersion, GetIndex, ReadFirst, ReadRest, Validate, FindRoot, Probe,
         ReadMD, Writer, IInv, Local, LocalOK, Writing, WritingOK, Reads
    <2> QED
      BY <1>2, <2>1, <2>2, <2>3, <2>4, <2>5 DEF Serve
  <1>3. CASE Writer(w) /\ Fail(w)
    BY <1>3, FailSim
  <1>4. CASE Begin(w)
    BY <1>4, BeginSim
  <1>5. CASE Reply(w)
    BY <1>5, ReplySim
  <1>6. CASE ~Writer(w) /\ ~Reply(w) /\ (Serve(w) \/ Fail(w))
    BY <1>6, NotWriterSim
  <1> QED
    BY <1>2, <1>3, <1>4, <1>5, <1>6

\* A crash drops the calls; what was moved aside stays in its .bak directory.
LEMMA CrashSim ==
    ASSUME IInv, IInv', Writing, Crash
    PROVE  R!Crash
  <1> DEFINE Gone == {k \in Skills \X Versions : \E w \in Workers : Swapping(w, k[1], k[2])}
  <1>1. live' = live /\ \A w \in Workers : pc'[w] = "idle"
    BY DEF Crash, disk
  <1>2. Calls' = [w \in Workers |-> None]
    BY <1>1 DEF Calls, CallOf
  <1>3. ASSUME NEW k \in Gone PROVE R!Replaced(k)
    <2>1. PICK w \in Workers : Swapping(w, k[1], k[2])
      OBVIOUS
    <2>2. /\ Writer(w) /\ req[w].op = "create" /\ req[w].force /\ Out(w) = "pending"
          /\ k = <<req[w].skill, req[w].version>>
      BY <2>1 DEF Swapping, Writer, Out, Progress, IInv, Local, LocalOK, Writing, WritingOK
    <2>3. Calls[w] # None /\ Calls[w].out = "pending" /\ Calls[w].req = Asked(w)
      BY <2>2, CallIs
    <2>4. Asked(w).op = "create" /\ Asked(w).force /\ Asked(w).key = k
      BY <2>2 DEF Asked
    <2> QED
      BY <2>3, <2>4 DEF R!Replaced, Calls
  <1>4. ASSUME NEW s \in Skills, NEW v \in Versions
        PROVE  RegOf(s, v)' \in {RegOf(s, v), None}
               /\ (RegOf(s, v)' # RegOf(s, v) => <<s, v>> \in Gone)
    <2>1. RegIs(s, v) /\ RegIs(s, v)' /\ Homes(s, v)' = Homes(s, v)
      BY <1>1, RegFacts, RegFactsNext DEF Homes, Visible
    <2>2. \A w \in Workers : ~Swapping(w, s, v)'
      BY <1>1 DEF Swapping
    <2>3. CASE Homes(s, v) # {}
      <3>1. PICK a \in Homes(s, v) : TRUE
        BY <2>3
      <3>2. RegOf(s, v)' = RegOf(s, v)
        BY <1>1, <2>1, <3>1 DEF RegIs
      <3> QED
        BY <3>2
    <2>4. CASE Homes(s, v) = {}
      <3>1. RegOf(s, v)' = None
        BY <2>1, <2>2, <2>4 DEF RegIs
      <3>2. (\A w \in Workers : ~Swapping(w, s, v)) => RegOf(s, v) = None
        BY <2>1, <2>4 DEF RegIs
      <3>3. (\E w \in Workers : Swapping(w, s, v)) => <<s, v>> \in Gone
        OBVIOUS
      <3> QED
        BY <3>1, <3>2, <3>3
    <2> QED
      BY <2>3, <2>4
  <1> DEFINE Lost == {k \in Gone : RegOf(k[1], k[2])' = None}
  <1>5. Reg' = [k \in Skills \X Versions |-> IF k \in Lost THEN None ELSE Reg[k]]
    <2>1. ASSUME NEW k \in Skills \X Versions
          PROVE  RegOf(k[1], k[2])' = IF k \in Lost THEN None ELSE Reg[k]
      <3>1. k[1] \in Skills /\ k[2] \in Versions /\ k = <<k[1], k[2]>>
        OBVIOUS
      <3>2. Reg[k] = RegOf(k[1], k[2])
        BY DEF Reg
      <3> HIDE DEF Gone
      <3>3. RegOf(k[1], k[2])' \in {RegOf(k[1], k[2]), None}
            /\ (RegOf(k[1], k[2])' # RegOf(k[1], k[2]) => k \in Gone)
        BY <1>4, <3>1
      <3> QED
        BY <3>2, <3>3
    <2> QED
      BY <2>1 DEF Reg
  <1>6. Lost \in SUBSET {k \in Skills \X Versions : R!Replaced(k)}
    <2> HIDE DEF Gone
    <2>1. Gone \subseteq Skills \X Versions
      BY DEF Gone
    <2> QED
      BY <1>3, <2>1
  <1> QED
    <2> HIDE DEF Lost, Gone
    <2> QED
      BY <1>2, <1>5, <1>6 DEF R!Crash, Reg, Calls

Broken == crashes > 0 \/ faults > 1

LEMMA BrokenStays ==
    ASSUME IInv, [Next]_vars
    PROVE  Broken => Broken'
  <1>1. crashes \in Nat /\ faults \in Nat
    BY DEF IInv, TypeOK, HistoryOK
  <1>2. CASE UNCHANGED vars
    BY <1>2 DEF vars, counters, Broken
  <1>3. CASE Crash
    BY <1>1, <1>3 DEF Crash, Broken
  <1>4. ASSUME NEW w \in Workers, Begin(w) \/ Serve(w) \/ Fail(w) PROVE Broken => Broken'
    <2>1. crashes' = crashes /\ faults' \in {faults, faults + 1}
      BY <1>4 DEF Serve, Create, Delete, IndexWrite, Reindex, GetVersion, Validate,
         Begin, Acquire, CreateFind, Stage, Backup, Install, InstallBlocked, Restore, Discard,
         DeleteFind, RemoveFiles, RemoveDir, DeleteCleanup, ReadIndex, OpenTmp, WriteTmp,
         RenameIndex, ReindexRoot, ReindexAuthor, ReindexSkill, ReindexVersion, ReindexWrite,
         GetIndex, ReadFirst, ReadRest, FindRoot, Probe, ReadMD, Reply, Fail, counters
    <2> QED
      BY <1>1, <2>1 DEF Broken
  <1> QED
    BY <1>2, <1>3, <1>4 DEF Next, Finished

LEMMA Simulation ==
    ASSUME IInv, IInv', Writing, [Next]_vars
    PROVE  [R!Next]_(R!vars)
  <1>1. Broken' \in {Broken, TRUE}
    BY BrokenStays DEF Broken
  <1>2. CASE UNCHANGED vars
    <2>1. UNCHANGED R!vars
      BY <1>2 DEF vars, disk, locals, counters, R!vars, RegOf, Homes, Swapping, CallOf
    <2> QED
      BY <2>1
  <1>3. CASE Crash
    <2>1. Broken'
      BY <1>3 DEF Crash, Broken, IInv, TypeOK, HistoryOK
    <2> QED
      BY <1>3, <2>1, CrashSim DEF R!Next, Broken
  <1>4. ASSUME NEW w \in Workers, Begin(w) \/ Serve(w) \/ Fail(w) PROVE R!Next
    <2>1. Simulated(w)
      BY <1>4, WorkerSim
    <2>2. CASE R!Serve(w)
      BY <1>1, <2>2 DEF R!Next, Broken
    <2>3. CASE Quiet
      BY <1>1, <2>3 DEF R!Next, Broken, Quiet, Reg, Calls
    <2>4. CASE R!Lose(w) /\ faults' > 1
      BY <2>4 DEF R!Next
    <2> QED
      BY <2>1, <2>2, <2>3, <2>4 DEF Simulated
  <1> QED
    BY <1>2, <1>3, <1>4 DEF Next, Finished

(* The Create and Delete of the store implement the registry: every write  *)
(* call takes effect at one instant and is answered according to it, one   *)
(* failure of the disk is not seen, and crashes cost at most the versions  *)
(* being replaced just then (Create, Delete, lockSkill).                   *)
THEOREM RefinementTheorem ==
    ASSUME NoHiddenCreates
    PROVE  Spec => ImplementsRegistry
  <1>1. Init => R!Init
    BY DEF Init, R!Init, RegOf, Homes, Swapping, CallOf, Visible, Dir
  <1>2. IInv /\ IInv' /\ Writing /\ [Next]_vars => [R!Next]_(R!vars)
    BY Simulation
  <1> QED
    BY <1>1, <1>2, Inductive, WritingInductive, PTL DEF Spec, ImplementsRegistry, R!Spec
=============================================================================
