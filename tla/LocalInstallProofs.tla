-------------------------- MODULE LocalInstallProofs --------------------------
(***************************************************************************)
(* What get, deps --install and remove keep, for every set of skills and   *)
(* versions, every dependency relation, any tools that share or do not     *)
(* share a directory, any requests and processes, and any number of calls  *)
(* and of breaks.                                                          *)
(***************************************************************************)
EXTENDS LocalInstall, FiniteSetTheorems, SequenceTheorems, NaturalsInduction,
        WellFoundedInduction, TLAPS

-----------------------------------------------------------------------------
(* The directories of the tools.                                           *)

LEMMA NatMin ==
    ASSUME NEW P \in SUBSET Nat, P # {}
    PROVE  \E n \in P : \A m \in P : n <= m
  <1>1. IsWellFoundedOn(OpToRel(<, Nat), Nat)
    BY NatLessThanWellFounded
  <1>2. PICK n \in P : \A m \in P : <<m, n>> \notin OpToRel(<, Nat)
    BY <1>1, WFMin
  <1>3. \A m \in P : ~(m < n)
    BY <1>2 DEF OpToRel
  <1> QED
    BY <1>3

LEMMA AddedFacts ==
    ASSUME NEW S, NEW s \in Seq(S), NEW d \in S
    PROVE  /\ Added(s, d) \in Seq(S) /\ Added(s, d) # <<>>
           /\ Len(Added(s, d)) <= Len(s) + 1
  <1>1. CASE d \in Elements(s)
    <2>1. Added(s, d) = s
      BY <1>1 DEF Added
    <2>2. s # <<>>
      BY <1>1 DEF Elements
    <2> QED
      BY <2>1, <2>2
  <1>2. CASE d \notin Elements(s)
    <2>1. Added(s, d) = Append(s, d)
      BY <1>2 DEF Added
    <2>2. Append(s, d) \in Seq(S) /\ Len(Append(s, d)) = Len(s) + 1
      BY AppendProperties
    <2> QED
      BY <2>1, <2>2
  <1> QED
    BY <1>1, <1>2

\* The directories after each of the first n tools.
Grows(f, tools, n) == /\ f[0] = <<>>
                   /\ \A i \in 1..n : f[i] = Added(f[i - 1], DirOf[tools[i]])

LEMMA PrefixExists ==
    ASSUME NEW tools \in Seq(DOMAIN DirOf)
    PROVE  \E f \in [0..Len(tools) -> Seq(Targets)] : Grows(f, tools, Len(tools))
  <1> DEFINE Has(n) == \E f \in [0..n -> Seq(Targets)] : Grows(f, tools, n)
             Bad == {n \in 0..Len(tools) : ~Has(n)}
  <1>1. Has(0)
    <2> DEFINE f == [i \in 0..0 |-> <<>>]
    <2>1. <<>> \in Seq(Targets)
      OBVIOUS
    <2>2. f \in [0..0 -> Seq(Targets)] /\ f[0] = <<>>
      BY <2>1
    <2> HIDE DEF f
    <2> QED
      BY <2>2 DEF Grows
  <1>2. ASSUME NEW n \in 1..Len(tools), Has(n - 1)
        PROVE  Has(n)
    <2>1. PICK f \in [0..(n - 1) -> Seq(Targets)] : Grows(f, tools, n - 1)
      BY <1>2
    <2> DEFINE new == Added(f[n - 1], DirOf[tools[n]])
    <2>2. new \in Seq(Targets)
      <3>1. f[n - 1] \in Seq(Targets) /\ DirOf[tools[n]] \in Targets
        BY TargetsAssumption
      <3> QED
        BY <3>1, AddedFacts
    <2> HIDE DEF new
    <2> DEFINE g == [i \in 0..n |-> IF i = n THEN new ELSE f[i]]
    <2>3. g \in [0..n -> Seq(Targets)]
      BY <2>2
    <2>4. g[0] = <<>> /\ g[n] = new /\ \A i \in 0..(n - 1) : g[i] = f[i]
      BY <2>1 DEF Grows
    <2> HIDE DEF g
    <2>5. ASSUME NEW i \in 1..n
          PROVE  g[i] = Added(g[i - 1], DirOf[tools[i]])
      <3>1. CASE i = n
        BY <2>4, <3>1 DEF new
      <3>2. CASE i # n
        <4>1. i \in 1..(n - 1) /\ i - 1 \in 0..(n - 1) /\ i \in 0..(n - 1)
          BY <3>2
        <4>2. f[i] = Added(f[i - 1], DirOf[tools[i]])
          BY <2>1, <4>1 DEF Grows
        <4> QED
          BY <2>4, <4>1, <4>2
      <3> QED
        BY <3>1, <3>2
    <2> QED
      BY <2>3, <2>4, <2>5 DEF Grows
  <1> HIDE DEF Has
  <1>3. Bad = {}
    <2>1. SUFFICES ASSUME Bad # {} PROVE FALSE
      OBVIOUS
    <2>2. PICK n \in Bad : \A m \in Bad : n <= m
      <3>1. Bad \in SUBSET Nat
        OBVIOUS
      <3> HIDE DEF Bad
      <3> QED
        BY <2>1, <3>1, NatMin
    <2>3. n \in 1..Len(tools) /\ n - 1 \in 0..Len(tools) /\ n - 1 \notin Bad
      BY <1>1, <2>2
    <2> QED
      BY <1>2, <2>2, <2>3
  <1>4. Has(Len(tools))
    BY <1>3
  <1> QED
    BY <1>4 DEF Has

LEMMA TargetsOfFacts ==
    ASSUME NEW tools \in Seq(DOMAIN DirOf), tools # <<>>
    PROVE  /\ TargetsOf(tools) \in Seq(Targets) /\ TargetsOf(tools) # <<>>
           /\ Len(tools) = 1 => Len(TargetsOf(tools)) = 1
  <1> DEFINE L == Len(tools)
             Is(f) == f = [n \in 0..L |->
                             IF n = 0 THEN <<>> ELSE Added(f[n - 1], DirOf[tools[n]])]
             dirs == CHOOSE f : Is(f)
  <1>1. TargetsOf(tools) = dirs[L]
    BY DEF TargetsOf
  <1>2. \E f : Is(f)
    <2>1. PICK f \in [0..L -> Seq(Targets)] : Grows(f, tools, L)
      BY PrefixExists
    <2>2. \A n \in 0..L : f[n] = IF n = 0 THEN <<>> ELSE Added(f[n - 1], DirOf[tools[n]])
      BY <2>1 DEF Grows
    <2> QED
      BY <2>1, <2>2
  <1>3. Is(dirs)
    BY <1>2
  <1>4. dirs[0] = <<>> /\ \A n \in 1..L : dirs[n] = Added(dirs[n - 1], DirOf[tools[n]])
    <2> HIDE DEF dirs
    <2> QED
      BY <1>3
  <1> HIDE DEF dirs, Is
  <1>5. L \in Nat \ {0}
    BY EmptySeq
  <1> DEFINE Bad == {n \in 0..L : dirs[n] \notin Seq(Targets)}
  <1>6. Bad = {}
    <2>1. SUFFICES ASSUME Bad # {} PROVE FALSE
      OBVIOUS
    <2>2. PICK n \in Bad : \A m \in Bad : n <= m
      <3>1. Bad \in SUBSET Nat
        OBVIOUS
      <3> HIDE DEF Bad
      <3> QED
        BY <2>1, <3>1, NatMin
    <2>3. <<>> \in Seq(Targets)
      OBVIOUS
    <2>4. n \in 1..L /\ n - 1 \in 0..L /\ n - 1 \notin Bad
      <3>1. n \in 0..L /\ dirs[n] \notin Seq(Targets) /\ n # 0
        BY <1>4, <2>2, <2>3
      <3>2. n \in 1..L /\ n - 1 \in 0..L /\ ~(n <= n - 1)
        BY <1>5, <3>1
      <3> QED
        BY <2>2, <3>2
    <2>5. dirs[n - 1] \in Seq(Targets) /\ DirOf[tools[n]] \in Targets
      BY <2>4, TargetsAssumption
    <2> QED
      BY <1>4, <2>2, <2>4, <2>5, AddedFacts
  <1>7. L \in 1..L /\ L - 1 \in 0..L /\ DirOf[tools[L]] \in Targets
    BY <1>5, TargetsAssumption
  <1>8. dirs[L] = Added(dirs[L - 1], DirOf[tools[L]]) /\ dirs[L - 1] \in Seq(Targets)
    BY <1>4, <1>6, <1>7
  <1>9. /\ dirs[L] \in Seq(Targets) /\ dirs[L] # <<>>
        /\ Len(dirs[L]) <= Len(dirs[L - 1]) + 1
    BY <1>7, <1>8, AddedFacts
  <1>10. L = 1 => Len(dirs[L]) = 1
    <2>1. L = 1 => Len(dirs[L - 1]) = 0
      BY <1>4
    <2>2. Len(dirs[L]) \in Nat \ {0}
      BY <1>9, EmptySeq
    <2> QED
      BY <1>9, <2>1, <2>2
  <1> QED
    BY <1>1, <1>9, <1>10

-----------------------------------------------------------------------------
(* What the selections may return.                                         *)

LEMMA PositionIs ==
    ASSUME NEW k \in Keys
    PROVE  Position(k) \in DOMAIN Listing /\ Listing[Position(k)] = k /\ Position(k) \in Nat
  <1>1. \E i \in DOMAIN Listing : Listing[i] = k
    BY ListingAssumption
  <1>2. Position(k) \in DOMAIN Listing /\ Listing[Position(k)] = k
    BY <1>1 DEF Position
  <1> QED
    BY <1>2, ListingAssumption

LEMMA FirstIsIn ==
    ASSUME NEW keys \in SUBSET Keys, keys # {}
    PROVE  First(keys) \in keys
  <1> DEFINE places == {Position(k) : k \in keys}
  <1>1. places \in SUBSET Nat /\ places # {}
    BY PositionIs
  <1> HIDE DEF places
  <1>2. PICK n \in places : \A m \in places : n <= m
    BY <1>1, NatMin
  <1>3. PICK k \in keys : \A n2 \in keys : Position(k) <= Position(n2)
    BY <1>2 DEF places
  <1> QED
    BY <1>3 DEF First

LEMMA ChosenIsIn ==
    ASSUME NEW keys \in SUBSET Keys, NEW tty
    PROVE  Chosen(keys, tty) \subseteq keys
  <1>1. CASE tty \/ Cardinality(keys) <= 1
    BY <1>1 DEF Chosen
  <1>2. CASE ~(tty \/ Cardinality(keys) <= 1)
    <2>1. keys # {}
      BY <1>2, FS_EmptySet
    <2> QED
      BY <1>2, <2>1, FirstIsIn DEF Chosen
  <1> QED
    BY <1>1, <1>2

LEMMA LocalSelectionsAreIn ==
    ASSUME NEW ref, NEW installed, NEW tty, NEW S \in LocalSelections(ref, installed, tty)
    PROVE  S \subseteq installed
  BY DEF LocalSelections, ChosenSets, Matching

AllRequests == UNION {Requests[p] : p \in Procs}

LEMMA RequestIs ==
    ASSUME NEW r \in AllRequests
    PROVE  /\ r # None /\ r.op \in {"get", "deps", "remove"}
           /\ r.mode \in {"copy", "wrap", "slink"} /\ r.tty \in BOOLEAN /\ r.deps \in BOOLEAN
           /\ r.tools \in Seq(DOMAIN DirOf) /\ r.tools # <<>>
           /\ r.pattern = None => r.ref = Reference(r.ref.author, r.ref.name, r.ref.version)
           /\ r.op = "deps" => /\ Len(r.tools) = 1 /\ r.root \in Skills
                               /\ r.mode = "copy" /\ r.version = None /\ r.pattern = None
  BY RequestsAssumption DEF AllRequests

LEMMA ElementsIn ==
    ASSUME NEW S, NEW s \in Seq(S)
    PROVE  /\ Elements(s) \subseteq S
           /\ s # <<>> => Head(s) \in Elements(s) /\ Tail(s) \in Seq(S) /\ Head(s) = s[1]
           /\ Len(s) \in Nat /\ (s # <<>> => Len(s) >= 1)
           /\ Len(s) > 1 => Tail(s) # <<>>
  <1>1. \A i \in DOMAIN s : s[i] \in S
    OBVIOUS
  <1>2. ASSUME s # <<>>
        PROVE  /\ Len(s) >= 1 /\ 1 \in DOMAIN s /\ Head(s) = s[1] /\ Tail(s) \in Seq(S)
               /\ Len(Tail(s)) = Len(s) - 1
    BY <1>2, EmptySeq, HeadTailProperties
  <1>3. Len(s) \in Nat /\ (s = <<>> => Len(s) = 0)
    BY EmptySeq
  <1>4. Len(s) > 1 => Tail(s) # <<>>
    <2>1. ASSUME NEW t \in Seq(S), Len(t) >= 1
          PROVE  t # <<>>
      BY <2>1, EmptySeq
    <2>2. Len(s) > 1 => s # <<>>
      BY <1>3
    <2>3. Len(s) > 1 => Tail(s) \in Seq(S) /\ Len(Tail(s)) >= 1
      BY <1>2, <1>3, <2>2
    <2> QED
      BY <2>1, <2>3
  <1> QED
    BY <1>1, <1>2, <1>3, <1>4 DEF Elements

LEMMA PlanIs ==
    ASSUME NEW k \in Catalogue
    PROVE  /\ k \in Keys /\ Plan[k] \in Seq(Keys) /\ Plan[k] # <<>> /\ Plan[k][1] = k
           /\ Elements(Plan[k]) \subseteq Catalogue
  <1>1. Plan[k] \in Seq(DOMAIN Plan) /\ Plan[k] # <<>> /\ Plan[k][1] = k /\ k \in Keys
    BY PlanAssumption DEF Catalogue
  <1>2. Plan[k] \in Seq(Keys)
    BY <1>1, PlanAssumption
  <1> QED
    BY <1>1, <1>2, ElementsIn DEF Catalogue

LEMMA DependencyTargetsAreIn ==
    ASSUME NEW r, NEW root \in Catalogue
    PROVE  DependencyTargets(r, root) \subseteq Elements(Plan[root])
  <1> DEFINE keys == Matching(r.ref, Elements(Plan[root]) \ {root}, TRUE)
  <1>1. keys \subseteq Elements(Plan[root]) /\ Elements(Plan[root]) \subseteq Keys
    BY PlanIs, PlanAssumption DEF Matching, Catalogue
  <1> HIDE DEF keys
  <1>2. Chosen(keys, r.tty) \subseteq keys
    BY <1>1, ChosenIsIn
  <1> QED
    BY <1>1, <1>2 DEF DependencyTargets, keys

-----------------------------------------------------------------------------
(* Types.                                                                  *)

Labels == {"idle", "preview", "confirm", "install", "fill", "deps", "remove", "plan", "rm"}
Results == {"none", "ok", "failed", "refused"}
Job == [pc : Labels, req : AllRequests \cup {None}, result : Results,
        nodes : Seq(Keys), selected : SUBSET Skills, scan : SUBSET Targets,
        seen : [Targets -> SUBSET Skills], compare : SUBSET Targets,
        pending : SUBSET Targets, confirmed : SUBSET Targets,
        left : Seq(Targets), todo : Seq(Keys), files : SUBSET Files, file : Files \cup {None},
        view : [Skills -> SUBSET Skills], doomed : SUBSET Skills, plan : SUBSET Skills,
        before : [Targets -> SUBSET Skills], wrote : BOOLEAN, disturbed : BOOLEAN]

\* What each place of a command needs to know.
JobOK(j) ==
    /\ j \in Job
    /\ j.pc # "idle" => j.req \in AllRequests /\ j.left # <<>> /\ j.result = "none"
    /\ j.pc \in {"preview", "confirm", "install", "fill"} =>
         j.nodes # <<>> /\ j.req.op \in {"get", "deps"}
    /\ j.pc \in {"install", "fill"} => j.todo # <<>>
    /\ j.pc = "fill" => j.file \in Files
    /\ j.pc = "deps" => j.req.op = "deps"
    /\ j.pc \in {"remove", "plan", "rm"} => j.req.op = "remove"

Places == (Targets \cup {Source}) \X Skills
Contents == Versions \cup Mixes \cup {None, Torn}

Typed ==
    /\ dir \in [Places -> [Files -> Contents]]
    /\ link \subseteq Targets \X Skills
    /\ \A at \in link : dir[at] = Empty
    /\ DOMAIN job = Procs
    /\ \A p \in Procs : JobOK(job[p])
    /\ job \in [Procs -> Job]
    /\ calls \in Nat /\ breaks \in Nat

LEMMA IdleIsJob == JobOK(Idle)
  <1>1. Idle \in Job
    BY DEF Idle, Job, Labels, Results, Files
  <1> QED
    BY <1>1 DEF Idle, JobOK

LEMMA EmptyIs == Empty \in [Files -> Contents]
  BY DEF Empty, Contents

LEMMA InitType ==
    ASSUME Init
    PROVE  Typed
  <1>1. \A p \in Procs : job[p] = Idle
    BY DEF Init
  <1>2. \A p \in Procs : JobOK(job[p]) /\ job[p] \in Job
    BY <1>1, IdleIsJob DEF JobOK
  <1>3. job \in [Procs -> Job]
    BY <1>2 DEF Init
  <1>4. dir \in [Places -> [Files -> Contents]]
    <2> DEFINE own == [Empty EXCEPT !.md = CHOOSE v \in Versions : TRUE]
               C == Contents
    <2>1. (CHOOSE v \in Versions : TRUE) \in C
      BY VersionsAssumption DEF Contents
    <2>2. Empty \in [Files -> C]
      BY EmptyIs
    <2>3. own \in [Files -> C]
      BY <2>1, <2>2
    <2> HIDE DEF own, C
    <2> DEFINE D == [Files -> C]
    <2>4. dir = [p \in Places |-> IF p[1] = Source /\ p[2] \in Own THEN own ELSE Empty]
      BY DEF Init, Places, own
    <2>5. own \in D /\ Empty \in D
      BY <2>2, <2>3
    <2> HIDE DEF D
    <2>6. dir \in [Places -> D]
      BY <2>4, <2>5
    <2> QED
      BY <2>6 DEF C, D
  <1> QED
    BY <1>2, <1>3, <1>4 DEF Init, Typed

LEMMA KeyIs ==
    ASSUME NEW k \in Keys
    PROVE  k[1] \in Skills /\ k[2] \in Versions /\ k = <<k[1], k[2]>>
  BY DEF Keys

LEMMA FilesForAre ==
    ASSUME NEW r, NEW k
    PROVE  FilesFor(r, k) \in SUBSET Files /\ FilesFor(r, k) # {} /\ FilesOf(k) \subseteq Files
  BY DEF FilesFor, FilesOf, Files

LEMMA ListedAre ==
    ASSUME NEW t
    PROVE  Listed(t) \in SUBSET Skills
  BY DEF Listed

\* A command that goes on: its own job is replaced, the others know if the disk
\* has changed.
LEMMA OnlyMoves ==
    ASSUME Typed, NEW p \in Procs, NEW j, JobOK(j), Only(p, j)
    PROVE  /\ Typed' /\ job'[p] = j /\ \A q \in Procs : q # p => job'[q] = job[q]
           /\ UNCHANGED <<dir, link, unlinked, breaks>>
  <1>1. j \in Job /\ job \in [Procs -> Job] /\ job' = [job EXCEPT ![p] = j]
    BY DEF JobOK, Typed, Only
  <1>2. /\ job' \in [Procs -> Job] /\ job'[p] = j
        /\ \A q \in Procs : q # p => job'[q] = job[q]
    BY <1>1
  <1>3. \A q \in Procs : JobOK(job[q])'
    BY <1>2 DEF Typed
  <1>4. UNCHANGED <<dir, link, unlinked, calls, breaks>>
    BY DEF Only
  <1> QED
    BY <1>2, <1>3, <1>4 DEF Typed

LEMMA Marked ==
    ASSUME NEW j, JobOK(j)
    PROVE  /\ JobOK([j EXCEPT !.disturbed = TRUE])
           /\ JobOK([j EXCEPT !.wrote = TRUE])
  BY DEF JobOK, Job

LEMMA TouchingMoves ==
    ASSUME Typed, NEW p \in Procs, NEW j, JobOK(j), Touching(p, j),
           dir' \in [Places -> [Files -> Contents]], link' \subseteq Targets \X Skills,
           \A at \in link' : dir'[at] = Empty
    PROVE  /\ Typed' /\ job'[p] = [j EXCEPT !.wrote = TRUE]
           /\ \A q \in Procs : q # p => job'[q] = [job[q] EXCEPT !.disturbed = TRUE]
           /\ breaks' = breaks
  <1>1. /\ job'[p] = [j EXCEPT !.wrote = TRUE] /\ DOMAIN job' = Procs
        /\ \A q \in Procs : q # p => job'[q] = [job[q] EXCEPT !.disturbed = TRUE]
        /\ UNCHANGED <<calls, breaks>>
        /\ job' = [q \in Procs |-> job'[q]]
    BY DEF Touching
  <1>2. \A q \in Procs : JobOK(job'[q])
    <2>1. ASSUME NEW q \in Procs, q # p
          PROVE  JobOK(job'[q])
      <3>1. JobOK(job[q])
        BY DEF Typed
      <3>2. JobOK([job[q] EXCEPT !.disturbed = TRUE])
        BY <3>1, Marked
      <3> QED
        BY <1>1, <2>1, <3>2
    <2>2. JobOK(job'[p])
      <3>1. JobOK([j EXCEPT !.wrote = TRUE])
        BY Marked
      <3> QED
        BY <1>1, <3>1
    <2> QED
      BY <2>1, <2>2
  <1>3. job' \in [Procs -> Job]
    <2>1. \A q \in Procs : job'[q] \in Job
      BY <1>2 DEF JobOK
    <2> QED
      BY <1>1, <2>1
  <1> QED
    BY <1>1, <1>2, <1>3 DEF Typed

LEMMA FinishOK ==
    ASSUME NEW j, JobOK(j), NEW r \in Results
    PROVE  JobOK(Finish(j, r))
  BY DEF Finish, JobOK, Job, Labels

-----------------------------------------------------------------------------
(* The steps that leave the disk alone.                                    *)

Fresh(r) == [Idle EXCEPT !.req = r, !.left = TargetsOf(r.tools),
                         !.before = [t \in Targets |-> Listed(t)]]
NodesOf(r, k) == IF r.mode = "wrap" THEN <<k>> ELSE Plan[k]
Previewed(r, k) == [Fresh(r) EXCEPT !.pc = "preview", !.scan = Elements(Fresh(r).left),
                                    !.nodes = NodesOf(r, k)]
Begins(r, j) ==
    \/ r.op # "get" /\ j = [Fresh(r) EXCEPT !.pc = r.op]
    \/ r.op = "get" /\ \E k \in Selection(r) \cap Catalogue : j = Previewed(r, k)
    \/ j = Finish(Fresh(r), "failed")

LEMMA FreshIs ==
    ASSUME NEW r \in AllRequests
    PROVE  /\ Fresh(r) \in Job /\ JobOK(Fresh(r)) /\ Fresh(r).pc = "idle" /\ Fresh(r).req = r
           /\ Fresh(r).left = TargetsOf(r.tools) /\ Fresh(r).nodes = <<>>
           /\ Fresh(r).result = "none" /\ ~Fresh(r).wrote /\ ~Fresh(r).disturbed
           /\ Fresh(r).before = [t \in Targets |-> Listed(t)]
           /\ Fresh(r).compare = {} /\ Fresh(r).pending = {} /\ Fresh(r).confirmed = {}
           /\ Fresh(r).left # <<>>
  <1> DEFINE L == TargetsOf(r.tools)
             B == [t \in Targets |-> Listed(t)]
  <1>1. L \in Seq(Targets) /\ L # <<>>
    BY RequestIs, TargetsOfFacts
  <1>2. B \in [Targets -> SUBSET Skills]
    BY ListedAre
  <1>3. Idle \in Job
    BY IdleIsJob DEF JobOK
  <1> HIDE DEF L, B
  <1> DEFINE f == [Idle EXCEPT !.req = r, !.left = L, !.before = B]
  <1>4. f \in Job /\ f.req = r /\ f.left = L /\ f.before = B
    BY <1>1, <1>2, <1>3 DEF Job
  <1>5. /\ f.pc = "idle" /\ f.nodes = <<>> /\ f.result = "none" /\ ~f.wrote /\ ~f.disturbed
        /\ f.compare = {} /\ f.pending = {} /\ f.confirmed = {}
    BY <1>3 DEF Idle
  <1>6. f = Fresh(r)
    BY DEF Fresh, L, B
  <1>7. JobOK(f)
    BY <1>4, <1>5 DEF JobOK
  <1> QED
    BY <1>1, <1>4, <1>5, <1>6, <1>7 DEF L, B

LEMMA NodesOfAre ==
    ASSUME NEW r, NEW k \in Catalogue
    PROVE  /\ NodesOf(r, k) \in Seq(Keys) /\ NodesOf(r, k) # <<>> /\ NodesOf(r, k)[1] = k
           /\ Elements(NodesOf(r, k)) \subseteq Catalogue
  <1>1. k \in Keys /\ <<k>> \in Seq(Keys) /\ <<k>> # <<>> /\ <<k>>[1] = k
        /\ Elements(<<k>>) = {k}
    BY PlanIs DEF Elements
  <1> QED
    BY <1>1, PlanIs DEF NodesOf

LEMMA PreviewedIs ==
    ASSUME NEW r \in AllRequests, NEW k \in Catalogue, r.op = "get"
    PROVE  LET j == Previewed(r, k) IN
           /\ JobOK(j) /\ j.pc = "preview" /\ j.req = r /\ j.nodes = NodesOf(r, k)
           /\ j.left = TargetsOf(r.tools) /\ j.scan = Elements(j.left)
           /\ j.result = "none" /\ ~j.wrote /\ ~j.disturbed
           /\ j.before = [t \in Targets |-> Listed(t)]
           /\ j.compare = {} /\ j.pending = {} /\ j.confirmed = {}
  <1> DEFINE f == Fresh(r)  S == Elements(f.left)  N == NodesOf(r, k)
  <1>1. /\ f \in Job /\ f.req = r /\ f.left # <<>> /\ f.result = "none"
        /\ f.left = TargetsOf(r.tools) /\ ~f.wrote /\ ~f.disturbed
        /\ f.before = [t \in Targets |-> Listed(t)]
        /\ f.compare = {} /\ f.pending = {} /\ f.confirmed = {}
    BY FreshIs
  <1>2. S \in SUBSET Targets
    BY <1>1, ElementsIn DEF Job
  <1>3. N \in Seq(Keys) /\ N # <<>>
    BY NodesOfAre
  <1>4. Previewed(r, k) = [f EXCEPT !.pc = "preview", !.scan = S, !.nodes = N]
    BY DEF Previewed
  <1> HIDE DEF f, S, N
  <1> DEFINE j == [f EXCEPT !.pc = "preview", !.scan = S, !.nodes = N]
  <1>5. /\ j \in Job /\ j.pc = "preview" /\ j.scan = S /\ j.nodes = N /\ j.req = r
        /\ j.left = f.left /\ j.result = "none" /\ ~j.wrote /\ ~j.disturbed
        /\ j.before = f.before /\ j.compare = {} /\ j.pending = {} /\ j.confirmed = {}
    BY <1>1, <1>2, <1>3 DEF Job, Labels
  <1>6. JobOK(j)
    BY <1>1, <1>3, <1>5 DEF JobOK
  <1> HIDE DEF j
  <1>7. j = Previewed(r, k)
    BY <1>4 DEF j
  <1> QED
    BY <1>1, <1>5, <1>6, <1>7 DEF S, N

LEMMA StartedIs ==
    ASSUME NEW r \in AllRequests, r.op # "get"
    PROVE  LET j == [Fresh(r) EXCEPT !.pc = r.op] IN
           /\ JobOK(j) /\ j.pc = r.op /\ j.req = r /\ j.nodes = <<>>
           /\ j.left = TargetsOf(r.tools) /\ j.result = "none" /\ ~j.wrote /\ ~j.disturbed
           /\ j.before = [t \in Targets |-> Listed(t)]
           /\ j.compare = {} /\ j.pending = {} /\ j.confirmed = {}
  <1> DEFINE f == Fresh(r)  j == [f EXCEPT !.pc = r.op]
  <1>1. /\ f \in Job /\ f.req = r /\ f.left # <<>> /\ f.result = "none"
        /\ f.left = TargetsOf(r.tools) /\ ~f.wrote /\ ~f.disturbed /\ f.nodes = <<>>
        /\ f.before = [t \in Targets |-> Listed(t)]
        /\ f.compare = {} /\ f.pending = {} /\ f.confirmed = {}
    BY FreshIs
  <1>2. r.op \in {"deps", "remove"}
    BY RequestIs
  <1> HIDE DEF f
  <1>3. /\ j \in Job /\ j.pc = r.op /\ j.req = r /\ j.left = f.left /\ j.result = "none"
        /\ ~j.wrote /\ ~j.disturbed /\ j.nodes = <<>> /\ j.before = f.before
        /\ j.compare = {} /\ j.pending = {} /\ j.confirmed = {}
    BY <1>1, <1>2 DEF Job, Labels
  <1>4. JobOK(j)
    BY <1>1, <1>2, <1>3 DEF JobOK
  <1> QED
    BY <1>1, <1>3, <1>4 DEF f

\* Nothing but the command of p changes.
Alone(p) == /\ \A q \in Procs : q # p => job'[q] = job[q]
            /\ UNCHANGED <<dir, link, unlinked, breaks>>

LEMMA BeginMoves ==
    ASSUME Typed, NEW p \in Procs, NEW r \in Requests[p], Begin(p, r)
    PROVE  /\ Typed' /\ Alone(p) /\ job[p].pc = "idle"
           /\ r \in AllRequests /\ Begins(r, job'[p]) /\ JobOK(job'[p])
  <1>1. r \in AllRequests
    BY DEF AllRequests
  <1>2. \E j : job' = [job EXCEPT ![p] = j] /\ Begins(r, j)
    BY DEF Begin, Begins, Fresh, Previewed, NodesOf
  <1>3. PICK j : job' = [job EXCEPT ![p] = j] /\ Begins(r, j)
    BY <1>2
  <1>4. JobOK(j)
    <2>1. JobOK(Finish(Fresh(r), "failed"))
      BY <1>1, FreshIs, FinishOK DEF Results
    <2>2. r.op # "get" => JobOK([Fresh(r) EXCEPT !.pc = r.op])
      BY <1>1, StartedIs
    <2>3. r.op = "get" => \A k \in Catalogue : JobOK(Previewed(r, k))
      BY <1>1, PreviewedIs
    <2> QED
      BY <1>3, <2>1, <2>2, <2>3 DEF Begins
  <1>5. /\ job'[p] = j /\ \A q \in Procs : q # p => job'[q] = job[q]
        /\ job' \in [Procs -> Job] /\ DOMAIN job' = Procs
    BY <1>3, <1>4 DEF Typed, JobOK
  <1>6. UNCHANGED <<dir, link, unlinked, breaks>> /\ calls' = calls + 1 /\ job[p].pc = "idle"
    BY DEF Begin
  <1>7. Typed'
    <2>1. \A q \in Procs : JobOK(job'[q])
      BY <1>4, <1>5 DEF Typed
    <2> QED
      BY <1>5, <1>6, <2>1 DEF Typed
  <1> QED
    BY <1>1, <1>3, <1>4, <1>5, <1>6, <1>7 DEF Alone

LEMMA OnlyAlone ==
    ASSUME Typed, NEW p \in Procs, NEW j, JobOK(j), Only(p, j)
    PROVE  Typed' /\ Alone(p) /\ job'[p] = j
  BY OnlyMoves DEF Alone

LEMMA FailsAlone ==
    ASSUME Typed, NEW p \in Procs, NEW r \in Results, Only(p, Finish(job[p], r))
    PROVE  Typed' /\ Alone(p) /\ job'[p] = Finish(job[p], r)
  <1>1. JobOK(job[p])
    BY DEF Typed
  <1>2. PICK j : j = Finish(job[p], r)
    OBVIOUS
  <1>3. JobOK(j)
    BY <1>1, <1>2, FinishOK
  <1> QED
    BY <1>2, <1>3, OnlyAlone

LEMMA Loaded ==
    ASSUME NEW j, JobOK(j), j.pc = "deps", NEW d \in Catalogue
    PROVE  JobOK([j EXCEPT !.pc = "preview", !.scan = {Head(j.left)}, !.nodes = Plan[d]])
  <1>1. Head(j.left) \in Targets
    BY ElementsIn DEF JobOK, Job
  <1>2. Plan[d] \in Seq(Keys) /\ Plan[d] # <<>>
    BY PlanIs
  <1> DEFINE n == Plan[d]  S == {Head(j.left)}
  <1>3. n \in Seq(Keys) /\ n # <<>> /\ S \in SUBSET Targets
    BY <1>1, <1>2
  <1> HIDE DEF n, S
  <1>4. JobOK([j EXCEPT !.pc = "preview", !.scan = S, !.nodes = n])
    BY <1>3 DEF JobOK, Job, Labels
  <1> QED
    BY <1>4 DEF n, S

LEMMA LoadRootMoves ==
    ASSUME Typed, NEW p \in Procs, NEW d \in Keys, LoadRoot(p, d)
    PROVE  /\ Typed' /\ Alone(p) /\ job[p].pc = "deps"
           /\ \/ /\ d \in Catalogue
                 /\ \E root \in Catalogue : d \in DependencyTargets(job[p].req, root)
                 /\ job'[p] = [job[p] EXCEPT !.pc = "preview", !.scan = {Head(job[p].left)},
                                             !.nodes = Plan[d]]
              \/ job'[p] = Finish(job[p], "failed")
  <1> DEFINE j == job[p]
             new == [j EXCEPT !.pc = "preview", !.scan = {Head(j.left)}, !.nodes = Plan[d]]
  <1>1. JobOK(j) /\ j.pc = "deps"
    BY DEF Typed, LoadRoot
  <1>2. \/ (\E root \in Catalogue : d \in DependencyTargets(j.req, root)) /\ Only(p, new)
        \/ Only(p, Finish(j, "failed"))
    BY DEF LoadRoot
  <1>3. CASE Only(p, Finish(j, "failed"))
    BY <1>1, <1>3, FailsAlone DEF Results
  <1>4. CASE (\E root \in Catalogue : d \in DependencyTargets(j.req, root)) /\ Only(p, new)
    <2>1. d \in Catalogue
      BY <1>4, DependencyTargetsAreIn, PlanIs
    <2>2. JobOK(new)
      BY <1>1, <2>1, Loaded
    <2>3. Typed' /\ Alone(p) /\ job'[p] = new
      BY <1>4, <2>2, OnlyAlone
    <2> QED
      BY <1>1, <1>4, <2>1, <2>3
  <1> QED
    BY <1>2, <1>3, <1>4

LEMMA ScanMoves ==
    ASSUME Typed, NEW p \in Procs, NEW t \in Targets, Scan(p, t)
    PROVE  /\ Typed' /\ Alone(p) /\ job[p].pc = "preview" /\ t \in job[p].scan
           /\ \/ job'[p] = [job[p] EXCEPT !.scan = job[p].scan \ {t},
                                          !.compare = job[p].compare \cup {t},
                                          !.seen[t] = Listed(t)]
              \/ job'[p] = Finish(job[p], "failed")
  <1> DEFINE j == job[p]
             new == [j EXCEPT !.scan = j.scan \ {t}, !.compare = j.compare \cup {t},
                              !.seen[t] = Listed(t)]
  <1>1. JobOK(j) /\ j.pc = "preview" /\ t \in j.scan
    BY DEF Typed, Scan
  <1>2. Only(p, new) \/ Only(p, Finish(j, "failed"))
    <2>1. j \in Job
      BY <1>1 DEF JobOK
    <2> QED
      BY <2>1 DEF Scan, Job
  <1>3. JobOK(new)
    <2> DEFINE S == Listed(t)
    <2>1. S \in SUBSET Skills
      BY ListedAre
    <2> HIDE DEF S, j
    <2>2. JobOK([j EXCEPT !.scan = j.scan \ {t}, !.compare = j.compare \cup {t},
                          !.seen[t] = S])
      BY <1>1, <2>1 DEF JobOK, Job
    <2> QED
      BY <2>2 DEF S
  <1>4. Only(p, new) => Typed' /\ Alone(p) /\ job'[p] = new
    BY <1>3, OnlyAlone
  <1> QED
    BY <1>1, <1>2, <1>4, FailsAlone DEF Results

Compared(j, t) ==
    [j EXCEPT !.compare = j.compare \ {t},
              !.pending = IF \E k \in Elements(j.nodes) : Overwrites(j, t, k)
                          THEN j.pending \cup {t} ELSE j.pending,
              !.pc = IF j.scan = {} /\ j.compare = {t} THEN "confirm" ELSE "preview"]

LEMMA CompareMoves ==
    ASSUME Typed, NEW p \in Procs, NEW t \in Targets, Compare(p, t)
    PROVE  /\ Typed' /\ Alone(p) /\ job[p].pc = "preview" /\ t \in job[p].compare
           /\ job'[p] = Compared(job[p], t)
  <1> DEFINE j == job[p]
  <1>1. JobOK(j) /\ j.pc = "preview" /\ t \in j.compare
    BY DEF Typed, Compare
  <1>2. Only(p, Compared(j, t))
    <2>1. j \in Job
      BY <1>1 DEF JobOK
    <2> QED
      BY <1>1, <2>1 DEF Compare, Compared, Job
  <1>3. JobOK(Compared(j, t))
    <2> DEFINE P == IF \E k \in Elements(j.nodes) : Overwrites(j, t, k)
                    THEN j.pending \cup {t} ELSE j.pending
               l == IF j.scan = {} /\ j.compare = {t} THEN "confirm" ELSE "preview"
    <2>1. P \in SUBSET Targets /\ l \in {"confirm", "preview"}
      BY <1>1 DEF JobOK, Job
    <2> HIDE DEF P, l, j
    <2>2. JobOK([j EXCEPT !.compare = j.compare \ {t}, !.pending = P, !.pc = l])
      BY <1>1, <2>1 DEF JobOK, Job, Labels
    <2> QED
      BY <2>2 DEF P, l, Compared
  <1> QED
    BY <1>1, <1>2, <1>3, OnlyAlone

LEMMA ToWriteIs ==
    ASSUME NEW j \in Job, j.nodes # <<>>
    PROVE  /\ ToWrite(j) \in Job
           /\ ToWrite(j) = [j EXCEPT !.todo = j.nodes, !.files = FilesFor(j.req, j.nodes[1])]
  <1> DEFINE F == FilesFor(j.req, j.nodes[1])
  <1>1. F \in SUBSET Files
    BY FilesForAre
  <1> HIDE DEF F
  <1>2. [j EXCEPT !.todo = j.nodes, !.files = F] \in Job
    BY <1>1 DEF Job
  <1> QED
    BY <1>2 DEF ToWrite, F

Installing(j) == ToWrite([j EXCEPT !.pc = "install", !.confirmed = j.pending])

LEMMA InstallingIs ==
    ASSUME NEW j, JobOK(j), j.pc = "confirm"
    PROVE  LET n == Installing(j) IN
           /\ JobOK(n) /\ n.pc = "install" /\ n.confirmed = j.pending /\ n.todo = j.nodes
           /\ n.files = FilesFor(j.req, j.nodes[1]) /\ n.nodes = j.nodes /\ n.req = j.req
           /\ n.left = j.left /\ n.before = j.before /\ n.disturbed = j.disturbed
           /\ n.wrote = j.wrote /\ n.result = j.result
  <1> DEFINE i == [j EXCEPT !.pc = "install", !.confirmed = j.pending]
  <1>1. /\ i \in Job /\ i.pc = "install" /\ i.confirmed = j.pending /\ i.nodes = j.nodes
        /\ i.req = j.req /\ i.left = j.left /\ i.before = j.before
        /\ i.disturbed = j.disturbed /\ i.wrote = j.wrote /\ i.result = j.result
        /\ i.nodes # <<>> /\ j.req \in AllRequests /\ j.left # <<>>
        /\ j.req.op \in {"get", "deps"} /\ j.result = "none"
    BY DEF JobOK, Job, Labels
  <1> HIDE DEF i
  <1> DEFINE F == FilesFor(i.req, i.nodes[1])
             n == [i EXCEPT !.todo = i.nodes, !.files = F]
  <1>2. ToWrite(i) \in Job /\ ToWrite(i) = n
    BY <1>1, ToWriteIs
  <1> HIDE DEF F
  <1>3. /\ n.pc = "install" /\ n.confirmed = j.pending /\ n.todo = j.nodes /\ n.files = F
        /\ n.nodes = j.nodes /\ n.req = j.req /\ n.left = j.left /\ n.before = j.before
        /\ n.disturbed = j.disturbed /\ n.wrote = j.wrote /\ n.result = j.result
    BY <1>1 DEF Job
  <1> HIDE DEF n
  <1>4. JobOK(n)
    BY <1>1, <1>2, <1>3 DEF JobOK
  <1>5. Installing(j) = n /\ F = FilesFor(j.req, j.nodes[1])
    BY <1>1, <1>2 DEF Installing, i, F
  <1> QED
    BY <1>3, <1>4, <1>5

LEMMA ConfirmMoves ==
    ASSUME Typed, NEW p \in Procs, Confirm(p)
    PROVE  /\ Typed' /\ Alone(p) /\ job[p].pc = "confirm"
           /\ \/ job'[p] = Installing(job[p]) /\ (job[p].pending = {} \/ job[p].req.tty)
              \/ job'[p] = Finish(job[p], "refused")
  <1> DEFINE j == job[p]
  <1>1. JobOK(j) /\ j.pc = "confirm"
    BY DEF Typed, Confirm
  <1>2. \/ Only(p, Installing(j)) /\ (j.pending = {} \/ j.req.tty)
        \/ Only(p, Finish(j, "refused"))
    BY DEF Confirm, Installing, Asked
  <1>3. JobOK(Installing(j))
    BY <1>1, InstallingIs
  <1>4. Only(p, Installing(j)) => Typed' /\ Alone(p) /\ job'[p] = Installing(j)
    BY <1>3, OnlyAlone
  <1> QED
    BY <1>1, <1>2, <1>4, FailsAlone DEF Results

\* The next skill of the target, the next target, or the end.
NextSkill(j) == [j EXCEPT !.todo = Tail(j.todo), !.files = FilesFor(j.req, Head(Tail(j.todo)))]
NextRoot(j) == ToWrite([j EXCEPT !.left = Tail(j.left)])
Ended(j) == Finish([j EXCEPT !.todo = <<>>, !.left = <<>>], "ok")

LEMMA NextSkillIs ==
    ASSUME NEW j, JobOK(j), j.pc = "install", Tail(j.todo) # <<>>
    PROVE  LET n == NextSkill(j) IN
           /\ JobOK(n) /\ n.pc = "install" /\ n.todo = Tail(j.todo)
           /\ n.files = FilesFor(j.req, Head(Tail(j.todo)))
           /\ n.nodes = j.nodes /\ n.req = j.req /\ n.left = j.left /\ n.before = j.before
           /\ n.confirmed = j.confirmed /\ n.disturbed = j.disturbed /\ n.wrote = j.wrote
           /\ n.result = j.result
  <1> DEFINE F == FilesFor(j.req, Head(Tail(j.todo)))
             T == Tail(j.todo)
  <1>1. F \in SUBSET Files /\ T \in Seq(Keys) /\ T # <<>>
    BY FilesForAre, ElementsIn DEF JobOK, Job
  <1>2. NextSkill(j) = [j EXCEPT !.todo = T, !.files = F]
    BY DEF NextSkill
  <1> HIDE DEF F, T
  <1> DEFINE n == [j EXCEPT !.todo = T, !.files = F]
  <1>3. /\ JobOK(n) /\ n.pc = "install" /\ n.todo = T /\ n.files = F
        /\ n.nodes = j.nodes /\ n.req = j.req /\ n.left = j.left /\ n.before = j.before
        /\ n.confirmed = j.confirmed /\ n.disturbed = j.disturbed /\ n.wrote = j.wrote
        /\ n.result = j.result
    BY <1>1 DEF JobOK, Job
  <1> HIDE DEF n
  <1>4. NextSkill(j) = n
    BY <1>2 DEF n
  <1> QED
    BY <1>3, <1>4 DEF F, T

LEMMA NextRootIs ==
    ASSUME NEW j, JobOK(j), j.pc = "install", Len(j.left) > 1
    PROVE  LET n == NextRoot(j) IN
           /\ JobOK(n) /\ n.pc = "install" /\ n.todo = j.nodes
           /\ n.files = FilesFor(j.req, j.nodes[1])
           /\ n.nodes = j.nodes /\ n.req = j.req /\ n.left = Tail(j.left)
           /\ n.before = j.before /\ n.confirmed = j.confirmed
           /\ n.disturbed = j.disturbed /\ n.wrote = j.wrote /\ n.result = j.result
  <1> DEFINE T == Tail(j.left)
  <1>1. T \in Seq(Targets) /\ T # <<>>
    BY ElementsIn DEF JobOK, Job
  <1> HIDE DEF T
  <1> DEFINE i == [j EXCEPT !.left = T]
  <1>2. /\ i \in Job /\ i.pc = "install" /\ i.nodes = j.nodes /\ i.nodes # <<>>
        /\ i.req = j.req /\ i.left = T /\ i.before = j.before /\ i.confirmed = j.confirmed
        /\ i.disturbed = j.disturbed /\ i.wrote = j.wrote /\ i.result = j.result
        /\ j.req \in AllRequests /\ j.req.op \in {"get", "deps"} /\ j.result = "none"
    BY <1>1 DEF JobOK, Job
  <1>3. NextRoot(j) = ToWrite(i)
    BY DEF NextRoot, T
  <1> HIDE DEF i
  <1> DEFINE F == FilesFor(i.req, i.nodes[1])
             n == [i EXCEPT !.todo = i.nodes, !.files = F]
  <1>4. ToWrite(i) \in Job /\ ToWrite(i) = n
    BY <1>2, ToWriteIs
  <1> HIDE DEF F
  <1>5. /\ n.pc = "install" /\ n.todo = j.nodes /\ n.files = F
        /\ n.nodes = j.nodes /\ n.req = j.req /\ n.left = T /\ n.before = j.before
        /\ n.confirmed = j.confirmed
        /\ n.disturbed = j.disturbed /\ n.wrote = j.wrote /\ n.result = j.result
    BY <1>2 DEF Job
  <1> HIDE DEF n
  <1>6. JobOK(n)
    BY <1>1, <1>2, <1>4, <1>5 DEF JobOK
  <1> QED
    BY <1>2, <1>3, <1>4, <1>5, <1>6 DEF F, T

LEMMA EndedIs ==
    ASSUME NEW j, JobOK(j)
    PROVE  LET n == Ended(j) IN
           /\ JobOK(n) /\ n.pc = "idle" /\ n.result = "ok" /\ n.nodes = j.nodes
           /\ n.req = j.req /\ n.disturbed = j.disturbed /\ n.wrote = j.wrote
  <1>1. <<>> \in Seq(Keys) /\ <<>> \in Seq(Targets)
    OBVIOUS
  <1> DEFINE i == [j EXCEPT !.todo = <<>>, !.left = <<>>]
  <1>2. /\ i \in Job /\ i.nodes = j.nodes /\ i.req = j.req /\ i.disturbed = j.disturbed
        /\ i.wrote = j.wrote
    BY <1>1 DEF JobOK, Job
  <1>3. Ended(j) = Finish(i, "ok")
    BY DEF Ended
  <1> HIDE DEF i
  <1> DEFINE n == Finish(i, "ok")
  <1>4. /\ n \in Job /\ n.pc = "idle" /\ n.result = "ok" /\ n.nodes = j.nodes
        /\ n.req = j.req /\ n.disturbed = j.disturbed /\ n.wrote = j.wrote
    BY <1>2 DEF Finish, Job, Labels, Results
  <1> HIDE DEF n
  <1>5. JobOK(n)
    BY <1>4 DEF JobOK
  <1> QED
    BY <1>3, <1>4, <1>5 DEF n

Advances(j, n) ==
    \/ Tail(j.todo) # <<>> /\ n = NextSkill(j)
    \/ Tail(j.todo) = <<>> /\ Len(j.left) > 1 /\ n = NextRoot(j)
    \/ Tail(j.todo) = <<>> /\ ~(Len(j.left) > 1) /\ n = Ended(j)

LEMMA AdvanceIs ==
    ASSUME NEW j, JobOK(j), j.pc = "install"
    PROVE  JobOK(Advance(j)) /\ Advances(j, Advance(j))
  <1>1. j \in Job
    BY DEF JobOK
  <1>2. CASE Tail(j.todo) # <<>>
    <2>1. Advance(j) = NextSkill(j)
      BY <1>2 DEF Advance, NextSkill, RestOf
    <2> QED
      BY <1>2, <2>1, NextSkillIs DEF Advances
  <1>3. CASE Tail(j.todo) = <<>> /\ Len(j.left) > 1
    <2>1. Advance(j) = NextRoot(j)
      <3>1. [j EXCEPT !.left = Tail(@)] = [j EXCEPT !.left = Tail(j.left)]
        BY <1>1 DEF Job
      <3> QED
        BY <1>3, <3>1 DEF Advance, NextRoot, RestOf
    <2> QED
      BY <1>3, <2>1, NextRootIs DEF Advances
  <1>4. CASE Tail(j.todo) = <<>> /\ ~(Len(j.left) > 1)
    <2>1. Advance(j) = Ended(j)
      BY <1>4 DEF Advance, Ended, RestOf
    <2> QED
      BY <1>4, <2>1, EndedIs DEF Advances
  <1> QED
    BY <1>2, <1>3, <1>4

LEMMA SkillWrittenMoves ==
    ASSUME Typed, NEW p \in Procs, SkillWritten(p)
    PROVE  /\ Typed' /\ Alone(p) /\ Ready(p, "copy") /\ job[p].pc = "install"
           /\ job[p].files = {} /\ Advances(job[p], job'[p])
  <1>1. JobOK(job[p]) /\ job[p].pc = "install" /\ job[p].files = {} /\ Ready(p, "copy")
        /\ Only(p, Advance(job[p]))
    BY DEF Typed, SkillWritten, Ready
  <1>2. JobOK(Advance(job[p])) /\ Advances(job[p], Advance(job[p]))
    BY <1>1, AdvanceIs
  <1> QED
    BY <1>1, <1>2, OnlyAlone

\* The last target of a removal, or the next.
RemoveNext(j) == [j EXCEPT !.pc = "remove", !.left = Tail(j.left)]
RemoveEnd(j) == Finish([j EXCEPT !.left = <<>>], "ok")

LEMMA NextTargetIs ==
    ASSUME NEW j, JobOK(j), j.pc \in {"remove", "rm"}
    PROVE  /\ JobOK(NextTarget(j))
           /\ \/ Len(j.left) > 1 /\ NextTarget(j) = RemoveNext(j)
              \/ NextTarget(j) = RemoveEnd(j)
  <1>1. j \in Job
    BY DEF JobOK
  <1>2. Len(j.left) > 1 => NextTarget(j) = RemoveNext(j)
    BY <1>1 DEF NextTarget, RemoveNext, Job
  <1>3. ~(Len(j.left) > 1) => NextTarget(j) = RemoveEnd(j)
    BY DEF NextTarget, RemoveEnd
  <1>4. Len(j.left) > 1 => JobOK(RemoveNext(j))
    <2> DEFINE T == Tail(j.left)
    <2>1. Len(j.left) > 1 => T \in Seq(Targets) /\ T # <<>>
      BY <1>1, ElementsIn DEF JobOK, Job
    <2> HIDE DEF T
    <2>2. Len(j.left) > 1 => JobOK([j EXCEPT !.pc = "remove", !.left = T])
      BY <2>1 DEF JobOK, Job, Labels
    <2> QED
      BY <2>2 DEF T, RemoveNext
  <1>5. JobOK(RemoveEnd(j))
    <2>1. <<>> \in Seq(Targets)
      OBVIOUS
    <2> DEFINE i == [j EXCEPT !.left = <<>>]
    <2>2. i \in Job
      BY <1>1, <2>1 DEF Job
    <2> HIDE DEF i
    <2>3. Finish(i, "ok") \in Job /\ Finish(i, "ok").pc = "idle"
      BY <2>2 DEF Finish, Job, Labels, Results
    <2> QED
      BY <2>3 DEF JobOK, RemoveEnd, i
  <1> QED
    BY <1>2, <1>3, <1>4, <1>5

LEMMA HeadIsTarget ==
    ASSUME NEW j, JobOK(j), j.pc # "idle"
    PROVE  Head(j.left) \in Targets /\ Head(j.left) \in Elements(j.left)
  <1>1. j.left \in Seq(Targets) /\ j.left # <<>>
    BY DEF JobOK, Job
  <1> QED
    BY <1>1, ElementsIn

LEMMA HeadIsKey ==
    ASSUME NEW j, JobOK(j), j.pc \in {"install", "fill"}
    PROVE  Head(j.todo) \in Keys /\ Head(j.todo) \in Elements(j.todo)
  <1>1. j.todo \in Seq(Keys) /\ j.todo # <<>>
    BY DEF JobOK, Job
  <1> QED
    BY <1>1, ElementsIn

LEMMA SelectMoves ==
    ASSUME Typed, NEW p \in Procs, Select(p)
    PROVE  /\ Typed' /\ Alone(p) /\ job[p].pc = "remove"
           /\ \/ job'[p] = Finish(job[p], "failed")
              \/ Len(job[p].left) > 1 /\ job'[p] = RemoveNext(job[p])
              \/ job'[p] = RemoveEnd(job[p])
              \/ LET t == Head(job[p].left) IN
                 /\ t \in Targets
                 /\ \E S \in LocalSelections(job[p].req.ref, Installed(t), job[p].req.tty) :
                      job'[p] = [job[p] EXCEPT !.pc = "plan", !.selected = SkillsOf(S),
                                               !.seen[t] = Listed(t)]
  <1> DEFINE j == job[p]  t == Head(j.left)
  <1>1. JobOK(j) /\ j.pc = "remove" /\ t \in Targets
    <2>1. JobOK(j) /\ j.pc = "remove"
      BY DEF Typed, Select
    <2> QED
      BY <2>1, HeadIsTarget
  <1>2. \/ Only(p, Finish(j, "failed"))
        \/ Only(p, NextTarget(j))
        \/ \E S \in LocalSelections(j.req.ref, Installed(t), j.req.tty) :
             Only(p, [j EXCEPT !.pc = "plan", !.selected = SkillsOf(S), !.seen[t] = Listed(t)])
    BY DEF Select
  <1>3. CASE Only(p, Finish(j, "failed"))
    BY <1>1, <1>3, FailsAlone DEF Results
  <1>4. CASE Only(p, NextTarget(j))
    BY <1>1, <1>4, NextTargetIs, OnlyAlone
  <1>5. ASSUME NEW S \in LocalSelections(j.req.ref, Installed(t), j.req.tty),
               Only(p, [j EXCEPT !.pc = "plan", !.selected = SkillsOf(S),
                                 !.seen[t] = Listed(t)])
        PROVE  /\ Typed' /\ Alone(p)
               /\ job'[p] = [j EXCEPT !.pc = "plan", !.selected = SkillsOf(S),
                                      !.seen[t] = Listed(t)]
    <2>1. SkillsOf(S) \in SUBSET Skills /\ Listed(t) \in SUBSET Skills
      <3>1. S \subseteq Installed(t)
        BY LocalSelectionsAreIn
      <3>2. ASSUME NEW k \in Installed(t)
            PROVE  k[1] \in Listed(t)
        <4>1. PICK s \in Listed(t) : k = <<s, VersionAt(<<t, s>>)>>
          BY DEF Installed
        <4> QED
          BY <4>1
      <3> QED
        BY <3>1, <3>2, ListedAre DEF SkillsOf
    <2>2. JobOK([j EXCEPT !.pc = "plan", !.selected = SkillsOf(S), !.seen[t] = Listed(t)])
      <3> DEFINE X == SkillsOf(S)  Y == Listed(t)
      <3> HIDE DEF X, Y, j, t
      <3>1. JobOK([j EXCEPT !.pc = "plan", !.selected = X, !.seen[t] = Y])
        BY <1>1, <2>1 DEF JobOK, Job, Labels, X, Y
      <3> QED
        BY <3>1 DEF X, Y
    <2> QED
      BY <1>5, <2>2, OnlyAlone
  <1> QED
    BY <1>1, <1>2, <1>3, <1>4, <1>5

-----------------------------------------------------------------------------
(* The steps that change the disk.                                         *)

LEMMA PlaceIs ==
    ASSUME Typed, NEW t \in Targets, NEW s \in Skills
    PROVE  /\ Place(t, s) \in Places /\ Place(t, s) \notin link /\ <<t, s>> \in Places
           /\ Place(t, s)[2] = s
  <1>1. <<Source, s>> \notin link
    BY TargetsAssumption DEF Typed
  <1> QED
    BY <1>1 DEF Place, Places

\* One file at a place takes the content x, the others stay.
Sets(at, f, x) ==
    /\ dir' \in [Places -> [Files -> Contents]]
    /\ dir'[at][f] = x
    /\ \A g \in Files : g # f => dir'[at][g] = dir[at][g]
    /\ \A a \in Places : a # at => dir'[a] = dir[a]

LEMMA SetFile ==
    ASSUME Typed, NEW at \in Places, NEW f \in Files, NEW x \in Contents,
           dir' = [dir EXCEPT ![at][f] = x]
    PROVE  Sets(at, f, x)
  <1> DEFINE C == Contents
  <1>1. dir \in [Places -> [Files -> C]] /\ x \in C
    BY DEF Typed
  <1> HIDE DEF C
  <1> DEFINE D == [Files -> C]  new == [dir[at] EXCEPT ![f] = x]
  <1>2. dir[at] \in D
    BY <1>1
  <1>3. new \in D /\ new[f] = x /\ \A g \in Files : g # f => new[g] = dir[at][g]
    BY <1>1, <1>2
  <1>4. dir' = [dir EXCEPT ![at] = new]
    BY <1>1
  <1>5. dir \in [Places -> D]
    BY <1>1
  <1> HIDE DEF D, new
  <1>6. dir' \in [Places -> D] /\ dir'[at] = new /\ \A a \in Places : a # at => dir'[a] = dir[a]
    BY <1>3, <1>4, <1>5
  <1> QED
    BY <1>3, <1>6 DEF Sets, C, D

\* What p's command goes on as when it changed the disk, and the others too.
Wrote(j) == [j EXCEPT !.wrote = TRUE]
Told(p) == /\ \A q \in Procs : q # p => job'[q] = [job[q] EXCEPT !.disturbed = TRUE]
           /\ breaks' = breaks

Filling(j, f) == [j EXCEPT !.pc = "fill", !.file = f]
Skipping(j, f) == [j EXCEPT !.files = j.files \ {f}]
Filled(j) == [j EXCEPT !.pc = "install", !.files = j.files \ {j.file}, !.file = None]

\* The place the current skill of j is written to.
Target(j) == Place(Head(j.left), Head(j.todo)[1])

LEMMA TargetIs ==
    ASSUME Typed, NEW j, JobOK(j), j.pc \in {"install", "fill"}
    PROVE  Target(j) \in Places /\ Target(j) \notin link /\ Target(j)[2] = Head(j.todo)[1]
  <1>1. Head(j.left) \in Targets /\ Head(j.todo)[1] \in Skills
    BY HeadIsTarget, HeadIsKey, KeyIs
  <1> QED
    BY <1>1, PlaceIs DEF Target

LEMMA TruncateMoves ==
    ASSUME Typed, NEW p \in Procs, NEW f \in Files, Truncate(p, f)
    PROVE  /\ Typed' /\ job[p].pc = "install" /\ Ready(p, "copy") /\ f \in NextFiles(job[p])
           /\ \/ /\ IsSame(Target(job[p]), f, Head(job[p].todo)) /\ f # "wrap"
                 /\ Alone(p) /\ job'[p] = Skipping(job[p], f)
              \/ /\ ~(IsSame(Target(job[p]), f, Head(job[p].todo)) /\ f # "wrap")
                 /\ Sets(Target(job[p]), f, Torn) /\ UNCHANGED link
                 /\ unlinked' = unlinked \ {p}
                 /\ Told(p) /\ job'[p] = Wrote(Filling(job[p], f))
  <1> DEFINE j == job[p]  at == Target(j)  k == Head(j.todo)
  <1>1. JobOK(j) /\ j.pc = "install" /\ Ready(p, "copy") /\ f \in NextFiles(j)
    BY DEF Typed, Truncate, Ready
  <1>2. at \in Places /\ at \notin link
    BY <1>1, TargetIs
  <1>3. \/ IsSame(at, f, k) /\ f # "wrap" /\ Only(p, Skipping(j, f))
        \/ /\ ~(IsSame(at, f, k) /\ f # "wrap")
           /\ dir' = [dir EXCEPT ![at][f] = Torn] /\ Touching(p, Filling(j, f)) /\ link' = link
           /\ unlinked' = unlinked \ {p}
    <2>1. j \in Job
      BY <1>1 DEF JobOK
    <2>2. [j EXCEPT !.files = @ \ {f}] = Skipping(j, f)
      BY <2>1 DEF Job, Skipping
    <2> QED
      BY <2>2 DEF Truncate, Target, Filling
  <1>4. CASE IsSame(at, f, k) /\ f # "wrap" /\ Only(p, Skipping(j, f))
    <2>1. JobOK(Skipping(j, f))
      BY <1>1 DEF Skipping, JobOK, Job
    <2> QED
      BY <1>1, <1>4, <2>1, OnlyAlone
  <1>5. CASE /\ ~(IsSame(at, f, k) /\ f # "wrap")
             /\ dir' = [dir EXCEPT ![at][f] = Torn] /\ Touching(p, Filling(j, f)) /\ link' = link
             /\ unlinked' = unlinked \ {p}
    <2>1. JobOK(Filling(j, f))
      BY <1>1 DEF Filling, JobOK, Job, Labels
    <2>2. Sets(at, f, Torn)
      BY <1>2, <1>5, SetFile DEF Contents
    <2>3. \A a \in link' : dir'[a] = Empty
      BY <1>2, <1>5, <2>2 DEF Sets, Typed, Places
    <2>4. Typed' /\ job'[p] = Wrote(Filling(j, f)) /\ Told(p)
      <3>1. dir' \in [Places -> [Files -> Contents]] /\ link' \subseteq Targets \X Skills
        BY <1>5, <2>2 DEF Sets, Typed
      <3> QED
        BY <1>5, <2>1, <2>3, <3>1, TouchingMoves DEF Wrote, Told
    <2> QED
      BY <1>1, <1>5, <2>2, <2>4
  <1> QED
    BY <1>3, <1>4, <1>5

\* What a file holds once a version was written over what was there.
LEMMA WrittenIs ==
    ASSUME NEW now, NEW v \in Versions
    PROVE  /\ Written(now, v) \subseteq Contents \ {Torn, None}
           /\ now = Torn => Written(now, v) = {v}
  <1>1. v \in Versions \cup Mixes /\ Mix[v] \in Versions \cup Mixes
    BY DEF Mixes
  <1>2. (Versions \cup Mixes) \cap {Torn, None} = {}
    BY VersionsAssumption, MixAssumption
  <1>3. Written(now, v) \subseteq {v, Mix[v]}
    BY DEF Written
  <1> QED
    BY <1>1, <1>2, <1>3 DEF Written, Contents

LEMMA FillMoves ==
    ASSUME Typed, NEW p \in Procs, Fill(p)
    PROVE  /\ Typed' /\ job[p].pc = "fill" /\ job[p].file \in Files
           /\ LET at == Target(job[p])  f == job[p].file  v == Head(job[p].todo)[2] IN
              \/ p \in unlinked /\ dir' = dir
              \/ p \notin unlinked /\ \E x \in Written(dir[at][f], v) : x # Torn /\ Sets(at, f, x)
           /\ UNCHANGED <<link, unlinked>> /\ Told(p) /\ job'[p] = Wrote(Filled(job[p]))
  <1> DEFINE j == job[p]  at == Target(j)  f == j.file  v == Head(j.todo)[2]
  <1>1. JobOK(j) /\ j.pc = "fill" /\ f \in Files
    BY DEF Typed, Fill, JobOK
  <1>2. at \in Places /\ at \notin link /\ v \in Versions
    BY <1>1, TargetIs, HeadIsKey, KeyIs
  <1>3. /\ \/ p \in unlinked /\ dir' = dir
           \/ p \notin unlinked /\ \E x \in Written(dir[at][f], v) : dir' = [dir EXCEPT ![at][f] = x]
        /\ Touching(p, Filled(j)) /\ UNCHANGED <<link, unlinked>>
    <2>1. j \in Job
      BY <1>1 DEF JobOK
    <2>2. [j EXCEPT !.pc = "install", !.files = @ \ {j.file}, !.file = None] = Filled(j)
      BY <2>1 DEF Job, Filled
    <2> QED
      BY <2>2 DEF Fill, Target
  <1>4. JobOK(Filled(j))
    BY <1>1 DEF Filled, JobOK, Job, Labels
  <1>5. ASSUME dir' \in [Places -> [Files -> Contents]], \A a \in link' : dir'[a] = Empty
        PROVE  Typed' /\ job'[p] = Wrote(Filled(j)) /\ Told(p)
    <2>1. link' \subseteq Targets \X Skills
      BY <1>3 DEF Typed
    <2> QED
      BY <1>3, <1>4, <1>5, <2>1, TouchingMoves DEF Wrote, Told
  <1>6. CASE p \in unlinked /\ dir' = dir
    <2>1. dir' \in [Places -> [Files -> Contents]] /\ \A a \in link' : dir'[a] = Empty
      BY <1>3, <1>6 DEF Typed
    <2> QED
      BY <1>1, <1>3, <1>5, <1>6, <2>1
  <1>7. ASSUME p \notin unlinked, NEW x \in Written(dir[at][f], v), dir' = [dir EXCEPT ![at][f] = x]
        PROVE  /\ x # Torn /\ Sets(at, f, x)
               /\ dir' \in [Places -> [Files -> Contents]] /\ \A a \in link' : dir'[a] = Empty
    <2>1. x \in Contents /\ x # Torn
      BY <1>2, <1>7, WrittenIs
    <2>2. Sets(at, f, x)
      BY <1>1, <1>2, <1>7, <2>1, SetFile
    <2>3. \A a \in link' : dir'[a] = Empty
      BY <1>2, <1>3, <2>2 DEF Sets, Typed, Places
    <2> QED
      BY <2>1, <2>2, <2>3 DEF Sets
  <1> QED
    BY <1>1, <1>3, <1>5, <1>6, <1>7

LEMMA LinkMoves ==
    ASSUME Typed, NEW p \in Procs, Link(p)
    PROVE  /\ Typed' /\ job[p].pc = "install" /\ Ready(p, "slink") /\ UNCHANGED dir
           /\ LET at == <<Head(job[p].left), Head(job[p].todo)[1]>> IN
              \/ Alone(p) /\ job'[p] = Finish(job[p], "failed")
              \/ Alone(p) /\ Advances(job[p], job'[p])
              \/ /\ at \in Targets \X Skills /\ ~IsOccupied(at) /\ link' = link \cup {at}
                 /\ unlinked' = unlinked /\ Told(p) /\ \E n : Advances(job[p], n) /\ job'[p] = Wrote(n)
  <1> DEFINE j == job[p]  at == <<Head(j.left), Head(j.todo)[1]>>
  <1>1. JobOK(j) /\ j.pc = "install" /\ Ready(p, "slink")
    BY DEF Typed, Link, Ready
  <1>2. at \in Targets \X Skills
    BY <1>1, HeadIsTarget, HeadIsKey, KeyIs
  <1>3. \/ Only(p, Finish(j, "failed"))
        \/ Only(p, Advance(j))
        \/ /\ ~IsOccupied(at) /\ link' = link \cup {at} /\ Touching(p, Advance(j)) /\ dir' = dir
           /\ unlinked' = unlinked
    BY DEF Link
  <1>4. JobOK(Advance(j)) /\ Advances(j, Advance(j))
    BY <1>1, AdvanceIs
  <1>5. CASE Only(p, Finish(j, "failed"))
    BY <1>1, <1>5, FailsAlone DEF Results, Alone
  <1>6. CASE Only(p, Advance(j))
    BY <1>1, <1>4, <1>6, OnlyAlone DEF Alone
  <1>7. CASE /\ ~IsOccupied(at) /\ link' = link \cup {at} /\ Touching(p, Advance(j)) /\ dir' = dir
             /\ unlinked' = unlinked
    <2>1. /\ dir' \in [Places -> [Files -> Contents]] /\ link' \subseteq Targets \X Skills
          /\ \A a \in link' : dir'[a] = Empty
      BY <1>2, <1>7 DEF Typed, IsOccupied
    <2>2. Typed' /\ job'[p] = Wrote(Advance(j)) /\ Told(p)
      BY <1>4, <1>7, <2>1, TouchingMoves DEF Wrote, Told
    <2> QED
      BY <1>1, <1>2, <1>4, <1>7, <2>2
  <1> QED
    BY <1>3, <1>5, <1>6, <1>7

LEMMA BreaksMoves ==
    ASSUME Typed, NEW p \in Procs, Breaks(p)
    PROVE  /\ Typed' /\ job[p].pc \in {"install", "fill", "rm"} /\ breaks' # 0
           /\ UNCHANGED <<dir, link, unlinked>> /\ job'[p] = Finish(job[p], "failed")
           /\ \A q \in Procs : q # p => job'[q] = job[q]
  <1> DEFINE j == Finish(job[p], "failed")
  <1>1. JobOK(job[p])
    BY DEF Typed
  <1>2. JobOK(j) /\ j \in Job
    BY <1>1, FinishOK DEF Results, JobOK
  <1>3. /\ job' = [job EXCEPT ![p] = j] /\ job[p].pc \in {"install", "fill", "rm"}
        /\ breaks' = breaks + 1 /\ UNCHANGED <<dir, link, unlinked, calls>>
    BY DEF Breaks, Typed
  <1> HIDE DEF j
  <1>4. /\ job' \in [Procs -> Job] /\ job'[p] = j /\ DOMAIN job' = Procs
        /\ \A q \in Procs : q # p => job'[q] = job[q]
    BY <1>2, <1>3 DEF Typed
  <1>5. \A q \in Procs : JobOK(job'[q])
    BY <1>2, <1>4 DEF Typed
  <1> QED
    BY <1>3, <1>4, <1>5 DEF Typed, j

-----------------------------------------------------------------------------
(* The steps of remove.                                                    *)

View(t) == [s \in Skills |-> IF s \in Listed(t) THEN Children(t, s) ELSE {}]
Planned(j, S, V) == IF j.req.deps THEN Removable(S, V) ELSE S
Removing(j, t, V, plan) ==
    [j EXCEPT !.pc = "rm", !.view = V, !.plan = plan, !.doomed = plan, !.seen[t] = Listed(t)]

LEMMA ViewIs ==
    ASSUME NEW t
    PROVE  View(t) \in [Skills -> SUBSET Skills]
  <1>1. Listed(t) \in SUBSET Skills
    BY ListedAre
  <1>2. \A s \in Skills : Children(t, s) \in SUBSET Skills
    BY <1>1 DEF Children
  <1> QED
    BY <1>2 DEF View

LEMMA PlanRemovalMoves ==
    ASSUME Typed, NEW p \in Procs, PlanRemoval(p)
    PROVE  /\ Typed' /\ Alone(p) /\ job[p].pc = "plan"
           /\ \/ job'[p] = Finish(job[p], "failed")
              \/ LET t == Head(job[p].left)
                     S == job[p].selected \cap Listed(t)
                 IN  t \in Targets
                     /\ job'[p] = Removing(job[p], t, View(t), Planned(job[p], S, View(t)))
  <1> DEFINE j == job[p]  t == Head(j.left)  S == j.selected \cap Listed(t)
             plan == Planned(j, S, View(t))
             new == Removing(j, t, View(t), plan)
  <1>1. JobOK(j) /\ j.pc = "plan"
    BY DEF Typed, PlanRemoval
  <1>2. t \in Targets
    BY <1>1, HeadIsTarget
  <1>3. Only(p, Finish(j, "failed")) \/ Only(p, new)
    BY DEF PlanRemoval, View, Planned, Removing
  <1>4. plan \in SUBSET Skills
    <2>1. S \in SUBSET Skills
      BY ListedAre
    <2>2. Removable(S, View(t)) \in SUBSET Skills
      BY DEF Removable, Subtree
    <2> QED
      BY <2>1, <2>2 DEF Planned
  <1>5. JobOK(new)
    <2> DEFINE V == View(t)  L == Listed(t)
    <2>1. V \in [Skills -> SUBSET Skills] /\ L \in SUBSET Skills
      BY ViewIs, ListedAre
    <2> HIDE DEF V, L, plan, j, t
    <2>2. JobOK([j EXCEPT !.pc = "rm", !.view = V, !.plan = plan, !.doomed = plan,
                          !.seen[t] = L])
      BY <1>1, <1>2, <1>4, <2>1 DEF JobOK, Job, Labels
    <2> QED
      BY <2>2 DEF V, L, Removing
  <1>6. Only(p, new) => Typed' /\ Alone(p) /\ job'[p] = new
    BY <1>5, OnlyAlone
  <1> QED
    BY <1>1, <1>2, <1>3, <1>6, FailsAlone DEF Results

DoomedOne(j) == CHOOSE s \in j.doomed : TRUE

LEMMA RemoveFileMoves ==
    ASSUME Typed, NEW p \in Procs, NEW f \in Files, RemoveFile(p, f)
    PROVE  /\ Typed' /\ job[p].pc = "rm"
           /\ \E at \in Places :
                /\ Sets(at, f, None)
                /\ unlinked' = unlinked \cup {q \in Procs : HasOpen(q, at, f)}
           /\ UNCHANGED link /\ Told(p) /\ job'[p] = Wrote(job[p])
  <1> DEFINE j == job[p]  s == DoomedOne(j)  at == <<Head(j.left), s>>
  <1>1. JobOK(j) /\ j.pc = "rm" /\ j.doomed # {} /\ dir' = [dir EXCEPT ![at][f] = None]
        /\ dir[at][f] # None /\ Touching(p, j) /\ link' = link
        /\ unlinked' = unlinked \cup {q \in Procs : HasOpen(q, at, f)}
    BY DEF Typed, RemoveFile, DoomedOne
  <1>2. at \in Places
    <2>1. s \in j.doomed /\ j.doomed \in SUBSET Skills
      BY <1>1 DEF DoomedOne, JobOK, Job
    <2> QED
      BY <1>1, <2>1, HeadIsTarget DEF Places
  <1>3. Sets(at, f, None)
    BY <1>1, <1>2, SetFile DEF Contents
  <1>4. \A a \in link' : dir'[a] = Empty
    <2>1. \A a \in link : a \in Places /\ dir[a] = Empty /\ dir[a][f] = None
      BY DEF Typed, Places, Empty
    <2> QED
      BY <1>1, <1>3, <2>1 DEF Sets
  <1>5. Typed' /\ job'[p] = Wrote(j) /\ Told(p)
    <2>1. dir' \in [Places -> [Files -> Contents]] /\ link' \subseteq Targets \X Skills
      BY <1>1, <1>3 DEF Sets, Typed
    <2> QED
      BY <1>1, <1>4, <2>1, TouchingMoves DEF Wrote, Told
  <1> QED
    BY <1>1, <1>2, <1>3, <1>5

LEMMA SkillRemovedMoves ==
    ASSUME Typed, NEW p \in Procs, SkillRemoved(p)
    PROVE  /\ Typed' /\ Alone(p) /\ job[p].pc = "rm"
           /\ \/ Len(job[p].left) > 1 /\ job'[p] = RemoveNext(job[p])
              \/ job'[p] = RemoveEnd(job[p])
              \/ \E s : job'[p] = [job[p] EXCEPT !.doomed = job[p].doomed \ {s}]
  <1> DEFINE j == job[p]  s == DoomedOne(j)
             new == [j EXCEPT !.doomed = j.doomed \ {s}]
  <1>1. JobOK(j) /\ j.pc = "rm"
    BY DEF Typed, SkillRemoved
  <1>2. Only(p, NextTarget(j)) \/ Only(p, new)
    <2>1. j \in Job
      BY <1>1 DEF JobOK
    <2>2. [j EXCEPT !.doomed = @ \ {s}] = new
      BY <2>1 DEF Job
    <2> QED
      BY <2>2 DEF SkillRemoved, DoomedOne
  <1>3. JobOK(new)
    BY <1>1 DEF JobOK, Job
  <1>4. Only(p, new) => Typed' /\ Alone(p) /\ job'[p] = new
    BY <1>3, OnlyAlone
  <1>5. Only(p, NextTarget(j)) => Typed' /\ Alone(p) /\ job'[p] = NextTarget(j)
    BY <1>1, NextTargetIs, OnlyAlone
  <1> QED
    BY <1>1, <1>2, <1>4, <1>5, NextTargetIs

-----------------------------------------------------------------------------
(* How a command may go on, whatever it does to the disk.                  *)

Loading(j, d) == [j EXCEPT !.pc = "preview", !.scan = {Head(j.left)}, !.nodes = Plan[d]]
Scanned(j, t) == [j EXCEPT !.scan = j.scan \ {t}, !.compare = j.compare \cup {t},
                           !.seen[t] = Listed(t)]
Selecting(j, t, S) == [j EXCEPT !.pc = "plan", !.selected = SkillsOf(S), !.seen[t] = Listed(t)]
RemovalOf(j, t) ==
    Removing(j, t, View(t), Planned(j, j.selected \cap Listed(t), View(t)))

GoesFinding(j, n) ==
    /\ j.pc = "deps"
    /\ \E root, d \in Catalogue : d \in DependencyTargets(j.req, root) /\ n = Loading(j, d)
GoesPreviewing(j, n) ==
    /\ j.pc = "preview"
    /\ \/ \E t \in j.scan : n = Scanned(j, t)
       \/ \E t \in j.compare : n = Compared(j, t)
GoesWriting(j, n) ==
    \/ j.pc = "install" /\ \E f \in j.files : n = Skipping(j, f)
    \/ j.pc = "install" /\ \E f \in j.files : n = Wrote(Filling(j, f))
    \/ j.pc = "fill" /\ n = Wrote(Filled(j))
GoesOn(j, n) == j.pc = "install" /\ \E i : Advances(j, i) /\ n \in {i, Wrote(i)}
GoesRemoving(j, n) ==
    \/ j.pc \in {"remove", "rm"} /\ Len(j.left) > 1 /\ n = RemoveNext(j)
    \/ j.pc \in {"remove", "rm"} /\ n = RemoveEnd(j)
    \/ j.pc = "rm" /\ n = Wrote(j)
    \/ j.pc = "rm" /\ \E s : n = [j EXCEPT !.doomed = j.doomed \ {s}]
GoesSelecting(j, n) ==
    /\ j.pc = "remove"
    /\ LET t == Head(j.left) IN
       t \in Targets /\ \E S \in LocalSelections(j.req.ref, Installed(t), j.req.tty) :
                           n = Selecting(j, t, S)
GoesPlanning(j, n) ==
    j.pc = "plan" /\ Head(j.left) \in Targets /\ n = RemovalOf(j, Head(j.left))

Goes(j, n) ==
    \/ j.pc = "idle" /\ \E r \in AllRequests : Begins(r, n)
    \/ GoesFinding(j, n)
    \/ GoesPreviewing(j, n)
    \/ j.pc = "confirm" /\ n = Installing(j)
    \/ j.pc = "confirm" /\ n = Finish(j, "refused")
    \/ j.pc # "idle" /\ n = Finish(j, "failed")
    \/ GoesWriting(j, n)
    \/ GoesOn(j, n)
    \/ GoesSelecting(j, n)
    \/ GoesPlanning(j, n)
    \/ GoesRemoving(j, n)

\* One command goes on; the others at most learn that the disk has changed.
Moves(p) ==
    /\ Typed' /\ JobOK(job'[p]) /\ Goes(job[p], job'[p])
    /\ \A q \in Procs : q # p => job'[q] \in {job[q], [job[q] EXCEPT !.disturbed = TRUE]}

LEMMA AloneMoves ==
    ASSUME NEW p \in Procs, Typed', Alone(p), Goes(job[p], job'[p])
    PROVE  Moves(p)
  BY DEF Moves, Alone, Typed

LEMMA ToldMoves ==
    ASSUME NEW p \in Procs, Typed', Told(p), Goes(job[p], job'[p])
    PROVE  Moves(p)
  BY DEF Moves, Told, Typed

\* p takes one of its steps.
Step(p) ==
    \/ \E r \in Requests[p] : Begin(p, r)
    \/ \E d \in Keys : LoadRoot(p, d)
    \/ \E t \in Targets : Scan(p, t) \/ Compare(p, t)
    \/ Confirm(p)
    \/ \E f \in Files : Truncate(p, f) \/ RemoveFile(p, f)
    \/ Fill(p) \/ SkillWritten(p) \/ Link(p) \/ Breaks(p)
    \/ Select(p) \/ PlanRemoval(p) \/ SkillRemoved(p)

LEMMA StepMoves ==
    ASSUME Typed, NEW p \in Procs, Step(p)
    PROVE  Moves(p)
  <1> DEFINE j == job[p]  n == job'[p]
  <1>1. ASSUME NEW r \in Requests[p], Begin(p, r) PROVE Moves(p)
    BY <1>1, BeginMoves, AloneMoves DEF Goes
  <1>2. ASSUME NEW d \in Keys, LoadRoot(p, d) PROVE Moves(p)
    <2>1. GoesFinding(j, n) \/ (j.pc # "idle" /\ n = Finish(j, "failed"))
      BY <1>2, LoadRootMoves DEF GoesFinding, Loading
    <2> QED
      BY <1>2, <2>1, LoadRootMoves, AloneMoves DEF Goes
  <1>3. ASSUME NEW t \in Targets, Scan(p, t) PROVE Moves(p)
    <2>1. GoesPreviewing(j, n) \/ (j.pc # "idle" /\ n = Finish(j, "failed"))
      BY <1>3, ScanMoves DEF GoesPreviewing, Scanned
    <2> QED
      BY <1>3, <2>1, ScanMoves, AloneMoves DEF Goes
  <1>4. ASSUME NEW t \in Targets, Compare(p, t) PROVE Moves(p)
    <2>1. GoesPreviewing(j, n)
      BY <1>4, CompareMoves DEF GoesPreviewing
    <2> QED
      BY <1>4, <2>1, CompareMoves, AloneMoves DEF Goes
  <1>5. ASSUME Confirm(p) PROVE Moves(p)
    BY <1>5, ConfirmMoves, AloneMoves DEF Goes
  <1>6. ASSUME NEW f \in Files, Truncate(p, f) PROVE Moves(p)
    <2>1. GoesWriting(j, n)
      BY <1>6, TruncateMoves DEF GoesWriting, NextFiles
    <2> QED
      BY <1>6, <2>1, TruncateMoves, AloneMoves, ToldMoves DEF Goes
  <1>7. ASSUME NEW f \in Files, RemoveFile(p, f) PROVE Moves(p)
    <2>1. GoesRemoving(j, n)
      BY <1>7, RemoveFileMoves DEF GoesRemoving
    <2> QED
      BY <1>7, <2>1, RemoveFileMoves, ToldMoves DEF Goes
  <1>8. ASSUME Fill(p) PROVE Moves(p)
    <2>1. GoesWriting(j, n)
      BY <1>8, FillMoves DEF GoesWriting
    <2> QED
      BY <1>8, <2>1, FillMoves, ToldMoves DEF Goes
  <1>9. ASSUME SkillWritten(p) PROVE Moves(p)
    <2>1. GoesOn(j, n)
      BY <1>9, SkillWrittenMoves DEF GoesOn
    <2> QED
      BY <1>9, <2>1, SkillWrittenMoves, AloneMoves DEF Goes
  <1>10. ASSUME Link(p) PROVE Moves(p)
    <2>1. (Alone(p) \/ Told(p)) /\ (GoesOn(j, n) \/ (j.pc # "idle" /\ n = Finish(j, "failed")))
      BY <1>10, LinkMoves DEF GoesOn
    <2> QED
      BY <1>10, <2>1, LinkMoves, AloneMoves, ToldMoves DEF Goes
  <1>11. ASSUME Breaks(p) PROVE Moves(p)
    BY <1>11, BreaksMoves DEF Goes, Moves, Typed
  <1>12. ASSUME Select(p) PROVE Moves(p)
    <2>1. GoesSelecting(j, n) \/ GoesRemoving(j, n) \/ (j.pc # "idle" /\ n = Finish(j, "failed"))
      BY <1>12, SelectMoves DEF GoesSelecting, GoesRemoving, Selecting
    <2> QED
      BY <1>12, <2>1, SelectMoves, AloneMoves DEF Goes
  <1>13. ASSUME PlanRemoval(p) PROVE Moves(p)
    <2>1. GoesPlanning(j, n) \/ (j.pc # "idle" /\ n = Finish(j, "failed"))
      BY <1>13, PlanRemovalMoves DEF GoesPlanning, RemovalOf
    <2> QED
      BY <1>13, <2>1, PlanRemovalMoves, AloneMoves DEF Goes
  <1>14. ASSUME SkillRemoved(p) PROVE Moves(p)
    <2>1. GoesRemoving(j, n)
      BY <1>14, SkillRemovedMoves DEF GoesRemoving
    <2> QED
      BY <1>14, <2>1, SkillRemovedMoves, AloneMoves DEF Goes
  <1> QED
    BY <1>1, <1>2, <1>3, <1>4, <1>5, <1>6, <1>7, <1>8, <1>9, <1>10, <1>11, <1>12, <1>13,
       <1>14 DEF Step

LEMMA NextIsStep ==
    ASSUME Next
    PROVE  \E p \in Procs : Step(p)
  BY DEF Next, Step

\* Every step keeps the types.
LEMMA TypeStep ==
    ASSUME Typed, [Next]_vars
    PROVE  Typed'
  <1>1. CASE UNCHANGED vars
    BY <1>1 DEF vars, Typed
  <1>2. CASE Next
    BY <1>2, NextIsStep, StepMoves DEF Moves
  <1> QED
    BY <1>1, <1>2

LEMMA TypedAlways == Spec => []Typed
  <1>1. Init => Typed
    BY InitType
  <1>2. Typed /\ [Next]_vars => Typed'
    BY TypeStep
  <1> QED
    BY <1>1, <1>2, PTL DEF Spec

-----------------------------------------------------------------------------
(* A torn file is one that somebody is about to fill, unless a write broke. *)

FilledBy(q, at, f) ==
    job[q].pc = "fill" /\ job[q].file = f /\ Target(job[q]) = at /\ q \notin unlinked
TornIsFilled ==
    breaks = 0 => \A at \in Places, f \in Files :
                    dir[at][f] = Torn => \E q \in Procs : FilledBy(q, at, f)

\* Whoever fills a file still does when nothing but a mark on its job changes.
LEMMA StillFills ==
    ASSUME Typed, NEW q \in Procs, NEW at \in Places, NEW f \in Files, FilledBy(q, at, f),
           job'[q] \in {job[q], [job[q] EXCEPT !.disturbed = TRUE]}, link' = link,
           q \notin unlinked'
    PROVE  FilledBy(q, at, f)'
  <1>1. /\ job'[q].pc = job[q].pc /\ job'[q].file = job[q].file
        /\ job'[q].left = job[q].left /\ job'[q].todo = job[q].todo
    BY DEF Typed, JobOK, Job
  <1>2. Target(job[q])' = Target(job[q])
    BY <1>1 DEF Target, Place
  <1> QED
    BY <1>1, <1>2 DEF FilledBy

\* A step of p that tears no file keeps every other torn file in somebody's hands.
LEMMA OthersFill ==
    ASSUME Typed, TornIsFilled, NEW p \in Procs, link' = link, breaks' = breaks,
           \A q \in Procs : q # p => job'[q] \in {job[q], [job[q] EXCEPT !.disturbed = TRUE]},
           \A at \in Places, f \in Files : dir'[at][f] = Torn =>
              \/ dir[at][f] = Torn /\ ~FilledBy(p, at, f)
              \/ FilledBy(p, at, f)',
           \A q \in Procs, at \in Places, f \in Files :
              q # p /\ FilledBy(q, at, f) /\ dir'[at][f] = Torn => q \notin unlinked'
    PROVE  TornIsFilled'
  <1> SUFFICES ASSUME breaks = 0, NEW at \in Places, NEW f \in Files, dir'[at][f] = Torn
               PROVE  \E q \in Procs : FilledBy(q, at, f)'
    BY DEF TornIsFilled
  <1>1. CASE FilledBy(p, at, f)'
    BY <1>1
  <1>2. CASE dir[at][f] = Torn /\ ~FilledBy(p, at, f)
    <2>1. PICK q \in Procs : FilledBy(q, at, f)
      BY <1>2 DEF TornIsFilled
    <2>2. q # p
      BY <1>2, <2>1
    <2>3. q \notin unlinked'
      BY <2>1, <2>2
    <2>4. FilledBy(q, at, f)'
      BY <2>1, <2>2, <2>3, StillFills
    <2> QED
      BY <2>4
  <1> QED
    BY <1>1, <1>2

LEMMA TornAlone ==
    ASSUME Typed, TornIsFilled, NEW p \in Procs, Alone(p), job[p].pc # "fill"
    PROVE  TornIsFilled'
  BY OthersFill DEF Alone, FilledBy

LEMMA TornStep ==
    ASSUME Typed, TornIsFilled, [Next]_vars
    PROVE  TornIsFilled'
  <1>1. CASE UNCHANGED vars
    <2>1. \A q \in Procs, at \in Places, f \in Files : FilledBy(q, at, f) => FilledBy(q, at, f)'
      BY <1>1, StillFills DEF vars, FilledBy
    <2> QED
      BY <1>1, <2>1 DEF TornIsFilled, vars
  <1>2. ASSUME NEW p \in Procs, NEW f \in Files, Truncate(p, f)
        PROVE  TornIsFilled'
    <2> DEFINE j == job[p]
    <2>1. CASE Alone(p)
      BY <1>2, <2>1, TruncateMoves, TornAlone
    <2>2. CASE /\ Sets(Target(j), f, Torn) /\ link' = link /\ unlinked' = unlinked \ {p}
               /\ Told(p) /\ job'[p] = Wrote(Filling(j, f))
      <3>1. JobOK(j) /\ j.pc = "install"
        BY <1>2, TruncateMoves DEF Typed
      <3>2. ASSUME NEW at \in Places, at = Target(j)
            PROVE  FilledBy(p, at, f)'
        <4>1. /\ job'[p].pc = "fill" /\ job'[p].file = f
              /\ job'[p].left = j.left /\ job'[p].todo = j.todo
          BY <2>2, <3>1 DEF JobOK, Job, Wrote, Filling
        <4>2. Target(job[p])' = Target(job[p])
          BY <2>2, <4>1 DEF Place, Target
        <4> QED
          BY <2>2, <3>2, <4>1, <4>2 DEF FilledBy
      <3>3. \A at \in Places, g \in Files : dir'[at][g] = Torn =>
               dir[at][g] = Torn \/ FilledBy(p, at, g)'
        <4>1. \A at \in Places, g \in Files :
                 (at = Target(j) /\ g = f) \/ dir'[at][g] = dir[at][g]
          BY <2>2 DEF Sets
        <4>2. \A at \in Places, g \in Files : at = Target(j) /\ g = f => FilledBy(p, at, g)'
          BY <3>2
        <4> QED
          BY <4>1, <4>2
      <3>4. \A at \in Places, g \in Files : ~FilledBy(p, at, g)
        BY <3>1 DEF FilledBy
      <3>5. \A q \in Procs, at \in Places, g \in Files : FilledBy(q, at, g) => q \notin unlinked'
        BY <2>2 DEF FilledBy
      <3> QED
        BY <2>2, <3>3, <3>4, <3>5, OthersFill DEF Told
    <2> QED
      BY <1>2, <2>1, <2>2, TruncateMoves
  <1>3. ASSUME NEW p \in Procs, Fill(p)
        PROVE  TornIsFilled'
    <2> DEFINE j == job[p]
    <2>1. j.pc = "fill" /\ j.file \in Files /\ UNCHANGED <<link, unlinked>> /\ Told(p)
      BY <1>3, FillMoves
    <2>2. \A at \in Places, g \in Files : dir'[at][g] = Torn =>
             dir[at][g] = Torn /\ ~FilledBy(p, at, g)
      <3>1. CASE p \in unlinked /\ dir' = dir
        BY <3>1 DEF FilledBy
      <3>2. ASSUME NEW x, x # Torn, Sets(Target(j), j.file, x)
            PROVE  \A at \in Places, g \in Files : dir'[at][g] = Torn =>
                      dir[at][g] = Torn /\ ~FilledBy(p, at, g)
        BY <3>2 DEF Sets, FilledBy
      <3> QED
        BY <1>3, <3>1, <3>2, FillMoves
    <2>3. \A q \in Procs, at \in Places, g \in Files : FilledBy(q, at, g) => q \notin unlinked'
      BY <2>1 DEF FilledBy
    <2> QED
      BY <2>1, <2>2, <2>3, OthersFill DEF Told
  <1>4. ASSUME NEW p \in Procs, NEW f \in Files, RemoveFile(p, f)
        PROVE  TornIsFilled'
    <2>1. job[p].pc = "rm" /\ link' = link /\ Told(p)
      BY <1>4, RemoveFileMoves
    <2>2. PICK at \in Places : /\ Sets(at, f, None)
                               /\ unlinked' = unlinked \cup {q \in Procs : HasOpen(q, at, f)}
      BY <1>4, RemoveFileMoves
    <2>3. \A a \in Places, g \in Files : dir'[a][g] = Torn => dir[a][g] = Torn
      BY <2>2, VersionsAssumption DEF Sets
    <2>4. \A a \in Places, g \in Files : ~FilledBy(p, a, g)
      BY <2>1 DEF FilledBy
    <2>5. ASSUME NEW q \in Procs, NEW a \in Places, NEW g \in Files,
                 FilledBy(q, a, g), dir'[a][g] = Torn
          PROVE  q \notin unlinked'
      <3>1. ~(a = at /\ g = f)
        BY <2>2, <2>5, VersionsAssumption DEF Sets
      <3>2. ~HasOpen(q, at, f) /\ q \notin unlinked
        BY <2>5, <3>1 DEF FilledBy, HasOpen, Target
      <3> QED
        BY <2>2, <3>2
    <2> QED
      BY <2>1, <2>3, <2>4, <2>5, OthersFill DEF Told
  <1>5. ASSUME NEW p \in Procs, Link(p)
        PROVE  TornIsFilled'
    <2> DEFINE j == job[p]  new == <<Head(j.left), Head(j.todo)[1]>>
    <2>1. j.pc = "install" /\ dir' = dir
      BY <1>5, LinkMoves
    <2>2. CASE Alone(p)
      BY <2>1, <2>2, TornAlone
    <2>3. CASE /\ ~IsOccupied(new) /\ link' = link \cup {new} /\ new \in Targets \X Skills
               /\ unlinked' = unlinked /\ Told(p)
      <3>1. SUFFICES ASSUME breaks = 0, NEW at \in Places, NEW f \in Files, dir[at][f] = Torn
                     PROVE  \E q \in Procs : FilledBy(q, at, f)'
        BY <2>1, <2>3 DEF TornIsFilled, Told
      <3>2. PICK q \in Procs : FilledBy(q, at, f)
        BY <3>1 DEF TornIsFilled
      <3>3. q # p
        BY <2>1, <3>2 DEF FilledBy
      <3> DEFINE i == job[q]  t == Head(i.left)  s == Head(i.todo)[1]
      <3>4. /\ job'[q].pc = i.pc /\ job'[q].file = i.file
            /\ job'[q].left = i.left /\ job'[q].todo = i.todo
        <4>1. job[q] \in Job /\ job'[q] = [job[q] EXCEPT !.disturbed = TRUE]
          BY <2>3, <3>3 DEF Told, Typed, JobOK
        <4> QED
          BY <4>1 DEF Job
      <3>5. dir[new][f] # Torn /\ new # at
        BY <2>3, <3>1, VersionsAssumption DEF IsOccupied, Empty
      <3>6. at = Place(t, s)
        BY <3>2 DEF FilledBy, Target
      <3>7. <<t, s>> = new => new \in link
        BY <3>5, <3>6 DEF Place
      <3>8. <<t, s>> \in link' <=> <<t, s>> \in link
        BY <2>3, <3>7
      <3>9. Target(job[q])' = at
        BY <3>4, <3>6, <3>8 DEF Place, Target
      <3> QED
        BY <2>3, <3>2, <3>4, <3>9 DEF FilledBy
    <2> QED
      BY <1>5, <2>2, <2>3, LinkMoves
  <1>6. ASSUME NEW p \in Procs, Breaks(p)
        PROVE  TornIsFilled'
    BY <1>6, BreaksMoves DEF TornIsFilled
  <1>7. ASSUME NEW p \in Procs,
               \/ \E r \in Requests[p] : Begin(p, r)
               \/ \E d \in Keys : LoadRoot(p, d)
               \/ \E t \in Targets : Scan(p, t) \/ Compare(p, t)
               \/ Confirm(p) \/ SkillWritten(p)
               \/ Select(p) \/ PlanRemoval(p) \/ SkillRemoved(p)
        PROVE  TornIsFilled'
    <2>1. Alone(p) /\ job[p].pc # "fill"
      BY <1>7, BeginMoves, LoadRootMoves, ScanMoves, CompareMoves, ConfirmMoves,
         SkillWrittenMoves, SelectMoves, PlanRemovalMoves, SkillRemovedMoves
    <2> QED
      BY <2>1, TornAlone
  <1>8. CASE Next
    <2>1. PICK p \in Procs : Step(p)
      BY <1>8, NextIsStep
    <2> QED
      BY <2>1, <1>2, <1>3, <1>4, <1>5, <1>6, <1>7 DEF Step
  <1> QED
    BY <1>1, <1>8

\* The disk, the links and every command keep their types; a file may hold a
\* version and the end of a longer one.  A link stands where no directory is, and
\* only a file being written, or whose write broke, is torn.
THEOREM TypeSafety == Spec => []TypeOK
  <1>1. Init => Typed /\ TornIsFilled
    <2>1. ASSUME Init
          PROVE  TornIsFilled
      <3>1. ASSUME NEW at \in Places, NEW f \in Files
            PROVE  dir[at][f] # Torn
        <4> DEFINE first == CHOOSE v \in Versions : TRUE
        <4>1. first \in Versions
          BY VersionsAssumption
        <4> HIDE DEF first
        <4>2. dir[at] = [Empty EXCEPT !.md = first] \/ dir[at] = Empty
          BY <2>1 DEF Init, Places, first
        <4>3. [Empty EXCEPT !.md = first][f] \in {None, first} /\ Empty[f] = None
          BY DEF Empty, Files
        <4> QED
          BY <4>1, <4>2, <4>3, VersionsAssumption
      <3> QED
        BY <3>1 DEF TornIsFilled
    <2> QED
      BY <2>1, InitType
  <1>2. Typed /\ TornIsFilled /\ [Next]_vars => (Typed /\ TornIsFilled)'
    BY TypeStep, TornStep
  <1>3. Typed /\ TornIsFilled => TypeOK
    <2>1. \A q \in Procs, at \in Places, f \in Files :
             FilledBy(q, at, f) => HasOpen(q, at, f) /\ q \notin unlinked
      BY DEF FilledBy, HasOpen, Target
    <2>2. Typed => DOMAIN dir = Places
      BY DEF Typed
    <2> QED
      BY <2>1, <2>2 DEF Typed, TornIsFilled, TypeOK, JobOK, Job, Labels, Places, Contents
  <1> QED
    BY <1>1, <1>2, <1>3, PTL DEF Spec

-----------------------------------------------------------------------------
(* The file a command is writing, another command aside.                   *)

\* Only Truncate begins to write a file.
LEMMA TruncateBegins ==
    ASSUME Typed, [Next]_vars, NEW p \in Procs, job[p].pc = "install", job'[p].pc = "fill"
    PROVE  \E f \in Files : Truncate(p, f)
  <1>1. ~(UNCHANGED vars)
    BY DEF vars
  <1>2. PICK q \in Procs : Step(q)
    BY <1>1, NextIsStep
  <1>3. q = p
    <2>1. Moves(q) /\ job[p] \in Job
      BY <1>2, StepMoves DEF Typed
    <2>2. ASSUME q # p PROVE FALSE
      <3>1. job'[p] \in {job[p], [job[p] EXCEPT !.disturbed = TRUE]}
        BY <2>1, <2>2 DEF Moves
      <3> QED
        BY <2>1, <3>1 DEF Job
    <2> QED
      BY <2>2
  <1>4. SkillWritten(p) \/ Link(p) \/ Breaks(p) => FALSE
    <2>1. PICK j, n : j = job[p] /\ n = job'[p]
      OBVIOUS
    <2>2. JobOK(j) /\ j.pc = "install" /\ n.pc = "fill"
      BY <2>1 DEF Typed
    <2>3. n # Finish(j, "failed")
      BY <2>2 DEF Finish, Job, JobOK
    <2>4. ASSUME NEW i, Advances(j, i), n \in {i, Wrote(i)}
          PROVE  FALSE
      <3>1. i \in Job /\ i.pc \in {"install", "idle"}
        BY <2>2, <2>4, NextSkillIs, NextRootIs, EndedIs DEF Advances, JobOK
      <3> QED
        BY <2>2, <2>4, <3>1 DEF Wrote, Job
    <2>5. SkillWritten(p) => Advances(j, n)
      BY <2>1, SkillWrittenMoves
    <2>6. Link(p) => n = Finish(j, "failed") \/ \E i : Advances(j, i) /\ n \in {i, Wrote(i)}
      BY <2>1, LinkMoves
    <2>7. Breaks(p) => n = Finish(j, "failed")
      BY <2>1, BreaksMoves
    <2> QED
      BY <2>3, <2>4, <2>5, <2>6, <2>7
  <1>5. \/ \E r \in Requests[p] : Begin(p, r)
        \/ \E d \in Keys : LoadRoot(p, d)
        \/ \E t \in Targets : Scan(p, t) \/ Compare(p, t)
        \/ Confirm(p) \/ \E f \in Files : RemoveFile(p, f)
        \/ Fill(p) \/ Select(p) \/ PlanRemoval(p) \/ SkillRemoved(p)
        => FALSE
    BY DEF Begin, LoadRoot, Scan, Compare, Confirm, RemoveFile, Fill, Select, PlanRemoval,
           SkillRemoved
  <1> QED
    BY <1>2, <1>3, <1>4, <1>5 DEF Step

LEMMA FillFollows ==
    ASSUME NEW j, NEW n, JobOK(j), Goes(j, n), n.pc = "fill"
    PROVE  j.pc = "install"
  <1>0. j \in Job
    BY DEF JobOK
  <1>1. ASSUME NEW r \in AllRequests, Begins(r, n)
        PROVE  n.pc # "fill"
    <2>1. r.op \in {"get", "deps", "remove"}
      BY RequestIs
    <2>2. r.op # "get" => [Fresh(r) EXCEPT !.pc = r.op].pc = r.op
      BY StartedIs
    <2>3. r.op = "get" => \A k \in Catalogue : Previewed(r, k).pc = "preview"
      BY PreviewedIs
    <2>4. Finish(Fresh(r), "failed").pc = "idle"
      BY FreshIs DEF Finish, Job
    <2> QED
      BY <1>1, <2>1, <2>2, <2>3, <2>4 DEF Begins
  <1>2. GoesFinding(j, n) \/ GoesPreviewing(j, n) => n.pc # "fill"
    BY <1>0 DEF GoesFinding, GoesPreviewing, Loading, Scanned, Compared, Job
  <1>3. j.pc = "confirm" /\ n = Installing(j) => n.pc # "fill"
    BY InstallingIs
  <1>4. n = Finish(j, "refused") \/ n = Finish(j, "failed") => n.pc # "fill"
    BY <1>0 DEF Finish, Job
  <1>5. GoesWriting(j, n) => j.pc = "install"
    <2>1. n = Wrote(Filled(j)) => n.pc = "install"
      BY <1>0 DEF Filled, Wrote, Job
    <2> QED
      BY <2>1 DEF GoesWriting
  <1>6. GoesOn(j, n) => j.pc = "install"
    BY DEF GoesOn
  <1>7. GoesSelecting(j, n) => n.pc = "plan"
    BY <1>0 DEF GoesSelecting, Selecting, Job
  <1>8. GoesPlanning(j, n) => n.pc = "rm"
    BY <1>0 DEF GoesPlanning, RemovalOf, Removing, Job
  <1>9. GoesRemoving(j, n) => n.pc # "fill"
    BY <1>0 DEF GoesRemoving, RemoveNext, RemoveEnd, Finish, Wrote, Job
  <1> QED
    BY <1>1, <1>2, <1>3, <1>4, <1>5, <1>6, <1>7, <1>8, <1>9 DEF Goes

\* Who changes the disk tells the others.
LEMMA StepTells ==
    ASSUME Typed, NEW p \in Procs, Step(p)
    PROVE  Told(p) \/ UNCHANGED <<dir, link, unlinked>>
  <1>1. ASSUME NEW f \in Files, Truncate(p, f) \/ RemoveFile(p, f)
        PROVE  Told(p) \/ UNCHANGED <<dir, link, unlinked>>
    BY <1>1, TruncateMoves, RemoveFileMoves DEF Alone
  <1>2. Fill(p) \/ Link(p) \/ Breaks(p) => Told(p) \/ UNCHANGED <<dir, link, unlinked>>
    BY FillMoves, LinkMoves, BreaksMoves DEF Alone
  <1>3. \/ \E r \in Requests[p] : Begin(p, r)
        \/ \E d \in Keys : LoadRoot(p, d)
        \/ \E t \in Targets : Scan(p, t) \/ Compare(p, t)
        \/ Confirm(p) \/ SkillWritten(p)
        \/ Select(p) \/ PlanRemoval(p) \/ SkillRemoved(p)
        => Alone(p)
    BY BeginMoves, LoadRootMoves, ScanMoves, CompareMoves, ConfirmMoves,
       SkillWrittenMoves, SelectMoves, PlanRemovalMoves, SkillRemovedMoves
  <1> QED
    BY <1>1, <1>2, <1>3 DEF Step, Alone

Untouched ==
    \A q \in Procs : job[q].pc = "fill" /\ ~job[q].disturbed =>
        q \notin unlinked /\ dir[Target(job[q])][job[q].file] = Torn

LEMMA UntouchedStep ==
    ASSUME Typed, Untouched, [Next]_vars
    PROVE  Untouched'
  <1>1. ASSUME NEW q \in Procs, job'[q] = job[q], UNCHANGED <<dir, link, unlinked>>,
               job'[q].pc = "fill", ~job'[q].disturbed
        PROVE  (q \notin unlinked /\ dir[Target(job[q])][job[q].file] = Torn)'
    <2>1. Target(job[q])' = Target(job[q])
      BY <1>1 DEF Target, Place
    <2> QED
      BY <1>1, <2>1 DEF Untouched
  <1>2. CASE UNCHANGED vars
    BY <1>1, <1>2 DEF vars, Untouched
  <1>3. ASSUME NEW p \in Procs, Step(p), NEW q \in Procs, q # p,
               job'[q].pc = "fill", ~job'[q].disturbed
        PROVE  (q \notin unlinked /\ dir[Target(job[q])][job[q].file] = Torn)'
    <2>1. job'[q] \in {job[q], [job[q] EXCEPT !.disturbed = TRUE]} /\ job[q] \in Job
      BY <1>3, StepMoves DEF Moves, Typed
    <2>2. [job[q] EXCEPT !.disturbed = TRUE].disturbed
      BY <2>1 DEF Job
    <2>3. job'[q] = job[q] /\ ~Told(p)
      BY <1>3, <2>1, <2>2 DEF Told
    <2> QED
      BY <1>1, <1>3, <2>3, StepTells
  <1>4. ASSUME NEW p \in Procs, Step(p), job'[p].pc = "fill"
        PROVE  (p \notin unlinked /\ dir[Target(job[p])][job[p].file] = Torn)'
    <2> DEFINE j == job[p]
    <2>1. JobOK(j) /\ j.pc = "install"
      BY <1>4, StepMoves, FillFollows DEF Moves, Typed
    <2>2. PICK f \in Files : Truncate(p, f)
      BY <1>4, <2>1, TruncateBegins
    <2>3. job'[p] # Skipping(j, f)
      BY <1>4, <2>1 DEF Skipping, JobOK, Job
    <2>4. /\ Sets(Target(j), f, Torn) /\ link' = link /\ unlinked' = unlinked \ {p}
          /\ job'[p] = Wrote(Filling(j, f))
      BY <2>2, <2>3, TruncateMoves
    <2>5. job'[p].file = f /\ job'[p].left = j.left /\ job'[p].todo = j.todo
      BY <2>1, <2>4 DEF Wrote, Filling, JobOK, Job
    <2>6. Target(job[p])' = Target(job[p])
      BY <2>4, <2>5 DEF Target, Place
    <2> QED
      BY <2>4, <2>5, <2>6 DEF Sets
  <1>5. CASE Next
    <2>1. PICK p \in Procs : Step(p)
      BY <1>5, NextIsStep
    <2> QED
      BY <1>3, <1>4, <2>1 DEF Untouched
  <1> QED
    BY <1>2, <1>5

LEMMA UntouchedAlways == Spec => []Untouched
  <1>1. Init => Untouched
    BY DEF Init, Idle, Untouched
  <1>2. Typed /\ Untouched /\ [Next]_vars => Untouched'
    BY UntouchedStep
  <1> QED
    BY <1>1, <1>2, TypedAlways, PTL DEF Spec

\* An undisturbed command leaves the file it fills whole.
LEMMA FillsWhole ==
    ASSUME Typed, Untouched, NEW p \in Procs, Fill(p), ~job[p].disturbed
    PROVE  Sets(Target(job[p]), job[p].file, Head(job[p].todo)[2])
  <1>1. JobOK(job[p]) /\ job[p].pc = "fill"
    BY FillMoves DEF Typed
  <1>2. p \notin unlinked /\ dir[Target(job[p])][job[p].file] = Torn
    BY <1>1 DEF Untouched
  <1>3. Head(job[p].todo)[2] \in Versions
    BY <1>1, HeadIsKey, KeyIs
  <1>4. Written(dir[Target(job[p])][job[p].file], Head(job[p].todo)[2]) = {Head(job[p].todo)[2]}
    BY <1>2, <1>3, WrittenIs
  <1> QED
    BY <1>2, <1>4, FillMoves

-----------------------------------------------------------------------------
(* A command that was refused.                                             *)

\* Nothing is written before every target is settled.
Clean(j) == j.pc \in {"deps", "preview", "confirm"} \/ j.result = "refused" => ~j.wrote

LEMMA CleanGoes ==
    ASSUME NEW j, NEW n, JobOK(j), JobOK(n), Clean(j), Goes(j, n)
    PROVE  Clean(n)
  <1>0. j \in Job
    BY DEF JobOK
  <1>1. CASE \E r \in AllRequests : Begins(r, n)
    <2>1. PICK r \in AllRequests : Begins(r, n)
      BY <1>1
    <2>2. ~Fresh(r).wrote /\ Fresh(r) \in Job
      BY FreshIs
    <2>3. ~Finish(Fresh(r), "failed").wrote
      BY <2>2 DEF Finish, Job
    <2>4. r.op # "get" => ~[Fresh(r) EXCEPT !.pc = r.op].wrote
      BY StartedIs
    <2>5. r.op = "get" => \A k \in Catalogue : ~Previewed(r, k).wrote
      BY PreviewedIs
    <2>6. ~n.wrote
      BY <2>1, <2>3, <2>4, <2>5 DEF Begins
    <2> QED
      BY <2>6 DEF Clean
  <1>2. CASE GoesFinding(j, n)
    BY <1>0, <1>2 DEF GoesFinding, Loading, Clean, Job
  <1>3. CASE GoesPreviewing(j, n)
    BY <1>0, <1>3 DEF GoesPreviewing, Scanned, Compared, Clean, Job
  <1>4. CASE j.pc = "confirm" /\ n = Installing(j)
    BY <1>4, InstallingIs DEF Clean, JobOK
  <1>5. CASE j.pc = "confirm" /\ n = Finish(j, "refused")
    BY <1>0, <1>5 DEF Clean, Finish, Job
  <1>6. CASE j.pc # "idle" /\ n = Finish(j, "failed")
    BY <1>0, <1>6 DEF Clean, Finish, Job
  <1>7. CASE GoesWriting(j, n)
    <2>1. n.pc \in {"install", "fill"} /\ n.result = j.result
      <3>1. ASSUME NEW f, j.pc = "install", n = Skipping(j, f)
            PROVE  n.pc = "install" /\ n.result = j.result
        BY <1>0, <3>1 DEF Skipping, Job
      <3>2. ASSUME NEW f, n = Wrote(Filling(j, f))
            PROVE  n.pc = "fill" /\ n.result = j.result
        BY <1>0, <3>2 DEF Filling, Wrote, Job
      <3>3. ASSUME n = Wrote(Filled(j))
            PROVE  n.pc = "install" /\ n.result = j.result
        BY <1>0, <3>3 DEF Filled, Wrote, Job
      <3> QED
        BY <1>7, <3>1, <3>2, <3>3 DEF GoesWriting
    <2>2. j.result = "none"
      BY <1>7 DEF GoesWriting, JobOK
    <2> QED
      BY <2>1, <2>2 DEF Clean
  <1>8. CASE GoesOn(j, n)
    <2>1. PICK i : Advances(j, i) /\ n \in {i, Wrote(i)} /\ j.pc = "install"
      BY <1>8 DEF GoesOn
    <2>2. /\ i \in Job /\ i.pc \in {"install", "idle"} /\ i.result \in {j.result, "ok"}
      BY <2>1, NextSkillIs, NextRootIs, EndedIs DEF Advances, JobOK
    <2>3. n.pc = i.pc /\ n.result = i.result
      BY <2>1, <2>2 DEF Wrote, Job
    <2> QED
      BY <2>1, <2>2, <2>3 DEF Clean, JobOK
  <1>9. CASE GoesSelecting(j, n)
    <2>1. n.pc = "plan" /\ n.result = j.result /\ j.result = "none"
      BY <1>0, <1>9 DEF GoesSelecting, Selecting, Job, JobOK
    <2> QED
      BY <2>1 DEF Clean
  <1>10. CASE GoesPlanning(j, n)
    <2>1. n.pc = "rm" /\ n.result = j.result /\ j.result = "none"
      BY <1>0, <1>10 DEF GoesPlanning, RemovalOf, Removing, Job, JobOK
    <2> QED
      BY <2>1 DEF Clean
  <1>11. CASE GoesRemoving(j, n)
    <2>1. n.pc \in {"remove", "rm", "idle"} /\ n.result \in {j.result, "ok"} /\ j.result = "none"
      BY <1>0, <1>11 DEF GoesRemoving, RemoveNext, RemoveEnd, Finish, Wrote, Job, JobOK
    <2> QED
      BY <2>1 DEF Clean
  <1> QED
    BY <1>1, <1>2, <1>3, <1>4, <1>5, <1>6, <1>7, <1>8, <1>9, <1>10, <1>11 DEF Goes

LEMMA CleanStep ==
    ASSUME Typed, \A p \in Procs : Clean(job[p]), [Next]_vars
    PROVE  \A p \in Procs : Clean(job'[p])
  <1>1. CASE UNCHANGED vars
    BY <1>1 DEF vars
  <1>2. CASE Next
    <2>1. PICK p \in Procs : Moves(p)
      BY <1>2, NextIsStep, StepMoves
    <2>2. Clean(job'[p])
      BY <2>1, CleanGoes DEF Moves, Typed
    <2>3. ASSUME NEW q \in Procs, q # p
          PROVE  Clean(job'[q])
      <3>1. job[q] \in Job /\ Clean(job[q])
        BY DEF Typed
      <3>2. job'[q] \in {job[q], [job[q] EXCEPT !.disturbed = TRUE]}
        BY <2>1, <2>3 DEF Moves
      <3> QED
        BY <3>1, <3>2 DEF Clean, Job
    <2> QED
      BY <2>2, <2>3
  <1> QED
    BY <1>1, <1>2

\* A command the user declined, or that had nobody to ask, changed nothing.
THEOREM RefusalTheorem == Spec => []RefusedChangesNothing
  <1> DEFINE AllClean == \A p \in Procs : Clean(job[p])
  <1>1. Init => AllClean
    BY DEF Init, Idle, Clean
  <1>2. Typed /\ AllClean /\ [Next]_vars => AllClean'
    BY CleanStep
  <1>3. AllClean => RefusedChangesNothing
    BY DEF Clean, RefusedChangesNothing
  <1> QED
    BY <1>1, <1>2, <1>3, TypedAlways, PTL DEF Spec

-----------------------------------------------------------------------------
(* What a command acts on.                                                 *)

\* The steps of a command that has its plan, or is asked to remove.
GoesAhead(j, n) ==
    \/ GoesPreviewing(j, n)
    \/ j.pc = "confirm" /\ n = Installing(j)
    \/ j.pc = "confirm" /\ n = Finish(j, "refused")
    \/ j.pc # "idle" /\ n = Finish(j, "failed")
    \/ GoesWriting(j, n) \/ GoesOn(j, n)
    \/ GoesSelecting(j, n) \/ GoesPlanning(j, n) \/ GoesRemoving(j, n)

LEMMA AheadKeeps ==
    ASSUME NEW j, NEW n, JobOK(j), GoesAhead(j, n)
    PROVE  n.nodes = j.nodes /\ n.req = j.req
  <1>0. j \in Job
    BY DEF JobOK
  <1>1. CASE GoesPreviewing(j, n)
    BY <1>0, <1>1 DEF GoesPreviewing, Scanned, Compared, Job
  <1>2. CASE j.pc = "confirm" /\ n = Installing(j)
    BY <1>2, InstallingIs
  <1>3. CASE n = Finish(j, "refused") \/ n = Finish(j, "failed")
    BY <1>0, <1>3 DEF Finish, Job
  <1>4. CASE GoesWriting(j, n)
    <2>1. ASSUME NEW f, n = Skipping(j, f)
          PROVE  n.nodes = j.nodes /\ n.req = j.req
      BY <1>0, <2>1 DEF Skipping, Job
    <2>2. ASSUME NEW f, n = Wrote(Filling(j, f))
          PROVE  n.nodes = j.nodes /\ n.req = j.req
      BY <1>0, <2>2 DEF Filling, Wrote, Job
    <2>3. ASSUME n = Wrote(Filled(j))
          PROVE  n.nodes = j.nodes /\ n.req = j.req
      BY <1>0, <2>3 DEF Filled, Wrote, Job
    <2> QED
      BY <1>4, <2>1, <2>2, <2>3 DEF GoesWriting
  <1>5. CASE GoesOn(j, n)
    <2>1. PICK i : Advances(j, i) /\ n \in {i, Wrote(i)} /\ j.pc = "install"
      BY <1>5 DEF GoesOn
    <2>2. i \in Job /\ i.nodes = j.nodes /\ i.req = j.req
      BY <2>1, NextSkillIs, NextRootIs, EndedIs DEF Advances, JobOK
    <2> QED
      BY <2>1, <2>2 DEF Wrote, Job
  <1>6. CASE GoesSelecting(j, n)
    BY <1>0, <1>6 DEF GoesSelecting, Selecting, Job
  <1>7. CASE GoesPlanning(j, n)
    BY <1>0, <1>7 DEF GoesPlanning, RemovalOf, Removing, Job
  <1>8. CASE GoesRemoving(j, n)
    BY <1>0, <1>8 DEF GoesRemoving, RemoveNext, RemoveEnd, Finish, Wrote, Job
  <1> QED
    BY <1>1, <1>2, <1>3, <1>4, <1>5, <1>6, <1>7, <1>8 DEF GoesAhead

\* The version a request asks for, if it asks for one.
Given(r) == IF r.version # None THEN r.version ELSE r.ref.version
Suits(r, k) == Answers(r.ref, k[1]) /\ (Given(r) # None => k[2] = Given(r))

\* The skill of a get or deps suits the request.
RootSuits(j) == j.nodes # <<>> /\ j.req.pattern = None => Suits(j.req, j.nodes[1])

LEMMA SelectionSuits ==
    ASSUME NEW r \in AllRequests, r.pattern = None, NEW k \in Selection(r)
    PROVE  Suits(r, k)
  <1> DEFINE asked == WithExplicitVersion(r.ref, r.version)
  <1>1. PICK a, m, v : r.ref = [author |-> a, name |-> m, version |-> v]
    <2>1. r.ref = [author |-> r.ref.author, name |-> r.ref.name, version |-> r.ref.version]
      BY RequestIs DEF Reference
    <2> QED
      BY <2>1, Zenon
  <1>2. asked.author = a /\ asked.name = m /\ asked.version = Given(r)
    BY <1>1 DEF WithExplicitVersion, Given
  <1>3. \A s : Answers(asked, s) <=> Answers(r.ref, s)
    BY <1>1, <1>2 DEF Answers, RequestedID
  <1> HIDE DEF asked
  <1>4. Chosen(Matching(asked, Catalogue, FALSE), r.tty) \subseteq Matching(asked, Catalogue, FALSE)
    <2>1. Matching(asked, Catalogue, FALSE) \in SUBSET Keys
      BY PlanAssumption DEF Matching, Catalogue
    <2> QED
      BY <2>1, ChosenIsIn
  <1>5. PICK row \in Matching(asked, Catalogue, FALSE) :
          k = <<row[1], SelectedVersion(asked, row)>>
    BY <1>4 DEF Selection, CatalogSelection, asked
  <1>6. Answers(asked, row[1])
    BY <1>5 DEF Matching
  <1> QED
    BY <1>2, <1>3, <1>5, <1>6 DEF Suits, SelectedVersion

LEMMA FoundSuits ==
    ASSUME NEW r \in AllRequests, r.op = "deps", NEW root \in Catalogue,
           NEW d \in DependencyTargets(r, root)
    PROVE  Suits(r, d)
  <1> DEFINE keys == Matching(r.ref, Elements(Plan[root]) \ {root}, TRUE)
  <1>1. keys \in SUBSET Keys
    BY PlanIs, PlanAssumption DEF Matching, Catalogue
  <1>2. Chosen(keys, r.tty) \subseteq keys
    BY <1>1, ChosenIsIn
  <1>3. d \in keys
    BY <1>2 DEF DependencyTargets
  <1>4. r.version = None
    BY RequestIs
  <1> QED
    BY <1>3, <1>4 DEF Matching, Suits, Given

LEMMA RootGoes ==
    ASSUME NEW j, NEW n, JobOK(j), RootSuits(j), Goes(j, n)
    PROVE  RootSuits(n)
  <1>1. ASSUME NEW r \in AllRequests, Begins(r, n)
        PROVE  RootSuits(n)
    <2>1. CASE r.op = "get" /\ \E k \in Selection(r) \cap Catalogue : n = Previewed(r, k)
      <3>1. PICK k \in Selection(r) \cap Catalogue : n = Previewed(r, k)
        BY <2>1
      <3>2. n.nodes[1] = k /\ n.req = r
        <4>1. n.nodes = NodesOf(r, k) /\ n.req = r
          BY <2>1, <3>1, PreviewedIs
        <4>2. NodesOf(r, k)[1] = k
          BY NodesOfAre
        <4> QED
          BY <4>1, <4>2
      <3> QED
        BY <3>2, SelectionSuits DEF RootSuits
    <2>2. CASE r.op # "get" /\ n = [Fresh(r) EXCEPT !.pc = r.op]
      <3>1. n.nodes = <<>>
        BY <2>2, StartedIs
      <3> QED
        BY <3>1 DEF RootSuits
    <2>3. CASE n = Finish(Fresh(r), "failed")
      <3>1. n.nodes = <<>>
        <4>1. PICK f \in Job : f = Fresh(r) /\ f.nodes = <<>>
          BY FreshIs
        <4> QED
          BY <2>3, <4>1 DEF Finish, Job
      <3> QED
        BY <3>1 DEF RootSuits
    <2> QED
      BY <1>1, <2>1, <2>2, <2>3 DEF Begins
  <1>2. CASE GoesFinding(j, n)
    <2>1. PICK root, d \in Catalogue : d \in DependencyTargets(j.req, root) /\ n = Loading(j, d)
      BY <1>2 DEF GoesFinding
    <2>2. j \in Job /\ j.req \in AllRequests /\ j.req.op = "deps"
      BY <1>2 DEF GoesFinding, JobOK
    <2>3. n.nodes = Plan[d] /\ n.req = j.req /\ Plan[d][1] = d
      BY <2>1, <2>2, PlanIs DEF Loading, Job
    <2> QED
      BY <2>1, <2>2, <2>3, FoundSuits DEF RootSuits
  <1>3. CASE GoesAhead(j, n)
    BY <1>3, AheadKeeps DEF RootSuits
  <1> QED
    BY <1>1, <1>2, <1>3 DEF Goes, GoesAhead

\* The skills remove acts on answer to what it was asked, and without a
\* terminal no other skill does but by its name.
Fits(r, selected, seen) ==
    /\ \A s \in selected : Answers(r.ref, s)
    /\ \/ r.tty \/ r.ref.version # None
       \/ {s \in seen : Answers(r.ref, s)} \subseteq selected
       \/ \E s \in selected : IdOf[s] = RequestedID(r.ref)
SelectionFits(j) == j.pc = "plan" => Fits(j.req, j.selected, j.seen[Head(j.left)])

LEMMA SelectedFits ==
    ASSUME NEW r \in AllRequests, NEW t,
           NEW S \in LocalSelections(r.ref, Installed(t), r.tty)
    PROVE  Fits(r, SkillsOf(S), Listed(t))
  <1> DEFINE exact == {k \in Installed(t) : IdOf[k[1]] = RequestedID(r.ref) /\ r.ref.version = None}
             found == Matching(r.ref, Installed(t), TRUE)
  <1>1. CASE exact # {}
    <2>1. S = exact
      BY <1>1 DEF LocalSelections
    <2>2. \A k \in exact : IdOf[k[1]] = RequestedID(r.ref) /\ Answers(r.ref, k[1])
      BY DEF Answers
    <2> HIDE DEF exact
    <2> QED
      BY <1>1, <2>1, <2>2 DEF Fits, SkillsOf
  <1>2. CASE exact = {}
    <2>1. S \subseteq found /\ (S = found \/ r.tty)
      BY <1>2 DEF LocalSelections, ChosenSets
    <2>2. \A k \in found : Answers(r.ref, k[1])
      BY DEF Matching
    <2>3. ASSUME r.ref.version = None, NEW s \in Listed(t), Answers(r.ref, s)
          PROVE  s \in SkillsOf(found)
      <3> DEFINE k == <<s, VersionAt(<<t, s>>)>>
      <3>1. k \in Installed(t) /\ k[1] = s
        BY DEF Installed
      <3>2. k \in found
        BY <2>3, <3>1 DEF Matching
      <3> QED
        BY <3>1, <3>2 DEF SkillsOf
    <2> HIDE DEF found
    <2>4. \A s \in SkillsOf(S) : Answers(r.ref, s)
      BY <2>1, <2>2 DEF SkillsOf
    <2> QED
      BY <2>1, <2>3, <2>4 DEF Fits
  <1> QED
    BY <1>1, <1>2

\* Only remove comes to a plan of its own.
LEMMA RemovalLabels ==
    ASSUME NEW j, NEW n, JobOK(j), Goes(j, n)
    PROVE  /\ n.pc = "plan" => GoesSelecting(j, n)
           /\ n.pc = "rm" => GoesPlanning(j, n) \/ GoesRemoving(j, n)
  <1>0. j \in Job
    BY DEF JobOK
  <1>1. ASSUME NEW r \in AllRequests, Begins(r, n)
        PROVE  n.pc \notin {"plan", "rm"}
    <2>1. r.op \in {"get", "deps", "remove"}
      BY RequestIs
    <2>2. r.op # "get" => [Fresh(r) EXCEPT !.pc = r.op].pc = r.op
      BY StartedIs
    <2>3. r.op = "get" => \A k \in Catalogue : Previewed(r, k).pc = "preview"
      BY PreviewedIs
    <2>4. Finish(Fresh(r), "failed").pc = "idle"
      BY FreshIs DEF Finish, Job
    <2> QED
      BY <1>1, <2>1, <2>2, <2>3, <2>4 DEF Begins
  <1>2. GoesFinding(j, n) \/ GoesPreviewing(j, n) => n.pc \notin {"plan", "rm"}
    BY <1>0 DEF GoesFinding, GoesPreviewing, Loading, Scanned, Compared, Job
  <1>3. j.pc = "confirm" /\ n = Installing(j) => n.pc \notin {"plan", "rm"}
    BY InstallingIs
  <1>4. n = Finish(j, "refused") \/ n = Finish(j, "failed") => n.pc \notin {"plan", "rm"}
    BY <1>0 DEF Finish, Job
  <1>5. GoesWriting(j, n) => n.pc \notin {"plan", "rm"}
    <2>1. ASSUME NEW f, j.pc = "install", n = Skipping(j, f)
          PROVE  n.pc = "install"
      BY <1>0, <2>1 DEF Skipping, Job
    <2>2. ASSUME NEW f, n = Wrote(Filling(j, f))
          PROVE  n.pc = "fill"
      BY <1>0, <2>2 DEF Filling, Wrote, Job
    <2>3. ASSUME n = Wrote(Filled(j))
          PROVE  n.pc = "install"
      BY <1>0, <2>3 DEF Filled, Wrote, Job
    <2> QED
      BY <2>1, <2>2, <2>3 DEF GoesWriting
  <1>6. GoesOn(j, n) => n.pc \notin {"plan", "rm"}
    <2>1. ASSUME NEW i, Advances(j, i), n \in {i, Wrote(i)}, j.pc = "install"
          PROVE  n.pc \notin {"plan", "rm"}
      <3>1. i \in Job /\ i.pc \in {"install", "idle"}
        BY <2>1, NextSkillIs, NextRootIs, EndedIs DEF Advances, JobOK
      <3> QED
        BY <2>1, <3>1 DEF Wrote, Job
    <2> QED
      BY <2>1 DEF GoesOn
  <1>7. GoesSelecting(j, n) => n.pc = "plan"
    BY <1>0 DEF GoesSelecting, Selecting, Job
  <1>8. GoesPlanning(j, n) => n.pc = "rm"
    BY <1>0 DEF GoesPlanning, RemovalOf, Removing, Job
  <1>9. GoesRemoving(j, n) => n.pc # "plan"
    BY <1>0 DEF GoesRemoving, RemoveNext, RemoveEnd, Finish, Wrote, Job
  <1> QED
    BY <1>1, <1>2, <1>3, <1>4, <1>5, <1>6, <1>7, <1>8, <1>9 DEF Goes

LEMMA SelectionGoes ==
    ASSUME NEW j, NEW n, JobOK(j), JobOK(n), Goes(j, n)
    PROVE  SelectionFits(n)
  <1>0. j \in Job
    BY DEF JobOK
  <1>1. CASE GoesSelecting(j, n)
    <2> DEFINE t == Head(j.left)
    <2>1. PICK S \in LocalSelections(j.req.ref, Installed(t), j.req.tty) : n = Selecting(j, t, S)
      BY <1>1 DEF GoesSelecting
    <2>2. j.req \in AllRequests /\ t \in Targets
      BY <1>1 DEF GoesSelecting, JobOK
    <2>3. n.req = j.req /\ n.selected = SkillsOf(S) /\ n.left = j.left /\ n.seen[t] = Listed(t)
      BY <1>0, <2>1, <2>2 DEF Selecting, Job
    <2> QED
      BY <2>2, <2>3, SelectedFits DEF SelectionFits
  <1>2. CASE n.pc # "plan"
    BY <1>2 DEF SelectionFits
  <1>3. GoesSelecting(j, n) \/ n.pc # "plan"
    BY RemovalLabels
  <1> QED
    BY <1>1, <1>2, <1>3

Asks(j) == RootSuits(j) /\ SelectionFits(j)

LEMMA AsksStep ==
    ASSUME Typed, \A p \in Procs : Asks(job[p]), [Next]_vars
    PROVE  \A p \in Procs : Asks(job'[p])
  <1>1. CASE UNCHANGED vars
    BY <1>1 DEF vars
  <1>2. CASE Next
    <2>1. PICK p \in Procs : Moves(p)
      BY <1>2, NextIsStep, StepMoves
    <2>2. Asks(job'[p])
      BY <2>1, RootGoes, SelectionGoes DEF Moves, Typed, Asks
    <2>3. ASSUME NEW q \in Procs, q # p
          PROVE  Asks(job'[q])
      <3>1. job[q] \in Job /\ Asks(job[q])
        BY DEF Typed
      <3>2. job'[q] \in {job[q], [job[q] EXCEPT !.disturbed = TRUE]}
        BY <2>1, <2>3 DEF Moves
      <3> QED
        BY <3>1, <3>2 DEF Asks, RootSuits, SelectionFits, Job
    <2> QED
      BY <2>2, <2>3
  <1> QED
    BY <1>1, <1>2

\* get and deps act on a skill that answers to the reference, at the version
\* asked for, and remove on installed skills that do, never where a second one
\* answers and nobody chose.
THEOREM ReferenceTheorem == Spec => []ActsOnWhatWasAsked
  <1> DEFINE AllAsk == \A p \in Procs : Asks(job[p])
  <1>1. Init => AllAsk
    BY DEF Init, Idle, Asks, RootSuits, SelectionFits
  <1>2. Typed /\ AllAsk /\ [Next]_vars => AllAsk'
    BY AsksStep
  <1>3. AllAsk => ActsOnWhatWasAsked
    BY DEF Asks, RootSuits, SelectionFits, Suits, Given, Fits, ActsOnWhatWasAsked
  <1> QED
    BY <1>1, <1>2, <1>3, TypedAlways, PTL DEF Spec

-----------------------------------------------------------------------------
(* What remove --deps leaves.                                              *)

\* What a skill needs that is installed.
IsView(V, installed) ==
    /\ V \in [Skills -> SUBSET Skills] /\ installed \in SUBSET Skills
    /\ \A s \in Skills : V[s] # {} => s \in installed

LEMMA ViewIsView ==
    ASSUME NEW t
    PROVE  IsView(View(t), Listed(t))
  BY ViewIs, ListedAre DEF IsView, View

LEMMA SubtreeFacts ==
    ASSUME NEW S \in SUBSET Skills, NEW V \in [Skills -> SUBSET Skills]
    PROVE  Subtree(S, V) \in SUBSET Skills /\ S \subseteq Subtree(S, V)
  BY DEF Subtree

\* What the loop of buildRemovePlan keeps true.
Closed(S, V, T) ==
    S \subseteq T /\ \A x \in Subtree(S, V) : ParentsOf(x, V) \subseteq T => x \in T

LEMMA RemovableFacts ==
    ASSUME NEW S \in SUBSET Skills, NEW V \in [Skills -> SUBSET Skills]
    PROVE  /\ Removable(S, V) \in SUBSET Subtree(S, V)
           /\ \A T \in SUBSET Skills : Closed(S, V, T) => Removable(S, V) \subseteq T
           /\ Closed(S, V, Removable(S, V))
  <1> DEFINE Sub == Subtree(S, V)  R == Removable(S, V)
  <1>1. R = {s \in Sub : \A T \in SUBSET Skills : Closed(S, V, T) => s \in T}
    BY DEF Removable, Closed
  <1>2. S \subseteq Sub /\ Sub \in SUBSET Skills
    BY SubtreeFacts
  <1>3. S \subseteq R
    BY <1>1, <1>2 DEF Closed
  <1>4. ASSUME NEW x \in Sub, ParentsOf(x, V) \subseteq R
        PROVE  x \in R
    <2>1. ASSUME NEW T \in SUBSET Skills, Closed(S, V, T)
          PROVE  x \in T
      BY <1>1, <1>4, <2>1 DEF Closed
    <2> QED
      BY <1>1, <2>1
  <1> QED
    BY <1>1, <1>3, <1>4 DEF Closed

\* What stays, and what it reaches.
Spares(S, V, installed, T) ==
    installed \ Subtree(S, V) \subseteq T /\ \A x \in T : V[x] \ S \subseteq T

LEMMA StillNeededFacts ==
    ASSUME NEW S \in SUBSET Skills, NEW V, NEW installed, IsView(V, installed)
    PROVE  LET N == StillNeeded(S, V, installed) IN
           /\ N \in SUBSET Skills
           /\ \A T \in SUBSET Skills : Spares(S, V, installed, T) => N \subseteq T
           /\ Spares(S, V, installed, N)
  <1> DEFINE N == StillNeeded(S, V, installed)
  <1>1. N = {s \in Skills : \A T \in SUBSET Skills : Spares(S, V, installed, T) => s \in T}
    BY DEF StillNeeded, Spares
  <1>2. installed \ Subtree(S, V) \subseteq N
    BY <1>1 DEF Spares, IsView
  <1>3. ASSUME NEW x \in N, NEW y \in V[x] \ S
        PROVE  y \in N
    <2>1. ASSUME NEW T \in SUBSET Skills, Spares(S, V, installed, T)
          PROVE  y \in T
      BY <1>1, <1>3, <2>1 DEF Spares
    <2>2. y \in Skills
      BY <1>1 DEF IsView
    <2> QED
      BY <1>1, <2>1, <2>2
  <1> QED
    BY <1>1, <1>2, <1>3 DEF Spares

\* The skills that are still needed are those outside the subtree and what
\* they need themselves.
LEMMA NeededFrom ==
    ASSUME NEW S \in SUBSET Skills, NEW V, NEW installed, IsView(V, installed),
           NEW x \in StillNeeded(S, V, installed)
    PROVE  /\ x \notin S
           /\ \/ x \in installed \ Subtree(S, V)
              \/ \E y \in StillNeeded(S, V, installed) : x \in V[y]
  <1> DEFINE N == StillNeeded(S, V, installed)
  <1>1. /\ N \in SUBSET Skills
        /\ \A T \in SUBSET Skills : Spares(S, V, installed, T) => N \subseteq T
        /\ Spares(S, V, installed, N)
    BY StillNeededFacts
  <1>2. S \subseteq Subtree(S, V)
    BY SubtreeFacts DEF IsView
  <1> HIDE DEF N
  <1>3. x \notin S
    <2>1. Spares(S, V, installed, N \ S)
      BY <1>1, <1>2 DEF Spares
    <2> QED
      BY <1>1, <2>1 DEF N
  <1>4. x \in installed \ Subtree(S, V) \/ \E y \in N : x \in V[y]
    <2>1. SUFFICES ASSUME x \notin installed \ Subtree(S, V), \A y \in N : x \notin V[y]
                   PROVE  FALSE
      OBVIOUS
    <2>2. Spares(S, V, installed, N \ {x})
      BY <1>1, <2>1 DEF Spares
    <2> QED
      BY <1>1, <2>2 DEF N
  <1> QED
    BY <1>3, <1>4 DEF N

\* Nothing is removed that is still needed.
LEMMA NeededStays ==
    ASSUME NEW S \in SUBSET Skills, NEW V, NEW installed, IsView(V, installed)
    PROVE  Removable(S, V) \cap StillNeeded(S, V, installed) = {}
  <1> DEFINE N == StillNeeded(S, V, installed)  Sub == Subtree(S, V)
             T == Sub \ N
  <1>1. S \subseteq Sub /\ Sub \in SUBSET Skills
    BY SubtreeFacts DEF IsView
  <1>2. \A x \in N : x \notin S /\ (x \in installed \ Sub \/ \E y \in N : x \in V[y])
    BY NeededFrom
  <1>3. N \in SUBSET Skills
    BY StillNeededFacts
  <1> HIDE DEF N, Sub
  <1>4. ASSUME NEW x \in Sub, ParentsOf(x, V) \subseteq T
        PROVE  x \in T
    BY <1>2, <1>3, <1>4 DEF ParentsOf
  <1>5. Closed(S, V, T)
    BY <1>1, <1>2, <1>4 DEF Closed, Sub
  <1>6. Removable(S, V) \subseteq T
    BY <1>1, <1>5, RemovableFacts DEF IsView
  <1> QED
    BY <1>6 DEF N

\* In a finite set where everyone has a parent some subset has only parents.
LEMMA CycleExists ==
    ASSUME NEW V \in [Skills -> SUBSET Skills], NEW B \in SUBSET Skills, B # {},
           \A x \in B : \E y \in B : x \in V[y]
    PROVE  Cyclic(V)
  <1> DEFINE Fed(C) == C # {} /\ \A x \in C : \E y \in C : x \in V[y]
             F == {C \in SUBSET B : Fed(C)}
  <1>1. IsWellFoundedOn(StrictSubsetOrdering(B), SUBSET B)
    <2>1. IsFiniteSet(B)
      BY SkillsAssumption, FS_Subset
    <2> QED
      BY <2>1, FS_StrictSubsetOrderingWellFounded, FS_FiniteSubsetsOfFinite
  <1>2. F \subseteq SUBSET B /\ F # {}
    OBVIOUS
  <1>3. PICK C \in F : \A D \in F : ~(<<D, C>> \in StrictSubsetOrdering(B))
    <2> HIDE DEF F
    <2> QED
      BY <1>1, <1>2, WFMin
  <1>4. C \in SUBSET B /\ C # {} /\ \A x \in C : \E y \in C : x \in V[y]
    BY <1>3
  <1>5. ASSUME NEW y \in C, V[y] \cap C = {}
        PROVE  FALSE
    <2> DEFINE D == C \ {y}
    <2>1. \A x \in C : \E z \in D : x \in V[z]
      BY <1>4, <1>5
    <2>2. D \in F
      BY <1>4, <2>1
    <2>3. <<D, C>> \in StrictSubsetOrdering(B)
      BY <1>4, <1>5 DEF StrictSubsetOrdering
    <2> QED
      BY <1>3, <2>2, <2>3
  <1> QED
    BY <1>4, <1>5 DEF Cyclic

\* Without a cycle everything else of the subtree is removed.
LEMMA NothingElseStays ==
    ASSUME NEW S \in SUBSET Skills, NEW V, NEW installed, IsView(V, installed), ~Cyclic(V)
    PROVE  Removable(S, V) = S \cup (Subtree(S, V) \ StillNeeded(S, V, installed))
  <1> DEFINE N == StillNeeded(S, V, installed)  Sub == Subtree(S, V)  R == Removable(S, V)
             B == (Sub \ N) \ R
  <1>1. S \subseteq Sub /\ Sub \in SUBSET Skills
    BY SubtreeFacts DEF IsView
  <1>2. R \in SUBSET Sub /\ S \subseteq R /\ \A x \in Sub : ParentsOf(x, V) \subseteq R => x \in R
    BY RemovableFacts DEF IsView, Closed
  <1>3. R \cap N = {}
    BY NeededStays
  <1>4. installed \ Sub \subseteq N /\ \A x \in N : V[x] \ S \subseteq N
    BY StillNeededFacts DEF Spares
  <1>5. V \in [Skills -> SUBSET Skills] /\ \A s \in Skills : V[s] # {} => s \in installed
    BY DEF IsView
  <1> HIDE DEF N, Sub, R
  <1>6. ASSUME NEW x \in B
        PROVE  \E y \in B : x \in V[y]
    <2>1. PICK y \in ParentsOf(x, V) : y \notin R
      BY <1>2
    <2>2. y \in Skills /\ x \in V[y] /\ y \in installed
      BY <1>5 DEF ParentsOf
    <2>3. y \notin N
      BY <1>2, <1>4, <2>2
    <2>4. y \in Sub
      BY <1>4, <2>2, <2>3
    <2> QED
      BY <2>1, <2>2, <2>3, <2>4
  <1>7. B = {}
    <2>1. SUFFICES ASSUME B # {} PROVE FALSE
      OBVIOUS
    <2>2. B \in SUBSET Skills
      BY <1>1
    <2> HIDE DEF B
    <2> QED
      BY <1>5, <1>6, <2>1, <2>2, CycleExists
  <1>8. R = S \cup (Sub \ N)
    BY <1>1, <1>2, <1>3, <1>7
  <1> QED
    BY <1>8 DEF R, Sub, N

\* A plan keeps what is needed and, without a cycle, nothing else.
PlansRight(S, seen, V, plan) ==
    /\ plan \cap StillNeeded(S, V, seen) \subseteq S
    /\ ~Cyclic(V) => plan = S \cup (Subtree(S, V) \ StillNeeded(S, V, seen))
RemovalFits(j) ==
    j.pc = "rm" /\ j.req.deps =>
        PlansRight(j.selected \cap j.seen[Head(j.left)], j.seen[Head(j.left)], j.view, j.plan)

LEMMA PlannedRight ==
    ASSUME NEW t, NEW S \in SUBSET Skills
    PROVE  PlansRight(S, Listed(t), View(t), Removable(S, View(t)))
  <1>1. IsView(View(t), Listed(t))
    BY ViewIsView
  <1>2. Removable(S, View(t)) \cap StillNeeded(S, View(t), Listed(t)) = {}
    BY <1>1, NeededStays
  <1>3. ~Cyclic(View(t)) =>
          Removable(S, View(t)) = S \cup (Subtree(S, View(t)) \ StillNeeded(S, View(t), Listed(t)))
    BY <1>1, NothingElseStays
  <1> QED
    BY <1>2, <1>3 DEF PlansRight

LEMMA RemovalGoes ==
    ASSUME NEW j, NEW n, JobOK(j), JobOK(n), RemovalFits(j), Goes(j, n)
    PROVE  RemovalFits(n)
  <1>0. j \in Job
    BY DEF JobOK
  <1>1. CASE GoesPlanning(j, n)
    <2> DEFINE t == Head(j.left)  S == j.selected \cap Listed(t)
    <2>1. j.req \in AllRequests /\ t \in Targets /\ S \in SUBSET Skills
      BY <1>1, ListedAre DEF GoesPlanning, JobOK
    <2>2. n = Removing(j, t, View(t), Planned(j, S, View(t)))
      BY <1>1 DEF GoesPlanning, RemovalOf
    <2>3. /\ n.req = j.req /\ n.selected = j.selected /\ n.left = j.left
          /\ n.seen[t] = Listed(t) /\ n.view = View(t) /\ n.plan = Planned(j, S, View(t))
      BY <1>0, <2>1, <2>2 DEF Removing, Job
    <2>4. n.selected \cap n.seen[Head(n.left)] = S /\ n.seen[Head(n.left)] = Listed(t)
      BY <2>3
    <2>5. n.req.deps => n.plan = Removable(S, View(t))
      BY <2>3 DEF Planned
    <2>6. PlansRight(S, Listed(t), View(t), Removable(S, View(t)))
      BY <2>1, PlannedRight
    <2> QED
      BY <2>3, <2>4, <2>5, <2>6 DEF RemovalFits
  <1>2. CASE GoesRemoving(j, n) /\ n.pc = "rm"
    <2>1. n.pc = "rm" => (j.pc = "rm" /\ (n = Wrote(j) \/ \E s : n = [j EXCEPT !.doomed = j.doomed \ {s}]))
      BY <1>0, <1>2 DEF GoesRemoving, RemoveNext, RemoveEnd, Finish, Job
    <2>2. /\ n.req = j.req /\ n.selected = j.selected /\ n.left = j.left
          /\ n.seen = j.seen /\ n.view = j.view /\ n.plan = j.plan
      BY <1>0, <1>2, <2>1 DEF Wrote, Job
    <2> QED
      BY <1>2, <2>1, <2>2 DEF RemovalFits
  <1>3. CASE n.pc # "rm"
    BY <1>3 DEF RemovalFits
  <1>4. GoesPlanning(j, n) \/ GoesRemoving(j, n) \/ n.pc # "rm"
    BY RemovalLabels
  <1> QED
    BY <1>1, <1>2, <1>3, <1>4

LEMMA RemovalStep ==
    ASSUME Typed, \A p \in Procs : RemovalFits(job[p]), [Next]_vars
    PROVE  \A p \in Procs : RemovalFits(job'[p])
  <1>1. CASE UNCHANGED vars
    BY <1>1 DEF vars
  <1>2. CASE Next
    <2>1. PICK p \in Procs : Moves(p)
      BY <1>2, NextIsStep, StepMoves
    <2>2. RemovalFits(job'[p])
      BY <2>1, RemovalGoes DEF Moves, Typed
    <2>3. ASSUME NEW q \in Procs, q # p
          PROVE  RemovalFits(job'[q])
      <3>1. job[q] \in Job /\ RemovalFits(job[q])
        BY DEF Typed
      <3>2. job'[q] \in {job[q], [job[q] EXCEPT !.disturbed = TRUE]}
        BY <2>1, <2>3 DEF Moves
      <3>3. /\ job'[q].pc = job[q].pc /\ job'[q].req = job[q].req
            /\ job'[q].selected = job[q].selected /\ job'[q].left = job[q].left
            /\ job'[q].seen = job[q].seen /\ job'[q].view = job[q].view
            /\ job'[q].plan = job[q].plan
        BY <3>1, <3>2 DEF Job
      <3> QED
        BY <3>1, <3>3 DEF RemovalFits
    <2> QED
      BY <2>2, <2>3
  <1> QED
    BY <1>1, <1>2

\* remove --deps removes nothing that a skill which stays needs, except what it
\* was told to, and without a cycle all the rest of the subtree.
THEOREM RemovalTheorem == Spec => []RemovesWhatNothingNeeds
  <1> DEFINE AllFit == \A p \in Procs : RemovalFits(job[p])
  <1>1. Init => AllFit
    BY DEF Init, Idle, RemovalFits
  <1>2. Typed /\ AllFit /\ [Next]_vars => AllFit'
    BY RemovalStep
  <1>3. AllFit => RemovesWhatNothingNeeds
    BY DEF RemovalFits, PlansRight, RemovesWhatNothingNeeds
  <1> QED
    BY <1>1, <1>2, <1>3, TypedAlways, PTL DEF Spec

-----------------------------------------------------------------------------
(* The order in which an installation goes through its work.               *)

LEMMA ElementsOfTail ==
    ASSUME NEW S, NEW s \in Seq(S), s # <<>>
    PROVE  /\ Elements(s) = {Head(s)} \cup Elements(Tail(s))
           /\ Len(s) = 1 => Elements(s) = {Head(s)}
           /\ ~(Len(s) > 1) => Elements(Tail(s)) = {}
           /\ Tail(s) = <<>> => Elements(Tail(s)) = {}
  <1>1. /\ Len(s) \in Nat \ {0} /\ Head(s) = s[1] /\ Tail(s) \in Seq(S)
        /\ Len(Tail(s)) = Len(s) - 1 /\ \A i \in 1..(Len(s) - 1) : Tail(s)[i] = s[i + 1]
    BY EmptySeq, HeadTailProperties
  <1>2. DOMAIN s = 1..Len(s) /\ DOMAIN Tail(s) = 1..(Len(s) - 1)
    BY <1>1
  <1>3. \A i \in DOMAIN s : s[i] \in {s[1]} \cup Elements(Tail(s))
    <2>1. ASSUME NEW i \in DOMAIN s, i # 1
          PROVE  s[i] \in Elements(Tail(s))
      <3>1. i - 1 \in 1..(Len(s) - 1) /\ (i - 1) + 1 = i
        BY <1>1, <1>2, <2>1
      <3> QED
        BY <1>1, <1>2, <3>1 DEF Elements
    <2> QED
      BY <2>1
  <1>4. \A i \in DOMAIN Tail(s) : Tail(s)[i] \in Elements(s)
    <2>1. ASSUME NEW i \in DOMAIN Tail(s)
          PROVE  i + 1 \in DOMAIN s /\ Tail(s)[i] = s[i + 1]
      BY <1>1, <1>2
    <2> QED
      BY <2>1 DEF Elements
  <1>5. s[1] \in Elements(s)
    BY <1>1, <1>2 DEF Elements
  <1>6. Elements(s) = {Head(s)} \cup Elements(Tail(s))
    BY <1>1, <1>3, <1>4, <1>5 DEF Elements
  <1>7. ~(Len(s) > 1) => Elements(Tail(s)) = {}
    BY <1>1, <1>2 DEF Elements
  <1>8. Tail(s) = <<>> => Elements(Tail(s)) = {}
    BY DEF Elements
  <1> QED
    BY <1>1, <1>6, <1>7, <1>8

\* A plan has each skill in one version.
OneVersion(nodes) == \A k, l \in Elements(nodes) : k[1] = l[1] => k = l

LEMMA PlanHasOneVersion ==
    ASSUME NEW k \in Catalogue, NEW r
    PROVE  OneVersion(Plan[k]) /\ OneVersion(NodesOf(r, k))
  <1>1. OneVersion(Plan[k])
    <2>1. \A h, i \in DOMAIN Plan[k] : Plan[k][h][1] = Plan[k][i][1] => h = i
      BY PlanAssumption DEF Catalogue
    <2>2. \A n \in Elements(Plan[k]) : \E i \in DOMAIN Plan[k] : n = Plan[k][i]
      BY DEF Elements
    <2> QED
      BY <2>1, <2>2 DEF OneVersion
  <1>2. OneVersion(<<k>>)
    BY DEF OneVersion, Elements
  <1> QED
    BY <1>1, <1>2 DEF NodesOf

OrderOf(pc, req, nodes, left, scan, compare, todo, files, file) ==
    /\ pc \in {"deps", "preview", "confirm"} => left = TargetsOf(req.tools)
    /\ pc = "confirm" => scan = {} /\ compare = {}
    /\ pc \in {"preview", "confirm", "install", "fill"} => OneVersion(nodes)
    /\ pc \in {"install", "fill"} =>
          Elements(todo) \subseteq Elements(nodes) /\ files \subseteq FilesFor(req, Head(todo))
    /\ pc = "fill" => file \in files
InOrder(j) ==
    OrderOf(j.pc, j.req, j.nodes, j.left, j.scan, j.compare, j.todo, j.files, j.file)

LEMMA NoOrder ==
    ASSUME NEW n, n.pc \in {"idle", "remove", "plan", "rm"}
    PROVE  InOrder(n)
  BY DEF InOrder, OrderOf

LEMMA OrderGoes ==
    ASSUME NEW j, NEW n, JobOK(j), JobOK(n), InOrder(j), Goes(j, n)
    PROVE  InOrder(n)
  <1>0. j \in Job
    BY DEF JobOK
  <1>1. ASSUME NEW r \in AllRequests, Begins(r, n)
        PROVE  InOrder(n)
    <2>1. CASE r.op = "get" /\ \E k \in Selection(r) \cap Catalogue : n = Previewed(r, k)
      <3>1. PICK k \in Catalogue : n = Previewed(r, k)
        BY <2>1
      <3>2. n.pc = "preview" /\ n.left = TargetsOf(r.tools) /\ n.nodes = NodesOf(r, k) /\ n.req = r
        BY <2>1, <3>1, PreviewedIs
      <3> QED
        BY <3>2, PlanHasOneVersion DEF InOrder, OrderOf
    <2>2. CASE r.op # "get" /\ n = [Fresh(r) EXCEPT !.pc = r.op]
      <3>1. n.pc \in {"deps", "remove"} /\ n.left = TargetsOf(r.tools) /\ n.req = r
        BY <2>2, StartedIs, RequestIs
      <3> QED
        BY <3>1 DEF InOrder, OrderOf
    <2>3. CASE n = Finish(Fresh(r), "failed")
      <3>1. n.pc = "idle"
        BY <2>3, FreshIs DEF Finish, Job
      <3> QED
        BY <3>1, NoOrder
    <2> QED
      BY <1>1, <2>1, <2>2, <2>3 DEF Begins
  <1>2. CASE GoesFinding(j, n)
    <2>1. PICK d \in Catalogue : n = Loading(j, d)
      BY <1>2 DEF GoesFinding
    <2>2. n.pc = "preview" /\ n.left = j.left /\ n.nodes = Plan[d] /\ n.req = j.req /\ j.pc = "deps"
      BY <1>0, <1>2, <2>1 DEF GoesFinding, Loading, Job
    <2> QED
      BY <2>2, PlanHasOneVersion DEF InOrder, OrderOf
  <1>3. CASE GoesPreviewing(j, n)
    <2>1. n.left = j.left /\ n.nodes = j.nodes /\ n.req = j.req /\ n.pc \in {"preview", "confirm"}
      BY <1>0, <1>3 DEF GoesPreviewing, Scanned, Compared, Job
    <2>2. n.pc = "confirm" => n.scan = {} /\ n.compare = {}
      <3>1. ASSUME NEW t, n = Scanned(j, t), j.pc = "preview"
            PROVE  n.pc = "preview"
        BY <1>0, <3>1 DEF Scanned, Job
      <3>2. ASSUME NEW t, n = Compared(j, t), n.pc = "confirm"
            PROVE  n.scan = {} /\ n.compare = {}
        <4> DEFINE P == IF \E k \in Elements(j.nodes) : Overwrites(j, t, k)
                        THEN j.pending \cup {t} ELSE j.pending
        <4>1. n = [j EXCEPT !.compare = j.compare \ {t}, !.pending = P,
                            !.pc = IF j.scan = {} /\ j.compare = {t} THEN "confirm" ELSE "preview"]
          BY <3>2 DEF Compared
        <4> HIDE DEF P
        <4>2. /\ n.scan = j.scan /\ n.compare = j.compare \ {t}
              /\ n.pc = IF j.scan = {} /\ j.compare = {t} THEN "confirm" ELSE "preview"
          BY <1>0, <4>1 DEF Job
        <4> QED
          BY <3>2, <4>2
      <3> QED
        BY <1>3, <3>1, <3>2 DEF GoesPreviewing
    <2> QED
      BY <1>3, <2>1, <2>2 DEF InOrder, OrderOf, GoesPreviewing
  <1>4. CASE j.pc = "confirm" /\ n = Installing(j)
    <2>1. /\ n.pc = "install" /\ n.todo = j.nodes /\ n.files = FilesFor(j.req, j.nodes[1])
          /\ n.nodes = j.nodes /\ n.req = j.req
      BY <1>4, InstallingIs
    <2>2. j.nodes \in Seq(Keys) /\ j.nodes # <<>>
      BY <1>0, <1>4 DEF JobOK, Job
    <2>3. Head(j.nodes) = j.nodes[1]
      BY <2>2, ElementsIn
    <2> QED
      BY <1>4, <2>1, <2>3 DEF InOrder, OrderOf
  <1>5. CASE n = Finish(j, "refused") \/ n = Finish(j, "failed")
    <2>1. n.pc = "idle"
      BY <1>0, <1>5 DEF Finish, Job
    <2> QED
      BY <2>1, NoOrder
  <1>6. CASE GoesWriting(j, n)
    <2>1. /\ n.pc \in {"install", "fill"} /\ n.nodes = j.nodes /\ n.req = j.req /\ n.todo = j.todo
          /\ n.files \subseteq j.files /\ (n.pc = "fill" => n.file \in n.files)
      <3>1. ASSUME NEW f, j.pc = "install", n = Skipping(j, f)
            PROVE  /\ n.pc = "install" /\ n.nodes = j.nodes /\ n.req = j.req /\ n.todo = j.todo
                   /\ n.files \subseteq j.files
        BY <1>0, <3>1 DEF Skipping, Job
      <3>2. ASSUME NEW f \in j.files, n = Wrote(Filling(j, f))
            PROVE  /\ n.pc = "fill" /\ n.nodes = j.nodes /\ n.req = j.req /\ n.todo = j.todo
                   /\ n.files = j.files /\ n.file = f
        BY <1>0, <3>2 DEF Filling, Wrote, Job
      <3>3. ASSUME n = Wrote(Filled(j))
            PROVE  /\ n.pc = "install" /\ n.nodes = j.nodes /\ n.req = j.req /\ n.todo = j.todo
                   /\ n.files \subseteq j.files
        BY <1>0, <3>3 DEF Filled, Wrote, Job
      <3> QED
        BY <1>6, <3>1, <3>2, <3>3 DEF GoesWriting
    <2>2. j.pc \in {"install", "fill"}
      BY <1>6 DEF GoesWriting
    <2> QED
      BY <2>1, <2>2 DEF InOrder, OrderOf
  <1>7. CASE GoesOn(j, n)
    <2>1. PICK i : Advances(j, i) /\ n \in {i, Wrote(i)} /\ j.pc = "install"
      BY <1>7 DEF GoesOn
    <2>2. j.nodes \in Seq(Keys) /\ j.nodes # <<>> /\ j.todo \in Seq(Keys) /\ j.todo # <<>>
      BY <1>0, <2>1 DEF JobOK, Job
    <2>3. Elements(Tail(j.todo)) \subseteq Elements(j.todo) /\ Head(j.nodes) = j.nodes[1]
      BY <2>2, ElementsOfTail, ElementsIn
    <2>4. \/ /\ i.pc = "install" /\ i.nodes = j.nodes /\ i.req = j.req
             /\ \/ i.todo = Tail(j.todo) /\ i.files = FilesFor(j.req, Head(Tail(j.todo)))
                \/ i.todo = j.nodes /\ i.files = FilesFor(j.req, j.nodes[1])
          \/ i.pc = "idle"
      BY <2>1, NextSkillIs, NextRootIs, EndedIs DEF Advances
    <2>5. i \in Job
      BY <2>1, NextSkillIs, NextRootIs, EndedIs DEF Advances, JobOK
    <2>6. n.pc = i.pc /\ n.nodes = i.nodes /\ n.req = i.req /\ n.todo = i.todo /\ n.files = i.files
      BY <2>1, <2>5 DEF Wrote, Job
    <2> QED
      BY <2>1, <2>3, <2>4, <2>6 DEF InOrder, OrderOf
  <1>8. CASE GoesSelecting(j, n) \/ GoesPlanning(j, n) \/ GoesRemoving(j, n)
    <2>1. GoesSelecting(j, n) => n.pc = "plan"
      BY <1>0 DEF GoesSelecting, Selecting, Job
    <2>2. GoesPlanning(j, n) => n.pc = "rm"
      BY <1>0 DEF GoesPlanning, RemovalOf, Removing, Job
    <2>3. GoesRemoving(j, n) => n.pc \in {"remove", "rm", "idle"}
      BY <1>0 DEF GoesRemoving, RemoveNext, RemoveEnd, Finish, Wrote, Job
    <2> QED
      BY <1>8, <2>1, <2>2, <2>3, NoOrder
  <1> QED
    BY <1>1, <1>2, <1>3, <1>4, <1>5, <1>6, <1>7, <1>8 DEF Goes

LEMMA OrderStep ==
    ASSUME Typed, \A p \in Procs : InOrder(job[p]), [Next]_vars
    PROVE  \A p \in Procs : InOrder(job'[p])
  <1>1. CASE UNCHANGED vars
    BY <1>1 DEF vars
  <1>2. CASE Next
    <2>1. PICK p \in Procs : Moves(p)
      BY <1>2, NextIsStep, StepMoves
    <2>2. InOrder(job'[p])
      BY <2>1, OrderGoes DEF Moves, Typed
    <2>3. ASSUME NEW q \in Procs, q # p
          PROVE  InOrder(job'[q])
      <3>1. job[q] \in Job /\ InOrder(job[q])
        BY DEF Typed
      <3>2. job'[q] \in {job[q], [job[q] EXCEPT !.disturbed = TRUE]}
        BY <2>1, <2>3 DEF Moves
      <3>3. /\ job'[q].pc = job[q].pc /\ job'[q].req = job[q].req /\ job'[q].nodes = job[q].nodes
            /\ job'[q].left = job[q].left /\ job'[q].scan = job[q].scan
            /\ job'[q].compare = job[q].compare /\ job'[q].todo = job[q].todo
            /\ job'[q].files = job[q].files /\ job'[q].file = job[q].file
        BY <3>1, <3>2 DEF Job
      <3> QED
        BY <3>1, <3>3 DEF InOrder
    <2> QED
      BY <2>2, <2>3
  <1> QED
    BY <1>1, <1>2

-----------------------------------------------------------------------------
(* What a get has looked at before it writes, another command aside.       *)

ListedIn(D, L, t) == {s \in Skills : <<t, s>> \notin L /\ D[<<t, s>>].md # None}

\* Every skill of the plan that was installed in t is there as it is planned.
Agrees(D, L, nodes, before, t) ==
    \A k \in Elements(nodes) : k[1] \in before[t] =>
        <<t, k[1]>> \notin L /\ \A f \in FilesOf(k) : D[<<t, k[1]>>][f] = k[2]

\* Nothing has changed since the command began; a target that was compared
\* needs a confirmation or agrees with the plan.
Looked(D, L, before, seen, nodes, left, scan, compare, pending) ==
    \A t \in Elements(left) :
        \/ t \in scan
        \/ /\ seen[t] = ListedIn(D, L, t)
           /\ t \in compare \/ t \in pending \/ Agrees(D, L, nodes, before, t)
Settled(D, L, before, nodes, left, confirmed) ==
    \A t \in Elements(left) : t \in confirmed \/ Agrees(D, L, nodes, before, t)
Foreseen(D, L, j) ==
    ~j.disturbed =>
        /\ j.pc \in {"deps", "preview", "confirm"} =>
              j.before = [t \in Targets |-> ListedIn(D, L, t)]
        /\ j.pc \in {"preview", "confirm"} =>
              Looked(D, L, j.before, j.seen, j.nodes, j.left, j.scan, j.compare, j.pending)
        /\ j.pc \in {"install", "fill"} =>
              Settled(D, L, j.before, j.nodes, j.left, j.confirmed)

LEMMA NothingForeseen ==
    ASSUME NEW D, NEW L, NEW n, n.pc \in {"idle", "remove", "plan", "rm"} \/ n.disturbed
    PROVE  Foreseen(D, L, n)
  BY DEF Foreseen

LEMMA ListedIsIn ==
    ASSUME NEW t
    PROVE  Listed(t) = ListedIn(dir, link, t)
  BY DEF Listed, ListedIn

\* A target that needs no confirmation agrees with the plan.
LEMMA ComparedAgrees ==
    ASSUME Typed, NEW j \in Job, NEW t \in Targets, j.seen[t] = ListedIn(dir, link, t),
           j.before[t] = ListedIn(dir, link, t), \A k \in Elements(j.nodes) : ~Overwrites(j, t, k)
    PROVE  Agrees(dir, link, j.nodes, j.before, t)
  <1>1. ASSUME NEW k \in Elements(j.nodes), k[1] \in j.before[t]
        PROVE  <<t, k[1]>> \notin link /\ \A f \in FilesOf(k) : dir[<<t, k[1]>>][f] = k[2]
    <2>1. ~Differs(t, k)
      BY <1>1 DEF Overwrites
    <2>2. <<t, k[1]>> \notin link
      BY <1>1 DEF ListedIn
    <2>3. Place(t, k[1]) = <<t, k[1]>>
      BY <2>2 DEF Place
    <2> QED
      BY <2>1, <2>2, <2>3 DEF Differs, At
  <1> QED
    BY <1>1 DEF Agrees

LEMMA ForeseenBegins ==
    ASSUME NEW r \in AllRequests, NEW n, Begins(r, n)
    PROVE  Foreseen(dir, link, n)
  <1>0. [t \in Targets |-> Listed(t)] = [t \in Targets |-> ListedIn(dir, link, t)]
    BY ListedIsIn
  <1>1. CASE r.op = "get" /\ \E k \in Selection(r) \cap Catalogue : n = Previewed(r, k)
    <2>1. PICK k \in Catalogue : n = Previewed(r, k)
      BY <1>1
    <2>2. /\ n.pc = "preview" /\ n.before = [t \in Targets |-> Listed(t)]
          /\ n.scan = Elements(n.left)
      BY <1>1, <2>1, PreviewedIs
    <2> QED
      BY <1>0, <2>2 DEF Foreseen, Looked
  <1>2. CASE r.op # "get" /\ n = [Fresh(r) EXCEPT !.pc = r.op]
    <2>1. n.pc \in {"deps", "remove"} /\ n.before = [t \in Targets |-> Listed(t)]
      BY <1>2, StartedIs, RequestIs
    <2> QED
      BY <1>0, <2>1 DEF Foreseen
  <1>3. CASE n = Finish(Fresh(r), "failed")
    <2>1. n.pc = "idle"
      BY <1>3, FreshIs DEF Finish, Job
    <2> QED
      BY <2>1, NothingForeseen
  <1> QED
    BY <1>1, <1>2, <1>3 DEF Begins

LEMMA ForeseenFinding ==
    ASSUME NEW j, NEW n, JobOK(j), InOrder(j), Foreseen(dir, link, j), GoesFinding(j, n)
    PROVE  Foreseen(dir, link, n)
  <1>1. PICK d \in Catalogue : n = Loading(j, d)
    BY DEF GoesFinding
  <1>2. j \in Job /\ j.pc = "deps" /\ j.req \in AllRequests /\ j.req.op = "deps"
        /\ j.left \in Seq(Targets) /\ j.left # <<>>
    BY DEF GoesFinding, JobOK, Job
  <1>3. /\ n.pc = "preview" /\ n.left = j.left /\ n.before = j.before
        /\ n.scan = {Head(j.left)} /\ n.disturbed = j.disturbed
    BY <1>1, <1>2 DEF Loading, Job
  <1>4. Len(j.left) = 1
    <2>1. j.left = TargetsOf(j.req.tools)
      BY <1>2 DEF InOrder, OrderOf
    <2>2. j.req.tools \in Seq(DOMAIN DirOf) /\ j.req.tools # <<>> /\ Len(j.req.tools) = 1
      BY <1>2, RequestIs
    <2> QED
      BY <2>1, <2>2, TargetsOfFacts
  <1>5. Elements(j.left) = {Head(j.left)}
    BY <1>2, <1>4, ElementsOfTail
  <1> QED
    BY <1>2, <1>3, <1>5 DEF Foreseen, Looked

LEMMA ForeseenScanned ==
    ASSUME NEW j, NEW t \in Targets, JobOK(j), j.pc = "preview", Foreseen(dir, link, j)
    PROVE  Foreseen(dir, link, Scanned(j, t))
  <1> DEFINE S == Listed(t)
             n == [j EXCEPT !.scan = j.scan \ {t}, !.compare = j.compare \cup {t},
                            !.seen[t] = S]
  <1>1. j \in Job /\ S = ListedIn(dir, link, t) /\ n = Scanned(j, t)
    BY ListedIsIn DEF JobOK, Scanned
  <1> HIDE DEF S
  <1>2. /\ n.pc = "preview" /\ n.left = j.left /\ n.before = j.before /\ n.nodes = j.nodes
        /\ n.scan = j.scan \ {t} /\ n.compare = j.compare \cup {t}
        /\ n.pending = j.pending /\ n.disturbed = j.disturbed /\ n.seen[t] = S
        /\ \A u \in Targets : u # t => n.seen[u] = j.seen[u]
    BY <1>1 DEF Job
  <1>3. Elements(j.left) \subseteq Targets
    BY <1>1, ElementsIn DEF Job
  <1> HIDE DEF n
  <1>4. ~j.disturbed =>
          Looked(dir, link, n.before, n.seen, n.nodes, n.left, n.scan, n.compare, n.pending)
    BY <1>1, <1>2, <1>3 DEF Foreseen, Looked
  <1>5. ~j.disturbed => n.before = [u \in Targets |-> ListedIn(dir, link, u)]
    BY <1>2 DEF Foreseen
  <1> QED
    BY <1>1, <1>2, <1>4, <1>5 DEF Foreseen

LEMMA ForeseenCompared ==
    ASSUME Typed, NEW j, NEW t \in j.compare, JobOK(j), j.pc = "preview",
           Foreseen(dir, link, j)
    PROVE  Foreseen(dir, link, Compared(j, t))
  <1> DEFINE P == IF \E k \in Elements(j.nodes) : Overwrites(j, t, k)
                  THEN j.pending \cup {t} ELSE j.pending
             l == IF j.scan = {} /\ j.compare = {t} THEN "confirm" ELSE "preview"
             n == [j EXCEPT !.compare = j.compare \ {t}, !.pending = P, !.pc = l]
  <1>1. j \in Job /\ n = Compared(j, t) /\ t \in Targets
    BY DEF JobOK, Compared, Job
  <1>2. /\ l \in {"preview", "confirm"} /\ j.pending \subseteq P
        /\ t \in P \/ \A k \in Elements(j.nodes) : ~Overwrites(j, t, k)
    OBVIOUS
  <1> HIDE DEF P, l
  <1>3. /\ n.pc = l /\ n.left = j.left /\ n.before = j.before /\ n.nodes = j.nodes
        /\ n.scan = j.scan /\ n.compare = j.compare \ {t}
        /\ n.pending = P /\ n.disturbed = j.disturbed /\ n.seen = j.seen
    BY <1>1 DEF Job
  <1>4. ~j.disturbed => j.before = [u \in Targets |-> ListedIn(dir, link, u)]
    BY DEF Foreseen
  <1> HIDE DEF n
  <1>5. ASSUME ~j.disturbed, NEW u \in Elements(j.left)
        PROVE  \/ u \in n.scan
               \/ /\ n.seen[u] = ListedIn(dir, link, u)
                  /\ u \in n.compare \/ u \in P \/ Agrees(dir, link, n.nodes, n.before, u)
    <2>1. CASE u # t
      BY <1>2, <1>3, <1>5, <2>1 DEF Foreseen, Looked
    <2>2. CASE u = t /\ u \notin j.scan
      <3>1. j.seen[t] = ListedIn(dir, link, t)
        BY <1>5, <2>2 DEF Foreseen, Looked
      <3>2. j.before[t] = ListedIn(dir, link, t)
        BY <1>1, <1>4, <1>5
      <3>3. t \in P \/ Agrees(dir, link, j.nodes, j.before, t)
        BY <1>1, <1>2, <3>1, <3>2, ComparedAgrees
      <3> QED
        BY <1>3, <2>2, <3>1, <3>3
    <2> QED
      BY <1>3, <2>1, <2>2
  <1>6. ~j.disturbed =>
          Looked(dir, link, n.before, n.seen, n.nodes, n.left, n.scan, n.compare, n.pending)
    BY <1>3, <1>5 DEF Looked
  <1> QED
    BY <1>1, <1>2, <1>3, <1>4, <1>6 DEF Foreseen

LEMMA ForeseenInstalling ==
    ASSUME NEW j, JobOK(j), InOrder(j), j.pc = "confirm", Foreseen(dir, link, j)
    PROVE  Foreseen(dir, link, Installing(j))
  <1> DEFINE n == Installing(j)
  <1>1. /\ n.pc = "install" /\ n.confirmed = j.pending /\ n.nodes = j.nodes
        /\ n.left = j.left /\ n.before = j.before /\ n.disturbed = j.disturbed
    BY InstallingIs
  <1>2. j.scan = {} /\ j.compare = {}
    BY DEF InOrder, OrderOf
  <1>3. ~j.disturbed => Settled(dir, link, j.before, j.nodes, j.left, j.pending)
    BY <1>2 DEF Foreseen, Looked, Settled
  <1> HIDE DEF n
  <1>4. Foreseen(dir, link, n)
    BY <1>1, <1>3 DEF Foreseen
  <1> QED
    BY <1>4 DEF n

\* While it writes, a command keeps what it knows and drops what it has done.
LEMMA WorkKeeps ==
    ASSUME NEW j, NEW n, JobOK(j), GoesWriting(j, n) \/ GoesOn(j, n)
    PROVE  /\ n.pc \in {"install", "fill", "idle"} /\ j.pc \in {"install", "fill"}
           /\ n.nodes = j.nodes /\ n.req = j.req /\ n.disturbed = j.disturbed
           /\ n.pc # "idle" => /\ n.before = j.before /\ n.confirmed = j.confirmed
                               /\ Elements(n.left) \subseteq Elements(j.left)
  <1>0. j \in Job /\ j.left \in Seq(Targets)
    BY DEF JobOK, Job
  <1>1. ASSUME NEW f, j.pc = "install", n = Skipping(j, f)
        PROVE  /\ n.pc = "install" /\ n.nodes = j.nodes /\ n.before = j.before /\ n.req = j.req
               /\ n.confirmed = j.confirmed /\ n.left = j.left /\ n.disturbed = j.disturbed
    BY <1>0, <1>1 DEF Skipping, Job
  <1>2. ASSUME NEW f, n = Wrote(Filling(j, f))
        PROVE  /\ n.pc = "fill" /\ n.nodes = j.nodes /\ n.before = j.before /\ n.req = j.req
               /\ n.confirmed = j.confirmed /\ n.left = j.left /\ n.disturbed = j.disturbed
    BY <1>0, <1>2 DEF Filling, Wrote, Job
  <1>3. ASSUME n = Wrote(Filled(j))
        PROVE  /\ n.pc = "install" /\ n.nodes = j.nodes /\ n.before = j.before /\ n.req = j.req
               /\ n.confirmed = j.confirmed /\ n.left = j.left /\ n.disturbed = j.disturbed
    BY <1>0, <1>3 DEF Filled, Wrote, Job
  <1>4. CASE GoesWriting(j, n)
    BY <1>1, <1>2, <1>3, <1>4 DEF GoesWriting
  <1>5. CASE GoesOn(j, n)
    <2>1. PICK i : Advances(j, i) /\ n \in {i, Wrote(i)} /\ j.pc = "install"
      BY <1>5 DEF GoesOn
    <2>2. j.left # <<>>
      BY <2>1 DEF JobOK
    <2>3. Elements(Tail(j.left)) \subseteq Elements(j.left)
      BY <1>0, <2>2, ElementsOfTail
    <2>4. /\ i \in Job /\ i.nodes = j.nodes /\ i.disturbed = j.disturbed /\ i.req = j.req
          /\ i.pc \in {"install", "idle"}
          /\ i.pc = "install" => /\ i.before = j.before /\ i.confirmed = j.confirmed
                                 /\ i.left \in {j.left, Tail(j.left)}
      <3>1. CASE Tail(j.todo) # <<>> /\ i = NextSkill(j)
        BY <2>1, <3>1, NextSkillIs DEF JobOK
      <3>2. CASE Len(j.left) > 1 /\ i = NextRoot(j)
        BY <2>1, <3>2, NextRootIs DEF JobOK
      <3>3. CASE i = Ended(j)
        BY <2>1, <3>3, EndedIs DEF JobOK
      <3> QED
        BY <2>1, <3>1, <3>2, <3>3 DEF Advances
    <2>5. /\ n.pc = i.pc /\ n.nodes = i.nodes /\ n.before = i.before /\ n.req = i.req
          /\ n.confirmed = i.confirmed /\ n.left = i.left /\ n.disturbed = i.disturbed
      BY <2>1, <2>4 DEF Wrote, Job
    <2> QED
      BY <2>1, <2>3, <2>4, <2>5
  <1> QED
    BY <1>4, <1>5

LEMMA ForeseenWorking ==
    ASSUME NEW j, NEW n, JobOK(j), Foreseen(dir, link, j), GoesWriting(j, n) \/ GoesOn(j, n)
    PROVE  Foreseen(dir, link, n)
  <1>1. CASE n.pc = "idle"
    BY <1>1, NothingForeseen
  <1>2. CASE n.pc # "idle"
    <2>1. /\ n.pc \in {"install", "fill"} /\ j.pc \in {"install", "fill"}
          /\ n.nodes = j.nodes /\ n.disturbed = j.disturbed /\ n.before = j.before
          /\ n.confirmed = j.confirmed /\ Elements(n.left) \subseteq Elements(j.left)
      BY <1>2, WorkKeeps
    <2>2. ~j.disturbed => Settled(dir, link, n.before, n.nodes, n.left, n.confirmed)
      BY <2>1 DEF Foreseen, Settled
    <2> QED
      BY <2>1, <2>2 DEF Foreseen
  <1> QED
    BY <1>1, <1>2

\* Whatever a command goes on with, it was right about the disk as it was.
LEMMA ForeseenGoes ==
    ASSUME Typed, NEW j, NEW n, JobOK(j), InOrder(j), Foreseen(dir, link, j), Goes(j, n)
    PROVE  Foreseen(dir, link, n)
  <1>0. j \in Job
    BY DEF JobOK
  <1>1. CASE GoesPreviewing(j, n)
    <2>1. ASSUME NEW t \in j.scan, n = Scanned(j, t)
          PROVE  Foreseen(dir, link, n)
      BY <1>0, <1>1, <2>1, ForeseenScanned DEF GoesPreviewing, Job
    <2>2. ASSUME NEW t \in j.compare, n = Compared(j, t)
          PROVE  Foreseen(dir, link, n)
      BY <1>1, <2>2, ForeseenCompared DEF GoesPreviewing
    <2> QED
      BY <1>1, <2>1, <2>2 DEF GoesPreviewing
  <1>2. CASE n = Finish(j, "refused") \/ n = Finish(j, "failed")
    <2>1. n.pc = "idle"
      BY <1>0, <1>2 DEF Finish, Job
    <2> QED
      BY <2>1, NothingForeseen
  <1>3. CASE GoesSelecting(j, n) \/ GoesPlanning(j, n) \/ GoesRemoving(j, n)
    <2>1. GoesSelecting(j, n) => n.pc = "plan"
      BY <1>0 DEF GoesSelecting, Selecting, Job
    <2>2. GoesPlanning(j, n) => n.pc = "rm"
      BY <1>0 DEF GoesPlanning, RemovalOf, Removing, Job
    <2>3. GoesRemoving(j, n) => n.pc \in {"remove", "rm", "idle"}
      BY <1>0 DEF GoesRemoving, RemoveNext, RemoveEnd, Finish, Wrote, Job
    <2> QED
      BY <1>3, <2>1, <2>2, <2>3, NothingForeseen
  <1> QED
    BY <1>1, <1>2, <1>3, ForeseenBegins, ForeseenFinding, ForeseenInstalling, ForeseenWorking
       DEF Goes

\* What lies where a command writes is a copy of the skill it writes.
LEMMA OnlyCurrent ==
    ASSUME Typed, NEW j, JobOK(j), j.pc \in {"install", "fill"}, InOrder(j), NEW t \in Targets,
           NEW k \in Elements(j.nodes), Place(t, k[1]) = Target(j)
    PROVE  k = Head(j.todo)
  <1>1. j.nodes \in Seq(Keys)
    BY DEF JobOK, Job
  <1>2. k \in Keys /\ k[1] \in Skills
    BY <1>1, ElementsIn, KeyIs
  <1>3. Head(j.todo) \in Elements(j.nodes) /\ Target(j)[2] = Head(j.todo)[1]
    BY HeadIsKey, TargetIs DEF InOrder, OrderOf
  <1>4. Place(t, k[1])[2] = k[1]
    BY <1>2, PlaceIs
  <1> QED
    BY <1>3, <1>4 DEF InOrder, OrderOf, OneVersion

\* A write puts what is planned in place of what is not.
Writes(j, f, x) ==
    \/ x = Head(j.todo)[2]
    \/ ~(IsSame(Target(j), f, Head(j.todo)) /\ f # "wrap")

LEMMA AgreesAfterWrite ==
    ASSUME Typed, NEW j, JobOK(j), j.pc \in {"install", "fill"}, InOrder(j), NEW t \in Targets,
           NEW f \in Files, NEW x, Sets(Target(j), f, x), Writes(j, f, x), link' = link,
           NEW before, Agrees(dir, link, j.nodes, before, t)
    PROVE  Agrees(dir', link', j.nodes, before, t)
  <1>1. ASSUME NEW k \in Elements(j.nodes), k[1] \in before[t], NEW g \in FilesOf(k)
        PROVE  <<t, k[1]>> \notin link /\ dir'[<<t, k[1]>>][g] = k[2]
    <2> DEFINE at == <<t, k[1]>>
    <2>1. at \notin link /\ dir[at][g] = k[2]
      BY <1>1 DEF Agrees
    <2>2. k[1] \in Skills /\ at \in Places /\ g \in Files /\ g # "wrap"
      <3>1. j.nodes \in Seq(Keys)
        BY DEF JobOK, Job
      <3>2. k[1] \in Skills
        BY <3>1, ElementsIn, KeyIs
      <3> QED
        BY <3>2 DEF Places, FilesOf, Files
    <2>3. CASE at # Target(j) \/ g # f
      BY <2>1, <2>2, <2>3 DEF Sets
    <2>4. CASE at = Target(j) /\ g = f
      <3>1. Place(t, k[1]) = at
        BY <2>1 DEF Place
      <3>2. k = Head(j.todo)
        BY <2>4, <3>1, OnlyCurrent
      <3>3. IsSame(Target(j), f, Head(j.todo)) /\ f # "wrap"
        BY <2>1, <2>2, <2>4, <3>2 DEF IsSame
      <3> QED
        BY <2>1, <2>4, <3>2, <3>3 DEF Sets, Writes
    <2> QED
      BY <2>1, <2>3, <2>4
  <1>2. \A k \in Elements(j.nodes) : FilesOf(k) # {}
    BY DEF FilesOf
  <1> QED
    BY <1>1, <1>2 DEF Agrees

LEMMA AgreesAfterLink ==
    ASSUME Typed, NEW j, JobOK(j), NEW at, ~IsOccupied(at), link' = link \cup {at}, dir' = dir,
           NEW t, NEW before, Agrees(dir, link, j.nodes, before, t)
    PROVE  Agrees(dir', link', j.nodes, before, t)
  <1>1. ASSUME NEW k \in Elements(j.nodes), k[1] \in before[t]
        PROVE  <<t, k[1]>> # at
    <2>1. dir[<<t, k[1]>>]["md"] = k[2]
      BY <1>1 DEF Agrees, FilesOf
    <2>2. k[2] # None
      <3>1. j.nodes \in Seq(Keys)
        BY DEF JobOK, Job
      <3> QED
        BY <3>1, ElementsIn, KeyIs, VersionsAssumption
    <2> QED
      BY <2>1, <2>2 DEF IsOccupied, Empty, Files
  <1> QED
    BY <1>1 DEF Agrees

\* Only what is installed is written, and only by somebody who writes.
Safe == \A p \in Procs : InOrder(job[p]) /\ Foreseen(dir, link, job[p])

LEMMA ForeseenOthers ==
    ASSUME Typed, NEW p \in Procs, Safe, Moves(p), Told(p) \/ UNCHANGED <<dir, link>>,
           Foreseen(dir', link', job'[p])
    PROVE  \A q \in Procs : Foreseen(dir', link', job'[q])
  <1>1. ASSUME NEW q \in Procs, q # p
        PROVE  Foreseen(dir', link', job'[q])
    <2>1. PICK n : n = job'[q]
      OBVIOUS
    <2>2. n \in {job[q], [job[q] EXCEPT !.disturbed = TRUE]} /\ job[q] \in Job
      BY <1>1, <2>1 DEF Moves, Typed
    <2>3. [job[q] EXCEPT !.disturbed = TRUE].disturbed
      BY <2>2 DEF Job
    <2>4. CASE n = [job[q] EXCEPT !.disturbed = TRUE]
      BY <2>1, <2>3, <2>4, NothingForeseen
    <2>5. CASE n = job[q] /\ UNCHANGED <<dir, link>>
      BY <2>1, <2>5 DEF Safe
    <2>6. CASE n = job[q] /\ Told(p)
      BY <1>1, <2>1, <2>4, <2>6 DEF Told
    <2> QED
      BY <2>2, <2>4, <2>5, <2>6
  <1> QED
    BY <1>1

LEMMA ForeseenAlone ==
    ASSUME Typed, NEW p \in Procs, Safe, Step(p), UNCHANGED <<dir, link>>
    PROVE  \A q \in Procs : Foreseen(dir', link', job'[q])
  <1>1. Moves(p)
    BY StepMoves
  <1>2. PICK n : n = job'[p]
    OBVIOUS
  <1>3. Foreseen(dir, link, n)
    BY <1>1, <1>2, ForeseenGoes DEF Moves, Safe, Typed
  <1> QED
    BY <1>1, <1>2, <1>3, ForeseenOthers

LEMMA ForeseenWritten ==
    ASSUME Typed, NEW p \in Procs, Safe, Step(p), job[p].pc \in {"install", "fill"},
           job'[p].pc \in {"install", "fill"},
           NEW f \in Files, NEW x, Sets(Target(job[p]), f, x), Writes(job[p], f, x),
           link' = link, Told(p), job'[p].nodes = job[p].nodes
    PROVE  \A q \in Procs : Foreseen(dir', link', job'[q])
  <1>1. Moves(p)
    BY StepMoves
  <1>2. PICK j, n : j = job[p] /\ n = job'[p]
    OBVIOUS
  <1>3. Foreseen(dir, link, n)
    BY <1>1, <1>2, ForeseenGoes DEF Moves, Safe, Typed
  <1>4. JobOK(j) /\ InOrder(j) /\ JobOK(n)
    BY <1>1, <1>2 DEF Safe, Typed, Moves
  <1>5. Elements(n.left) \subseteq Targets
    BY <1>4, ElementsIn DEF JobOK, Job
  <1>6. ASSUME NEW t \in Elements(n.left), Agrees(dir, link, n.nodes, n.before, t)
        PROVE  Agrees(dir', link', n.nodes, n.before, t)
    <2>1. n.nodes = j.nodes /\ t \in Targets
      BY <1>2, <1>5
    <2> QED
      BY <1>2, <1>4, <1>6, <2>1, AgreesAfterWrite
  <1>7. Foreseen(dir', link', n)
    BY <1>2, <1>3, <1>6 DEF Foreseen, Settled
  <1> QED
    BY <1>1, <1>2, <1>7, ForeseenOthers

LEMMA ForeseenLinked ==
    ASSUME Typed, NEW p \in Procs, Safe, Link(p), Told(p), dir' = dir, NEW at,
           ~IsOccupied(at), link' = link \cup {at}
    PROVE  \A q \in Procs : Foreseen(dir', link', job'[q])
  <1>1. Step(p) /\ Moves(p)
    BY StepMoves DEF Step
  <1>2. PICK n : n = job'[p]
    OBVIOUS
  <1>3. Foreseen(dir, link, n) /\ JobOK(n)
    BY <1>1, <1>2, ForeseenGoes DEF Moves, Safe, Typed
  <1>4. \A t \in Elements(n.left) :
          Agrees(dir, link, n.nodes, n.before, t) => Agrees(dir', link', n.nodes, n.before, t)
    BY <1>3, AgreesAfterLink
  <1>5. n.pc \in {"install", "idle"}
    <2>1. JobOK(job[p]) /\ job[p].pc = "install"
      BY LinkMoves DEF Typed
    <2>2. CASE n = Finish(job[p], "failed")
      BY <2>1, <2>2 DEF Finish, Job, JobOK
    <2>3. ASSUME NEW i, Advances(job[p], i), n \in {i, Wrote(i)}
          PROVE  n.pc \in {"install", "idle"}
      <3>1. i \in Job /\ i.pc \in {"install", "idle"}
        BY <2>1, <2>3, NextSkillIs, NextRootIs, EndedIs DEF Advances, JobOK
      <3> QED
        BY <2>3, <3>1 DEF Wrote, Job
    <2>4. n = Finish(job[p], "failed") \/ \E i : Advances(job[p], i) /\ n \in {i, Wrote(i)}
      BY <1>2, LinkMoves
    <2> QED
      BY <2>2, <2>3, <2>4
  <1>6. Foreseen(dir', link', n)
    BY <1>3, <1>4, <1>5 DEF Foreseen, Settled
  <1> QED
    BY <1>1, <1>2, <1>6, ForeseenOthers

LEMMA SafeStep ==
    ASSUME Typed, Untouched, Safe, [Next]_vars
    PROVE  Safe'
  <1>0. \A p \in Procs : InOrder(job'[p])
    BY OrderStep DEF Safe
  <1>1. CASE UNCHANGED vars
    BY <1>1 DEF vars, Safe
  <1>2. ASSUME NEW p \in Procs, Step(p)
        PROVE  \A q \in Procs : Foreseen(dir', link', job'[q])
    <2> DEFINE j == job[p]
    <2>1. CASE UNCHANGED <<dir, link>>
      BY <1>2, <2>1, ForeseenAlone
    <2>2. ASSUME NEW f \in Files, Truncate(p, f), ~(UNCHANGED <<dir, link>>)
          PROVE  \A q \in Procs : Foreseen(dir', link', job'[q])
      <3>1. /\ j.pc = "install" /\ Sets(Target(j), f, Torn) /\ link' = link /\ Told(p)
            /\ Writes(j, f, Torn) /\ job'[p] = Wrote(Filling(j, f))
        BY <2>2, TruncateMoves DEF Alone, Writes
      <3>2. job'[p].pc = "fill" /\ job'[p].nodes = j.nodes
        BY <3>1 DEF Typed, JobOK, Job, Wrote, Filling
      <3> QED
        BY <1>2, <3>1, <3>2, ForeseenWritten
    <2>3. ASSUME Fill(p)
          PROVE  \A q \in Procs : Foreseen(dir', link', job'[q])
      <3>1. /\ j.pc = "fill" /\ j.file \in Files /\ link' = link /\ Told(p)
            /\ job'[p] = Wrote(Filled(j)) /\ Moves(p)
        BY <1>2, <2>3, FillMoves, StepMoves
      <3>2. job'[p].pc = "install" /\ job'[p].nodes = j.nodes /\ job'[p].disturbed = j.disturbed
        BY <3>1 DEF Typed, JobOK, Job, Wrote, Filled
      <3>3. CASE j.disturbed
        <4>1. PICK n : n = job'[p]
          OBVIOUS
        <4>2. Foreseen(dir', link', n)
          BY <3>2, <3>3, <4>1, NothingForeseen
        <4> QED
          BY <3>1, <4>1, <4>2, ForeseenOthers
      <3>4. CASE ~j.disturbed
        <4>1. PICK f, x : f = j.file /\ x = Head(j.todo)[2]
          OBVIOUS
        <4>2. Sets(Target(j), f, x) /\ Writes(j, f, x)
          BY <2>3, <3>4, <4>1, FillsWhole DEF Writes
        <4> QED
          BY <1>2, <3>1, <3>2, <4>1, <4>2, ForeseenWritten
      <3> QED
        BY <3>3, <3>4
    <2>4. ASSUME Link(p), ~(UNCHANGED <<dir, link>>)
          PROVE  \A q \in Procs : Foreseen(dir', link', job'[q])
      <3>1. PICK at : at = <<Head(j.left), Head(j.todo)[1]>>
        OBVIOUS
      <3>2. Told(p) /\ dir' = dir /\ ~IsOccupied(at) /\ link' = link \cup {at}
        BY <2>4, <3>1, LinkMoves DEF Alone
      <3> QED
        BY <2>4, <3>2, ForeseenLinked
    <2>5. ASSUME NEW f \in Files, RemoveFile(p, f)
          PROVE  \A q \in Procs : Foreseen(dir', link', job'[q])
      <3>1. j.pc = "rm" /\ Told(p) /\ job'[p] = Wrote(j) /\ Moves(p)
        BY <1>2, <2>5, RemoveFileMoves, StepMoves
      <3>2. PICK n : n = job'[p]
        OBVIOUS
      <3>3. n.pc = "rm"
        BY <3>1, <3>2 DEF Wrote, Typed, JobOK, Job
      <3>4. Foreseen(dir', link', n)
        BY <3>3, NothingForeseen
      <3> QED
        BY <3>1, <3>2, <3>4, ForeseenOthers
    <2>6. ASSUME \/ \E r \in Requests[p] : Begin(p, r)
                 \/ \E d \in Keys : LoadRoot(p, d)
                 \/ \E t \in Targets : Scan(p, t) \/ Compare(p, t)
                 \/ Confirm(p) \/ SkillWritten(p) \/ Breaks(p)
                 \/ Select(p) \/ PlanRemoval(p) \/ SkillRemoved(p)
          PROVE  UNCHANGED <<dir, link>>
      BY <2>6, BeginMoves, LoadRootMoves, ScanMoves, CompareMoves, ConfirmMoves, BreaksMoves,
         SkillWrittenMoves, SelectMoves, PlanRemovalMoves, SkillRemovedMoves DEF Alone
    <2> QED
      BY <1>2, <2>1, <2>2, <2>3, <2>4, <2>5, <2>6 DEF Step
  <1>3. CASE Next
    BY <1>0, <1>2, <1>3, NextIsStep DEF Safe
  <1> QED
    BY <1>1, <1>3

LEMMA SafeAlways == Spec => []Safe
  <1>1. Init => Safe
    BY NoOrder, NothingForeseen DEF Init, Safe, Idle
  <1>2. Typed /\ Untouched /\ Safe /\ [Next]_vars => Safe'
    BY SafeStep
  <1> QED
    BY <1>1, <1>2, TypedAlways, UntouchedAlways, PTL DEF Spec

\* A file that Truncate overwrites in a skill that was installed before is one
\* the command knew to differ, so its target was confirmed.
LEMMA ConfirmedBefore ==
    ASSUME Typed, Safe, NEW p \in Procs, NEW f \in Files, Truncate(p, f), job'[p].pc = "fill",
           f # "wrap", Head(job[p].todo)[1] \in job[p].before[Head(job[p].left)],
           ~job[p].disturbed
    PROVE  Head(job[p].left) \in job[p].confirmed
  <1> DEFINE j == job[p]  t == Head(j.left)  k == Head(j.todo)
  <1>1. j.pc = "install" /\ JobOK(j) /\ InOrder(j) /\ Foreseen(dir, link, j) /\ f \in j.files
    BY TruncateMoves DEF Typed, Safe, NextFiles
  <1>2. ~IsSame(Target(j), f, k)
    <2>1. job'[p] # Skipping(j, f)
      BY <1>1 DEF Skipping, JobOK, Job
    <2> QED
      BY <2>1, TruncateMoves
  <1>3. t \in Elements(j.left) /\ k \in Elements(j.nodes) /\ f \in FilesOf(k)
    <2>1. t \in Elements(j.left) /\ k \in Elements(j.todo)
      BY <1>1, HeadIsTarget, HeadIsKey
    <2>2. Elements(j.todo) \subseteq Elements(j.nodes) /\ j.files \subseteq FilesFor(j.req, k)
      BY <1>1 DEF InOrder, OrderOf
    <2> QED
      BY <1>1, <2>1, <2>2 DEF FilesFor
  <1>4. ASSUME t \notin j.confirmed
        PROVE  FALSE
    <2>1. Agrees(dir, link, j.nodes, j.before, t)
      BY <1>1, <1>3, <1>4 DEF Foreseen, Settled
    <2>2. <<t, k[1]>> \notin link /\ dir[<<t, k[1]>>][f] = k[2]
      BY <1>3, <2>1 DEF Agrees
    <2> QED
      BY <1>2, <2>2 DEF IsSame, Target, Place
  <1> QED
    BY <1>4

\* No file of a skill that was installed when a command began is overwritten
\* before the user agreed to it for that target, another command aside.
THEOREM OverwriteTheorem == Spec => OverwritesAreConfirmed
  <1>1. Typed /\ Safe /\ [Next]_vars =>
          [\A p \in Procs, f \in Files :
             LET j == job[p]
                 t == Head(j.left)
                 s == Head(j.todo)[1]
             IN  /\ j.pc = "install" /\ job'[p].pc = "fill" /\ job'[p].file = f
                 /\ s \in j.before[t] /\ ~j.disturbed
                 /\ f # "wrap" /\ At(t, s)[f] \notin {None, Torn}
                 => t \in j.confirmed]_vars
    <2> SUFFICES ASSUME Typed, Safe, [Next]_vars, NEW p \in Procs, NEW f \in Files,
                        job[p].pc = "install", job'[p].pc = "fill", job'[p].file = f,
                        Head(job[p].todo)[1] \in job[p].before[Head(job[p].left)],
                        ~job[p].disturbed, f # "wrap"
                 PROVE  Head(job[p].left) \in job[p].confirmed
      OBVIOUS
    <2>1. PICK g \in Files : Truncate(p, g)
      BY TruncateBegins
    <2>2. g = f
      <3>1. JobOK(job[p])
        BY DEF Typed
      <3>2. Skipping(job[p], g).pc = "install" /\ Wrote(Filling(job[p], g)).file = g
        BY <3>1 DEF Skipping, Wrote, Filling, JobOK, Job
      <3> QED
        BY <2>1, <3>2, TruncateMoves
    <2> QED
      BY <2>1, <2>2, ConfirmedBefore
  <1> QED
    BY <1>1, TypedAlways, SafeAlways, PTL DEF Spec, OverwritesAreConfirmed

-----------------------------------------------------------------------------
(* What an installation has done.                                          *)

PlaceIn(L, t, s) == IF <<t, s>> \in L THEN <<Source, s>> ELSE <<t, s>>
Has(D, L, t, k, f) == D[PlaceIn(L, t, k[1])][f] = k[2]

\* A file is still to come, is there, or is the one being written.
Part(D, L, pc, left, todo, files, file, t, k, f) ==
    \/ t \in Elements(Tail(left))
    \/ t = Head(left) /\ k \in Elements(Tail(todo))
    \/ t = Head(left) /\ k = Head(todo) /\ f \in files
    \/ Has(D, L, t, k, f)
    \/ pc = "fill" /\ f = file /\ PlaceIn(L, t, k[1]) = PlaceIn(L, Head(left), Head(todo)[1])

Under(D, L, req, nodes, pc, left, todo, files, file) ==
    \A t \in Elements(TargetsOf(req.tools)), k \in Elements(nodes) :
        \A f \in FilesFor(req, k) : Part(D, L, pc, left, todo, files, file, t, k, f)
Over(D, L, req, nodes) ==
    \A t \in Elements(TargetsOf(req.tools)), k \in Elements(nodes) :
        \A f \in FilesFor(req, k) : Has(D, L, t, k, f)
Progress(D, L, j) ==
    ~j.disturbed /\ Installs(j.req) =>
        /\ j.pc \in {"install", "fill"} =>
              Under(D, L, j.req, j.nodes, j.pc, j.left, j.todo, j.files, j.file)
        /\ j.pc = "idle" /\ j.result = "ok" => Over(D, L, j.req, j.nodes)

LEMMA NoProgress ==
    ASSUME NEW D, NEW L, NEW n,
           \/ n.pc \notin {"install", "fill", "idle"} \/ n.disturbed \/ ~Installs(n.req)
           \/ n.pc = "idle" /\ n.result # "ok"
    PROVE  Progress(D, L, n)
  BY DEF Progress

LEMMA PlaceIsIn ==
    ASSUME NEW t, NEW s
    PROVE  Place(t, s) = PlaceIn(link, t, s)
  BY DEF Place, PlaceIn

\* At the start everything is still to come.
LEMMA StartsUnder ==
    ASSUME NEW D, NEW L, NEW r \in AllRequests, NEW nodes \in Seq(Keys), nodes # <<>>,
           NEW left, left = TargetsOf(r.tools), NEW file
    PROVE  Under(D, L, r, nodes, "install", left, nodes, FilesFor(r, nodes[1]), file)
  <1>1. left \in Seq(Targets) /\ left # <<>>
    BY RequestIs, TargetsOfFacts
  <1>2. Elements(left) = {Head(left)} \cup Elements(Tail(left))
    BY <1>1, ElementsOfTail
  <1>3. Elements(nodes) = {Head(nodes)} \cup Elements(Tail(nodes)) /\ Head(nodes) = nodes[1]
    BY ElementsOfTail, ElementsIn
  <1> QED
    BY <1>2, <1>3 DEF Under, Part

\* When the last file of a skill is there the next skill of the target follows.
LEMMA NextSkillUnder ==
    ASSUME NEW D, NEW L, NEW r, NEW nodes, NEW left, NEW todo \in Seq(Keys), todo # <<>>,
           Tail(todo) # <<>>, NEW file,
           Under(D, L, r, nodes, "install", left, todo, {}, file)
    PROVE  Under(D, L, r, nodes, "install", left, Tail(todo), FilesFor(r, Head(Tail(todo))), file)
  <1>1. Tail(todo) \in Seq(Keys)
    BY ElementsIn
  <1>2. Elements(Tail(todo)) = {Head(Tail(todo))} \cup Elements(Tail(Tail(todo)))
    BY <1>1, ElementsOfTail
  <1> QED
    BY <1>2 DEF Under, Part

\* After the last skill of a target comes the next target.
LEMMA NextRootUnder ==
    ASSUME NEW D, NEW L, NEW r, NEW nodes \in Seq(Keys), nodes # <<>>,
           NEW left \in Seq(Targets), Len(left) > 1, NEW todo \in Seq(Keys), todo # <<>>,
           Tail(todo) = <<>>, NEW file,
           Under(D, L, r, nodes, "install", left, todo, {}, file)
    PROVE  Under(D, L, r, nodes, "install", Tail(left), nodes, FilesFor(r, nodes[1]), file)
  <1>1. left # <<>> /\ Tail(left) # <<>> /\ Tail(left) \in Seq(Targets)
    <2>1. left # <<>>
      BY EmptySeq
    <2> QED
      BY <2>1, ElementsIn
  <1>2. Elements(Tail(left)) = {Head(Tail(left))} \cup Elements(Tail(Tail(left)))
    BY <1>1, ElementsOfTail
  <1>3. Elements(nodes) = {Head(nodes)} \cup Elements(Tail(nodes)) /\ Head(nodes) = nodes[1]
    BY ElementsOfTail, ElementsIn
  <1>4. Elements(Tail(todo)) = {}
    BY ElementsOfTail
  <1> QED
    BY <1>2, <1>3, <1>4 DEF Under, Part

\* After the last target everything is there.
LEMMA EndedOver ==
    ASSUME NEW D, NEW L, NEW r, NEW nodes, NEW left \in Seq(Targets), left # <<>>,
           ~(Len(left) > 1), NEW todo \in Seq(Keys), todo # <<>>, Tail(todo) = <<>>, NEW file,
           Under(D, L, r, nodes, "install", left, todo, {}, file)
    PROVE  Over(D, L, r, nodes)
  <1>1. Elements(Tail(left)) = {} /\ Elements(Tail(todo)) = {}
    BY ElementsOfTail
  <1> QED
    BY <1>1 DEF Under, Part, Over

LEMMA ProgressAdvances ==
    ASSUME NEW j, NEW n, JobOK(j), j.pc = "install", j.files = {}, Advances(j, n),
           Progress(dir, link, j)
    PROVE  Progress(dir, link, n)
  <1> SUFFICES ASSUME ~n.disturbed, Installs(n.req)
               PROVE  Progress(dir, link, n)
    BY DEF Progress
  <1>0. /\ j.left \in Seq(Targets) /\ j.left # <<>> /\ j.todo \in Seq(Keys) /\ j.todo # <<>>
        /\ j.nodes \in Seq(Keys) /\ j.nodes # <<>>
    BY DEF JobOK, Job
  <1>1. CASE Tail(j.todo) # <<>> /\ n = NextSkill(j)
    <2>1. /\ n.pc = "install" /\ n.todo = Tail(j.todo) /\ n.files = FilesFor(j.req, Head(Tail(j.todo)))
          /\ n.nodes = j.nodes /\ n.req = j.req /\ n.left = j.left /\ n.disturbed = j.disturbed
      BY <1>1, NextSkillIs
    <2>2. Under(dir, link, j.req, j.nodes, "install", j.left, j.todo, {}, n.file)
      BY <2>1 DEF Progress, Under, Part
    <2>3. Under(dir, link, j.req, j.nodes, "install", j.left, Tail(j.todo),
                FilesFor(j.req, Head(Tail(j.todo))), n.file)
      BY <1>0, <1>1, <2>2, NextSkillUnder
    <2> QED
      BY <2>1, <2>3 DEF Progress
  <1>2. CASE Tail(j.todo) = <<>> /\ Len(j.left) > 1 /\ n = NextRoot(j)
    <2>1. /\ n.pc = "install" /\ n.todo = j.nodes /\ n.files = FilesFor(j.req, j.nodes[1])
          /\ n.nodes = j.nodes /\ n.req = j.req /\ n.left = Tail(j.left)
          /\ n.disturbed = j.disturbed
      BY <1>2, NextRootIs
    <2>2. Under(dir, link, j.req, j.nodes, "install", j.left, j.todo, {}, n.file)
      BY <2>1 DEF Progress, Under, Part
    <2>3. Under(dir, link, j.req, j.nodes, "install", Tail(j.left), j.nodes,
                FilesFor(j.req, j.nodes[1]), n.file)
      BY <1>0, <1>2, <2>2, NextRootUnder
    <2> QED
      BY <2>1, <2>3 DEF Progress
  <1>3. CASE Tail(j.todo) = <<>> /\ ~(Len(j.left) > 1) /\ n = Ended(j)
    <2>1. n.pc = "idle" /\ n.nodes = j.nodes /\ n.req = j.req /\ n.disturbed = j.disturbed
      BY <1>3, EndedIs
    <2>2. Under(dir, link, j.req, j.nodes, "install", j.left, j.todo, {}, j.file)
      BY <2>1 DEF Progress
    <2>3. Over(dir, link, j.req, j.nodes)
      BY <1>0, <1>3, <2>2, EndedOver
    <2> QED
      BY <2>1, <2>3 DEF Progress
  <1> QED
    BY <1>1, <1>2, <1>3 DEF Advances

\* The steps that neither write a file nor go on to the next skill.
LEMMA ProgressElse ==
    ASSUME NEW j, NEW n, JobOK(j), InOrder(j), Goes(j, n), ~GoesWriting(j, n), ~GoesOn(j, n)
    PROVE  Progress(dir, link, n)
  <1>0. j \in Job
    BY DEF JobOK
  <1>1. ASSUME NEW r \in AllRequests, Begins(r, n)
        PROVE  \/ n.pc \notin {"install", "fill", "idle"}
               \/ (n.pc = "idle" /\ n.result # "ok")
    <2>1. r.op \in {"get", "deps", "remove"}
      BY RequestIs
    <2>2. r.op # "get" => [Fresh(r) EXCEPT !.pc = r.op].pc = r.op
      BY StartedIs
    <2>3. r.op = "get" => \A k \in Catalogue : Previewed(r, k).pc = "preview"
      BY PreviewedIs
    <2>4. Finish(Fresh(r), "failed").result = "failed" /\ Finish(Fresh(r), "failed").pc = "idle"
      BY FreshIs DEF Finish, Job
    <2>5. CASE r.op # "get" /\ n = [Fresh(r) EXCEPT !.pc = r.op]
      <3>1. n.pc = r.op
        BY <2>2, <2>5
      <3>2. n.pc \in {"deps", "remove"}
        BY <2>1, <2>5, <3>1
      <3> QED
        BY <3>2
    <2>6. CASE r.op = "get" /\ \E k \in Selection(r) \cap Catalogue : n = Previewed(r, k)
      <3>1. PICK k \in Selection(r) \cap Catalogue : n = Previewed(r, k)
        BY <2>6
      <3>2. n.pc = "preview"
        BY <2>3, <2>6, <3>1
      <3> QED
        BY <3>2
    <2>7. CASE n = Finish(Fresh(r), "failed")
      BY <2>4, <2>7
    <2> QED
      BY <1>1, <2>5, <2>6, <2>7 DEF Begins
  <1>2. GoesFinding(j, n) \/ GoesPreviewing(j, n) => n.pc \in {"preview", "confirm"}
    BY <1>0 DEF GoesFinding, GoesPreviewing, Loading, Scanned, Compared, Job
  <1>3. n = Finish(j, "refused") \/ n = Finish(j, "failed") => n.pc = "idle" /\ n.result # "ok"
    BY <1>0 DEF Finish, Job
  <1>4. GoesSelecting(j, n) => n.pc = "plan"
    BY <1>0 DEF GoesSelecting, Selecting, Job
  <1>5. GoesPlanning(j, n) => n.pc = "rm"
    BY <1>0 DEF GoesPlanning, RemovalOf, Removing, Job
  <1>6. GoesRemoving(j, n) => ~Installs(n.req)
    <2>1. GoesRemoving(j, n) => n.req = j.req /\ j.req.op = "remove"
      BY <1>0 DEF GoesRemoving, RemoveNext, RemoveEnd, Finish, Wrote, Job, JobOK
    <2> QED
      BY <2>1 DEF Installs
  <1>7. CASE j.pc = "confirm" /\ n = Installing(j)
    <2>1. /\ n.pc = "install" /\ n.todo = j.nodes /\ n.files = FilesFor(j.req, j.nodes[1])
          /\ n.nodes = j.nodes /\ n.req = j.req /\ n.left = j.left
      BY <1>7, InstallingIs
    <2>2. /\ j.req \in AllRequests /\ j.nodes \in Seq(Keys) /\ j.nodes # <<>>
          /\ j.left = TargetsOf(j.req.tools)
      BY <1>0, <1>7 DEF JobOK, Job, InOrder, OrderOf
    <2>3. Under(dir, link, j.req, j.nodes, "install", j.left, j.nodes,
                FilesFor(j.req, j.nodes[1]), n.file)
      BY <2>2, StartsUnder
    <2> QED
      BY <2>1, <2>3 DEF Progress
  <1> QED
    <2>1. CASE \/ n.pc \notin {"install", "fill", "idle"} \/ ~Installs(n.req)
               \/ n.pc = "idle" /\ n.result # "ok"
      BY <2>1, NoProgress
    <2> QED
      BY <1>1, <1>2, <1>3, <1>4, <1>5, <1>6, <1>7, <2>1 DEF Goes

\* A write leaves everything that is there in place.
LEMMA HasAfterWrite ==
    ASSUME Typed, NEW j, JobOK(j), j.pc \in {"install", "fill"}, InOrder(j), NEW t \in Targets,
           NEW k \in Elements(j.nodes), NEW f \in Files, NEW x, Sets(Target(j), f, x),
           link' = link, NEW g \in Files, Has(dir, link, t, k, g)
    PROVE  \/ Has(dir', link', t, k, g)
           \/ k = Head(j.todo) /\ g = f /\ Place(t, k[1]) = Target(j)
  <1>1. k[1] \in Skills
    <2>1. j.nodes \in Seq(Keys)
      BY DEF JobOK, Job
    <2> QED
      BY <2>1, ElementsIn, KeyIs
  <1>2. Place(t, k[1]) \in Places /\ Place(t, k[1]) = PlaceIn(link, t, k[1])
    BY <1>1, PlaceIs, PlaceIsIn
  <1>3. CASE Place(t, k[1]) = Target(j) /\ g = f
    BY <1>3, OnlyCurrent
  <1>4. CASE ~(Place(t, k[1]) = Target(j) /\ g = f)
    <2>1. dir'[Place(t, k[1])][g] = dir[Place(t, k[1])][g]
      BY <1>2, <1>4 DEF Sets
    <2> QED
      BY <1>2, <2>1 DEF Has
  <1> QED
    BY <1>3, <1>4

\* What a command that installs knows of the skill it is writing.
LEMMA CurrentIs ==
    ASSUME Typed, NEW j, JobOK(j), j.pc \in {"install", "fill"}, InOrder(j)
    PROVE  /\ Head(j.left) \in Targets
           /\ PlaceIn(link, Head(j.left), Head(j.todo)[1]) = Target(j)
           /\ Elements(TargetsOf(j.req.tools)) \subseteq Targets
           /\ \A k : FilesFor(j.req, k) \subseteq Files
  <1>1. Head(j.left) \in Targets
    BY HeadIsTarget
  <1>2. PlaceIn(link, Head(j.left), Head(j.todo)[1]) = Target(j)
    BY PlaceIsIn DEF Target
  <1>3. j.req.tools \in Seq(DOMAIN DirOf) /\ j.req.tools # <<>>
    BY RequestIs DEF JobOK
  <1>4. TargetsOf(j.req.tools) \in Seq(Targets)
    BY <1>3, TargetsOfFacts
  <1> QED
    BY <1>1, <1>2, <1>4, ElementsIn, FilesForAre

LEMMA ProgressSkips ==
    ASSUME Typed, NEW j, JobOK(j), j.pc = "install", InOrder(j), NEW f \in j.files,
           IsSame(Target(j), f, Head(j.todo)), Progress(dir, link, j)
    PROVE  Progress(dir, link, Skipping(j, f))
  <1> DEFINE n == Skipping(j, f)
  <1>1. /\ n.pc = "install" /\ n.nodes = j.nodes /\ n.req = j.req /\ n.disturbed = j.disturbed
        /\ n.left = j.left /\ n.todo = j.todo /\ n.files = j.files \ {f} /\ n.file = j.file
    BY DEF Skipping, JobOK, Job
  <1>2. Has(dir, link, Head(j.left), Head(j.todo), f)
    BY CurrentIs DEF Has, IsSame
  <1> HIDE DEF n
  <1>3. ASSUME Under(dir, link, j.req, j.nodes, "install", j.left, j.todo, j.files, j.file)
        PROVE  Under(dir, link, j.req, j.nodes, "install", j.left, j.todo, j.files \ {f}, j.file)
    BY <1>2, <1>3 DEF Under, Part
  <1>4. Progress(dir, link, n)
    BY <1>1, <1>3 DEF Progress
  <1> QED
    BY <1>4 DEF n

LEMMA ProgressFilling ==
    ASSUME Typed, NEW j, JobOK(j), j.pc = "install", InOrder(j), NEW f \in Files,
           Sets(Target(j), f, Torn), link' = link, Progress(dir, link, j)
    PROVE  Progress(dir', link', Wrote(Filling(j, f)))
  <1> DEFINE n == Wrote(Filling(j, f))
  <1>1. /\ n.pc = "fill" /\ n.nodes = j.nodes /\ n.req = j.req /\ n.disturbed = j.disturbed
        /\ n.left = j.left /\ n.todo = j.todo /\ n.files = j.files /\ n.file = f
    BY DEF Wrote, Filling, JobOK, Job
  <1> HIDE DEF n
  <1>2. ASSUME Under(dir, link, j.req, j.nodes, "install", j.left, j.todo, j.files, j.file)
        PROVE  Under(dir', link', j.req, j.nodes, "fill", j.left, j.todo, j.files, f)
    <2>1. ASSUME NEW t \in Elements(TargetsOf(j.req.tools)), NEW k \in Elements(j.nodes),
                 NEW g \in FilesFor(j.req, k)
          PROVE  Part(dir', link', "fill", j.left, j.todo, j.files, f, t, k, g)
      <3>1. Part(dir, link, "install", j.left, j.todo, j.files, j.file, t, k, g)
        BY <1>2 DEF Under
      <3>2. t \in Targets /\ g \in Files
        BY CurrentIs
      <3>3. CASE Has(dir, link, t, k, g)
        <4>1. \/ Has(dir', link', t, k, g)
              \/ g = f /\ Place(t, k[1]) = Target(j)
          BY <3>2, <3>3, HasAfterWrite
        <4>2. Place(t, k[1]) = PlaceIn(link, t, k[1])
          BY PlaceIsIn
        <4> QED
          BY <4>1, <4>2, CurrentIs DEF Part
      <3> QED
        BY <3>1, <3>3 DEF Part
    <2> QED
      BY <2>1 DEF Under
  <1>3. Progress(dir', link', n)
    BY <1>1, <1>2 DEF Progress
  <1> QED
    BY <1>3 DEF n

LEMMA ProgressFilled ==
    ASSUME Typed, NEW j, JobOK(j), j.pc = "fill", InOrder(j),
           Sets(Target(j), j.file, Head(j.todo)[2]), link' = link, Progress(dir, link, j)
    PROVE  Progress(dir', link', Wrote(Filled(j)))
  <1> DEFINE n == Wrote(Filled(j))  f == j.file
  <1>1. /\ n.pc = "install" /\ n.nodes = j.nodes /\ n.req = j.req /\ n.disturbed = j.disturbed
        /\ n.left = j.left /\ n.todo = j.todo /\ n.files = j.files \ {f} /\ n.file = None
        /\ f \in Files
    BY DEF Wrote, Filled, JobOK, Job
  <1> HIDE DEF n
  <1>2. ASSUME Under(dir, link, j.req, j.nodes, "fill", j.left, j.todo, j.files, f)
        PROVE  Under(dir', link', j.req, j.nodes, "install", j.left, j.todo, j.files \ {f}, None)
    <2>1. ASSUME NEW t \in Elements(TargetsOf(j.req.tools)), NEW k \in Elements(j.nodes),
                 NEW g \in FilesFor(j.req, k)
          PROVE  Part(dir', link', "install", j.left, j.todo, j.files \ {f}, None, t, k, g)
      <3>1. Part(dir, link, "fill", j.left, j.todo, j.files, f, t, k, g)
        BY <1>2 DEF Under
      <3>2. t \in Targets /\ g \in Files /\ Place(t, k[1]) = PlaceIn(link, t, k[1])
        BY CurrentIs, PlaceIsIn
      <3>3. ASSUME g = f, Place(t, k[1]) = Target(j)
            PROVE  Has(dir', link', t, k, g)
        <4>1. k = Head(j.todo)
          BY <3>2, <3>3, OnlyCurrent
        <4> QED
          BY <3>2, <3>3, <4>1 DEF Has, Sets
      <3>4. CASE Has(dir, link, t, k, g)
        <4>1. Has(dir', link', t, k, g)
          BY <1>1, <3>2, <3>3, <3>4, HasAfterWrite
        <4> QED
          BY <4>1 DEF Part
      <3>5. CASE t = Head(j.left) /\ k = Head(j.todo) /\ g \in j.files
        <4>1. g = f => Has(dir', link', t, k, g)
          BY <3>2, <3>3, <3>5, CurrentIs
        <4> QED
          BY <3>5, <4>1 DEF Part
      <3>6. CASE g = f /\ PlaceIn(link, t, k[1]) = PlaceIn(link, Head(j.left), Head(j.todo)[1])
        <4>1. Has(dir', link', t, k, g)
          BY <3>2, <3>3, <3>6, CurrentIs
        <4> QED
          BY <4>1 DEF Part
      <3> QED
        BY <3>1, <3>4, <3>5, <3>6 DEF Part
    <2> QED
      BY <2>1 DEF Under
  <1>3. Progress(dir', link', n)
    BY <1>1, <1>2 DEF Progress
  <1> QED
    BY <1>3 DEF n

Complete == \A p \in Procs : Progress(dir, link, job[p])

LEMMA ProgressOthers ==
    ASSUME Typed, NEW p \in Procs, Complete, Moves(p), Told(p) \/ UNCHANGED <<dir, link>>,
           Progress(dir', link', job'[p])
    PROVE  \A q \in Procs : Progress(dir', link', job'[q])
  <1>1. ASSUME NEW q \in Procs, q # p
        PROVE  Progress(dir', link', job'[q])
    <2>1. PICK n : n = job'[q]
      OBVIOUS
    <2>2. n \in {job[q], [job[q] EXCEPT !.disturbed = TRUE]} /\ job[q] \in Job
      BY <1>1, <2>1 DEF Moves, Typed
    <2>3. [job[q] EXCEPT !.disturbed = TRUE].disturbed
      BY <2>2 DEF Job
    <2>4. CASE n = [job[q] EXCEPT !.disturbed = TRUE]
      BY <2>1, <2>3, <2>4, NoProgress
    <2>5. CASE n = job[q] /\ UNCHANGED <<dir, link>>
      BY <2>1, <2>5 DEF Complete
    <2>6. CASE n = job[q] /\ Told(p)
      BY <1>1, <2>1, <2>4, <2>6 DEF Told
    <2> QED
      BY <2>2, <2>4, <2>5, <2>6
  <1> QED
    BY <1>1

\* p's own command, when it leaves the disk alone.
LEMMA ProgressAlone ==
    ASSUME Typed, NEW p \in Procs, Complete, Moves(p), UNCHANGED <<dir, link>>,
           Progress(dir, link, job'[p])
    PROVE  \A q \in Procs : Progress(dir', link', job'[q])
  BY ProgressOthers

LEMMA LinksDoNotInstall ==
    ASSUME NEW p \in Procs, Ready(p, "slink")
    PROVE  ~Installs(job[p].req)
  BY DEF Ready, Installs

LEMMA CompleteStep ==
    ASSUME Typed, Untouched, Safe, Complete, [Next]_vars
    PROVE  Complete'
  <1>1. CASE UNCHANGED vars
    BY <1>1 DEF vars, Complete
  <1>2. ASSUME NEW p \in Procs, Step(p)
        PROVE  \A q \in Procs : Progress(dir', link', job'[q])
    <2>1. PICK j, n : j = job[p] /\ n = job'[p]
      OBVIOUS
    <2>2. /\ Moves(p) /\ Goes(j, n) /\ JobOK(j) /\ JobOK(n) /\ InOrder(j)
          /\ Progress(dir, link, j)
      BY <1>2, <2>1, StepMoves DEF Moves, Safe, Complete, Typed
    <2>3. ASSUME NEW f \in Files, Truncate(p, f)
          PROVE  \A q \in Procs : Progress(dir', link', job'[q])
      <3>1. j.pc = "install" /\ f \in j.files
        BY <2>1, <2>3, TruncateMoves DEF NextFiles
      <3>2. CASE IsSame(Target(j), f, Head(j.todo)) /\ Alone(p) /\ n = Skipping(j, f)
        <4>1. Progress(dir, link, n)
          BY <2>2, <3>1, <3>2, ProgressSkips
        <4> QED
          BY <2>1, <2>2, <3>2, <4>1, ProgressAlone DEF Alone
      <3>3. CASE /\ Sets(Target(j), f, Torn) /\ UNCHANGED link /\ Told(p)
                 /\ n = Wrote(Filling(j, f))
        <4>1. Progress(dir', link', n)
          BY <2>2, <3>1, <3>3, ProgressFilling
        <4> QED
          BY <2>1, <2>2, <3>3, <4>1, ProgressOthers
      <3> QED
        BY <2>1, <2>3, <3>2, <3>3, TruncateMoves
    <2>4. ASSUME Fill(p)
          PROVE  \A q \in Procs : Progress(dir', link', job'[q])
      <3>1. j.pc = "fill" /\ link' = link /\ Told(p) /\ n = Wrote(Filled(j))
        BY <2>1, <2>4, FillMoves
      <3>2. Progress(dir', link', n)
        <4>1. CASE j.disturbed
          <5>1. n.disturbed
            BY <2>2, <3>1, <4>1 DEF Wrote, Filled, JobOK, Job
          <5> QED
            BY <5>1, NoProgress
        <4>2. CASE ~j.disturbed
          <5>1. Sets(Target(j), j.file, Head(j.todo)[2])
            BY <2>1, <2>4, <4>2, FillsWhole
          <5> QED
            BY <2>2, <3>1, <5>1, ProgressFilled
        <4> QED
          BY <4>1, <4>2
      <3> QED
        BY <2>1, <2>2, <3>1, <3>2, ProgressOthers
    <2>5. ASSUME SkillWritten(p)
          PROVE  \A q \in Procs : Progress(dir', link', job'[q])
      <3>1. Alone(p) /\ j.pc = "install" /\ j.files = {} /\ Advances(j, n)
        BY <2>1, <2>5, SkillWrittenMoves
      <3>2. Progress(dir, link, n)
        BY <2>2, <3>1, ProgressAdvances
      <3> QED
        BY <2>1, <2>2, <3>1, <3>2, ProgressAlone DEF Alone
    <2>6. ASSUME Link(p)
          PROVE  \A q \in Procs : Progress(dir', link', job'[q])
      <3>1. ~Installs(j.req) /\ (Alone(p) \/ Told(p)) /\ j.pc = "install"
        BY <2>1, <2>6, LinkMoves, LinksDoNotInstall
      <3>2. n.req = j.req
        <4>1. n = Finish(j, "failed") \/ \E i : Advances(j, i) /\ n \in {i, Wrote(i)}
          BY <2>1, <2>6, LinkMoves
        <4>2. n = Finish(j, "failed") => n.req = j.req
          BY <2>2 DEF Finish, JobOK, Job
        <4>3. GoesOn(j, n) => n.req = j.req
          BY <2>2, WorkKeeps
        <4> QED
          BY <3>1, <4>1, <4>2, <4>3 DEF GoesOn
      <3>3. Progress(dir', link', n)
        BY <3>1, <3>2, NoProgress
      <3> QED
        BY <2>1, <2>2, <3>1, <3>3, ProgressOthers DEF Alone
    <2>7. ASSUME NEW f \in Files, RemoveFile(p, f)
          PROVE  \A q \in Procs : Progress(dir', link', job'[q])
      <3>1. j.pc = "rm" /\ Told(p) /\ n = Wrote(j)
        BY <2>1, <2>7, RemoveFileMoves
      <3>2. n.pc = "rm"
        BY <2>2, <3>1 DEF Wrote, JobOK, Job
      <3>3. Progress(dir', link', n)
        BY <3>2, NoProgress
      <3> QED
        BY <2>1, <2>2, <3>1, <3>3, ProgressOthers
    <2>8. ASSUME UNCHANGED <<dir, link>>, ~GoesWriting(j, n), ~GoesOn(j, n)
          PROVE  \A q \in Procs : Progress(dir', link', job'[q])
      <3>1. Progress(dir, link, n)
        BY <2>2, <2>8, ProgressElse
      <3> QED
        BY <2>1, <2>2, <2>8, <3>1, ProgressAlone
    <2>9. ASSUME \/ \E r \in Requests[p] : Begin(p, r)
                 \/ \E d \in Keys : LoadRoot(p, d)
                 \/ \E t \in Targets : Scan(p, t) \/ Compare(p, t)
                 \/ Confirm(p) \/ Select(p) \/ PlanRemoval(p) \/ SkillRemoved(p)
          PROVE  UNCHANGED <<dir, link>> /\ ~GoesWriting(j, n) /\ ~GoesOn(j, n)
      <3>1. UNCHANGED <<dir, link>> /\ job[p].pc \notin {"install", "fill"}
        BY <2>9, BeginMoves, LoadRootMoves, ScanMoves, CompareMoves, ConfirmMoves,
           SelectMoves, PlanRemovalMoves, SkillRemovedMoves DEF Alone
      <3> QED
        BY <2>1, <3>1 DEF GoesWriting, GoesOn
    <2>10. ASSUME Breaks(p)
           PROVE  \A q \in Procs : Progress(dir', link', job'[q])
      <3>1. UNCHANGED <<dir, link>> /\ n = Finish(j, "failed")
        BY <2>1, <2>10, BreaksMoves
      <3>2. n.pc = "idle" /\ n.result # "ok"
        BY <2>2, <3>1 DEF Finish, JobOK, Job
      <3>3. Progress(dir, link, n)
        BY <3>2, NoProgress
      <3> QED
        BY <2>1, <2>2, <3>1, <3>3, ProgressAlone
    <2> QED
      BY <1>2, <2>3, <2>4, <2>5, <2>6, <2>7, <2>8, <2>9, <2>10 DEF Step
  <1>3. CASE Next
    BY <1>2, <1>3, NextIsStep DEF Complete
  <1> QED
    BY <1>1, <1>3

\* A get or deps --install that reports success, and that no other command
\* disturbed, has left every skill of its plan whole in every target.
THEOREM CompletenessTheorem == Spec => []InstalledIsComplete
  <1>1. Init => Complete
    BY NoProgress DEF Init, Complete, Idle
  <1>2. Typed /\ Untouched /\ Safe /\ Complete /\ [Next]_vars => Complete'
    BY CompleteStep
  <1>3. Complete => InstalledIsComplete
    <2>1. ASSUME Complete, NEW p \in Procs, job[p].pc = "idle", job[p].result = "ok",
                 Installs(job[p].req), ~job[p].disturbed,
                 NEW t \in Elements(TargetsOf(job[p].req.tools)),
                 NEW k \in Elements(job[p].nodes), NEW f \in FilesFor(job[p].req, k)
          PROVE  At(t, k[1])[f] = k[2]
      <3>1. Has(dir, link, t, k, f)
        BY <2>1 DEF Complete, Progress, Over
      <3> QED
        BY <3>1, PlaceIsIn DEF Has, At
    <2> QED
      BY <2>1 DEF InstalledIsComplete
  <1> QED
    BY <1>1, <1>2, <1>3, TypedAlways, UntouchedAlways, SafeAlways, PTL DEF Spec
=============================================================================
