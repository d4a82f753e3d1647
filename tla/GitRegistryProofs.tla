-------------------------- MODULE GitRegistryProofs --------------------------
(***************************************************************************)
(* What the Git registry keeps, for every set of versions, contents,       *)
(* machines, processes and requests, and any number of calls, of commits   *)
(* made with git itself and of failures.                                   *)
(*                                                                         *)
(* The types hold for any checkouts.  That the remote is never overwritten *)
(* and that what was answered is published are proved for processes that   *)
(* have a checkout each (OwnCheckouts), as one skuare at a time has: two   *)
(* that share one do not keep them apart.                                  *)
(***************************************************************************)
EXTENDS GitRegistry, SequenceTheorems, TLAPS

-----------------------------------------------------------------------------
(* Sequences.                                                              *)

LEMMA PrefixIs ==
    ASSUME NEW S, NEW s \in Seq(S), NEW t \in Seq(S)
    PROVE  IsPrefix(s, t) <=> Len(s) <= Len(t) /\ \A i \in 1..Len(s) : s[i] = t[i]
  BY DEF IsPrefix

LEMMA PrefixReflexive ==
    ASSUME NEW S, NEW s \in Seq(S)
    PROVE  IsPrefix(s, s)
  BY PrefixIs

LEMMA PrefixTransitive ==
    ASSUME NEW S, NEW s \in Seq(S), NEW t \in Seq(S), NEW u \in Seq(S),
           IsPrefix(s, t), IsPrefix(t, u)
    PROVE  IsPrefix(s, u)
  BY PrefixIs

LEMMA AppendPrefix ==
    ASSUME NEW S, NEW s \in Seq(S), NEW x \in S
    PROVE  IsPrefix(s, Append(s, x)) /\ Last(Append(s, x)) = x
  <1>1. /\ Append(s, x) \in Seq(S) /\ Len(Append(s, x)) = Len(s) + 1
        /\ \A i \in 1..Len(s) : Append(s, x)[i] = s[i]
        /\ Append(s, x)[Len(s) + 1] = x
    BY AppendProperties
  <1>2. IsPrefix(s, Append(s, x))
    <2> DEFINE t == Append(s, x)
    <2>1. t \in Seq(S) /\ Len(t) = Len(s) + 1 /\ \A i \in 1..Len(s) : t[i] = s[i]
      BY <1>1
    <2> HIDE DEF t
    <2>2. Len(s) <= Len(t) /\ \A i \in 1..Len(s) : s[i] = t[i]
      BY <2>1
    <2> QED
      BY <2>1, <2>2, PrefixIs DEF t
  <1> QED
    BY <1>1, <1>2 DEF Last

LEMMA LastIn ==
    ASSUME NEW S, NEW s \in Seq(S), s # <<>>
    PROVE  Last(s) \in S /\ Last(s) = s[Len(s)] /\ Len(s) \in Nat \ {0}
  BY DEF Last

LEMMA TailOf ==
    ASSUME NEW S, NEW s \in Seq(S), s # <<>>
    PROVE  /\ Head(s) \in S /\ Tail(s) \in Seq(S)
           /\ Head(s) \in ToSet(s) /\ ToSet(Tail(s)) \subseteq ToSet(s)
  BY DEF ToSet

-----------------------------------------------------------------------------
(* Types, and what a process knows at each of its steps.                   *)

ControlOK(p) ==
    /\ pc[p] # "idle" => req[p] \in Requests /\ req[p] \in asked
    /\ pc[p] \notin {"idle", "clone", "reply"} => head[M(p)] # <<>>
    /\ pc[p] \in {"check", "remove"} => req[p].op \in {"publish", "delete"}
    /\ pc[p] \in {"write", "writing"} =>
         req[p].op \in {"publish", "import"} /\ item[p] \in Item
    /\ pc[p] \in {"remove", "write", "writing"} /\ req[p].op = "publish" =>
         item[p] = <<req[p].key, req[p].content>>
    /\ pc[p] = "import" => req[p].op = "import"
Control == \A p \in Procs : ControlOK(p)

LEMMA Requested ==
    ASSUME NEW r \in Requests
    PROVE  /\ r \in Request /\ r.op \in {"publish", "delete", "import", "get"}
           /\ r.key \in Keys /\ r.content \in Contents /\ r.force \in BOOLEAN
           /\ r.items \in Seq(Item) /\ r.skip \in BOOLEAN
  BY RequestsAssumption DEF Request, Bundle

LEMMA OfMachine ==
    ASSUME NEW p \in Procs
    PROVE  M(p) \in Machines
  BY CheckoutAssumption DEF M

LEMMA CommitFields ==
    ASSUME NEW c \in Commit
    PROVE  /\ c.tree \in Tree /\ c.meta \in (Machines \X Nat) \cup {None}
           /\ c.by \in Machines \cup {None}
  BY DEF Commit

LEMMA TreeOf ==
    ASSUME NEW t \in Tree, NEW k \in Keys
    PROVE  t[k] \in Values
  BY DEF Tree

LEMMA EmptyIsTree == Empty \in Tree
  BY DEF Empty, Tree, Values

LEMMA InitType ==
    ASSUME Init
    PROVE  TypeOK /\ Control
  <1>1. Seed \in Commit
    BY EmptyIsTree DEF Seed, Commit
  <1>2. remote \in Seq(Commit) /\ remote # <<>>
    BY <1>1 DEF Init
  <1>3. <<>> \in Seq(Commit) /\ <<>> \in Seq(Item)
    OBVIOUS
  <1> QED
    BY <1>2, <1>3, EmptyIsTree DEF Init, TypeOK, Control, ControlOK, Labels

\* A process does not disturb the control of another.
LEMMA ControlKept ==
    ASSUME Control, NEW p \in Procs, pc'[p] = pc[p], req'[p] = req[p], item'[p] = item[p],
           asked \subseteq asked',
           \A m \in Machines : head[m] # <<>> => head'[m] # <<>>
    PROVE  ControlOK(p)'
  BY OfMachine DEF Control, ControlOK, M

LEMMA BeginType ==
    ASSUME TypeOK, Control, NEW p \in Procs, Begin(p)
    PROVE  TypeOK' /\ Control'
  <1>1. PICK r \in Requests :
          /\ req' = [req EXCEPT ![p] = r] /\ todo' = [todo EXCEPT ![p] = r.items]
          /\ asked' = asked \cup {r}
    BY DEF Begin
  <1>2. r \in Request /\ r.items \in Seq(Item)
    BY Requested
  <1>3. /\ pc' = [pc EXCEPT ![p] = "clone"] /\ calls' = calls + 1
        /\ UNCHANGED <<remote, head, work, stamped, answer, item, settled, wrote, edits,
                       troubles>>
    BY DEF Begin, Goto, checkouts
  <1>4. TypeOK'
    BY <1>1, <1>2, <1>3 DEF TypeOK, Labels
  <1>5. /\ pc'[p] = "clone" /\ req'[p] = r
        /\ \A q \in Procs : q # p => pc'[q] = pc[q] /\ req'[q] = req[q]
    BY <1>1, <1>3 DEF TypeOK
  <1>6. ControlOK(p)'
    BY <1>1, <1>5 DEF ControlOK
  <1>7. \A q \in Procs : q # p => ControlOK(q)'
    BY <1>1, <1>3, <1>5, ControlKept
  <1> QED
    BY <1>4, <1>6, <1>7 DEF Control

LEMMA ExitType ==
    ASSUME TypeOK, Control, NEW p \in Procs, Exit(p), UNCHANGED <<remote, checkouts, asked>>,
           calls' = calls, edits' = edits, troubles' \in Nat
    PROVE  TypeOK' /\ Control'
  <1>1. UNCHANGED <<remote, head, work, stamped, asked>>
    BY DEF checkouts
  <1>2. <<>> \in Seq(Item)
    OBVIOUS
  <1>3. TypeOK'
    BY <1>1, <1>2 DEF TypeOK, Labels, Exit, Goto
  <1>4. pc'[p] = "idle" /\ \A q \in Procs : q # p =>
          pc'[q] = pc[q] /\ req'[q] = req[q] /\ item'[q] = item[q]
    BY DEF TypeOK, Exit, Goto
  <1>5. \A q \in Procs : q # p => ControlOK(q)'
    BY <1>1, <1>4, ControlKept
  <1>6. ControlOK(p)'
    BY <1>4 DEF ControlOK
  <1> QED
    BY <1>3, <1>5, <1>6 DEF Control

\* A step of p that only moves it to another place and changes its locals.
LEMMA OwnStepType ==
    ASSUME TypeOK, Control, NEW p \in Procs,
           NEW l \in Labels, pc' = [pc EXCEPT ![p] = l],
           remote' \in Seq(Commit) /\ remote' # <<>>,
           head' \in [Machines -> Seq(Commit)], work' \in [Machines -> Tree],
           stamped' \in [Machines -> BOOLEAN],
           answer' \in [Procs -> {"none", "ok", "exists", "notfound", "error"}],
           item' \in [Procs -> Item \cup {None}], todo' \in [Procs -> Seq(Item)],
           settled' \in [Procs -> SUBSET Item], wrote' \in [Procs -> BOOLEAN],
           troubles' \in Nat, UNCHANGED <<req, asked, calls, edits>>,
           \A q \in Procs : q # p => item'[q] = item[q],
           \A m \in Machines : head[m] # <<>> => head'[m] # <<>>,
           ControlOK(p)'
    PROVE  TypeOK' /\ Control'
  <1>1. TypeOK'
    BY DEF TypeOK
  <1>2. \A q \in Procs : q # p => pc'[q] = pc[q]
    BY DEF TypeOK
  <1>3. \A q \in Procs : q # p => ControlOK(q)'
    BY <1>2, ControlKept
  <1> QED
    BY <1>1, <1>3 DEF Control

LEMMA FirstSteps ==
    ASSUME NEW r \in Requests
    PROVE  FirstStep(r.op) = IF r.op = "import" THEN "import"
                             ELSE IF r.op = "get" THEN "read" ELSE "check"
  BY Requested DEF FirstStep

LEMMA PulledType ==
    ASSUME TypeOK, NEW m \in Machines
    PROVE  Pulled(m) \in Tree /\ Last(remote) \in Commit /\ Last(remote).tree \in Tree
  <1>1. Last(remote) \in Commit
    BY LastIn DEF TypeOK
  <1>2. Last(remote).tree \in Tree
    BY <1>1, CommitFields
  <1>3. work[m] \in Tree
    BY DEF TypeOK
  <1>4. \A k \in Keys : Last(remote).tree[k] \in Values /\ work[m][k] \in Values
    BY <1>2, <1>3, TreeOf
  <1>5. Pulled(m) \in Tree
    BY <1>4 DEF Pulled, Tree
  <1> QED
    BY <1>1, <1>2, <1>5

LEMMA CloneType ==
    ASSUME TypeOK, Control, NEW p \in Procs, Clone(p)
    PROVE  TypeOK' /\ Control'
  <1> DEFINE m == M(p)
  <1>1. m \in Machines /\ Last(remote).tree \in Tree
    BY OfMachine, PulledType
  <1>2. /\ pc' = [pc EXCEPT ![p] = "refresh"] /\ pc[p] = "clone"
        /\ UNCHANGED <<remote, req, answer, item, todo, settled, wrote, asked, calls,
                       edits, troubles>>
    BY DEF Clone, Goto, locals, counters
  <1>3. \/ head[m] # <<>> /\ UNCHANGED <<head, work, stamped>>
        \/ /\ head' = [head EXCEPT ![m] = remote]
           /\ work' = [work EXCEPT ![m] = Last(remote).tree]
           /\ stamped' = [stamped EXCEPT ![m] = TRUE]
    BY DEF Clone, Stamps, checkouts
  <1>4. /\ head' \in [Machines -> Seq(Commit)] /\ work' \in [Machines -> Tree]
        /\ stamped' \in [Machines -> BOOLEAN] /\ head'[m] # <<>>
        /\ \A n \in Machines : head[n] # <<>> => head'[n] # <<>>
    <2> HIDE DEF m
    <2> QED
      BY <1>1, <1>3 DEF TypeOK
  <1>5. ControlOK(p)'
    <2>1. pc'[p] = "refresh" /\ req'[p] = req[p]
      BY <1>2 DEF TypeOK
    <2>2. req[p] \in Requests /\ req[p] \in asked
      BY <1>2 DEF Control, ControlOK
    <2> QED
      BY <1>2, <1>4, <2>1, <2>2 DEF ControlOK, M
  <1>6. "refresh" \in Labels
    BY DEF Labels
  <1> QED
    BY <1>2, <1>4, <1>5, <1>6, OwnStepType DEF TypeOK

\* Where a refresh leaves the checkout, pulled or only fetched.
LEMMA PullType ==
    ASSUME TypeOK, NEW m \in Machines, PullOrFetch(m)
    PROVE  /\ head' \in [Machines -> Seq(Commit)] /\ work' \in [Machines -> Tree]
           /\ stamped' \in [Machines -> BOOLEAN]
           /\ \A n \in Machines : head[n] # <<>> => head'[n] # <<>>
  <1>1. stamped' = [stamped EXCEPT ![m] = TRUE]
    BY DEF PullOrFetch, Stamps
  <1>2. \/ UNCHANGED <<head, work>>
        \/ head' = [head EXCEPT ![m] = remote] /\ work' = [work EXCEPT ![m] = Pulled(m)]
    BY DEF PullOrFetch
  <1>3. Pulled(m) \in Tree
    BY PulledType
  <1> QED
    BY <1>1, <1>2, <1>3 DEF TypeOK

\* After the refresh the process goes on as its request says.
LEMMA FirstStepControl ==
    ASSUME TypeOK, Control, NEW p \in Procs, pc[p] = "refresh",
           pc' = [pc EXCEPT ![p] = FirstStep(req[p].op)], UNCHANGED <<req, asked, item>>,
           \A m \in Machines : head[m] # <<>> => head'[m] # <<>>
    PROVE  ControlOK(p)' /\ FirstStep(req[p].op) \in Labels
  <1>1. req[p] \in Requests /\ req[p] \in asked /\ head[M(p)] # <<>> /\ M(p) \in Machines
    BY OfMachine DEF Control, ControlOK
  <1>2. FirstStep(req[p].op) = IF req[p].op = "import" THEN "import"
                               ELSE IF req[p].op = "get" THEN "read" ELSE "check"
    BY <1>1, FirstSteps
  <1>3. req[p].op \in {"publish", "delete", "import", "get"}
    BY <1>1, Requested
  <1>4. pc'[p] = FirstStep(req[p].op)
    BY DEF TypeOK
  <1>5. FirstStep(req[p].op) \in {"import", "read", "check"}
    BY <1>2
  <1> QED
    BY <1>1, <1>2, <1>3, <1>4, <1>5 DEF ControlOK, Labels, M

LEMMA RefreshType ==
    ASSUME TypeOK, Control, NEW p \in Procs, Refresh(p)
    PROVE  TypeOK' /\ Control'
  <1>1. /\ pc' = [pc EXCEPT ![p] = FirstStep(req[p].op)] /\ pc[p] = "refresh"
        /\ UNCHANGED <<remote, req, answer, item, todo, settled, wrote, asked, calls,
                       edits, troubles>>
    BY DEF Refresh, Goto, locals, counters
  <1>2. /\ head' \in [Machines -> Seq(Commit)] /\ work' \in [Machines -> Tree]
        /\ stamped' \in [Machines -> BOOLEAN]
        /\ \A n \in Machines : head[n] # <<>> => head'[n] # <<>>
    <2>1. CASE PullOrFetch(M(p))
      BY <2>1, OfMachine, PullType
    <2>2. CASE UNCHANGED checkouts
      BY <2>2 DEF checkouts, TypeOK
    <2> QED
      BY <2>1, <2>2 DEF Refresh
  <1>3. ControlOK(p)' /\ FirstStep(req[p].op) \in Labels
    BY <1>1, <1>2, FirstStepControl
  <1> QED
    BY <1>1, <1>2, <1>3, OwnStepType DEF TypeOK

LEMMA CheckType ==
    ASSUME TypeOK, Control, NEW p \in Procs,
           CheckSkill(p) \/ CheckAgentsMD(p) \/ CheckDelete(p)
    PROVE  TypeOK' /\ Control'
  <1>1. /\ pc[p] = "check" /\ req[p] \in Requests /\ req[p] \in asked
        /\ head[M(p)] # <<>> /\ M(p) \in Machines
        /\ req[p].key \in Keys /\ req[p].content \in Contents
    BY OfMachine, Requested DEF Control, ControlOK, CheckSkill, CheckAgentsMD, CheckDelete
  <1>2. UNCHANGED <<remote, head, work, stamped, req, todo, settled, wrote, asked, calls,
                    edits, troubles>>
    BY DEF CheckSkill, CheckAgentsMD, CheckDelete, checkouts, counters, locals
  <1>3. \/ /\ req[p].op = "publish"
           /\ item' = [item EXCEPT ![p] = <<req[p].key, req[p].content>>]
        \/ req[p].op = "delete" /\ item' = item
    BY DEF CheckSkill, CheckAgentsMD, CheckDelete, locals
  <1>4. \/ pc' = [pc EXCEPT ![p] = "write"] /\ answer' = answer /\ req[p].op = "publish"
        \/ pc' = [pc EXCEPT ![p] = "remove"] /\ answer' = answer
        \/ /\ pc' = [pc EXCEPT ![p] = "reply"]
           /\ answer' = [answer EXCEPT ![p] = "exists"]
              \/ answer' = [answer EXCEPT ![p] = "notfound"]
    BY DEF CheckSkill, CheckAgentsMD, CheckDelete, Goto, Return
  <1>5. <<req[p].key, req[p].content>> \in Item
    BY <1>1 DEF Item
  <1>6. /\ item' \in [Procs -> Item \cup {None}]
        /\ \A q \in Procs : q # p => item'[q] = item[q]
        /\ req[p].op = "publish" =>
              item'[p] \in Item /\ item'[p] = <<req[p].key, req[p].content>>
    BY <1>3, <1>5 DEF TypeOK
  <1>7. answer' \in [Procs -> {"none", "ok", "exists", "notfound", "error"}]
    BY <1>4 DEF TypeOK
  <1>8. PICK l \in {"write", "remove", "reply"} :
          pc' = [pc EXCEPT ![p] = l] /\ (l = "write" => req[p].op = "publish")
    BY <1>4
  <1>9. pc'[p] = l
    BY <1>8 DEF TypeOK
  <1>10. ControlOK(p)'
    BY <1>1, <1>2, <1>3, <1>6, <1>8, <1>9 DEF ControlOK, M
  <1>11. l \in Labels
    BY DEF Labels
  <1> QED
    BY <1>2, <1>6, <1>7, <1>8, <1>10, <1>11, OwnStepType DEF TypeOK

\* One version of the checkout's files is set.
LEMMA PutType ==
    ASSUME TypeOK, NEW p \in Procs, NEW k \in Keys, NEW x \in Values, Put(p, k, x)
    PROVE  /\ work' \in [Machines -> Tree]
           /\ \A n \in Keys : work'[M(p)][n] = IF n = k THEN x ELSE work[M(p)][n]
           /\ \A m \in Machines : m # M(p) => work'[m] = work[m]
  <1>1. M(p) \in Machines /\ work' = [work EXCEPT ![M(p)][k] = x]
    BY OfMachine DEF Put
  <1>2. work \in [Machines -> [Keys -> Values]]
    BY DEF TypeOK, Tree
  <1> DEFINE V == Values  m == M(p)
  <1> HIDE DEF V, m
  <1>3. work \in [Machines -> [Keys -> V]] /\ x \in V /\ m \in Machines
        /\ work' = [work EXCEPT ![m][k] = x]
    BY <1>1, <1>2 DEF V, m
  <1>4. /\ work' \in [Machines -> [Keys -> V]]
        /\ \A n \in Keys : work'[m][n] = IF n = k THEN x ELSE work[m][n]
        /\ \A n \in Machines : n # m => work'[n] = work[n]
    BY <1>3
  <1> QED
    BY <1>4 DEF V, m, Tree

LEMMA ValuesAre == None \in Values /\ Partial \in Values /\ Contents \subseteq Values
  BY DEF Values

LEMMA RemoveOldType ==
    ASSUME TypeOK, Control, NEW p \in Procs, RemoveOld(p)
    PROVE  TypeOK' /\ Control'
  <1> DEFINE l == IF req[p].op = "delete" THEN "commit" ELSE "write"
  <1>1. /\ pc[p] = "remove" /\ req[p] \in Requests /\ req[p] \in asked
        /\ head[M(p)] # <<>> /\ M(p) \in Machines /\ req[p].key \in Keys
        /\ req[p].op \in {"publish", "delete"}
    BY OfMachine, Requested DEF Control, ControlOK, RemoveOld
  <1>2. /\ pc' = [pc EXCEPT ![p] = l]
        /\ Put(p, req[p].key, None)
        /\ UNCHANGED <<remote, head, stamped, req, answer, item, todo, settled, wrote,
                       asked, calls, edits, troubles>>
    BY DEF RemoveOld, Goto, locals, counters
  <1>3. work' \in [Machines -> Tree]
    BY <1>1, <1>2, PutType, ValuesAre
  <1>4. l \in Labels /\ l \in {"commit", "write"} /\ pc'[p] = l
    BY <1>2 DEF Labels, TypeOK
  <1>5. l = "write" => req[p].op = "publish" /\ item[p] = <<req[p].key, req[p].content>>
    BY <1>1 DEF Control, ControlOK
  <1>6. <<req[p].key, req[p].content>> \in Item
    BY <1>1, Requested DEF Item
  <1> HIDE DEF l
  <1>7. ControlOK(p)'
    BY <1>1, <1>2, <1>4, <1>5, <1>6 DEF ControlOK, M
  <1> QED
    BY <1>2, <1>3, <1>4, <1>7, OwnStepType DEF TypeOK

LEMMA WriteFirstType ==
    ASSUME TypeOK, Control, NEW p \in Procs, WriteFirst(p)
    PROVE  TypeOK' /\ Control'
  <1>1. /\ pc[p] = "write" /\ ControlOK(p) /\ item[p] \in Item /\ item[p][1] \in Keys
    BY DEF Control, ControlOK, WriteFirst, Item
  <1>2. /\ pc' = [pc EXCEPT ![p] = "writing"]
        /\ Put(p, item[p][1], Partial)
        /\ UNCHANGED <<remote, head, stamped, req, answer, item, todo, settled, wrote,
                       asked, calls, edits, troubles>>
    BY DEF WriteFirst, Goto, locals, counters
  <1>3. work' \in [Machines -> Tree]
    BY <1>1, <1>2, PutType, ValuesAre
  <1>4. "writing" \in Labels /\ pc'[p] = "writing"
    BY <1>2 DEF Labels, TypeOK
  <1>5. ControlOK(p)'
    BY <1>1, <1>2, <1>4 DEF ControlOK, M
  <1> QED
    BY <1>2, <1>3, <1>4, <1>5, OwnStepType DEF TypeOK

LEMMA Settles ==
    ASSUME settled \in [Procs -> SUBSET Item], NEW p \in Procs, NEW it \in Item
    PROVE  /\ [settled EXCEPT ![p] = settled[p] \cup {it}] \in [Procs -> SUBSET Item]
           /\ [settled EXCEPT ![p] = settled[p]] \in [Procs -> SUBSET Item]
  <1> DEFINE S == SUBSET Item
             new == settled[p] \cup {it}
  <1>1. settled \in [Procs -> S] /\ settled[p] \in S /\ new \in S
    BY settled[p] \in SUBSET Item
  <1> HIDE DEF S, new
  <1>2. /\ [settled EXCEPT ![p] = new] \in [Procs -> S]
        /\ [settled EXCEPT ![p] = settled[p]] \in [Procs -> S]
    BY <1>1
  <1> QED
    BY <1>2 DEF S, new

LEMMA WriteRestType ==
    ASSUME TypeOK, Control, NEW p \in Procs, WriteRest(p)
    PROVE  TypeOK' /\ Control'
  <1>1. /\ pc[p] = "writing" /\ ControlOK(p) /\ item[p] \in Item
        /\ item[p][1] \in Keys /\ item[p][2] \in Contents
        /\ req[p].op \in {"publish", "import"}
    BY DEF Control, ControlOK, WriteRest, Item
  <1>2. /\ Put(p, item[p][1], item[p][2])
        /\ UNCHANGED <<remote, head, stamped, req, answer, item, todo,
                       asked, calls, edits, troubles>>
    BY DEF WriteRest, counters
  <1>3. \/ /\ req[p].op = "import" /\ pc' = [pc EXCEPT ![p] = "import"]
           /\ settled' = [settled EXCEPT ![p] = @ \cup {item[p]}]
           /\ wrote' = [wrote EXCEPT ![p] = TRUE]
        \/ /\ req[p].op # "import" /\ pc' = [pc EXCEPT ![p] = "commit"]
           /\ UNCHANGED <<settled, wrote>>
    BY DEF WriteRest, Goto
  <1>4. work' \in [Machines -> Tree]
    BY <1>1, <1>2, PutType, ValuesAre
  <1>5. settled' \in [Procs -> SUBSET Item] /\ wrote' \in [Procs -> BOOLEAN]
    <2>1. settled' = [settled EXCEPT ![p] = @ \cup {item[p]}] =>
          settled' = [settled EXCEPT ![p] = settled[p] \cup {item[p]}]
      BY DEF TypeOK
    <2>2. settled' \in [Procs -> SUBSET Item]
      BY <1>1, <1>3, <2>1, Settles DEF TypeOK
    <2> QED
      BY <1>3, <2>2 DEF TypeOK
  <1>6. PICK l \in {"import", "commit"} :
          pc' = [pc EXCEPT ![p] = l] /\ (l = "import" => req[p].op = "import")
    BY <1>3
  <1>7. pc'[p] = l /\ l \in Labels
    BY <1>6 DEF TypeOK, Labels
  <1>8. ControlOK(p)'
    BY <1>1, <1>2, <1>6, <1>7 DEF ControlOK, M
  <1> QED
    BY <1>2, <1>4, <1>5, <1>6, <1>7, <1>8, OwnStepType DEF TypeOK

LEMMA ImportItemType ==
    ASSUME TypeOK, Control, NEW p \in Procs, ImportItem(p)
    PROVE  TypeOK' /\ Control'
  <1> DEFINE it == Head(todo[p])
  <1>1. /\ pc[p] = "import" /\ ControlOK(p) /\ todo[p] # <<>> /\ todo[p] \in Seq(Item)
        /\ req[p].op = "import"
    BY DEF Control, ControlOK, ImportItem, TypeOK
  <1>2. it \in Item /\ Tail(todo[p]) \in Seq(Item)
    BY <1>1, TailOf
  <1>3. UNCHANGED <<remote, head, work, stamped, req, wrote, asked, calls, edits, troubles>>
    BY DEF ImportItem, checkouts, counters
  <1> HIDE DEF it
  <1>4. \/ /\ item' = [item EXCEPT ![p] = it] /\ todo' = [todo EXCEPT ![p] = Tail(@)]
           /\ pc' = [pc EXCEPT ![p] = "write"] /\ UNCHANGED <<answer, settled>>
        \/ /\ todo' = [todo EXCEPT ![p] = Tail(@)]
           /\ settled' = [settled EXCEPT ![p] = settled[p] \cup {it}]
              \/ settled' = [settled EXCEPT ![p] = settled[p]]
           /\ UNCHANGED <<pc, answer, item>>
        \/ /\ pc' = [pc EXCEPT ![p] = "reply"] /\ answer' = [answer EXCEPT ![p] = "exists"]
           /\ UNCHANGED <<item, todo, settled>>
    BY DEF ImportItem, Goto, Return, Skip, it
  <1>5. /\ item' \in [Procs -> Item \cup {None}] /\ todo' \in [Procs -> Seq(Item)]
        /\ settled' \in [Procs -> SUBSET Item]
        /\ answer' \in [Procs -> {"none", "ok", "exists", "notfound", "error"}]
        /\ \A q \in Procs : q # p => item'[q] = item[q]
    <2>1. item' \in [Procs -> Item \cup {None}]
      BY <1>2, <1>4 DEF TypeOK
    <2>2. todo' \in [Procs -> Seq(Item)]
      BY <1>2, <1>4 DEF TypeOK
    <2>3. settled' \in [Procs -> SUBSET Item]
      <3>1. settled \in [Procs -> SUBSET Item]
        BY DEF TypeOK
      <3>2. \/ settled' = settled
            \/ settled' = [settled EXCEPT ![p] = settled[p] \cup {it}]
            \/ settled' = [settled EXCEPT ![p] = settled[p]]
        BY <1>4
      <3> QED
        BY <1>2, <3>1, <3>2, Settles
    <2> QED
      BY <1>4, <2>1, <2>2, <2>3 DEF TypeOK
  <1>6. PICK l \in {"import", "write", "reply"} :
          pc' = [pc EXCEPT ![p] = l] /\ (l = "write" => item'[p] = it)
    <2>1. UNCHANGED pc => pc' = [pc EXCEPT ![p] = "import"]
      BY <1>1 DEF TypeOK
    <2>2. item' = [item EXCEPT ![p] = it] => item'[p] = it
      BY DEF TypeOK
    <2> QED
      BY <1>4, <2>1, <2>2
  <1>7. pc'[p] = l /\ l \in Labels
    BY <1>6 DEF TypeOK, Labels
  <1>8. ControlOK(p)'
    BY <1>1, <1>2, <1>3, <1>6, <1>7 DEF ControlOK, M
  <1> QED
    BY <1>3, <1>5, <1>6, <1>7, <1>8, OwnStepType DEF TypeOK

\* A step that only moves the process, or answers, and leaves the files alone.
LEMMA MoveType ==
    ASSUME TypeOK, Control, NEW p \in Procs, pc[p] # "idle",
           NEW l \in {"commit", "push", "stamp", "reply"}, pc' = [pc EXCEPT ![p] = l],
           pc[p] \in {"clone", "idle", "reply"} => l = "reply",
           NEW a \in {"ok", "exists", "notfound", "error"},
           answer' = answer \/ answer' = [answer EXCEPT ![p] = a],
           remote' \in Seq(Commit) /\ remote' # <<>>,
           head' \in [Machines -> Seq(Commit)], stamped' \in [Machines -> BOOLEAN],
           \A m \in Machines : head[m] # <<>> => head'[m] # <<>>,
           troubles' \in Nat,
           UNCHANGED <<work, req, item, todo, settled, wrote, asked, calls, edits>>
    PROVE  TypeOK' /\ Control'
  <1>1. pc'[p] = l /\ l \in Labels
    BY DEF TypeOK, Labels
  <1>2. ControlOK(p) /\ M(p) \in Machines
    BY OfMachine DEF Control
  <1>3. ControlOK(p)'
    BY <1>1, <1>2 DEF ControlOK, M
  <1>4. answer' \in [Procs -> {"none", "ok", "exists", "notfound", "error"}]
    BY DEF TypeOK
  <1> QED
    BY <1>1, <1>3, <1>4, OwnStepType DEF TypeOK

LEMMA ImportDoneType ==
    ASSUME TypeOK, Control, NEW p \in Procs, ImportDone(p)
    PROVE  TypeOK' /\ Control'
  <1>1. /\ pc[p] = "import"
        /\ UNCHANGED <<remote, head, work, stamped, req, item, todo, settled, wrote, asked,
                       calls, edits, troubles>>
    BY DEF ImportDone, checkouts, locals, counters
  <1>2. \/ pc' = [pc EXCEPT ![p] = "commit"] /\ answer' = answer
        \/ pc' = [pc EXCEPT ![p] = "reply"] /\ answer' = [answer EXCEPT ![p] = "ok"]
    BY DEF ImportDone, Goto, Return
  <1> QED
    BY <1>1, <1>2, MoveType DEF TypeOK

LEMMA NewCommitType ==
    ASSUME TypeOK, NEW m \in Machines, head[m] # <<>>
    PROVE  NewCommit(m) \in Commit
  <1>1. Last(head[m]) \in Commit /\ Len(head[m]) \in Nat
    BY LastIn DEF TypeOK
  <1>2. Last(head[m]).meta \in (Machines \X Nat) \cup {None}
    BY <1>1, CommitFields
  <1>3. <<m, Len(head[m]) + 1>> \in Machines \X Nat
    BY <1>1
  <1>4. work[m] \in Tree
    BY DEF TypeOK
  <1> QED
    BY <1>2, <1>3, <1>4 DEF NewCommit, Commit

LEMMA CommitAllType ==
    ASSUME TypeOK, Control, NEW p \in Procs, CommitAll(p)
    PROVE  TypeOK' /\ Control'
  <1> DEFINE m == M(p)
  <1>1. /\ pc[p] = "commit" /\ head[m] # <<>> /\ m \in Machines
        /\ UNCHANGED <<remote, work, req, item, todo, settled, wrote, asked,
                       calls, edits, troubles>>
    BY OfMachine DEF Control, ControlOK, CommitAll, locals, counters
  <1>2. \/ /\ pc' = [pc EXCEPT ![p] = "reply"] /\ answer' = [answer EXCEPT ![p] = "ok"]
           /\ UNCHANGED <<head, stamped>>
        \/ /\ head' = [head EXCEPT ![m] = Append(head[m], NewCommit(m))]
           /\ stamped' = [stamped EXCEPT ![m] = FALSE]
           /\ pc' = [pc EXCEPT ![p] = "push"] /\ answer' = answer
    <2>1. head' = [head EXCEPT ![m] = Append(@, NewCommit(m))] =>
          head' = [head EXCEPT ![m] = Append(head[m], NewCommit(m))]
      BY <1>1 DEF TypeOK
    <2> QED
      BY <2>1 DEF CommitAll, Goto, Return
  <1>3. Append(head[m], NewCommit(m)) \in Seq(Commit) /\ Append(head[m], NewCommit(m)) # <<>>
    <2>1. head[m] \in Seq(Commit) /\ NewCommit(m) \in Commit
      BY <1>1, NewCommitType DEF TypeOK
    <2> QED
      BY <2>1, AppendProperties
  <1> DEFINE longer == Append(head[m], NewCommit(m))
  <1> HIDE DEF longer, m
  <1>4. /\ head' \in [Machines -> Seq(Commit)] /\ stamped' \in [Machines -> BOOLEAN]
        /\ \A n \in Machines : head[n] # <<>> => head'[n] # <<>>
    <2>1. UNCHANGED <<head, stamped>> \/ (head' = [head EXCEPT ![m] = longer]
                                         /\ stamped' = [stamped EXCEPT ![m] = FALSE])
      BY <1>2 DEF longer, m
    <2> QED
      BY <1>1, <1>3, <2>1 DEF TypeOK, longer
  <1>5. PICK l \in {"push", "reply"} : pc' = [pc EXCEPT ![p] = l]
    BY <1>2
  <1>6. answer' = answer \/ answer' = [answer EXCEPT ![p] = "ok"]
    BY <1>2
  <1> QED
    BY <1>1, <1>4, <1>5, <1>6, MoveType DEF TypeOK

LEMMA PushType ==
    ASSUME TypeOK, Control, NEW p \in Procs, Push(p)
    PROVE  TypeOK' /\ Control'
  <1>1. /\ pc[p] = "push" /\ head[M(p)] # <<>> /\ M(p) \in Machines
        /\ UNCHANGED <<head, work, stamped, req, item, todo, settled, wrote, asked,
                       calls, edits, troubles>>
    BY OfMachine DEF Control, ControlOK, Push, checkouts, locals, counters
  <1>2. \/ /\ pc' = [pc EXCEPT ![p] = "stamp"] /\ answer' = answer /\ remote' = head[M(p)]
        \/ /\ pc' = [pc EXCEPT ![p] = "reply"] /\ answer' = [answer EXCEPT ![p] = "error"]
           /\ remote' = remote
    BY DEF Push, Goto, Return
  <1>3. remote' \in Seq(Commit) /\ remote' # <<>>
    BY <1>1, <1>2 DEF TypeOK
  <1>4. PICK l \in {"stamp", "reply"} : pc' = [pc EXCEPT ![p] = l]
    BY <1>2
  <1>5. answer' = answer \/ answer' = [answer EXCEPT ![p] = "error"]
    BY <1>2
  <1> QED
    BY <1>1, <1>3, <1>4, <1>5, MoveType DEF TypeOK

LEMMA StampType ==
    ASSUME TypeOK, Control, NEW p \in Procs, Stamp(p)
    PROVE  TypeOK' /\ Control'
  <1>1. /\ pc[p] = "stamp" /\ stamped' = [stamped EXCEPT ![M(p)] = TRUE]
        /\ UNCHANGED <<remote, head, work, req, item, todo, settled, wrote, asked,
                       calls, edits, troubles>>
        /\ pc' = [pc EXCEPT ![p] = "reply"] /\ answer' = [answer EXCEPT ![p] = "ok"]
    BY DEF Stamp, Stamps, Goto, Return, locals, counters
  <1>2. stamped' \in [Machines -> BOOLEAN]
    BY <1>1 DEF TypeOK
  <1> QED
    BY <1>1, <1>2, MoveType DEF TypeOK

LEMMA ReadType ==
    ASSUME TypeOK, Control, NEW p \in Procs, Read(p)
    PROVE  TypeOK' /\ Control'
  <1>1. PICK a \in {"ok", "notfound", "error"} : Return(p, a)
    BY DEF Read
  <1>2. /\ pc[p] = "read"
        /\ UNCHANGED <<remote, head, work, stamped, req, item, todo, settled, wrote, asked,
                       calls, edits, troubles>>
        /\ pc' = [pc EXCEPT ![p] = "reply"] /\ answer' = [answer EXCEPT ![p] = a]
    BY <1>1 DEF Read, Goto, Return, checkouts, locals, counters
  <1> QED
    BY <1>1, <1>2, MoveType DEF TypeOK

LEMMA FailType ==
    ASSUME TypeOK, Control, NEW p \in Procs, Fail(p)
    PROVE  TypeOK' /\ Control'
  <1>1. /\ UNCHANGED <<remote, head, work, req, item, todo, settled, wrote, asked,
                       calls, edits>>
        /\ troubles' \in Nat
    BY DEF Fail, locals, TypeOK
  <1>2. CASE /\ pc[p] \notin {"idle", "reply"} /\ UNCHANGED stamped
             /\ pc' = [pc EXCEPT ![p] = "reply"] /\ answer' = [answer EXCEPT ![p] = "error"]
    BY <1>1, <1>2, MoveType DEF TypeOK
  <1>3. CASE /\ pc[p] = "refresh" /\ answer' = answer
             /\ pc' = [pc EXCEPT ![p] = FirstStep(req[p].op)]
             /\ stamped' = stamped \/ stamped' = [stamped EXCEPT ![M(p)] = TRUE]
    <2>1. stamped' \in [Machines -> BOOLEAN]
      BY <1>3 DEF TypeOK
    <2>2. ControlOK(p)' /\ FirstStep(req[p].op) \in Labels
      BY <1>1, <1>3, FirstStepControl
    <2> QED
      BY <1>1, <1>3, <2>1, <2>2, OwnStepType DEF TypeOK
  <1> QED
    BY <1>2, <1>3 DEF Fail, Return, Goto, Stamps

LEMMA EditType ==
    ASSUME TypeOK, Control, Edit
    PROVE  /\ TypeOK' /\ Control'
           /\ \E c \in Commit : c.by = None /\ remote' = Append(remote, c)
  <1>1. UNCHANGED <<head, work, stamped, pc, req, answer, item, todo, settled, wrote, asked,
                    calls, troubles>> /\ edits' = edits + 1
    BY DEF Edit, checkouts, locals
  <1>2. PICK e \in Edits :
          remote' = Append(remote, [Last(remote) EXCEPT !.tree[e[1]] = e[2], !.by = None])
    BY DEF Edit
  <1> DEFINE old == Last(remote)
             c == [old EXCEPT !.tree[e[1]] = e[2], !.by = None]
  <1>3. old \in Commit /\ old.tree \in Tree /\ old.meta \in (Machines \X Nat) \cup {None}
    BY LastIn, CommitFields DEF TypeOK
  <1>4. e[1] \in Keys /\ e[2] \in Values
    BY RequestsAssumption
  <1>5. [old.tree EXCEPT ![e[1]] = e[2]] \in Tree
    <2> DEFINE V == Values
    <2>1. old.tree \in [Keys -> V] /\ e[2] \in V
      BY <1>3, <1>4 DEF Tree
    <2> HIDE DEF V, old
    <2>2. [old.tree EXCEPT ![e[1]] = e[2]] \in [Keys -> V]
      BY <1>4, <2>1
    <2> QED
      BY <2>2 DEF V, Tree, old
  <1> HIDE DEF old
  <1>7. c \in Commit /\ c.by = None
    <2>1. PICK tr \in Tree, mt \in (Machines \X Nat) \cup {None}, b \in Machines \cup {None} :
            old = [tree |-> tr, meta |-> mt, by |-> b]
      BY <1>3 DEF Commit
    <2>2. [tr EXCEPT ![e[1]] = e[2]] \in Tree
      BY <1>5, <2>1
    <2> DEFINE one == [old EXCEPT !.tree[e[1]] = e[2]]
    <2>3. one = [tree |-> [tr EXCEPT ![e[1]] = e[2]], meta |-> mt, by |-> b]
      BY <2>1
    <2>4. c = [one EXCEPT !.by = None]
      BY <2>1
    <2> HIDE DEF one, c
    <2>5. c = [tree |-> [tr EXCEPT ![e[1]] = e[2]], meta |-> mt, by |-> None]
      BY <2>3, <2>4
    <2> QED
      BY <2>2, <2>5 DEF Commit
  <1>8. remote' = Append(remote, c)
    BY <1>2 DEF old
  <1> HIDE DEF c
  <1>9. remote' \in Seq(Commit) /\ remote' # <<>>
    <2>1. remote \in Seq(Commit)
      BY DEF TypeOK
    <2> QED
      BY <1>7, <1>8, <2>1, AppendProperties
  <1>10. TypeOK'
    BY <1>1, <1>9 DEF TypeOK
  <1>11. Control'
    BY <1>1 DEF Control, ControlOK, M
  <1> QED
    BY <1>7, <1>8, <1>10, <1>11

LEMMA TypeStep ==
    ASSUME TypeOK, Control, [Next]_vars
    PROVE  TypeOK' /\ Control'
  <1>1. ASSUME NEW p \in Procs,
               \/ Begin(p) \/ Clone(p) \/ Refresh(p) \/ Write(p) \/ Read(p)
               \/ Reply(p) \/ Fail(p) \/ Kill(p)
        PROVE  TypeOK' /\ Control'
    <2>1. CASE Write(p)
      BY <2>1, CheckType, RemoveOldType, WriteFirstType, WriteRestType, ImportItemType,
         ImportDoneType, CommitAllType, PushType, StampType DEF Write
    <2>2. CASE Reply(p)
      BY <2>2, ExitType DEF Reply, counters, TypeOK
    <2>3. CASE Kill(p)
      <3>1. troubles' \in Nat
        BY <2>3 DEF Kill, TypeOK
      <3> QED
        BY <2>3, <3>1, ExitType DEF Kill
    <2> QED
      BY <1>1, <2>1, <2>2, <2>3, BeginType, CloneType, RefreshType, ReadType, FailType
  <1>2. CASE UNCHANGED vars
    BY <1>2 DEF vars, checkouts, locals, counters, TypeOK, Control, ControlOK, M
  <1> QED
    BY <1>1, <1>2, EditType DEF Next, Finished

(* Every variable keeps its type, whoever shares a checkout with whom.     *)
THEOREM TypeSafety == Spec => []TypeOK
  <1>1. Init => TypeOK /\ Control
    BY InitType
  <1>2. TypeOK /\ Control /\ [Next]_vars => TypeOK' /\ Control'
    BY TypeStep
  <1> QED
    BY <1>1, <1>2, PTL DEF Spec

-----------------------------------------------------------------------------
(* What a step of one process leaves to the others, when no two share a    *)
(* checkout.                                                               *)

OwnCheckouts == \A p, q \in Procs : CheckoutOf[p] = CheckoutOf[q] => p = q

Steps(p) == \/ Begin(p) \/ Clone(p) \/ Refresh(p) \/ Write(p) \/ Read(p)
            \/ Reply(p) \/ Fail(p) \/ Kill(p)

OthersAlone(p) ==
    /\ \A q \in Procs : q # p =>
         pc'[q] = pc[q] /\ req'[q] = req[q] /\ item'[q] = item[q] /\ todo'[q] = todo[q]
    /\ \A m \in Machines : m # M(p) =>
         head'[m] = head[m] /\ work'[m] = work[m] /\ stamped'[m] = stamped[m]
    /\ asked \subseteq asked'

LEMMA OwnMachine ==
    ASSUME OwnCheckouts, NEW p \in Procs, NEW q \in Procs, p # q
    PROVE  M(p) # M(q)
  BY DEF OwnCheckouts, M

LEMMA ExitAlone ==
    ASSUME TypeOK, NEW p \in Procs, Exit(p), UNCHANGED <<checkouts, asked>>
    PROVE  OthersAlone(p)
  BY DEF OthersAlone, Exit, Goto, checkouts, TypeOK

LEMMA CheckoutSteps ==
    ASSUME TypeOK, NEW p \in Procs, Clone(p) \/ Refresh(p) \/ CommitAll(p) \/ Stamp(p)
    PROVE  OthersAlone(p)
  <1>1. UNCHANGED <<req, item, todo, asked>>
    BY DEF Clone, Refresh, CommitAll, Stamp, locals
  <1>2. \A q \in Procs : q # p => pc'[q] = pc[q]
    BY DEF Clone, Refresh, CommitAll, Stamp, Goto, Return, TypeOK
  <1>3. M(p) \in Machines
    BY OfMachine
  <1>4. \A m \in Machines : m # M(p) => stamped'[m] = stamped[m]
    BY <1>3 DEF Clone, Refresh, CommitAll, Stamp, Stamps, PullOrFetch, checkouts, TypeOK
  <1>5. \A m \in Machines : m # M(p) => work'[m] = work[m]
    BY <1>3 DEF Clone, Refresh, CommitAll, Stamp, PullOrFetch, checkouts, TypeOK
  <1>6. \A m \in Machines : m # M(p) => head'[m] = head[m]
    BY <1>3 DEF Clone, Refresh, CommitAll, Stamp, PullOrFetch, checkouts, TypeOK
  <1> QED
    BY <1>1, <1>2, <1>4, <1>5, <1>6 DEF OthersAlone

LEMMA FileSteps ==
    ASSUME TypeOK, NEW p \in Procs, RemoveOld(p) \/ WriteFirst(p) \/ WriteRest(p)
    PROVE  OthersAlone(p)
  <1>1. UNCHANGED <<req, item, todo, asked, head, stamped>>
    BY DEF RemoveOld, WriteFirst, WriteRest, locals
  <1>2. \A q \in Procs : q # p => pc'[q] = pc[q]
    BY DEF RemoveOld, WriteFirst, WriteRest, Goto, TypeOK
  <1>3. M(p) \in Machines
    BY OfMachine
  <1>4. \A m \in Machines : m # M(p) => work'[m] = work[m]
    BY <1>3 DEF RemoveOld, WriteFirst, WriteRest, Put, TypeOK
  <1> QED
    BY <1>1, <1>2, <1>4 DEF OthersAlone

LEMMA LocalSteps ==
    ASSUME TypeOK, NEW p \in Procs,
           \/ Begin(p) \/ CheckSkill(p) \/ CheckAgentsMD(p) \/ CheckDelete(p)
           \/ ImportItem(p) \/ ImportDone(p) \/ Push(p) \/ Read(p)
    PROVE  OthersAlone(p)
  <1>1. UNCHANGED <<head, work, stamped>>
    BY DEF Begin, CheckSkill, CheckAgentsMD, CheckDelete, ImportItem, ImportDone, Push,
           Read, checkouts
  <1>2. asked \subseteq asked'
    BY DEF Begin, CheckSkill, CheckAgentsMD, CheckDelete, ImportItem, ImportDone, Push, Read
  <1>3. \A q \in Procs : q # p => pc'[q] = pc[q]
    BY DEF Begin, CheckSkill, CheckAgentsMD, CheckDelete, ImportItem, ImportDone, Push,
           Read, Goto, Return, Skip, TypeOK
  <1>4. \A q \in Procs : q # p => req'[q] = req[q]
    BY DEF Begin, CheckSkill, CheckAgentsMD, CheckDelete, ImportItem, ImportDone, Push,
           Read, TypeOK
  <1>5. \A q \in Procs : q # p => item'[q] = item[q]
    BY DEF Begin, CheckSkill, CheckAgentsMD, CheckDelete, ImportItem, ImportDone, Push,
           Read, Skip, locals, TypeOK
  <1>6. \A q \in Procs : q # p => todo'[q] = todo[q]
    BY DEF Begin, CheckSkill, CheckAgentsMD, CheckDelete, ImportItem, ImportDone, Push,
           Read, Skip, locals, TypeOK
  <1> QED
    BY <1>1, <1>2, <1>3, <1>4, <1>5, <1>6 DEF OthersAlone

LEMMA FailAlone ==
    ASSUME TypeOK, NEW p \in Procs, Fail(p)
    PROVE  OthersAlone(p)
  <1>1. UNCHANGED <<head, work, req, item, todo, asked>>
    BY DEF Fail, locals
  <1>2. \A q \in Procs : q # p => pc'[q] = pc[q]
    BY DEF Fail, Goto, Return, TypeOK
  <1>3. \A m \in Machines : m # M(p) => stamped'[m] = stamped[m]
    BY OfMachine DEF Fail, Stamps, TypeOK
  <1> QED
    BY <1>1, <1>2, <1>3 DEF OthersAlone

LEMMA StepsAlone ==
    ASSUME TypeOK, NEW p \in Procs, Steps(p)
    PROVE  OthersAlone(p)
  <1>1. CASE Write(p)
    BY <1>1, CheckoutSteps, FileSteps, LocalSteps DEF Write
  <1>2. CASE Reply(p) \/ Kill(p)
    BY <1>2, ExitAlone DEF Reply, Kill
  <1> QED
    BY <1>1, <1>2, CheckoutSteps, LocalSteps, FailAlone DEF Steps

\* The remote's history only grows, whoever pushes.
LEMMA RemoteGrows ==
    ASSUME TypeOK, Control, [Next]_vars
    PROVE  IsPrefix(remote, remote')
  <1>1. remote \in Seq(Commit) /\ remote # <<>>
    BY DEF TypeOK
  <1>2. CASE Edit
    <2>1. PICK c \in Commit : remote' = Append(remote, c)
      BY <1>2, EditType
    <2> QED
      BY <1>1, <2>1, AppendPrefix
  <1>3. CASE \E p \in Procs : Push(p)
    <2>1. PICK p \in Procs : Push(p)
      BY <1>3
    <2> QED
      BY <1>1, <2>1, PrefixReflexive DEF Push, Accepts
  <1>4. CASE remote' = remote
    BY <1>1, <1>4, PrefixReflexive
  <1>5. Edit \/ (\E p \in Procs : Push(p)) \/ remote' = remote
    BY DEF Next, vars, Begin, Clone, Refresh, Write, Read, Reply, Fail, Kill, Finished,
           CheckSkill, CheckAgentsMD, CheckDelete, RemoveOld, WriteFirst, WriteRest,
           ImportItem, ImportDone, CommitAll, Stamp
  <1> QED
    BY <1>2, <1>3, <1>4, <1>5

-----------------------------------------------------------------------------
(* What was answered is published.  A write keeps the checkout stamped     *)
(* from its refresh to its commit, so there always is something to commit; *)
(* the commit holds what was asked for, and success is answered only once  *)
(* the remote has taken it.                                                *)

Final(r) == IF r.op = "publish" THEN r.content ELSE None

HeldOK(p) ==
    req[p].op \in {"publish", "delete"} =>
        /\ pc[p] \in {"check", "remove", "write", "writing", "commit"} => stamped[M(p)]
        /\ pc[p] = "commit" => work[M(p)][req[p].key] = Final(req[p])
        /\ pc[p] \in {"push", "stamp"} => Last(head[M(p)]).tree[req[p].key] = Final(req[p])
        /\ pc[p] = "stamp" => IsPrefix(head[M(p)], remote)
Held == \A p \in Procs : HeldOK(p)

PromiseOK(pr) == pr.op \in {"publish", "delete"} => pr.head \in Seq(Commit) /\ Kept(pr)
Promises == \A pr \in promised : PromiseOK(pr)

LEMMA HeldElsewhere ==
    ASSUME OwnCheckouts, TypeOK, TypeOK', NEW p \in Procs, NEW q \in Procs, q # p,
           OthersAlone(p), IsPrefix(remote, remote'), HeldOK(q)
    PROVE  HeldOK(q)'
  <1>1. M(q) \in Machines /\ M(q) # M(p)
    BY OfMachine, OwnMachine
  <1>2. /\ pc'[q] = pc[q] /\ req'[q] = req[q]
        /\ head'[M(q)] = head[M(q)] /\ work'[M(q)] = work[M(q)]
        /\ stamped'[M(q)] = stamped[M(q)]
    BY <1>1 DEF OthersAlone
  <1>3. IsPrefix(head[M(q)], remote) => IsPrefix(head[M(q)], remote')
    <2>1. head[M(q)] \in Seq(Commit) /\ remote \in Seq(Commit) /\ remote' \in Seq(Commit)
      BY <1>1 DEF TypeOK
    <2> QED
      BY <2>1, PrefixTransitive
  <1> QED
    BY <1>2, <1>3 DEF HeldOK, M

LEMMA HeldRefresh ==
    ASSUME TypeOK, Control, NEW p \in Procs,
           Begin(p) \/ Clone(p) \/ Refresh(p) \/ Fail(p) \/ Read(p) \/ Reply(p) \/ Kill(p)
    PROVE  HeldOK(p)'
  <1>1. CASE Begin(p) \/ Clone(p)
    <2>1. pc'[p] \in {"clone", "refresh"}
      BY <1>1 DEF Begin, Clone, Goto, TypeOK
    <2> QED
      BY <2>1 DEF HeldOK
  <1>2. CASE Read(p) \/ Reply(p) \/ Kill(p)
    <2>1. pc'[p] \in {"idle", "reply"}
      BY <1>2 DEF Read, Reply, Kill, Exit, Return, Goto, TypeOK
    <2> QED
      BY <2>1 DEF HeldOK
  <1>3. CASE Refresh(p) \/ Fail(p)
    <2>1. /\ req' = req
          /\ \/ pc' = [pc EXCEPT ![p] = "reply"]
             \/ /\ pc[p] = "refresh" /\ pc' = [pc EXCEPT ![p] = FirstStep(req[p].op)]
                /\ req[p].op = "get" \/ stamped' = [stamped EXCEPT ![M(p)] = TRUE]
      BY <1>3 DEF Refresh, Fail, Return, Goto, PullOrFetch, Stamps
    <2>2. CASE pc' = [pc EXCEPT ![p] = "reply"]
      <3>1. pc'[p] = "reply"
        BY <2>2 DEF TypeOK
      <3> QED
        BY <3>1 DEF HeldOK
    <2>3. CASE /\ pc[p] = "refresh" /\ pc' = [pc EXCEPT ![p] = FirstStep(req[p].op)]
               /\ req[p].op = "get" \/ stamped' = [stamped EXCEPT ![M(p)] = TRUE]
      <3>1. req[p] \in Requests
        BY <2>3 DEF Control, ControlOK
      <3>2. pc'[p] \in {"import", "read", "check"}
        BY <2>3, <3>1, FirstSteps DEF TypeOK
      <3>3. req[p].op = "get" \/ stamped'[M(p)]
        BY <2>3, OfMachine DEF TypeOK
      <3> QED
        BY <2>1, <3>2, <3>3 DEF HeldOK, M
    <2> QED
      BY <2>1, <2>2, <2>3
  <1> QED
    BY <1>1, <1>2, <1>3

LEMMA HeldCheck ==
    ASSUME TypeOK, Control, NEW p \in Procs, HeldOK(p),
           CheckSkill(p) \/ CheckAgentsMD(p) \/ CheckDelete(p)
    PROVE  HeldOK(p)'
  <1>1. pc[p] = "check" /\ UNCHANGED <<req, stamped>>
    BY DEF CheckSkill, CheckAgentsMD, CheckDelete, checkouts
  <1>2. pc'[p] \in {"write", "remove", "reply"}
    BY DEF CheckSkill, CheckAgentsMD, CheckDelete, Goto, Return, TypeOK
  <1> QED
    BY <1>1, <1>2 DEF HeldOK, M

LEMMA HeldFiles ==
    ASSUME TypeOK, Control, NEW p \in Procs, HeldOK(p),
           RemoveOld(p) \/ WriteFirst(p) \/ WriteRest(p)
    PROVE  HeldOK(p)'
  <1>1. UNCHANGED <<req, stamped>> /\ ControlOK(p) /\ req[p] \in Requests
    BY DEF RemoveOld, WriteFirst, WriteRest, Control, ControlOK
  <1>2. req[p].key \in Keys /\ req[p].content \in Contents
    BY <1>1, Requested
  <1>3. CASE RemoveOld(p)
    <2>1. pc[p] = "remove" /\ Put(p, req[p].key, None)
      BY <1>3 DEF RemoveOld
    <2>2. work'[M(p)][req[p].key] = None
      BY <1>2, <2>1, PutType, ValuesAre
    <2>3. pc'[p] = IF req[p].op = "delete" THEN "commit" ELSE "write"
      BY <1>3 DEF RemoveOld, Goto, TypeOK
    <2> QED
      BY <1>1, <2>1, <2>2, <2>3 DEF HeldOK, Final, M
  <1>4. CASE WriteFirst(p)
    <2>1. pc[p] = "write" /\ pc'[p] = "writing"
      BY <1>4 DEF WriteFirst, Goto, TypeOK
    <2> QED
      BY <1>1, <2>1 DEF HeldOK, M
  <1>5. CASE WriteRest(p)
    <2>1. pc[p] = "writing" /\ Put(p, item[p][1], item[p][2]) /\ item[p] \in Item
      BY <1>1, <1>5 DEF WriteRest, ControlOK
    <2>2. item[p][1] \in Keys /\ item[p][2] \in Values
      BY <2>1, ValuesAre DEF Item
    <2>3. work'[M(p)][item[p][1]] = item[p][2]
      BY <2>1, <2>2, PutType
    <2>4. pc'[p] = IF req[p].op = "import" THEN "import" ELSE "commit"
      BY <1>5 DEF WriteRest, Goto, TypeOK
    <2>5. req[p].op \in {"publish", "import"}
          /\ (req[p].op = "publish" => item[p] = <<req[p].key, req[p].content>>)
      BY <1>1, <2>1 DEF ControlOK
    <2>6. req[p].op = "publish" => work'[M(p)][req[p].key] = req[p].content
      BY <2>3, <2>5
    <2> QED
      BY <1>1, <2>1, <2>4, <2>5, <2>6 DEF HeldOK, Final, M
  <1> QED
    BY <1>3, <1>4, <1>5

LEMMA HeldImport ==
    ASSUME TypeOK, Control, NEW p \in Procs, ImportItem(p) \/ ImportDone(p)
    PROVE  HeldOK(p)'
  <1>1. req' = req /\ req[p].op = "import"
    BY DEF ImportItem, ImportDone, Control, ControlOK
  <1> QED
    BY <1>1 DEF HeldOK

\* The new last commit is the tree of the checkout.
LEMMA CommitsWork ==
    ASSUME TypeOK, Control, NEW p \in Procs, CommitAll(p), ~Clean(M(p))
    PROVE  /\ M(p) \in Machines /\ head[M(p)] \in Seq(Commit) /\ head[M(p)] # <<>>
           /\ NewCommit(M(p)) \in Commit /\ NewCommit(M(p)).tree = work[M(p)]
           /\ head'[M(p)] = Append(head[M(p)], NewCommit(M(p)))
           /\ Last(head'[M(p)]) = NewCommit(M(p))
           /\ pc'[p] = "push" /\ promised' = promised
  <1>1. M(p) \in Machines /\ head[M(p)] \in Seq(Commit) /\ head[M(p)] # <<>>
    BY OfMachine DEF CommitAll, Control, ControlOK, TypeOK
  <1>2. NewCommit(M(p)) \in Commit /\ NewCommit(M(p)).tree = work[M(p)]
    BY <1>1, NewCommitType DEF NewCommit
  <1>3. head'[M(p)] = Append(head[M(p)], NewCommit(M(p)))
        /\ pc'[p] = "push" /\ promised' = promised
    BY <1>1 DEF CommitAll, Goto, TypeOK
  <1>4. Last(head'[M(p)]) = NewCommit(M(p))
    BY <1>1, <1>2, <1>3, AppendPrefix
  <1> QED
    BY <1>1, <1>2, <1>3, <1>4

LEMMA HeldCommit ==
    ASSUME TypeOK, Control, NEW p \in Procs, HeldOK(p), CommitAll(p)
    PROVE  HeldOK(p)' /\ (req[p].op \in {"publish", "delete"} => promised' = promised)
  <1>1. CASE req[p].op \in {"publish", "delete"}
    <2>1. pc[p] = "commit" /\ req' = req /\ stamped[M(p)]
          /\ work[M(p)][req[p].key] = Final(req[p])
      BY <1>1 DEF CommitAll, HeldOK
    <2>2. ~Clean(M(p))
      BY <2>1 DEF Clean
    <2> QED
      BY <1>1, <2>1, <2>2, CommitsWork DEF HeldOK, M
  <1>2. CASE req[p].op \notin {"publish", "delete"}
    BY <1>2 DEF CommitAll, HeldOK
  <1> QED
    BY <1>1, <1>2

LEMMA HeldPush ==
    ASSUME TypeOK, Control, NEW p \in Procs, HeldOK(p), Push(p) \/ Stamp(p)
    PROVE  HeldOK(p)'
  <1>1. CASE Push(p)
    <2>1. pc[p] = "push" /\ UNCHANGED <<req, head>>
      BY <1>1 DEF Push, checkouts
    <2>2. pc'[p] = "reply" \/ (pc'[p] = "stamp" /\ remote' = head[M(p)])
      BY <1>1 DEF Push, Goto, Return, TypeOK
    <2>3. IsPrefix(head[M(p)], head[M(p)])
      BY OfMachine, PrefixReflexive DEF TypeOK
    <2> QED
      BY <2>1, <2>2, <2>3 DEF HeldOK, M
  <1>2. CASE Stamp(p)
    <2>1. pc'[p] = "reply"
      BY <1>2 DEF Stamp, Return, Goto, TypeOK
    <2> QED
      BY <2>1 DEF HeldOK
  <1> QED
    BY <1>1, <1>2

LEMMA HeldOwn ==
    ASSUME TypeOK, Control, NEW p \in Procs, HeldOK(p), Steps(p)
    PROVE  HeldOK(p)'
  BY HeldRefresh, HeldCheck, HeldFiles, HeldImport, HeldCommit, HeldPush DEF Steps, Write

\* A promise stays kept, since the remote only grows.
LEMMA PromiseStays ==
    ASSUME TypeOK, TypeOK', IsPrefix(remote, remote'), NEW pr, PromiseOK(pr)
    PROVE  PromiseOK(pr)'
  <1>1. remote \in Seq(Commit) /\ remote' \in Seq(Commit)
    BY DEF TypeOK
  <1>2. pr.head \in Seq(Commit) /\ IsPrefix(pr.head, remote) => IsPrefix(pr.head, remote')
    BY <1>1, PrefixTransitive
  <1> QED
    BY <1>2 DEF PromiseOK, Kept

LEMMA StampPromises ==
    ASSUME TypeOK, Control, NEW p \in Procs, HeldOK(p), Stamp(p)
    PROVE  \E pr : promised' = promised \cup {pr} /\ PromiseOK(pr)
  <1> DEFINE pr == [op |-> req[p].op, head |-> head[M(p)], want |-> Want(p)]
  <1>1. pc[p] = "stamp" /\ promised' = promised \cup {pr}
    BY DEF Stamp, Promise
  <1>2. head[M(p)] \in Seq(Commit)
    BY OfMachine DEF TypeOK
  <1>3. pr.op = req[p].op /\ pr.head = head[M(p)] /\ pr.want = Want(p)
    OBVIOUS
  <1>4. req[p].op \in {"publish", "delete"} => Want(p) = {<<req[p].key, Final(req[p])>>}
    BY DEF Want, Final
  <1> HIDE DEF pr
  <1>5. PromiseOK(pr)
    BY <1>1, <1>2, <1>3, <1>4 DEF PromiseOK, Kept, HeldOK
  <1> QED
    BY <1>1, <1>5

LEMMA PromisesStep ==
    ASSUME TypeOK, TypeOK', Control, Held, Promises, [Next]_vars
    PROVE  Promises'
  <1>1. \A pr \in promised : PromiseOK(pr)'
    BY RemoteGrows, PromiseStays DEF Promises
  <1>2. \A pr : PromiseOK(pr) => PromiseOK(pr)'
    BY RemoteGrows, PromiseStays
  <1>3. CASE promised' = promised
    BY <1>1, <1>3 DEF Promises
  <1>4. CASE \E p \in Procs : Stamp(p)
    BY <1>1, <1>2, <1>4, StampPromises DEF Promises, Held
  <1>5. CASE \E p \in Procs : ImportDone(p) \/ CommitAll(p)
    <2>1. PICK p \in Procs : ImportDone(p) \/ CommitAll(p)
      BY <1>5
    <2>2. /\ ImportDone(p) => req[p].op = "import"
          /\ CommitAll(p) => (req[p].op \in {"publish", "delete"} => promised' = promised)
      BY HeldCommit DEF ImportDone, Control, ControlOK, Held
    <2>3. promised' = promised \/ Promise(p)
      BY <2>1 DEF ImportDone, CommitAll
    <2>4. CASE Promise(p) /\ req[p].op \notin {"publish", "delete"}
      <3>1. PICK pr : promised' = promised \cup {pr} /\ pr.op = req[p].op
        <4> DEFINE pr == [op |-> req[p].op, head |-> head[M(p)], want |-> Want(p)]
        <4>1. promised' = promised \cup {pr} /\ pr.op = req[p].op
          BY <2>4 DEF Promise
        <4> HIDE DEF pr
        <4> QED
          BY <4>1
      <3>2. PromiseOK(pr)'
        BY <2>4, <3>1 DEF PromiseOK
      <3> QED
        BY <1>1, <3>1, <3>2 DEF Promises
    <2> QED
      BY <1>3, <2>1, <2>2, <2>3, <2>4
  <1>6. \/ promised' = promised \/ \E p \in Procs : Stamp(p) \/ ImportDone(p) \/ CommitAll(p)
    BY DEF Next, vars, Begin, Clone, Refresh, Write, Read, Reply, Fail, Kill, Finished, Edit,
           CheckSkill, CheckAgentsMD, CheckDelete, RemoveOld, WriteFirst, WriteRest,
           ImportItem, Push
  <1> QED
    BY <1>3, <1>4, <1>5, <1>6

LEMMA HeldStep ==
    ASSUME OwnCheckouts, TypeOK, TypeOK', Control, Held, [Next]_vars
    PROVE  Held'
  <1>1. ASSUME NEW p \in Procs, Steps(p)
        PROVE  Held'
    BY <1>1, HeldOwn, StepsAlone, RemoteGrows, HeldElsewhere DEF Held
  <1>2. CASE Edit
    <2>1. UNCHANGED <<pc, req, head, work, stamped>>
      BY <1>2 DEF Edit, checkouts
    <2>2. ASSUME NEW q \in Procs, IsPrefix(head[M(q)], remote)
          PROVE  IsPrefix(head[M(q)], remote')
      <3>1. /\ head[M(q)] \in Seq(Commit) /\ remote \in Seq(Commit)
            /\ remote' \in Seq(Commit)
        BY OfMachine DEF TypeOK
      <3> QED
        BY <2>2, <3>1, RemoteGrows, PrefixTransitive
    <2> QED
      BY <2>1, <2>2 DEF Held, HeldOK, M
  <1>3. CASE UNCHANGED vars
    BY <1>3 DEF vars, checkouts, Held, HeldOK, M
  <1> QED
    BY <1>1, <1>2, <1>3 DEF Next, Finished, Steps

(* What a publish or a delete answered with success has promised is in the *)
(* remote's history, however often commands fail, are interrupted or meet  *)
(* commits made with git itself (publishSkill, publishAgentsMD,            *)
(* deleteSkill, deleteAgentsMD, commitAndPush).                            *)
THEOREM AnsweredTheorem ==
    ASSUME OwnCheckouts
    PROVE  Spec => []AnsweredIsPublished
  <1>1. Init => TypeOK /\ Control /\ Held /\ Promises
    BY InitType DEF Init, Held, HeldOK, Promises
  <1>2. TypeOK /\ Control /\ Held /\ Promises /\ [Next]_vars
        => TypeOK' /\ Control' /\ Held' /\ Promises'
    BY TypeStep, HeldStep, PromisesStep
  <1>3. Promises => AnsweredIsPublished
    BY DEF Promises, PromiseOK, AnsweredIsPublished
  <1> QED
    BY <1>1, <1>2, <1>3, PTL DEF Spec

-----------------------------------------------------------------------------
(* The remote is never overwritten.  What lies in a checkout and is not    *)
(* yet committed was asked for, also when it was left there by a command   *)
(* that failed; a process about to write has found nothing in its place or *)
(* was asked to replace it; so every commit skuare makes changes only what *)
(* somebody asked for.                                                     *)

\* Justified, by the calls of A.
Reason(A, old, new, k) ==
    /\ old \in Contents => \E r \in A : Replaces(r, k)
    /\ new \in Contents => \E r \in A : Puts(r, k, new)
Reasoned(A, old, new) ==
    \A k \in Keys : old[k] # new[k] => Reason(A, old[k], new[k], k)
Grounded(A, s) ==
    \A i \in 2..Len(s) : s[i].by # None => Reasoned(A, s[i - 1].tree, s[i].tree)

LEMMA ReasonIsJustified ==
    ASSUME NEW old, NEW new, NEW k
    PROVE  Justified(old, new, k) <=> Reason(asked, old, new, k)
  BY DEF Justified, Reason

LEMMA ReasonGrows ==
    ASSUME NEW A, NEW B, A \subseteq B, NEW old, NEW new, NEW k, Reason(A, old, new, k)
    PROVE  Reason(B, old, new, k)
  BY DEF Reason

LEMMA ReasonedGrows ==
    ASSUME NEW A, NEW B, A \subseteq B, NEW old, NEW new, Reasoned(A, old, new)
    PROVE  Reasoned(B, old, new)
  BY ReasonGrows DEF Reasoned

LEMMA GroundedGrows ==
    ASSUME NEW A, NEW B, A \subseteq B, NEW s \in Seq(Commit), Grounded(A, s)
    PROVE  Grounded(B, s)
  BY ReasonedGrows DEF Grounded

LEMMA GroundedAppend ==
    ASSUME NEW A, NEW s \in Seq(Commit), s # <<>>, NEW c \in Commit, Grounded(A, s),
           c.by = None \/ Reasoned(A, Last(s).tree, c.tree)
    PROVE  Grounded(A, Append(s, c))
  <1> DEFINE t == Append(s, c)
  <1>1. /\ Len(t) = Len(s) + 1 /\ \A i \in 1..Len(s) : t[i] = s[i]
        /\ t[Len(s) + 1] = c /\ Len(s) \in Nat \ {0} /\ Last(s) = s[Len(s)]
    BY AppendProperties, LastIn
  <1> HIDE DEF t
  <1>2. ASSUME NEW i \in 2..Len(t), t[i].by # None
        PROVE  Reasoned(A, t[i - 1].tree, t[i].tree)
    <2>1. CASE i <= Len(s)
      <3>1. i \in 2..Len(s) /\ t[i] = s[i] /\ t[i - 1] = s[i - 1]
        BY <1>1, <2>1
      <3> QED
        BY <1>2, <3>1 DEF Grounded
    <2>2. CASE i = Len(s) + 1
      <3>1. t[i] = c /\ t[i - 1] = s[Len(s)]
        BY <1>1, <2>2
      <3> QED
        BY <1>1, <1>2, <3>1
    <2> QED
      BY <1>1, <2>1, <2>2
  <1> QED
    BY <1>2 DEF Grounded, t

\* A content gives way to none, or to a part of one, as it gives way to another.
LEMMA GivesWay ==
    ASSUME NEW A, NEW old, NEW new, NEW k, Reason(A, old, new, k), NEW x \in {None, Partial}
    PROVE  Reason(A, old, x, k)
  BY SentinelAssumption DEF Reason

BranchOK(m) == head[m] # <<>> =>
    Grounded(asked, head[m]) /\ Reasoned(asked, Last(head[m]).tree, work[m])

TaskOK(p) ==
    /\ pc[p] # "idle" => ToSet(todo[p]) \subseteq ToSet(req[p].items)
    /\ pc[p] = "remove" => Replaces(req[p], req[p].key)
    /\ pc[p] \in {"write", "writing"} =>
         Reason(asked, Last(head[M(p)]).tree[item[p][1]], item[p][2], item[p][1])

Asked == /\ Grounded(asked, remote)
         /\ \A m \in Machines : BranchOK(m)
         /\ \A p \in Procs : TaskOK(p)

LEMMA InitAsked ==
    ASSUME Init
    PROVE  Asked
  <1>1. Len(remote) = 1
    BY DEF Init
  <1>2. Grounded(asked, remote)
    BY <1>1 DEF Grounded
  <1>3. \A m \in Machines : BranchOK(m)
    BY DEF Init, BranchOK
  <1>4. \A p \in Procs : TaskOK(p)
    BY DEF Init, TaskOK
  <1> QED
    BY <1>2, <1>3, <1>4 DEF Asked

LEMMA BranchKept ==
    ASSUME TypeOK, NEW m \in Machines, BranchOK(m), asked \subseteq asked',
           head'[m] = head[m], work'[m] = work[m]
    PROVE  BranchOK(m)'
  <1>1. head[m] \in Seq(Commit)
    BY DEF TypeOK
  <1>2. /\ Grounded(asked, head[m]) => Grounded(asked', head[m])
        /\ Reasoned(asked, Last(head[m]).tree, work[m])
           => Reasoned(asked', Last(head[m]).tree, work[m])
    BY <1>1, GroundedGrows, ReasonedGrows
  <1> QED
    BY <1>2 DEF BranchOK

LEMMA TaskElsewhere ==
    ASSUME OwnCheckouts, NEW p \in Procs, NEW q \in Procs, q # p, OthersAlone(p), TaskOK(q)
    PROVE  TaskOK(q)'
  <1>1. M(q) \in Machines /\ M(q) # M(p)
    BY OfMachine, OwnMachine
  <1>2. /\ pc'[q] = pc[q] /\ req'[q] = req[q] /\ item'[q] = item[q] /\ todo'[q] = todo[q]
        /\ head'[M(q)] = head[M(q)] /\ asked \subseteq asked'
    BY <1>1 DEF OthersAlone
  <1>3. Reason(asked, Last(head[M(q)]).tree[item[q][1]], item[q][2], item[q][1])
        => Reason(asked', Last(head[M(q)]).tree[item[q][1]], item[q][2], item[q][1])
    BY <1>2, ReasonGrows
  <1> QED
    BY <1>2, <1>3 DEF TaskOK, M

\* What is left to show for a step of p: its own task, its checkout, the remote.
LEMMA AskedStep ==
    ASSUME OwnCheckouts, TypeOK, Asked, NEW p \in Procs, OthersAlone(p),
           Grounded(asked', remote'), BranchOK(M(p))', TaskOK(p)'
    PROVE  Asked'
  <1>1. \A q \in Procs : TaskOK(q)'
    BY TaskElsewhere DEF Asked
  <1>2. \A m \in Machines : BranchOK(m)'
    <2>1. ASSUME NEW m \in Machines, m # M(p)
          PROVE  BranchOK(m)'
      BY <2>1, BranchKept DEF Asked, OthersAlone
    <2>2. ASSUME NEW m \in Machines, m = M(p)
          PROVE  BranchOK(m)'
      BY <2>2 DEF BranchOK, M
    <2> QED
      BY <2>1, <2>2
  <1> QED
    BY <1>1, <1>2 DEF Asked

LEMMA RemoteKept ==
    ASSUME TypeOK, Asked, asked \subseteq asked', remote' = remote
    PROVE  Grounded(asked', remote')
  BY GroundedGrows DEF TypeOK, Asked

\* A step that leaves the branch and the files of p's checkout alone.
LEMMA QuietStep ==
    ASSUME OwnCheckouts, TypeOK, Asked, NEW p \in Procs, OthersAlone(p),
           UNCHANGED <<remote, head, work>>, TaskOK(p)'
    PROVE  Asked'
  <1>1. asked \subseteq asked' /\ M(p) \in Machines
    BY OfMachine DEF OthersAlone
  <1>2. BranchOK(M(p))'
    <2>1. ASSUME NEW m \in Machines
          PROVE  BranchOK(m)'
      BY <1>1, BranchKept DEF Asked
    <2> QED
      BY <1>1, <2>1 DEF BranchOK, M
  <1> QED
    BY <1>1, <1>2, RemoteKept, AskedStep

\* At these steps a process has no task but to go on with its items.
LEMMA NoTask ==
    ASSUME Asked, NEW p \in Procs, pc'[p] \notin {"remove", "write", "writing"},
           pc'[p] # "idle" => pc[p] # "idle" /\ req'[p] = req[p]
                              /\ ToSet(todo'[p]) \subseteq ToSet(todo[p])
    PROVE  TaskOK(p)'
  BY DEF Asked, TaskOK

LEMMA BeginAsked ==
    ASSUME OwnCheckouts, TypeOK, Asked, NEW p \in Procs, Begin(p)
    PROVE  Asked'
  <1>1. PICK r \in Requests :
          req' = [req EXCEPT ![p] = r] /\ todo' = [todo EXCEPT ![p] = r.items]
    BY DEF Begin
  <1>2. UNCHANGED <<remote, head, work>> /\ pc' = [pc EXCEPT ![p] = "clone"]
    BY DEF Begin, Goto, checkouts
  <1>3. pc'[p] = "clone" /\ req'[p] = r /\ todo'[p] = r.items
    BY <1>1, <1>2 DEF TypeOK
  <1>4. TaskOK(p)'
    BY <1>3 DEF TaskOK
  <1> QED
    BY <1>2, <1>4, LocalSteps, QuietStep

LEMMA QuietAsked ==
    ASSUME OwnCheckouts, TypeOK, Control, Asked, NEW p \in Procs,
           \/ Read(p) \/ Reply(p) \/ Fail(p) \/ Kill(p) \/ Stamp(p) \/ ImportDone(p)
    PROVE  Asked'
  <1>1. UNCHANGED <<remote, head, work>>
    BY DEF Read, Reply, Fail, Kill, Stamp, ImportDone, checkouts
  <1>2. /\ pc'[p] \notin {"remove", "write", "writing"}
        /\ pc'[p] # "idle" => pc[p] # "idle" /\ req'[p] = req[p] /\ todo'[p] = todo[p]
    <2>1. CASE Reply(p) \/ Kill(p)
      BY <2>1 DEF Reply, Kill, Exit, Goto, TypeOK
    <2>2. CASE Read(p) \/ Stamp(p) \/ ImportDone(p)
      BY <2>2 DEF Read, Stamp, ImportDone, Return, Goto, locals, TypeOK
    <2>3. CASE Fail(p)
      <3>1. UNCHANGED <<req, todo>> /\ pc[p] # "idle"
        BY <2>3 DEF Fail, locals
      <3>2. pc'[p] = "reply" \/ (pc[p] = "refresh" /\ pc'[p] = FirstStep(req[p].op))
        BY <2>3 DEF Fail, Return, Goto, TypeOK
      <3>3. pc[p] = "refresh" => FirstStep(req[p].op) \in {"import", "read", "check"}
        BY FirstSteps DEF Control, ControlOK
      <3> QED
        BY <3>1, <3>2, <3>3
    <2> QED
      BY <2>1, <2>2, <2>3
  <1>3. TaskOK(p)'
    BY <1>2, NoTask
  <1>4. Steps(p)
    BY DEF Steps, Write
  <1> QED
    BY <1>1, <1>3, <1>4, StepsAlone, QuietStep

\* A checkout freshly at the remote's branch has nothing unasked for.
LEMMA PullAsked ==
    ASSUME TypeOK, Asked, NEW m \in Machines, asked' = asked,
           head'[m] = remote, NEW t \in Tree, work'[m] = t,
           \A k \in Keys : \/ t[k] = Last(remote).tree[k]
                           \/ /\ head[m] # <<>> /\ t[k] = work[m][k]
                              /\ Last(remote).tree[k] = Last(head[m]).tree[k]
    PROVE  BranchOK(m)'
  <1>1. Reasoned(asked, Last(remote).tree, t)
    <2>1. BranchOK(m)
      BY DEF Asked
    <2> QED
      BY <2>1 DEF BranchOK, Reasoned
  <1>2. Grounded(asked, remote)
    BY DEF Asked
  <1> QED
    BY <1>1, <1>2 DEF BranchOK

LEMMA CloneAsked ==
    ASSUME OwnCheckouts, TypeOK, Control, Asked, NEW p \in Procs, Clone(p)
    PROVE  Asked'
  <1>1. /\ M(p) \in Machines /\ OthersAlone(p) /\ UNCHANGED <<remote, req, todo, asked>>
        /\ pc[p] = "clone" /\ pc'[p] = "refresh"
    BY OfMachine, CheckoutSteps DEF Clone, Goto, locals, TypeOK
  <1>2. TaskOK(p)'
    BY <1>1, NoTask
  <1>3. CASE UNCHANGED checkouts
    BY <1>1, <1>2, <1>3, QuietStep DEF checkouts
  <1>4. CASE head'[M(p)] = remote /\ work'[M(p)] = Last(remote).tree
    <2>1. Last(remote).tree \in Tree
      BY <1>1, PulledType
    <2>2. ASSUME NEW m \in Machines, m = M(p)
          PROVE  BranchOK(m)'
      BY <1>1, <1>4, <2>1, <2>2, PullAsked
    <2>3. BranchOK(M(p))'
      BY <1>1, <2>2 DEF BranchOK, M
    <2> QED
      BY <1>1, <1>2, <2>3, RemoteKept, AskedStep
  <1>5. UNCHANGED checkouts \/ (head'[M(p)] = remote /\ work'[M(p)] = Last(remote).tree)
    BY <1>1 DEF Clone, TypeOK
  <1> QED
    BY <1>3, <1>4, <1>5

LEMMA RefreshAsked ==
    ASSUME OwnCheckouts, TypeOK, Control, Asked, NEW p \in Procs, Refresh(p)
    PROVE  Asked'
  <1>1. /\ M(p) \in Machines /\ OthersAlone(p) /\ UNCHANGED <<remote, req, todo, asked>>
        /\ pc[p] = "refresh" /\ pc'[p] = FirstStep(req[p].op)
        /\ req[p] \in Requests /\ head[M(p)] # <<>>
    BY OfMachine, CheckoutSteps DEF Refresh, Goto, locals, TypeOK, Control, ControlOK
  <1>2. pc'[p] \in {"import", "read", "check"}
    BY <1>1, FirstSteps
  <1>3. TaskOK(p)'
    BY <1>1, <1>2, NoTask
  <1>4. CASE UNCHANGED <<head, work>>
    BY <1>1, <1>3, <1>4, QuietStep
  <1>5. CASE head'[M(p)] = remote /\ work'[M(p)] = Pulled(M(p))
    <2>1. Pulled(M(p)) \in Tree
      BY <1>1, PulledType
    <2>2. ASSUME NEW m \in Machines, m = M(p)
          PROVE  BranchOK(m)'
      <3>1. \A k \in Keys : \/ Pulled(m)[k] = Last(remote).tree[k]
                            \/ /\ head[m] # <<>> /\ Pulled(m)[k] = work[m][k]
                               /\ Last(remote).tree[k] = Last(head[m]).tree[k]
        BY <1>1, <2>2 DEF Pulled, Changed
      <3> DEFINE t == Pulled(m)
      <3>2. t \in Tree /\ work'[m] = t
        BY <1>5, <2>1, <2>2
      <3> HIDE DEF t
      <3>3. \A k \in Keys : \/ work'[m][k] = Last(remote).tree[k]
                            \/ /\ head[m] # <<>> /\ work'[m][k] = work[m][k]
                               /\ Last(remote).tree[k] = Last(head[m]).tree[k]
        BY <3>1, <3>2 DEF t
      <3>4. PICK u \in Tree : work'[m] = u
        BY <3>2
      <3> QED
        BY <1>1, <1>5, <2>2, <3>3, <3>4, PullAsked
    <2>3. BranchOK(M(p))'
      BY <1>1, <2>2 DEF BranchOK, M
    <2> QED
      BY <1>1, <1>3, <2>3, RemoteKept, AskedStep
  <1>6. UNCHANGED <<head, work>> \/ (head'[M(p)] = remote /\ work'[M(p)] = Pulled(M(p)))
    BY <1>1 DEF Refresh, PullOrFetch, checkouts, TypeOK
  <1> QED
    BY <1>4, <1>5, <1>6

\* Where the checkout has nothing, nothing is lost that was not to be replaced.
LEMMA NothingThere ==
    ASSUME Asked, NEW m \in Machines, head[m] # <<>>, NEW k \in Keys, work[m][k] = None,
           NEW r \in asked, NEW x, Puts(r, k, x)
    PROVE  Reason(asked, Last(head[m]).tree[k], x, k)
  <1>1. Reasoned(asked, Last(head[m]).tree, work[m])
    BY DEF Asked, BranchOK
  <1>2. Last(head[m]).tree[k] \in Contents =>
          \E q \in asked : Replaces(q, k)
    BY <1>1, SentinelAssumption DEF Reasoned, Reason
  <1> QED
    BY <1>2 DEF Reason

LEMMA CheckAsked ==
    ASSUME OwnCheckouts, TypeOK, Control, Asked, NEW p \in Procs,
           CheckSkill(p) \/ CheckAgentsMD(p) \/ CheckDelete(p)
    PROVE  Asked'
  <1>1. /\ M(p) \in Machines /\ OthersAlone(p)
        /\ UNCHANGED <<remote, head, work, req, todo, asked>>
        /\ pc[p] = "check" /\ req[p] \in asked /\ req[p] \in Requests /\ head[M(p)] # <<>>
    BY OfMachine, LocalSteps
       DEF CheckSkill, CheckAgentsMD, CheckDelete, checkouts, locals, Control, ControlOK
  <1>2. ToSet(todo[p]) \subseteq ToSet(req[p].items)
    BY <1>1 DEF Asked, TaskOK
  <1>3. CASE pc'[p] = "reply"
    BY <1>1, <1>3, NoTask, QuietStep
  <1>4. CASE pc'[p] = "remove" /\ Replaces(req[p], req[p].key)
    <2>1. TaskOK(p)'
      BY <1>1, <1>2, <1>4 DEF TaskOK
    <2> QED
      BY <1>1, <2>1, QuietStep
  <1>5. CASE /\ pc'[p] = "write" /\ req[p].op = "publish" /\ work[M(p)][req[p].key] = None
             /\ item' = [item EXCEPT ![p] = <<req[p].key, req[p].content>>]
    <2>1. item'[p] = <<req[p].key, req[p].content>> /\ req[p].key \in Keys
      BY <1>1, <1>5, Requested DEF TypeOK
    <2>2. Puts(req[p], req[p].key, req[p].content)
      BY <1>5 DEF Puts
    <2>3. Reason(asked, Last(head[M(p)]).tree[req[p].key], req[p].content, req[p].key)
      BY <1>1, <1>5, <2>1, <2>2, NothingThere
    <2>4. TaskOK(p)'
      BY <1>1, <1>2, <1>5, <2>1, <2>3 DEF TaskOK, M
    <2> QED
      BY <1>1, <2>4, QuietStep
  <1>6. \/ pc'[p] = "reply"
        \/ pc'[p] = "remove" /\ Replaces(req[p], req[p].key)
        \/ /\ pc'[p] = "write" /\ req[p].op = "publish" /\ work[M(p)][req[p].key] = None
           /\ item' = [item EXCEPT ![p] = <<req[p].key, req[p].content>>]
    BY DEF CheckSkill, CheckAgentsMD, CheckDelete, Goto, Return, Files, Overwrites, Replaces,
           TypeOK
  <1> QED
    BY <1>3, <1>4, <1>5, <1>6

LEMMA PutAsked ==
    ASSUME TypeOK, Asked, NEW p \in Procs, NEW k \in Keys, NEW x \in Values, Put(p, k, x),
           UNCHANGED <<head, asked>>, Reason(asked, Last(head[M(p)]).tree[k], x, k)
    PROVE  BranchOK(M(p))'
  <1>1. /\ M(p) \in Machines
        /\ \A n \in Keys : work'[M(p)][n] = IF n = k THEN x ELSE work[M(p)][n]
    BY OfMachine, PutType
  <1>2. BranchOK(M(p))
    BY <1>1 DEF Asked
  <1> QED
    BY <1>1, <1>2 DEF BranchOK, Reasoned, M

LEMMA RemoveAsked ==
    ASSUME OwnCheckouts, TypeOK, Control, Asked, NEW p \in Procs, RemoveOld(p)
    PROVE  Asked'
  <1>1. /\ OthersAlone(p) /\ UNCHANGED <<remote, head, req, item, todo, asked>>
        /\ pc[p] = "remove" /\ Put(p, req[p].key, None)
        /\ pc'[p] = IF req[p].op = "delete" THEN "commit" ELSE "write"
    BY FileSteps DEF RemoveOld, Goto, locals, TypeOK
  <1>2. /\ req[p] \in asked /\ req[p] \in Requests /\ req[p].op \in {"publish", "delete"}
        /\ req[p].op = "publish" => item[p] = <<req[p].key, req[p].content>>
        /\ Replaces(req[p], req[p].key)
        /\ ToSet(todo[p]) \subseteq ToSet(req[p].items)
    BY <1>1 DEF Control, ControlOK, Asked, TaskOK
  <1>3. req[p].key \in Keys
    BY <1>2, Requested
  <1>4. \A old : Reason(asked, old, None, req[p].key)
    BY <1>2, SentinelAssumption DEF Reason
  <1>5. BranchOK(M(p))'
    BY <1>1, <1>3, <1>4, PutAsked, ValuesAre
  <1>6. req[p].op = "publish" =>
          \A old : Reason(asked, old, req[p].content, req[p].key)
    BY <1>2 DEF Reason, Puts
  <1>7. TaskOK(p)'
    BY <1>1, <1>2, <1>6 DEF TaskOK, M
  <1> QED
    BY <1>1, <1>5, <1>7, RemoteKept, AskedStep

LEMMA WriteAsked ==
    ASSUME OwnCheckouts, TypeOK, Control, Asked, NEW p \in Procs,
           WriteFirst(p) \/ WriteRest(p)
    PROVE  Asked'
  <1>1. /\ OthersAlone(p) /\ UNCHANGED <<remote, head, req, item, todo, asked>>
        /\ pc[p] \in {"write", "writing"}
    BY FileSteps DEF WriteFirst, WriteRest, locals
  <1>2. /\ item[p][1] \in Keys /\ item[p][2] \in Contents
        /\ Reason(asked, Last(head[M(p)]).tree[item[p][1]], item[p][2], item[p][1])
        /\ ToSet(todo[p]) \subseteq ToSet(req[p].items)
    BY <1>1 DEF Control, ControlOK, Asked, TaskOK, Item
  <1>3. CASE WriteFirst(p)
    <2>1. Put(p, item[p][1], Partial) /\ pc'[p] = "writing"
      BY <1>3 DEF WriteFirst, Goto, TypeOK
    <2>2. Reason(asked, Last(head[M(p)]).tree[item[p][1]], Partial, item[p][1])
      BY <1>2, GivesWay
    <2>3. BranchOK(M(p))'
      BY <1>1, <1>2, <2>1, <2>2, PutAsked, ValuesAre
    <2>4. TaskOK(p)'
      BY <1>1, <1>2, <2>1 DEF TaskOK, M
    <2> QED
      BY <1>1, <2>3, <2>4, RemoteKept, AskedStep
  <1>4. CASE WriteRest(p)
    <2>1. Put(p, item[p][1], item[p][2]) /\ pc'[p] \in {"import", "commit"}
      BY <1>4 DEF WriteRest, Goto, TypeOK
    <2>2. item[p][2] \in Values
      BY <1>2, ValuesAre
    <2>3. BranchOK(M(p))'
      BY <1>1, <1>2, <2>1, <2>2, PutAsked
    <2>4. TaskOK(p)'
      BY <1>1, <2>1, NoTask
    <2> QED
      BY <1>1, <2>3, <2>4, RemoteKept, AskedStep
  <1> QED
    BY <1>3, <1>4

LEMMA ImportAsked ==
    ASSUME OwnCheckouts, TypeOK, Control, Asked, NEW p \in Procs, ImportItem(p)
    PROVE  Asked'
  <1> DEFINE it == Head(todo[p])
  <1>1. /\ M(p) \in Machines /\ OthersAlone(p)
        /\ UNCHANGED <<remote, head, work, req, asked>>
        /\ pc[p] = "import" /\ req[p] \in asked /\ req[p].op = "import" /\ head[M(p)] # <<>>
        /\ todo[p] \in Seq(Item) /\ todo[p] # <<>>
    BY OfMachine, LocalSteps DEF ImportItem, checkouts, Control, ControlOK, TypeOK
  <1>2. /\ it \in Item /\ it \in ToSet(req[p].items)
        /\ ToSet(Tail(todo[p])) \subseteq ToSet(todo[p])
        /\ ToSet(Tail(todo[p])) \subseteq ToSet(req[p].items)
    <2>1. ToSet(todo[p]) \subseteq ToSet(req[p].items)
      BY <1>1 DEF Asked, TaskOK
    <2> QED
      BY <1>1, <2>1, TailOf
  <1> HIDE DEF it
  <1>3. todo'[p] = todo[p] \/ todo'[p] = Tail(todo[p])
    BY <1>1 DEF ImportItem, Skip, TypeOK
  <1>4. CASE pc'[p] \in {"import", "reply"}
    <2>1. TaskOK(p)'
      BY <1>1, <1>2, <1>3, <1>4, NoTask
    <2> QED
      BY <1>1, <2>1, QuietStep
  <1>5. CASE pc'[p] = "write" /\ item'[p] = it /\ work[M(p)][it[1]] = None
    <2>1. it[1] \in Keys /\ it = <<it[1], it[2]>>
      BY <1>2 DEF Item
    <2>2. Puts(req[p], it[1], it[2])
      BY <1>1, <1>2, <2>1 DEF Puts
    <2>3. Reason(asked, Last(head[M(p)]).tree[it[1]], it[2], it[1])
      BY <1>1, <1>5, <2>1, <2>2, NothingThere
    <2>4. ToSet(todo'[p]) \subseteq ToSet(req[p].items)
      BY <1>1, <1>2, <1>3 DEF Asked, TaskOK
    <2>5. TaskOK(p)'
      BY <1>1, <1>5, <2>3, <2>4 DEF TaskOK, M
    <2> QED
      BY <1>1, <2>5, QuietStep
  <1>6. \/ pc'[p] \in {"import", "reply"}
        \/ pc'[p] = "write" /\ item'[p] = it /\ work[M(p)][it[1]] = None
    <2>1. \/ work[M(p)][it[1]] = None /\ item' = [item EXCEPT ![p] = it]
             /\ pc' = [pc EXCEPT ![p] = "write"]
          \/ pc' = pc
          \/ pc' = [pc EXCEPT ![p] = "reply"]
      BY DEF ImportItem, Skip, Goto, Return, Files, it
    <2> QED
      BY <1>1, <2>1 DEF TypeOK
  <1> QED
    BY <1>4, <1>5, <1>6

LEMMA CommitAsked ==
    ASSUME OwnCheckouts, TypeOK, Control, Asked, NEW p \in Procs, CommitAll(p)
    PROVE  Asked'
  <1>1. /\ M(p) \in Machines /\ OthersAlone(p) /\ UNCHANGED <<remote, work, req, todo, asked>>
        /\ pc[p] = "commit" /\ pc'[p] \in {"reply", "push"}
    BY OfMachine, CheckoutSteps DEF CommitAll, Goto, Return, locals, TypeOK
  <1>2. TaskOK(p)'
    BY <1>1, NoTask
  <1>3. CASE Clean(M(p))
    BY <1>1, <1>2, <1>3, QuietStep DEF CommitAll
  <1>4. CASE ~Clean(M(p))
    <2>1. /\ head[M(p)] \in Seq(Commit) /\ head[M(p)] # <<>>
          /\ NewCommit(M(p)) \in Commit /\ NewCommit(M(p)).tree = work[M(p)]
          /\ head'[M(p)] = Append(head[M(p)], NewCommit(M(p)))
          /\ Last(head'[M(p)]) = NewCommit(M(p))
      BY <1>4, CommitsWork
    <2>2. Grounded(asked, head[M(p)]) /\ Reasoned(asked, Last(head[M(p)]).tree, work[M(p)])
      BY <1>1, <2>1 DEF Asked, BranchOK
    <2>3. Grounded(asked, head'[M(p)])
      BY <2>1, <2>2, GroundedAppend
    <2>4. Reasoned(asked, work[M(p)], work[M(p)])
      BY DEF Reasoned
    <2>5. BranchOK(M(p))'
      BY <1>1, <2>1, <2>3, <2>4 DEF BranchOK, M
    <2> QED
      BY <1>1, <1>2, <2>5, RemoteKept, AskedStep
  <1> QED
    BY <1>3, <1>4

LEMMA PushAsked ==
    ASSUME OwnCheckouts, TypeOK, Control, Asked, NEW p \in Procs, Push(p)
    PROVE  Asked'
  <1>1. /\ M(p) \in Machines /\ OthersAlone(p) /\ UNCHANGED <<head, work, req, todo, asked>>
        /\ pc[p] = "push" /\ pc'[p] \in {"reply", "stamp"} /\ head[M(p)] # <<>>
        /\ remote' = remote \/ remote' = head[M(p)]
    BY OfMachine, LocalSteps
       DEF Push, Goto, Return, checkouts, locals, TypeOK, Control, ControlOK
  <1>2. TaskOK(p)'
    BY <1>1, NoTask
  <1>3. Grounded(asked', remote')
    BY <1>1 DEF Asked, BranchOK
  <1>4. BranchOK(M(p))'
    BY <1>1 DEF Asked, BranchOK, M
  <1> QED
    BY <1>1, <1>2, <1>3, <1>4, AskedStep

LEMMA EditAsked ==
    ASSUME TypeOK, Control, Asked, Edit
    PROVE  Asked'
  <1>1. UNCHANGED <<head, work, pc, req, item, todo, asked>>
    BY DEF Edit, checkouts, locals
  <1>2. PICK c \in Commit : c.by = None /\ remote' = Append(remote, c)
    BY EditType
  <1>3. Grounded(asked, remote')
    BY <1>2, GroundedAppend DEF Asked, TypeOK
  <1> QED
    BY <1>1, <1>3 DEF Asked, BranchOK, TaskOK, M

LEMMA AskedNext ==
    ASSUME OwnCheckouts, TypeOK, Control, Asked, [Next]_vars
    PROVE  Asked'
  <1>1. CASE \E p \in Procs : Steps(p)
    BY <1>1, BeginAsked, QuietAsked, CloneAsked, RefreshAsked, CheckAsked, RemoveAsked,
       WriteAsked, ImportAsked, CommitAsked, PushAsked DEF Steps, Write
  <1>2. CASE UNCHANGED vars
    BY <1>2 DEF vars, checkouts, locals, Asked, BranchOK, TaskOK, M
  <1> QED
    BY <1>1, <1>2, EditAsked DEF Next, Steps, Finished

\* Only a push adds commits of skuare's own, and it adds grounded ones.
LEMMA AddsGrounded ==
    ASSUME TypeOK, Control, Asked, [Next]_vars,
           NEW i \in (Len(remote) + 1)..Len(remote'), remote'[i].by # None
    PROVE  i \in 2..Len(remote') /\ Grounded(asked, remote')
  <1>1. remote \in Seq(Commit) /\ Len(remote) \in Nat \ {0}
    BY LastIn DEF TypeOK
  <1>2. i \in 2..Len(remote')
    BY <1>1
  <1>3. CASE remote' = remote
    BY <1>1, <1>3
  <1>4. CASE Edit
    <2>1. PICK c \in Commit : c.by = None /\ remote' = Append(remote, c)
      BY <1>4, EditType
    <2>2. Len(remote') = Len(remote) + 1 /\ remote'[Len(remote) + 1] = c
      BY <1>1, <2>1, AppendProperties
    <2> QED
      BY <1>1, <2>1, <2>2
  <1>5. CASE \E p \in Procs : Push(p)
    <2>1. PICK p \in Procs : Push(p)
      BY <1>5
    <2>2. M(p) \in Machines /\ head[M(p)] # <<>> /\ pc[p] = "push"
      BY <2>1, OfMachine DEF Push, Control, ControlOK
    <2>3. remote' = remote \/ remote' = head[M(p)]
      BY <2>1 DEF Push
    <2>4. remote' = head[M(p)] => Grounded(asked, remote')
      BY <2>2 DEF Asked, BranchOK
    <2> QED
      BY <1>2, <1>3, <2>3, <2>4
  <1>6. remote' = remote \/ (\E p \in Procs : Push(p)) \/ Edit
    BY DEF Next, vars, Begin, Clone, Refresh, Write, Read, Reply, Fail, Kill, Finished,
           CheckSkill, CheckAgentsMD, CheckDelete, RemoveOld, WriteFirst, WriteRest,
           ImportItem, ImportDone, CommitAll, Stamp
  <1> QED
    BY <1>3, <1>4, <1>5, <1>6

(* The remote's history only grows, and what skuare adds to it replaces a  *)
(* published version, or brings a content, only where some call asked for  *)
(* it (writeSkillPayload, writeAgentsMD, deleteSkill, importResources,     *)
(* commitAndPush).                                                         *)
THEOREM RemoteTheorem ==
    ASSUME OwnCheckouts
    PROVE  Spec => RemoteIsImmutable
  <1> DEFINE Adds ==
        /\ IsPrefix(remote, remote')
        /\ \A i \in Len(remote) + 1 .. Len(remote') : remote'[i].by # None =>
             \A k \in Keys : remote'[i].tree[k] # remote'[i - 1].tree[k] =>
                 Justified(remote'[i - 1].tree[k], remote'[i].tree[k], k)
  <1>1. Init => TypeOK /\ Control /\ Asked
    BY InitType, InitAsked
  <1>2. TypeOK /\ Control /\ Asked /\ [Next]_vars => TypeOK' /\ Control' /\ Asked'
    BY TypeStep, AskedNext
  <1>3. TypeOK /\ Control /\ Asked /\ [Next]_vars => [Adds]_vars
    <2> SUFFICES ASSUME TypeOK, Control, Asked, [Next]_vars
                 PROVE  Adds
      OBVIOUS
    <2>1. ASSUME NEW i \in (Len(remote) + 1)..Len(remote'), remote'[i].by # None,
                 NEW k \in Keys, remote'[i].tree[k] # remote'[i - 1].tree[k]
          PROVE  Justified(remote'[i - 1].tree[k], remote'[i].tree[k], k)
      <3>1. Reason(asked, remote'[i - 1].tree[k], remote'[i].tree[k], k)
        BY <2>1, AddsGrounded DEF Grounded, Reasoned
      <3> QED
        BY <3>1 DEF Justified, Reason
    <2> QED
      BY <2>1, RemoteGrows
  <1> QED
    BY <1>1, <1>2, <1>3, PTL DEF Spec, RemoteIsImmutable
=============================================================================
