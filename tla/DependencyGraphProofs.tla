------------------------ MODULE DependencyGraphProofs ------------------------
(***************************************************************************)
(* TypeOK, AcceptedIsAcyclic, GraphIsClosure, RefusalIsReal and            *)
(* SubtreeIsComplete of DependencyGraph hold for every set of skill        *)
(* versions, every root and every answer of the registry, however large    *)
(* the graph.                                                              *)
(*                                                                         *)
(* None of them is inductive.  What carries them is the usual argument for *)
(* a depth-first visit: a key leaves the stack when everything it needs is *)
(* completed (Finished), so the completed keys are closed and no set of    *)
(* them is endless; and nothing is put into the graph that is not in every *)
(* closed set around the root (Reached).  The graph grows while it is      *)
(* walked: a fetch changes only the key that was not read before (Unread). *)
(*                                                                         *)
(* The second walk, collectSubtree, meets the nodes as the first did       *)
(* because a depth-first order is determined by itself (Preorder): what    *)
(* comes next is the first unlisted dependency of the last listed key that *)
(* has one.                                                                *)
(***************************************************************************)
EXTENDS DependencyGraph, SequenceTheorems, FiniteSetTheorems, NaturalsInduction,
        WellFoundedInduction, TLAPS

Read == loaded \cup {Root}

Control ==
    /\ phase = "root" =>
          /\ outcome = "none" /\ stack = <<>> /\ order = <<>>
          /\ completed = {} /\ loaded = {}
          /\ deps = [k \in Keys |-> <<>>]
          /\ version = [s \in Skills |-> None]
    /\ phase = "build" => outcome = "none" /\ stack # <<>>
    /\ phase \in {"built", "walk"} => outcome = "ok"
    /\ phase = "walk" => trail # <<>>
    /\ outcome = "ok" => stack = <<>>
    /\ phase # "root" /\ outcome \in {"none", "ok", "cycle", "conflict"} => Root \in Nodes

Unread == \A k \in Keys : k \notin Read => deps[k] = <<>>

Members ==
    /\ Nodes = completed \cup Active
    /\ completed \cap Active = {}
    /\ Nodes \subseteq Read

Distinct == \A i, n \in DOMAIN stack : stack[i].key = stack[n].key => i = n

Finished ==
    /\ Closed(completed)
    /\ \A S \in SUBSET completed : ~Endless(S)
    /\ \A i \in DOMAIN stack :
          /\ stack[i].next <= Len(deps[stack[i].key]) + 1
          /\ \A n \in 1..(stack[i].next - 1) : deps[stack[i].key][n] \in completed

Reached == \A S \in SUBSET Keys : Root \in S /\ Closed(S) => Nodes \subseteq S

OneVersion ==
    /\ \A k \in Nodes : version[k[1]] = k[2]
    /\ \A s \in Skills : version[s] # None => <<s, version[s]>> \in Nodes

Core == Unread /\ Members /\ Distinct /\ Finished /\ Reached /\ OneVersion
IInv == TypeOK /\ Control /\ Core /\ RefusalIsReal

-----------------------------------------------------------------------------
(* What the operations on a stack of frames do. *)

LEMMA NonEmpty ==
    ASSUME NEW S, NEW f \in Seq(S), f # <<>>
    PROVE  Len(f) \in Nat /\ Len(f) >= 1 /\ f[Len(f)] \in S
  <1>1. Len(f) \in Nat /\ Len(f) # 0
    BY EmptySeq
  <1>2. Len(f) >= 1
    BY <1>1
  <1> QED
    BY <1>1, <1>2, ElementOfSeq

LEMMA FrameFacts ==
    ASSUME NEW k \in Keys
    PROVE  Frame(k) \in Frames /\ Frame(k).key = k /\ Frame(k).next = 1
  BY DEF Frame, Frames

LEMMA AdvancedFacts ==
    ASSUME NEW f \in Seq(Frames), f # <<>>
    PROVE  /\ Advanced(f) \in Seq(Frames) /\ Len(Advanced(f)) = Len(f)
           /\ \A i \in 1..Len(f) : Advanced(f)[i].key = f[i].key
           /\ \A i \in 1..(Len(f) - 1) : Advanced(f)[i] = f[i]
           /\ Advanced(f)[Len(f)].next = f[Len(f)].next + 1
  <1> DEFINE last == [f[Len(f)] EXCEPT !.next = @ + 1]
  <1>1. Len(f) \in 1..Len(f) /\ f[Len(f)] \in Frames
    BY NonEmpty
  <1>2. last \in Frames /\ last.key = f[Len(f)].key /\ last.next = f[Len(f)].next + 1
    BY <1>1 DEF Frames
  <1>3. Advanced(f) = [f EXCEPT ![Len(f)] = last]
    BY <1>1 DEF Advanced
  <1> HIDE DEF last
  <1>4. /\ Advanced(f) \in Seq(Frames) /\ Len(Advanced(f)) = Len(f)
        /\ \A i \in 1..Len(f) : Advanced(f)[i] = IF i = Len(f) THEN last ELSE f[i]
    BY <1>1, <1>2, <1>3, ExceptSeq
  <1> QED
    BY <1>1, <1>2, <1>4

LEMMA PoppedFacts ==
    ASSUME NEW f \in Seq(Frames), f # <<>>
    PROVE  /\ Popped(f) \in Seq(Frames) /\ Len(Popped(f)) = Len(f) - 1
           /\ \A i \in 1..(Len(f) - 1) : Popped(f)[i] = f[i]
  <1>1. Len(f) \in Nat /\ Len(f) - 1 \in Nat
    BY NonEmpty
  <1>2. \A i \in 1..(Len(f) - 1) : f[i] \in Frames
    BY <1>1
  <1> QED
    BY <1>1, <1>2 DEF Popped

LEMMA CalledFacts ==
    ASSUME NEW f \in Seq(Frames), NEW k \in Keys
    PROVE  /\ Called(f, k) \in Seq(Frames) /\ Len(Called(f, k)) = Len(f) + 1
           /\ \A i \in 1..Len(f) : Called(f, k)[i] = f[i]
           /\ Called(f, k)[Len(f) + 1] = Frame(k)
  BY FrameFacts DEF Called

LEMMA ParseType ==
    ASSUME NEW m \in Manifests
    PROVE  ParseDependencyRefs(m) \in DepLists
  BY ListsAssumption, ManifestsAssumption DEF ParseDependencyRefs

LEMMA DependencyType ==
    ASSUME TypeOK, NEW f \in Seq(Frames), f # <<>>, HasDependency(f)
    PROVE  /\ Dependency(f) \in Keys
           /\ Innermost(f).next \in DOMAIN deps[Innermost(f).key]
           /\ Dependency(f) \in Successors(Innermost(f).key)
  <1>1. Innermost(f) \in Frames
    BY NonEmpty DEF Innermost
  <1>2. Innermost(f).key \in Keys /\ Innermost(f).next \in Nat \ {0}
    BY <1>1 DEF Frames
  <1>3. deps[Innermost(f).key] \in Seq(Keys)
    BY <1>2, ListsAssumption DEF TypeOK
  <1>4. Innermost(f).next \in DOMAIN deps[Innermost(f).key]
    BY <1>2, <1>3 DEF HasDependency
  <1> QED
    BY <1>3, <1>4 DEF Dependency, Successors

-----------------------------------------------------------------------------
(* TypeOK.  Path is its last conjunct, for any stack. *)

Path(f) ==
    \A i \in 1..(Len(f) - 1) :
        /\ f[i].next \in DOMAIN deps[f[i].key]
        /\ deps[f[i].key][f[i].next] = f[i + 1].key

LEMMA InitType == Init => TypeOK
  BY KeysAssumption, ListsAssumption, NoneAssumption, EmptySeq DEF Init, TypeOK

LEMMA AdvancedPath ==
    ASSUME NEW f \in Seq(Frames), f # <<>>, Path(f)
    PROVE  Path(Advanced(f))
  <1>1. Len(f) \in Nat /\ Len(f) >= 1
    BY NonEmpty
  <1>2. \A i \in 1..(Len(f) - 1) : i \in 1..Len(f) /\ i + 1 \in 1..Len(f)
    BY <1>1
  <1> QED
    BY <1>2, AdvancedFacts DEF Path

LEMMA CalledPath ==
    ASSUME NEW f \in Seq(Frames), f # <<>>, Path(f), NEW d \in Keys, d = Dependency(f),
           Innermost(f).next \in DOMAIN deps[Innermost(f).key]
    PROVE  Path(Called(f, d))
  <1>1. Len(f) \in Nat /\ Len(f) >= 1
    BY NonEmpty
  <1> DEFINE g == Called(f, d)
  <1>2. /\ Len(g) = Len(f) + 1 /\ \A i \in 1..Len(f) : g[i] = f[i]
        /\ g[Len(f) + 1].key = d
    BY CalledFacts, FrameFacts
  <1> HIDE DEF g
  <1>3. ASSUME NEW i \in 1..(Len(g) - 1)
        PROVE  g[i].next \in DOMAIN deps[g[i].key] /\ deps[g[i].key][g[i].next] = g[i + 1].key
    <2>1. CASE i = Len(f)
      BY <1>1, <1>2, <2>1 DEF Innermost, Dependency
    <2>2. CASE i # Len(f)
      <3>1. i \in 1..(Len(f) - 1) /\ i \in 1..Len(f) /\ i + 1 \in 1..Len(f)
        BY <1>1, <1>2, <2>2
      <3> QED
        BY <1>2, <3>1 DEF Path
    <2> QED
      BY <2>1, <2>2
  <1> QED
    BY <1>3 DEF Path, g

LEMMA PoppedPath ==
    ASSUME NEW f \in Seq(Frames), f # <<>>, Path(f)
    PROVE  Path(Popped(f))
  <1>1. Len(f) \in Nat /\ Len(f) >= 1 /\ Len(Popped(f)) = Len(f) - 1
    BY NonEmpty, PoppedFacts
  <1>2. \A i \in 1..(Len(Popped(f)) - 1) :
            i \in 1..(Len(f) - 1) /\ i + 1 \in 1..(Len(f) - 1)
    BY <1>1
  <1> QED
    BY <1>2, PoppedFacts DEF Path

\* The stack holds d when the visit of d finds it active.
LEMMA CyclePathType ==
    ASSUME TypeOK, NEW d \in Keys, IsActive(d)
    PROVE  /\ CyclePath(d) \in Seq(Keys) /\ Len(CyclePath(d)) >= 2
           /\ \E first \in 1..Len(stack) :
                /\ stack[first].key = d
                /\ Len(CyclePath(d)) = Len(stack) - first + 2
                /\ \A i \in 1..(Len(stack) - first + 1) :
                        CyclePath(d)[i] = stack[first + i - 1].key
                /\ CyclePath(d)[Len(stack) - first + 2] = d
  <1> DEFINE first == CHOOSE i \in DOMAIN stack : stack[i].key = d
             part == [i \in 1..(Len(stack) - first + 1) |-> stack[first + i - 1].key]
  <1>1. stack \in Seq(Frames) /\ DOMAIN stack = 1..Len(stack) /\ Len(stack) \in Nat
    BY DEF TypeOK
  <1>2. \E i \in DOMAIN stack : stack[i].key = d
    BY DEF IsActive, Active
  <1>3. first \in 1..Len(stack) /\ stack[first].key = d
    BY <1>1, <1>2
  <1> HIDE DEF first
  <1>4. ASSUME NEW i \in 1..(Len(stack) - first + 1)
        PROVE  stack[first + i - 1].key \in Keys
    <2>1. first + i - 1 \in 1..Len(stack)
      BY <1>1, <1>3
    <2>2. stack[first + i - 1] \in Frames
      BY <1>1, <2>1
    <2> QED
      BY <2>2 DEF Frames
  <1>5. Len(stack) - first + 1 \in Nat /\ Len(stack) - first + 1 >= 1
    BY <1>1, <1>3
  <1>6. part \in Seq(Keys) /\ Len(part) = Len(stack) - first + 1
    BY <1>4, <1>5
  <1>7. \A i \in 1..(Len(stack) - first + 1) : part[i] = stack[first + i - 1].key
    OBVIOUS
  <1>8. CyclePath(d) = Append(part, d)
    BY <1>6, AppendIsConcat DEF CyclePath, first
  <1> HIDE DEF part
  <1>9. /\ CyclePath(d) \in Seq(Keys) /\ Len(CyclePath(d)) = Len(stack) - first + 2
        /\ \A i \in 1..(Len(stack) - first + 1) : CyclePath(d)[i] = part[i]
        /\ CyclePath(d)[Len(stack) - first + 2] = d
    <2>1. Len(part) + 1 = Len(stack) - first + 2
      BY <1>1, <1>3, <1>6
    <2> QED
      BY <1>6, <1>8, <2>1, AppendProperties
  <1> QED
    BY <1>3, <1>5, <1>7, <1>9

\* A fetch changes nothing that the visit has read.
LEMMA FetchIsNew ==
    ASSUME TypeOK, Members, NEW m \in Manifests, Fetch(m)
    PROVE  /\ \A k \in Nodes : deps'[k] = deps[k]
           /\ \A i \in DOMAIN stack : deps'[stack[i].key] = deps[stack[i].key]
  <1>1. \A k \in Nodes : k \in Keys /\ (k = Dependency(stack) => k = Root)
    BY KeysAssumption DEF Members, Read, Fetch, TypeOK
  <1>2. \A k \in Nodes : deps'[k] = deps[k]
    BY <1>1 DEF Fetch, TypeOK
  <1>3. \A i \in DOMAIN stack : stack[i].key \in Nodes
    BY DEF Members, Active
  <1> QED
    BY <1>2, <1>3

LEMMA BuildType ==
    ASSUME TypeOK, Control, Members, Next
    PROVE  TypeOK'
  <1> USE DEF TypeOK
  <1> USE DEF Path
  <1>0. phase = "build" => stack # <<>>
    BY DEF Control
  <1>1. ASSUME NEW m \in Manifests, LoadRoot(m) PROVE TypeOK'
    <2>1. deps' \in [Keys -> DepLists] /\ version' \in [Skills -> Versions \cup {None}]
      BY <1>1, KeysAssumption, ParseType DEF LoadRoot
    <2>2. stack' \in Seq(Frames) /\ Len(stack') = 1 /\ order' \in Seq(Keys)
      BY <1>1, KeysAssumption, FrameFacts DEF LoadRoot
    <2> QED
      BY <1>1, <2>1, <2>2 DEF LoadRoot, walking
  <1>2. ASSUME NEW m \in Manifests, Fetch(m) PROVE TypeOK'
    <2>1. Dependency(stack) \in Keys
      BY <1>0, <1>2, DependencyType DEF Fetch
    <2>2. deps' \in [Keys -> DepLists] /\ loaded' \in SUBSET Keys
      BY <1>2, <2>1, ParseType DEF Fetch
    <2>3. \A i \in 1..(Len(stack) - 1) : deps'[stack[i].key] = deps[stack[i].key]
      BY <1>2, FetchIsNew
    <2> QED
      BY <1>2, <2>2, <2>3 DEF Fetch, walking
  <1>3. CASE LoadRootFails \/ FetchFails \/ Conflict
    BY <1>3 DEF LoadRootFails, FetchFails, Conflict, End, building, walking
  <1>4. ASSUME NEW d \in Keys, AlreadyCompleted(d) PROVE TypeOK'
    <2>1. stack' \in Seq(Frames) /\ Path(stack')
      BY <1>0, <1>4, AdvancedFacts, AdvancedPath DEF AlreadyCompleted, Visits
    <2>2. version' \in [Skills -> Versions \cup {None}]
      BY <1>4, KeysAssumption DEF AlreadyCompleted
    <2> QED
      BY <1>4, <2>1, <2>2 DEF AlreadyCompleted, walking
  <1>5. ASSUME NEW d \in Keys, Cycle(d) PROVE TypeOK'
    <2>1. cyclePath' \in Seq(Keys)
      BY <1>5, CyclePathType DEF Cycle
    <2>2. version' \in [Skills -> Versions \cup {None}]
      BY <1>5, KeysAssumption DEF Cycle
    <2> QED
      BY <1>5, <2>1, <2>2 DEF Cycle, End, walking
  <1>6. ASSUME NEW d \in Keys, Descend(d) PROVE TypeOK'
    <2>1. stack' \in Seq(Frames) /\ Path(stack')
      BY <1>0, <1>6, CalledFacts, CalledPath, DependencyType DEF Descend, Visits
    <2>2. version' \in [Skills -> Versions \cup {None}]
      BY <1>6, KeysAssumption DEF Descend
    <2>3. order' \in Seq(Keys)
      BY <1>6 DEF Descend
    <2> QED
      BY <1>6, <2>1, <2>2, <2>3 DEF Descend, walking
  <1>7. CASE Return
    <2>0. stack \in Seq(Frames) /\ stack # <<>> /\ Len(stack) \in Nat /\ Len(stack) >= 1
      BY <1>0, <1>7, NonEmpty DEF Return
    <2>1. Innermost(stack).key \in Keys
      <3>1. stack[Len(stack)] \in Frames
        BY <2>0, NonEmpty
      <3> QED
        BY <3>1 DEF Innermost, Frames
    <2>2. CASE Len(stack) = 1
      BY <1>7, <2>1, <2>2 DEF Return, walking
    <2>3. CASE Len(stack) # 1
      <3>0. Popped(stack) \in Seq(Frames) /\ Len(Popped(stack)) >= 1
        <4>1. Popped(stack) \in Seq(Frames) /\ Len(Popped(stack)) = Len(stack) - 1
          BY <2>0, PoppedFacts
        <4> QED
          BY <2>0, <2>3, <4>1
      <3>1. Popped(stack) # <<>> /\ Path(Popped(stack))
        <4>1. Popped(stack) # <<>>
          BY <3>0
        <4>2. Path(stack)
          OBVIOUS
        <4> QED
          BY <2>0, <4>1, <4>2, PoppedPath
      <3>2. stack' \in Seq(Frames) /\ Path(stack')
        BY <1>7, <2>3, <3>0, <3>1, AdvancedFacts, AdvancedPath DEF Return
      <3> QED
        BY <1>7, <2>1, <2>3, <3>2 DEF Return, walking
    <2> QED
      BY <2>2, <2>3
  <1>8. ASSUME NEW d \in Keys, Collect(d) PROVE TypeOK'
    <2>1. trail' \in Seq(Frames) /\ out' \in Seq(Keys)
      BY <1>8, FrameFacts DEF Collect
    <2> QED
      BY <1>8, <2>1 DEF Collect, building
  <1>9. ASSUME NEW d \in Keys, WalkInto(d) PROVE TypeOK'
    <2>1. trail' \in Seq(Frames) /\ out' \in Seq(Keys)
      BY <1>9, AdvancedFacts, CalledFacts DEF WalkInto, Control
    <2> QED
      BY <1>9, <2>1 DEF WalkInto, building
  <1>10. CASE WalkOver
    <2>1. trail' \in Seq(Frames)
      BY <1>10, AdvancedFacts DEF WalkOver, Control
    <2> QED
      BY <1>10, <2>1 DEF WalkOver, building
  <1>11. CASE WalkBack
    <2>1. trail' \in Seq(Frames)
      BY <1>11, PoppedFacts DEF WalkBack, Control
    <2> QED
      BY <1>11, <2>1 DEF WalkBack, building
  <1> QED
    BY <1>1, <1>2, <1>3, <1>4, <1>5, <1>6, <1>7, <1>8, <1>9, <1>10, <1>11 DEF Next

-----------------------------------------------------------------------------
(* The visit.  KeysOf is Active, for any stack. *)

KeysOf(f) == {f[i].key : i \in DOMAIN f}
DistinctKeys(f) == \A i, n \in DOMAIN f : f[i].key = f[n].key => i = n
DoneBefore(f, done) ==
    \A i \in DOMAIN f :
        /\ f[i].next <= Len(deps[f[i].key]) + 1
        /\ \A n \in 1..(f[i].next - 1) : deps[f[i].key][n] \in done

LEMMA AdvancedKeys ==
    ASSUME NEW f \in Seq(Frames), f # <<>>
    PROVE  /\ KeysOf(Advanced(f)) = KeysOf(f)
           /\ DistinctKeys(f) => DistinctKeys(Advanced(f))
  <1> DEFINE g == Advanced(f)
  <1>1. DOMAIN g = DOMAIN f /\ DOMAIN f = 1..Len(f) /\ \A i \in DOMAIN f : g[i].key = f[i].key
    BY AdvancedFacts
  <1> HIDE DEF g
  <1> QED
    BY <1>1 DEF KeysOf, DistinctKeys, g

LEMMA CalledKeys ==
    ASSUME NEW f \in Seq(Frames), NEW d \in Keys
    PROVE  /\ KeysOf(Called(f, d)) = KeysOf(f) \cup {d}
           /\ DistinctKeys(f) /\ d \notin KeysOf(f) => DistinctKeys(Called(f, d))
  <1> DEFINE g == Called(f, d)
  <1>1. /\ DOMAIN f = 1..Len(f) /\ DOMAIN g = 1..(Len(f) + 1) /\ Len(f) \in Nat
        /\ \A i \in DOMAIN f : g[i] = f[i]
        /\ g[Len(f) + 1].key = d
    <2>1. g \in Seq(Frames) /\ Len(g) = Len(f) + 1 /\ g[Len(f) + 1] = Frame(d)
      BY CalledFacts
    <2>2. \A i \in 1..Len(f) : g[i] = f[i]
      BY CalledFacts
    <2> HIDE DEF g
    <2> QED
      BY <2>1, <2>2, FrameFacts
  <1> HIDE DEF g
  <1>2. \A i \in DOMAIN g : i \in DOMAIN f \/ i = Len(f) + 1
    BY <1>1
  <1>3. \A i \in DOMAIN f : i \in DOMAIN g
    BY <1>1
  <1>4. Len(f) + 1 \in DOMAIN g
    BY <1>1
  <1>5. KeysOf(g) = KeysOf(f) \cup {d}
    BY <1>1, <1>2, <1>3, <1>4 DEF KeysOf
  <1>6. DistinctKeys(f) /\ d \notin KeysOf(f) => DistinctKeys(g)
    BY <1>1, <1>2 DEF KeysOf, DistinctKeys
  <1> QED
    BY <1>5, <1>6 DEF g

LEMMA PoppedKeys ==
    ASSUME NEW f \in Seq(Frames), f # <<>>, DistinctKeys(f)
    PROVE  /\ KeysOf(Popped(f)) = KeysOf(f) \ {Innermost(f).key}
           /\ DistinctKeys(Popped(f))
  <1> DEFINE g == Popped(f)
  <1>1. /\ DOMAIN f = 1..Len(f) /\ DOMAIN g = 1..(Len(f) - 1)
        /\ Len(f) \in Nat /\ Len(f) >= 1
        /\ \A i \in DOMAIN g : g[i] = f[i]
    BY PoppedFacts, NonEmpty
  <1> HIDE DEF g
  <1>2. /\ \A i \in DOMAIN g : i \in DOMAIN f /\ i # Len(f)
        /\ \A i \in DOMAIN f : i \in DOMAIN g \/ i = Len(f)
        /\ Len(f) \in DOMAIN f
    BY <1>1
  <1>3. KeysOf(g) = KeysOf(f) \ {f[Len(f)].key}
    BY <1>1, <1>2 DEF KeysOf, DistinctKeys
  <1>4. DistinctKeys(g)
    BY <1>1, <1>2 DEF DistinctKeys
  <1> QED
    BY <1>3, <1>4 DEF g, Innermost

LEMMA InitCore == Init => Control /\ Core /\ RefusalIsReal
  <1> SUFFICES ASSUME Init PROVE Control /\ Core /\ RefusalIsReal
    OBVIOUS
  <1>1. Control /\ RefusalIsReal
    BY DEF Init, Control, RefusalIsReal
  <1>2. Nodes = {} /\ Active = {} /\ completed = {} /\ DOMAIN stack = {}
    BY DEF Init, Nodes, Active
  <1>3. Unread /\ Members /\ Distinct /\ Reached
    BY <1>2 DEF Init, Unread, Members, Distinct, Reached
  <1>4. Finished
    BY <1>2 DEF Finished, Closed, Endless
  <1>5. OneVersion
    BY <1>2 DEF Init, OneVersion
  <1> QED
    BY <1>1, <1>3, <1>4, <1>5 DEF Core

LEMMA CoreFrozen ==
    ASSUME Core, UNCHANGED building
    PROVE  Core'
  <1> USE DEF building
  <1>1. Nodes' = Nodes /\ Active' = Active
    BY DEF Nodes, Active
  <1>2. \A k : Successors(k)' = Successors(k)
    BY DEF Successors
  <1>3. Unread' /\ Members' /\ Distinct' /\ OneVersion'
    BY <1>1 DEF Core, Unread, Members, Distinct, OneVersion, Read
  <1>4. Reached'
    BY <1>1, <1>2 DEF Core, Reached, Closed
  <1>5. Closed(completed)' /\ \A S \in SUBSET completed : ~Endless(S)'
    BY <1>2 DEF Core, Finished, Closed, Endless
  <1>6. Finished'
    BY <1>5 DEF Core, Finished
  <1> QED
    BY <1>3, <1>4, <1>6 DEF Core

LEMMA LoadRootCore ==
    ASSUME TypeOK, Control, Core, NEW m \in Manifests, LoadRoot(m)
    PROVE  Core'
  <1>1. /\ order' = <<Root>> /\ stack' = <<Frame(Root)>> /\ completed' = {} /\ loaded' = {}
        /\ deps' = [deps EXCEPT ![Root] = ParseDependencyRefs(m)]
        /\ deps = [k \in Keys |-> <<>>]
        /\ version' = [version EXCEPT ![Root[1]] = Root[2]]
        /\ version = [s \in Skills |-> None]
    BY DEF LoadRoot, Control
  <1>2. DOMAIN order' = {1} /\ order'[1] = Root /\ DOMAIN stack' = {1}
        /\ stack'[1].key = Root /\ stack'[1].next = 1
    BY <1>1 DEF Frame
  <1>3. Nodes' = {Root} /\ Active' = {Root}
    BY <1>2 DEF Nodes, Active
  <1>4. Unread' /\ Members' /\ Distinct' /\ Reached'
    BY <1>1, <1>2, <1>3 DEF Unread, Members, Distinct, Reached, Read
  <1>5. Finished'
    <2>1. deps'[Root] \in Seq(Keys)
      BY <1>1, KeysAssumption, ListsAssumption, ParseType
    <2>2. Len(deps'[Root]) \in Nat
      BY <2>1
    <2> QED
      BY <1>1, <1>2, <2>2 DEF Finished, Closed, Endless
  <1>6. OneVersion'
    BY <1>1, <1>3, KeysAssumption DEF OneVersion
  <1> QED
    BY <1>4, <1>5, <1>6 DEF Core

LEMMA FetchCore ==
    ASSUME TypeOK, Core, NEW m \in Manifests, Fetch(m), Dependency(stack) \in Keys
    PROVE  Core'
  <1> DEFINE d == Dependency(stack)
  <1>1. UNCHANGED <<order, version, completed, stack>> /\ loaded' = loaded \cup {d}
    BY DEF Fetch
  <1>2. Nodes' = Nodes /\ Active' = Active
    BY <1>1 DEF Nodes, Active
  <1>3. /\ \A k \in Nodes : deps'[k] = deps[k]
        /\ \A i \in DOMAIN stack : deps'[stack[i].key] = deps[stack[i].key]
    BY FetchIsNew DEF Core
  <1>4. Unread' /\ Members' /\ Distinct' /\ OneVersion'
    BY <1>1, <1>2 DEF Core, Unread, Members, Distinct, OneVersion, Read, Fetch, TypeOK
  <1>5. \A k \in completed : k \in Nodes /\ Successors(k)' = Successors(k)
    BY <1>3 DEF Core, Members, Successors
  <1>6. Finished'
    BY <1>1, <1>3, <1>5 DEF Core, Finished, Closed, Endless
  <1>7. \A k \in Keys : deps'[k] = deps[k] \/ deps[k] = <<>>
    BY DEF Fetch, TypeOK, Core, Unread, Read
  <1>8. \A k \in Keys : Successors(k) \subseteq Successors(k)'
    BY <1>7 DEF Successors
  <1>9. Reached'
    BY <1>2, <1>8 DEF Core, Reached, Closed
  <1> QED
    BY <1>4, <1>6, <1>9 DEF Core

\* What is known when visit(d) is called from a frame of the stack.
LEMMA VisitFacts ==
    ASSUME TypeOK, Control, Core, NEW d \in Keys, Visits(d), ~OtherVersion(d)
    PROVE  /\ stack \in Seq(Frames) /\ stack # <<>> /\ d = Dependency(stack) /\ d \in Read
           /\ Innermost(stack).next \in DOMAIN deps[Innermost(stack).key]
           /\ Innermost(stack).key \in Nodes /\ d \in Successors(Innermost(stack).key)
           /\ \A k \in Nodes : k[1] = d[1] => k = d
  <1>1. stack \in Seq(Frames) /\ stack # <<>> /\ HasDependency(stack) /\ d \in Read
    BY DEF TypeOK, Control, Visits, Read
  <1>2. /\ Innermost(stack).next \in DOMAIN deps[Innermost(stack).key]
        /\ d \in Successors(Innermost(stack).key)
    BY <1>1, DependencyType DEF Visits
  <1>3. Len(stack) \in DOMAIN stack
    BY <1>1, NonEmpty
  <1>4. Innermost(stack).key \in Nodes
    BY <1>3 DEF Core, Members, Active, Innermost
  <1>5. ASSUME NEW k \in Nodes, k[1] = d[1] PROVE k = d
    <2>1. k \in Skills \X Versions /\ d \in Skills \X Versions
      BY KeysAssumption DEF Core, Members, Read, TypeOK
    <2>2. version[d[1]] = k[2] /\ k[2] # None
      BY <1>5, <2>1, NoneAssumption DEF Core, OneVersion
    <2>3. k[2] = d[2]
      BY <2>2 DEF OtherVersion
    <2> QED
      BY <1>5, <2>1, <2>3
  <1> QED
    BY <1>1, <1>2, <1>4, <1>5 DEF Visits

LEMMA VersionKept ==
    ASSUME TypeOK, Control, Core, NEW d \in Keys, Visits(d), ~OtherVersion(d),
           version' = [version EXCEPT ![d[1]] = d[2]], Nodes' = Nodes \cup {d}
    PROVE  OneVersion'
  <1>1. \A k \in Nodes : k \in Skills \X Versions
    BY KeysAssumption DEF Core, Members, Read, TypeOK
  <1>2. d \in Skills \X Versions /\ d = <<d[1], d[2]>>
    BY KeysAssumption
  <1>3. \A k \in Nodes : k[1] = d[1] => k = d
    BY VisitFacts
  <1>4. \A k \in Nodes' : version'[k[1]] = k[2]
    BY <1>1, <1>2, <1>3 DEF Core, OneVersion, TypeOK
  <1>5. \A s \in Skills : version'[s] # None => <<s, version'[s]>> \in Nodes'
    BY <1>2 DEF Core, OneVersion, TypeOK
  <1> QED
    BY <1>4, <1>5 DEF OneVersion

\* A frame whose dependency is done may go on to the next one.
LEMMA AdvancedDone ==
    ASSUME TypeOK, NEW f \in Seq(Frames), f # <<>>, NEW done, DoneBefore(f, done),
           Innermost(f).next \in DOMAIN deps[Innermost(f).key], Dependency(f) \in done
    PROVE  DoneBefore(Advanced(f), done)
  <1> DEFINE g == Advanced(f)
  <1>1. /\ DOMAIN g = DOMAIN f /\ DOMAIN f = 1..Len(f) /\ Len(f) \in DOMAIN f
        /\ \A i \in DOMAIN f : g[i].key = f[i].key
        /\ \A i \in DOMAIN f : i # Len(f) => g[i] = f[i]
        /\ g[Len(f)].next = f[Len(f)].next + 1
    <2>1. g \in Seq(Frames) /\ Len(g) = Len(f) /\ Len(f) \in Nat /\ Len(f) >= 1
      BY AdvancedFacts, NonEmpty
    <2>2. DOMAIN g = DOMAIN f /\ DOMAIN f = 1..Len(f) /\ Len(f) \in DOMAIN f
      BY <2>1
    <2>3. \A i \in DOMAIN f : i # Len(f) => i \in 1..(Len(f) - 1)
      BY <2>1, <2>2
    <2> QED
      BY <2>2, <2>3, AdvancedFacts
  <1> HIDE DEF g
  <1>2. f[Len(f)] \in Frames
    BY NonEmpty
  <1>3. deps[f[Len(f)].key] \in Seq(Keys) /\ f[Len(f)].next \in Nat
    BY <1>2, ListsAssumption DEF Frames, TypeOK
  <1>4. g[Len(f)].next <= Len(deps[f[Len(f)].key]) + 1
    BY <1>1, <1>3 DEF Innermost
  <1>5. ASSUME NEW n \in 1..(g[Len(f)].next - 1)
        PROVE  deps[f[Len(f)].key][n] \in done
    <2>1. n \in 1..(f[Len(f)].next - 1) \/ n = f[Len(f)].next
      BY <1>1, <1>3
    <2> QED
      BY <1>1, <2>1 DEF DoneBefore, Dependency, Innermost
  <1>6. ASSUME NEW i \in DOMAIN g
        PROVE  /\ g[i].next <= Len(deps[g[i].key]) + 1
               /\ \A n \in 1..(g[i].next - 1) : deps[g[i].key][n] \in done
    <2>1. CASE i = Len(f)
      BY <1>1, <1>4, <1>5, <2>1
    <2>2. CASE i # Len(f)
      BY <1>1, <2>2 DEF DoneBefore
    <2> QED
      BY <2>1, <2>2
  <1> QED
    BY <1>6 DEF DoneBefore, g

LEMMA AlreadyCompletedCore ==
    ASSUME TypeOK, Control, Core, NEW d \in Keys, AlreadyCompleted(d)
    PROVE  Core'
  <1>1. /\ UNCHANGED <<deps, loaded, order, completed>> /\ d \in completed
        /\ stack' = Advanced(stack) /\ Visits(d) /\ ~OtherVersion(d)
        /\ version' = [version EXCEPT ![d[1]] = d[2]]
    BY DEF AlreadyCompleted, IsCompleted
  <1>2. stack \in Seq(Frames) /\ stack # <<>> /\ d = Dependency(stack)
    BY <1>1, VisitFacts
  <1>3. Nodes' = Nodes /\ d \in Nodes
    BY <1>1 DEF Nodes, Core, Members
  <1>4. Active' = Active /\ Distinct'
    BY <1>1, <1>2, AdvancedKeys DEF Active, KeysOf, Distinct, DistinctKeys, Core
  <1>5. Unread' /\ Members'
    BY <1>1, <1>3, <1>4 DEF Core, Unread, Members, Read
  <1>6. OneVersion'
    BY <1>1, <1>3, VersionKept
  <1>7. \A k : Successors(k)' = Successors(k)
    BY <1>1 DEF Successors
  <1>8. Reached'
    BY <1>3, <1>7 DEF Core, Reached, Closed
  <1>9. DoneBefore(stack', completed)
    BY <1>1, <1>2, VisitFacts, AdvancedDone DEF Core, Finished, DoneBefore
  <1>10. Finished'
    BY <1>1, <1>7, <1>9 DEF Core, Finished, Closed, Endless, DoneBefore
  <1> QED
    BY <1>4, <1>5, <1>6, <1>8, <1>10 DEF Core

LEMMA CycleCore ==
    ASSUME TypeOK, Control, Core, NEW d \in Keys, Cycle(d)
    PROVE  Core'
  <1>1. /\ UNCHANGED <<deps, loaded, order, completed, stack>>
        /\ Visits(d) /\ ~OtherVersion(d) /\ d \in Active
        /\ version' = [version EXCEPT ![d[1]] = d[2]]
    BY DEF Cycle, IsActive
  <1>2. Nodes' = Nodes /\ Active' = Active /\ d \in Nodes
    BY <1>1 DEF Nodes, Active, Core, Members
  <1>3. OneVersion'
    BY <1>1, <1>2, VersionKept
  <1>4. Unread' /\ Members' /\ Distinct'
    BY <1>1, <1>2 DEF Core, Unread, Members, Distinct, Read
  <1>5. \A k : Successors(k)' = Successors(k)
    BY <1>1 DEF Successors
  <1>6. Reached'
    BY <1>2, <1>5 DEF Core, Reached, Closed
  <1>7. Finished'
    BY <1>1, <1>5 DEF Core, Finished, Closed, Endless
  <1> QED
    BY <1>3, <1>4, <1>6, <1>7 DEF Core

LEMMA DescendCore ==
    ASSUME TypeOK, Control, Core, NEW d \in Keys, Descend(d)
    PROVE  Core'
  <1>1. /\ UNCHANGED <<deps, loaded, completed>>
        /\ Visits(d) /\ ~OtherVersion(d) /\ d \notin completed /\ d \notin Active
        /\ version' = [version EXCEPT ![d[1]] = d[2]]
        /\ order' = Append(order, d) /\ stack' = Called(stack, d)
    BY DEF Descend, IsActive, IsCompleted
  <1>2. /\ stack \in Seq(Frames) /\ stack # <<>> /\ d \in Read
        /\ Innermost(stack).key \in Nodes /\ d \in Successors(Innermost(stack).key)
    BY <1>1, VisitFacts
  <1>3. Nodes' = Nodes \cup {d}
    <2>1. order \in Seq(Keys) /\ DOMAIN order = 1..Len(order) /\ Len(order) \in Nat
      BY DEF TypeOK
    <2>2. /\ DOMAIN order' = 1..(Len(order) + 1) /\ order'[Len(order) + 1] = d
          /\ \A i \in DOMAIN order : order'[i] = order[i]
      BY <1>1, <2>1
    <2>3. /\ \A i \in DOMAIN order' : i \in DOMAIN order \/ i = Len(order) + 1
          /\ \A i \in DOMAIN order : i \in DOMAIN order'
          /\ Len(order) + 1 \in DOMAIN order'
      BY <2>1, <2>2
    <2> QED
      BY <2>2, <2>3 DEF Nodes
  <1>4. Active' = Active \cup {d} /\ Distinct'
    <2>1. KeysOf(stack) = Active /\ KeysOf(stack') = Active' /\ DistinctKeys(stack)
      BY DEF Active, KeysOf, Distinct, DistinctKeys, Core
    <2>2. KeysOf(stack') = KeysOf(stack) \cup {d} /\ DistinctKeys(stack')
      BY <1>1, <1>2, <2>1, CalledKeys
    <2> QED
      BY <2>1, <2>2 DEF Distinct, DistinctKeys
  <1>5. Unread' /\ Members'
    BY <1>1, <1>2, <1>3, <1>4 DEF Core, Unread, Members, Read
  <1>6. OneVersion'
    BY <1>1, <1>3, VersionKept
  <1>7. \A k : Successors(k)' = Successors(k)
    BY <1>1 DEF Successors
  <1>8. Reached'
    BY <1>2, <1>3, <1>7 DEF Core, Reached, Closed
  <1>9. ASSUME NEW i \in DOMAIN stack'
        PROVE  /\ stack'[i].next <= Len(deps[stack'[i].key]) + 1
               /\ \A n \in 1..(stack'[i].next - 1) : deps[stack'[i].key][n] \in completed
    <2>1. /\ Called(stack, d) \in Seq(Frames) /\ Len(Called(stack, d)) = Len(stack) + 1
          /\ \A n \in 1..Len(stack) : Called(stack, d)[n] = stack[n]
          /\ Called(stack, d)[Len(stack) + 1] = Frame(d)
      BY <1>2, CalledFacts
    <2>2. i \in DOMAIN stack \/ i = Len(stack) + 1
      BY <1>1, <1>2, <2>1
    <2>3. CASE i \in DOMAIN stack
      <3>1. stack'[i] = stack[i]
        BY <1>1, <1>2, <2>1, <2>3
      <3> QED
        BY <2>3, <3>1 DEF Core, Finished
    <2>4. CASE i = Len(stack) + 1
      <3>1. stack'[i].key = d /\ stack'[i].next = 1
        BY <1>1, <2>1, <2>4, FrameFacts
      <3>2. Len(deps[d]) \in Nat
        BY ListsAssumption DEF TypeOK
      <3> QED
        BY <3>1, <3>2
    <2> QED
      BY <2>2, <2>3, <2>4
  <1>10. Finished'
    BY <1>1, <1>7, <1>9 DEF Core, Finished, Closed, Endless
  <1> QED
    BY <1>4, <1>5, <1>6, <1>8, <1>10 DEF Core

\* Return completes the innermost key: all it needs is completed already.
LEMMA ReturnFacts ==
    ASSUME TypeOK, Control, Core, Return
    PROVE  /\ stack \in Seq(Frames) /\ stack # <<>>
           /\ Len(stack) \in Nat /\ Len(stack) >= 1 /\ Len(stack) \in DOMAIN stack
           /\ Innermost(stack).key \in Active
           /\ Successors(Innermost(stack).key) \subseteq completed
  <1>1. /\ stack \in Seq(Frames) /\ stack # <<>>
        /\ Len(stack) \in Nat /\ Len(stack) >= 1 /\ Len(stack) \in DOMAIN stack
    BY NonEmpty DEF Return, Control, TypeOK
  <1> DEFINE k == Innermost(stack).key
             next == Innermost(stack).next
  <1>2. Innermost(stack) \in Frames
    BY <1>1, NonEmpty DEF Innermost
  <1>3. deps[k] \in Seq(Keys) /\ next \in Nat
    BY <1>2, ListsAssumption DEF Frames, TypeOK
  <1>4. next > Len(deps[k])
    BY <1>3 DEF Return, HasDependency
  <1>5. \A n \in 1..(next - 1) : deps[k][n] \in completed
    BY <1>1 DEF Core, Finished, Innermost
  <1> HIDE DEF k, next
  <1>6. \A n \in DOMAIN deps[k] : n \in 1..(next - 1)
    BY <1>3, <1>4
  <1>7. Successors(k) \subseteq completed
    BY <1>5, <1>6 DEF Successors
  <1>8. k \in Active
    BY <1>1 DEF Active, Innermost, k
  <1> QED
    BY <1>1, <1>7, <1>8 DEF k

\* Completing a key whose dependencies are completed keeps the completed keys
\* closed and without an endless set.
LEMMA CompletedGrows ==
    ASSUME Finished, NEW k, k \notin completed, Successors(k) \subseteq completed
    PROVE  /\ Closed(completed \cup {k})
           /\ \A S \in SUBSET (completed \cup {k}) : ~Endless(S)
  <1>1. Closed(completed \cup {k})
    BY DEF Finished, Closed
  <1>2. ASSUME NEW S \in SUBSET (completed \cup {k}), Endless(S) PROVE FALSE
    <2>1. S \ {k} \in SUBSET completed
      OBVIOUS
    <2>2. S \ {k} # {}
      <3>1. CASE k \in S
        BY <1>2, <3>1 DEF Endless
      <3>2. CASE k \notin S
        BY <1>2, <3>2 DEF Endless
      <3> QED
        BY <3>1, <3>2
    <2>3. ASSUME NEW n \in S \ {k} PROVE Successors(n) \cap (S \ {k}) # {}
      <3>1. Successors(n) \cap S # {} /\ n \in completed
        BY <1>2 DEF Endless
      <3>2. k \notin Successors(n)
        BY <3>1 DEF Finished, Closed
      <3> QED
        BY <3>1, <3>2
    <2>4. Endless(S \ {k})
      BY <2>2, <2>3 DEF Endless
    <2> QED
      BY <2>1, <2>4 DEF Finished
  <1> QED
    BY <1>1, <1>2

LEMMA ReturnCore ==
    ASSUME TypeOK, Control, Core, Return
    PROVE  Core'
  <1> DEFINE k == Innermost(stack).key
  <1>1. /\ UNCHANGED <<deps, loaded, order, version>>
        /\ completed' = completed \cup {k}
    BY DEF Return
  <1>2. /\ stack \in Seq(Frames) /\ stack # <<>>
        /\ Len(stack) \in Nat /\ Len(stack) >= 1
        /\ k \in Active /\ Successors(k) \subseteq completed
    BY ReturnFacts
  <1> HIDE DEF k
  <1>3. Nodes' = Nodes /\ \A n : Successors(n)' = Successors(n)
    BY <1>1 DEF Nodes, Successors
  <1>4. k \notin completed /\ k \in Nodes
    BY <1>2 DEF Core, Members
  <1>5. Unread' /\ OneVersion' /\ Reached'
    BY <1>1, <1>3 DEF Core, Unread, OneVersion, Reached, Read, Closed
  <1>6. Closed(completed)' /\ \A S \in SUBSET completed' : ~Endless(S)'
    BY <1>1, <1>2, <1>3, <1>4, CompletedGrows DEF Core, Closed, Endless
  <1>7. /\ KeysOf(stack) = Active /\ DistinctKeys(stack) /\ DoneBefore(stack, completed)
    BY DEF Active, KeysOf, Distinct, DistinctKeys, Core, Finished, DoneBefore
  <1>8. KeysOf(stack') = Active \ {k} /\ DistinctKeys(stack') /\ DoneBefore(stack', completed')
    <2>1. CASE Len(stack) = 1
      <3>1. stack' = <<>>
        BY <2>1 DEF Return
      <3>2. DOMAIN stack' = {}
        BY <3>1
      <3>3. KeysOf(stack') = {} /\ DistinctKeys(stack') /\ DoneBefore(stack', completed')
        BY <3>2 DEF KeysOf, DistinctKeys, DoneBefore
      <3>4. \A i \in DOMAIN stack : i = Len(stack)
        BY <1>2, <2>1
      <3>5. Active = {k}
        BY <1>2, <3>4 DEF Active, Innermost, k
      <3> QED
        BY <3>3, <3>5
    <2>2. CASE Len(stack) # 1
      <3> DEFINE f == Popped(stack)
      <3>1. stack' = Advanced(f)
        BY <2>2 DEF Return
      <3>2. f \in Seq(Frames) /\ Len(f) = Len(stack) - 1 /\ \A i \in 1..(Len(stack) - 1) : f[i] = stack[i]
        BY <1>2, PoppedFacts
      <3>3. KeysOf(f) = Active \ {k} /\ DistinctKeys(f)
        BY <1>2, <1>7, PoppedKeys DEF k
      <3> HIDE DEF f
      <3>4. Len(f) \in Nat /\ Len(f) >= 1 /\ f # <<>>
        BY <1>2, <2>2, <3>2
      <3>5. KeysOf(stack') = Active \ {k} /\ DistinctKeys(stack')
        BY <3>1, <3>2, <3>3, <3>4, AdvancedKeys
      <3>6. DoneBefore(f, completed')
        <4>1. \A i \in DOMAIN f : i \in DOMAIN stack /\ f[i] = stack[i]
          BY <1>2, <3>2, <3>4
        <4> QED
          BY <1>1, <1>7, <4>1 DEF DoneBefore
      <3>7. Innermost(f).next \in DOMAIN deps[Innermost(f).key] /\ Dependency(f) = k
        <4>1. Len(f) \in 1..(Len(stack) - 1) /\ Len(f) + 1 = Len(stack)
          BY <1>2, <3>2, <3>4
        <4>2. /\ stack[Len(f)].next \in DOMAIN deps[stack[Len(f)].key]
              /\ deps[stack[Len(f)].key][stack[Len(f)].next] = stack[Len(stack)].key
          BY <4>1 DEF TypeOK
        <4>3. f[Len(f)] = stack[Len(f)]
          BY <3>2, <4>1
        <4> QED
          BY <4>2, <4>3 DEF Innermost, Dependency, k
      <3>8. k \in completed'
        BY <1>1
      <3>9. DoneBefore(Advanced(f), completed')
        BY <3>2, <3>4, <3>6, <3>7, <3>8, AdvancedDone
      <3> QED
        BY <3>1, <3>5, <3>9
    <2> QED
      BY <2>1, <2>2
  <1>9. Active' = Active \ {k}
    BY <1>8 DEF KeysOf, Active
  <1>10. Distinct'
    BY <1>8 DEF Distinct, DistinctKeys
  <1>11. Members'
    BY <1>1, <1>2, <1>3, <1>9 DEF Core, Members, Read
  <1>12. \A i \in DOMAIN stack' :
            /\ stack'[i].next <= Len(deps'[stack'[i].key]) + 1
            /\ \A n \in 1..(stack'[i].next - 1) : deps'[stack'[i].key][n] \in completed'
    BY <1>1, <1>8 DEF DoneBefore
  <1>13. Finished'
    BY <1>6, <1>12 DEF Finished
  <1> QED
    BY <1>5, <1>10, <1>11, <1>13 DEF Core

-----------------------------------------------------------------------------
(* The invariant. *)

LEMMA CoreStep ==
    ASSUME TypeOK, Control, Core, Next
    PROVE  Core'
  <1>1. ASSUME NEW m \in Manifests, LoadRoot(m) PROVE Core'
    BY <1>1, LoadRootCore
  <1>2. ASSUME NEW m \in Manifests, Fetch(m) PROVE Core'
    <2>1. Dependency(stack) \in Keys
      BY <1>2, DependencyType DEF Fetch, Control, TypeOK
    <2> QED
      BY <1>2, <2>1, FetchCore
  <1>3. CASE LoadRootFails \/ FetchFails \/ Conflict
    BY <1>3, CoreFrozen DEF LoadRootFails, FetchFails, Conflict
  <1>4. ASSUME NEW d \in Keys, AlreadyCompleted(d) \/ Cycle(d) \/ Descend(d) PROVE Core'
    BY <1>4, AlreadyCompletedCore, CycleCore, DescendCore
  <1>5. CASE Return
    BY <1>5, ReturnCore
  <1>6. ASSUME NEW k \in Keys, Collect(k) \/ WalkInto(k) PROVE Core'
    BY <1>6, CoreFrozen DEF Collect, WalkInto
  <1>7. CASE WalkOver \/ WalkBack
    BY <1>7, CoreFrozen DEF WalkOver, WalkBack
  <1> QED
    BY <1>1, <1>2, <1>3, <1>4, <1>5, <1>6, <1>7 DEF Next

LEMMA ControlStep ==
    ASSUME TypeOK, Control, Core, Next
    PROVE  Control'
  <1>1. ASSUME NEW m \in Manifests, LoadRoot(m) PROVE Control'
    <2>1. order' = <<Root>> /\ stack' # <<>> /\ phase' = "build" /\ outcome' = "none"
      BY <1>1 DEF LoadRoot, Control
    <2>2. Root \in Nodes'
      BY <2>1 DEF Nodes
    <2> QED
      BY <2>1, <2>2 DEF Control
  <1>2. ASSUME NEW m \in Manifests, Fetch(m) PROVE Control'
    BY <1>2 DEF Fetch, Control, Nodes
  <1>3. CASE LoadRootFails \/ FetchFails
    BY <1>3 DEF LoadRootFails, FetchFails, End, Control
  <1>4. CASE Conflict
    BY <1>4 DEF Conflict, Visits, End, building, Control, Nodes
  <1>5. ASSUME NEW d \in Keys, AlreadyCompleted(d) PROVE Control'
    <2>1. Advanced(stack) # <<>> /\ stack' = Advanced(stack) /\ phase = "build"
      <3>1. stack \in Seq(Frames) /\ stack # <<>> /\ phase = "build" /\ stack' = Advanced(stack)
        BY <1>5 DEF AlreadyCompleted, Visits, Control, TypeOK
      <3>2. Len(Advanced(stack)) = Len(stack) /\ Len(stack) >= 1
        BY <3>1, AdvancedFacts, NonEmpty
      <3> QED
        BY <3>1, <3>2
    <2> QED
      BY <1>5, <2>1 DEF AlreadyCompleted, Control, Nodes
  <1>6. ASSUME NEW d \in Keys, Cycle(d) PROVE Control'
    BY <1>6 DEF Cycle, Visits, End, Control, Nodes
  <1>7. ASSUME NEW d \in Keys, Descend(d) PROVE Control'
    <2>1. stack \in Seq(Frames) /\ order \in Seq(Keys) /\ phase = "build"
      BY <1>7 DEF Descend, Visits, TypeOK
    <2>2. stack' # <<>>
      BY <1>7, <2>1 DEF Descend, Called
    <2>3. Root \in Nodes'
      <3>1. PICK i \in DOMAIN order : order[i] = Root
        BY <1>7, <2>1 DEF Descend, Control, Nodes
      <3>2. i \in DOMAIN order' /\ order'[i] = Root
        BY <1>7, <2>1, <3>1 DEF Descend
      <3> QED
        BY <3>2 DEF Nodes
    <2> QED
      BY <1>7, <2>1, <2>2, <2>3 DEF Descend, Control
  <1>8. CASE Return
    <2>1. CASE Len(stack) = 1
      BY <1>8, <2>1 DEF Return, Control, Nodes
    <2>2. CASE Len(stack) # 1
      <3>1. stack \in Seq(Frames) /\ stack # <<>> /\ Len(stack) \in Nat /\ Len(stack) >= 1
        BY <1>8, ReturnFacts
      <3>2. Popped(stack) \in Seq(Frames) /\ Len(Popped(stack)) = Len(stack) - 1
        BY <3>1, PoppedFacts
      <3>3. Len(Popped(stack)) >= 1 /\ Popped(stack) # <<>>
        BY <2>2, <3>1, <3>2
      <3>4. Len(Advanced(Popped(stack))) >= 1
        BY <3>2, <3>3, AdvancedFacts
      <3>5. stack' # <<>>
        BY <1>8, <2>2, <3>4 DEF Return
      <3> QED
        BY <1>8, <2>2, <3>5 DEF Return, Control, Nodes
    <2> QED
      BY <2>1, <2>2
  <1>9. ASSUME NEW k \in Keys, Collect(k) PROVE Control'
    BY <1>9 DEF Collect, building, Control, Nodes
  <1>10. ASSUME NEW k \in Keys, WalkInto(k) PROVE Control'
    <2>1. Advanced(trail) \in Seq(Frames)
      BY <1>10, AdvancedFacts DEF WalkInto, Control, TypeOK
    <2>2. trail' # <<>>
      BY <1>10, <2>1 DEF WalkInto, Called
    <2> QED
      BY <1>10, <2>2 DEF WalkInto, building, Control, Nodes
  <1>11. CASE WalkOver
    <2>1. trail \in Seq(Frames) /\ trail # <<>>
      BY <1>11 DEF WalkOver, Control, TypeOK
    <2>2. Len(Advanced(trail)) >= 1
      BY <2>1, AdvancedFacts, NonEmpty
    <2>3. trail' # <<>>
      BY <1>11, <2>2 DEF WalkOver
    <2> QED
      BY <1>11, <2>3 DEF WalkOver, building, Control, Nodes
  <1>12. CASE WalkBack
    <2>1. trail \in Seq(Frames) /\ trail # <<>>
      BY <1>12 DEF WalkBack, Control, TypeOK
    <2>2. phase' = "walk" => trail' # <<>>
      <3>1. Len(Popped(trail)) = Len(trail) - 1 /\ Len(trail) \in Nat /\ Len(trail) >= 1
        BY <2>1, PoppedFacts, NonEmpty
      <3>2. phase' = "walk" => Len(Popped(trail)) >= 1
        BY <1>12, <3>1 DEF WalkBack
      <3> QED
        BY <1>12, <3>2 DEF WalkBack
    <2> QED
      BY <1>12, <2>2 DEF WalkBack, building, Control, Nodes
  <1> QED
    BY <1>1, <1>2, <1>3, <1>4, <1>5, <1>6, <1>7, <1>8, <1>9, <1>10, <1>11, <1>12 DEF Next

\* Whatever a frame of the stack depends on is reached from the root.
LEMMA NodesAreReached ==
    ASSUME TypeOK, Core
    PROVE  /\ Nodes \subseteq Reach(Root)
           /\ \A k \in Nodes : \A d \in Keys : d \in Successors(k) => d \in Reach(Root)
  <1>1. Nodes \subseteq Keys
    BY KeysAssumption DEF Core, Members, Read, TypeOK
  <1> QED
    BY <1>1 DEF Core, Reached, Reach, Closed

LEMMA CycleIsReal ==
    ASSUME TypeOK, Control, Core, NEW d \in Keys, Cycle(d)
    PROVE  RefusalIsReal'
  <1> DEFINE p == CyclePath(d)
  <1>1. /\ cyclePath' = p /\ deps' = deps /\ outcome' = "cycle"
        /\ IsActive(d) /\ Visits(d) /\ ~OtherVersion(d)
    BY DEF Cycle, End
  <1>2. PICK first \in 1..Len(stack) :
            /\ stack[first].key = d
            /\ Len(p) = Len(stack) - first + 2
            /\ \A i \in 1..(Len(stack) - first + 1) : p[i] = stack[first + i - 1].key
            /\ p[Len(stack) - first + 2] = d
    BY <1>1, CyclePathType
  <1>3. Len(stack) \in Nat /\ Len(p) >= 2
    BY <1>1, CyclePathType DEF TypeOK
  <1> HIDE DEF p
  <1>4. p[1] = d /\ p[Len(p)] = d
    <2>1. 1 \in 1..(Len(stack) - first + 1) /\ first + 1 - 1 = first
      BY <1>2, <1>3
    <2> QED
      BY <1>2, <2>1
  <1>5. d \in Successors(stack[Len(stack)].key)
    BY <1>1, VisitFacts DEF Innermost
  <1>6. \A n \in 1..(Len(stack) - 1) : stack[n + 1].key \in Successors(stack[n].key)
    BY DEF TypeOK, Successors
  <1>7. ASSUME NEW i \in 1..(Len(p) - 1) PROVE p[i + 1] \in Successors(p[i])
    <2>1. p[i] = stack[first + i - 1].key
      BY <1>2, <1>3
    <2>2. CASE i = Len(stack) - first + 1
      <3>1. first + i - 1 = Len(stack) /\ i + 1 = Len(stack) - first + 2
        BY <1>2, <1>3, <2>2
      <3> QED
        BY <1>2, <1>5, <2>1, <3>1
    <2>3. CASE i # Len(stack) - first + 1
      <3>1. /\ i + 1 \in 1..(Len(stack) - first + 1)
            /\ first + i - 1 \in 1..(Len(stack) - 1)
            /\ first + (i + 1) - 1 = (first + i - 1) + 1
        <4>1. first \in Int /\ first >= 1 /\ first <= Len(stack) /\ Len(stack) \in Int
          BY <1>3
        <4>2. Len(p) - 1 = Len(stack) - first + 1
          BY <1>2, <4>1
        <4>3. i \in Int /\ i >= 1 /\ i <= Len(stack) - first + 1
          BY <4>1, <4>2
        <4>4. i < Len(stack) - first + 1
          BY <2>3, <4>1, <4>3
        <4> QED
          BY <4>1, <4>3, <4>4
      <3>2. p[i + 1] = stack[(first + i - 1) + 1].key
        BY <1>2, <3>1
      <3> QED
        BY <1>6, <2>1, <3>1, <3>2
    <2> QED
      BY <2>2, <2>3
  <1>8. d \in Reach(Root)
    BY <1>1, NodesAreReached DEF IsActive, Core, Members
  <1>9. /\ \A k : Successors(k)' = Successors(k)
        /\ Reach(Root)' = Reach(Root)
    BY <1>1 DEF Successors, Reach, Closed
  <1> QED
    BY <1>1, <1>3, <1>4, <1>7, <1>8, <1>9 DEF RefusalIsReal

LEMMA ConflictIsReal ==
    ASSUME TypeOK, Control, Core, Conflict
    PROVE  RefusalIsReal'
  <1>1. PICK d \in Keys : Visits(d) /\ OtherVersion(d)
    BY DEF Conflict
  <1>2. deps' = deps /\ outcome' = "conflict"
    BY DEF Conflict, End, building
  <1>3. d \in Skills \X Versions
    BY KeysAssumption
  <1>4. <<d[1], version[d[1]]>> \in Nodes /\ version[d[1]] # d[2]
    BY <1>1, <1>3 DEF OtherVersion, Core, OneVersion
  <1>5. stack \in Seq(Frames) /\ stack # <<>> /\ HasDependency(stack) /\ d = Dependency(stack)
    BY <1>1 DEF Visits, Control, TypeOK
  <1>6. d \in Successors(Innermost(stack).key)
    BY <1>5, DependencyType
  <1>7. Innermost(stack).key \in Nodes
    BY <1>5, NonEmpty DEF Core, Members, Active, Innermost
  <1>8. d \in Reach(Root) /\ <<d[1], version[d[1]]>> \in Reach(Root)
    BY <1>4, <1>6, <1>7, NodesAreReached
  <1>9. <<d[1], version[d[1]]>> # d
    BY <1>4
  <1>10. Reach(Root)' = Reach(Root)
    BY <1>2 DEF Reach, Closed, Successors
  <1>11. \E k, n \in Reach(Root) : k[1] = n[1] /\ k # n
    BY <1>8, <1>9
  <1> QED
    BY <1>2, <1>10, <1>11 DEF RefusalIsReal

LEMMA RefusalStep ==
    ASSUME TypeOK, Control, Core, Next
    PROVE  RefusalIsReal'
  <1>1. ASSUME NEW d \in Keys, Cycle(d) PROVE RefusalIsReal'
    BY <1>1, CycleIsReal
  <1>2. CASE Conflict
    BY <1>2, ConflictIsReal
  <1>3. CASE ~Conflict /\ \A d \in Keys : ~Cycle(d)
    <2>1. outcome' \notin {"cycle", "conflict"}
      BY <1>3 DEF Next, Control, LoadRoot, LoadRootFails, Fetch, FetchFails, Visits,
            AlreadyCompleted, Descend, Return, Collect, WalkOver, WalkInto, WalkBack, End
    <2> QED
      BY <2>1 DEF RefusalIsReal
  <1> QED
    BY <1>1, <1>2, <1>3

LEMMA Stutter == IInv /\ UNCHANGED vars => IInv'
  <1> SUFFICES ASSUME IInv, UNCHANGED vars PROVE IInv'
    OBVIOUS
  <1>1. TypeOK'
    BY DEF IInv, TypeOK, vars, building, walking
  <1>2. Control'
    BY DEF IInv, Control, vars, building, walking, Nodes
  <1>3. Core'
    BY CoreFrozen DEF IInv, vars
  <1>4. RefusalIsReal'
    <2>1. outcome' = outcome /\ cyclePath' = cyclePath /\ deps' = deps
      BY DEF vars, building
    <2>2. \A k : Successors(k)' = Successors(k)
      BY <2>1 DEF Successors
    <2>3. Reach(Root)' = Reach(Root)
      BY <2>2 DEF Reach, Closed
    <2> QED
      BY <2>1, <2>2, <2>3 DEF IInv, RefusalIsReal
  <1> QED
    BY <1>1, <1>2, <1>3, <1>4 DEF IInv

LEMMA Inductive == Spec => []IInv
  <1>1. Init => IInv
    BY InitType, InitCore DEF IInv
  <1>2. IInv /\ [Next]_vars => IInv'
    BY BuildType, ControlStep, CoreStep, RefusalStep, Stutter DEF IInv, Core
  <1> QED
    BY <1>1, <1>2, PTL DEF Spec

-----------------------------------------------------------------------------
(* The results. *)

\* Whatever the registry answers, the bookkeeping of buildDependencyGraph keeps
\* its shape: the stack is always a path of the graph that was read.
THEOREM TypeSafety == Spec => []TypeOK
  <1>1. IInv => TypeOK
    BY DEF IInv
  <1> QED
    BY <1>1, Inductive, PTL

\* What an accepted graph holds, from the invariant: nothing is on the stack
\* any more, so every node is completed.
LEMMA AcceptedIsCompleted == IInv /\ outcome = "ok" => Nodes = completed /\ Root \in Nodes
  <1> SUFFICES ASSUME IInv, outcome = "ok" PROVE Nodes = completed /\ Root \in Nodes
    OBVIOUS
  <1>1. stack = <<>> /\ Root \in Nodes
    BY DEF IInv, Control
  <1>2. Active = {}
    BY <1>1 DEF Active
  <1> QED
    BY <1>1, <1>2 DEF IInv, Core, Members

\* A graph of any size that buildDependencyGraph accepts has no cycle.
THEOREM AcceptedIsAcyclicTheorem == Spec => []AcceptedIsAcyclic
  <1>1. IInv => AcceptedIsAcyclic
    BY AcceptedIsCompleted DEF IInv, Core, Finished, AcceptedIsAcyclic
  <1> QED
    BY <1>1, Inductive, PTL

\* A graph of any size that buildDependencyGraph accepts is what the root
\* reaches, each skill at one version.
THEOREM GraphIsClosureTheorem == Spec => []GraphIsClosure
  <1>1. ASSUME IInv, outcome = "ok" PROVE Nodes = Reach(Root)
    <2>1. Nodes \subseteq Reach(Root)
      BY <1>1, NodesAreReached DEF IInv
    <2>2. Nodes \in SUBSET Keys /\ Root \in Nodes /\ Closed(Nodes)
      BY <1>1, AcceptedIsCompleted, KeysAssumption
         DEF IInv, Core, Members, Read, TypeOK, Finished
    <2>3. Reach(Root) \subseteq Nodes
      BY <2>2 DEF Reach
    <2> QED
      BY <2>1, <2>3
  <1>2. ASSUME IInv, NEW k \in Nodes, NEW n \in Nodes, k[1] = n[1] PROVE k = n
    <2>1. k \in Skills \X Versions /\ n \in Skills \X Versions
      BY <1>2, KeysAssumption DEF IInv, Core, Members, Read, TypeOK
    <2>2. k[2] = n[2]
      BY <1>2 DEF IInv, Core, OneVersion
    <2> QED
      BY <1>2, <2>1, <2>2
  <1>3. IInv => GraphIsClosure
    BY <1>1, <1>2 DEF GraphIsClosure
  <1> QED
    BY <1>3, Inductive, PTL

\* A cycle or a version conflict is reported only when the root really reaches
\* one, in a graph of any size.
THEOREM RefusalIsRealTheorem == Spec => []RefusalIsReal
  <1>1. IInv => RefusalIsReal
    BY DEF IInv
  <1> QED
    BY <1>1, Inductive, PTL

-----------------------------------------------------------------------------
(* Depth-first orders.  A list is one when each next key is the first      *)
(* unlisted dependency of the last listed key that has any: the list alone *)
(* determines how it goes on, whatever stack it was made with.             *)

Elems(s) == {s[i] : i \in DOMAIN s}
Once(s) == \A i, n \in DOMAIN s : s[i] = s[n] => i = n
Before(s, n) == {s[i] : i \in 1..n}
Needs(D, k) == {D[k][i] : i \in DOMAIN D[k]}
First(D, k, d, S) ==
    \E m \in DOMAIN D[k] : D[k][m] = d /\ \A l \in 1..(m - 1) : D[k][l] \in S
Follows(D, s, n, d) ==
    /\ d \notin Before(s, n)
    /\ \E i \in 1..n : /\ First(D, s[i], d, Before(s, n))
                       /\ \A h \in (i + 1)..n : Needs(D, s[h]) \subseteq Before(s, n)
Preorder(D, s) == \A n \in 1..(Len(s) - 1) : Follows(D, s, n, s[n + 1])

LEMMA FirstIsOne ==
    ASSUME NEW D, NEW k, D[k] \in Seq(Keys), NEW S, NEW d, NEW e, d \notin S, e \notin S,
           First(D, k, d, S), First(D, k, e, S)
    PROVE  d = e
  <1>1. PICK m \in DOMAIN D[k] : D[k][m] = d /\ \A l \in 1..(m - 1) : D[k][l] \in S
    BY DEF First
  <1>2. PICK n \in DOMAIN D[k] : D[k][n] = e /\ \A l \in 1..(n - 1) : D[k][l] \in S
    BY DEF First
  <1>3. DOMAIN D[k] = 1..Len(D[k]) /\ Len(D[k]) \in Nat
    OBVIOUS
  <1>4. ~(m < n) /\ ~(n < m)
    BY <1>1, <1>2, <1>3
  <1>5. m = n
    BY <1>3, <1>4
  <1> QED
    BY <1>1, <1>2, <1>5

LEMMA FirstIsNeeded ==
    ASSUME NEW D, NEW k, NEW S, NEW d, First(D, k, d, S)
    PROVE  d \in Needs(D, k)
  BY DEF First, Needs

LEMMA FollowsIsOne ==
    ASSUME NEW D, NEW s \in Seq(Keys), NEW t \in Seq(Keys), NEW n \in Nat,
           n <= Len(s), \A k \in Keys : D[k] \in Seq(Keys),
           \A i \in 1..n : s[i] = t[i], NEW d, NEW e, Follows(D, s, n, d), Follows(D, t, n, e)
    PROVE  d = e
  <1> DEFINE S == Before(s, n)
  <1>1. Before(t, n) = S
    BY DEF Before
  <1> HIDE DEF S
  <1>2. d \notin S /\ e \notin S
    BY <1>1 DEF Follows, S
  <1>3. PICK i \in 1..n : /\ First(D, s[i], d, S)
                          /\ \A h \in (i + 1)..n : Needs(D, s[h]) \subseteq S
    BY DEF Follows, S
  <1>4. PICK j \in 1..n : /\ First(D, t[j], e, S)
                          /\ \A h \in (j + 1)..n : Needs(D, t[h]) \subseteq S
    BY <1>1 DEF Follows
  <1>5. First(D, s[j], e, S) /\ \A h \in (j + 1)..n : Needs(D, s[h]) \subseteq S
    <2>1. \A h \in (j + 1)..n : h \in 1..n
      OBVIOUS
    <2> QED
      BY <1>4, <2>1
  <1>6. d \in Needs(D, s[i]) /\ e \in Needs(D, s[j])
    BY <1>3, <1>5, FirstIsNeeded
  <1>7. ~(i < j)
    <2>1. i < j => j \in (i + 1)..n
      OBVIOUS
    <2> QED
      BY <1>2, <1>3, <1>6, <2>1
  <1>8. ~(j < i)
    <2>1. j < i => i \in (j + 1)..n
      OBVIOUS
    <2> QED
      BY <1>2, <1>5, <1>6, <2>1
  <1>9. i = j
    BY <1>7, <1>8
  <1>10. s[i] \in Keys
    BY ElementOfSeq
  <1> QED
    BY <1>2, <1>3, <1>5, <1>9, <1>10, FirstIsOne

LEMMA LeastOf ==
    ASSUME NEW P \in SUBSET Nat, P # {}
    PROVE  \E n \in P : \A m \in P : n <= m
  <1>1. IsWellFoundedOn(OpToRel(<, Nat), Nat)
    BY NatLessThanWellFounded
  <1>2. PICK n \in P : \A m \in P : <<m, n>> \notin OpToRel(<, Nat)
    BY <1>1, WFMin
  <1>3. \A m \in P : ~(m < n)
    BY <1>2 DEF OpToRel
  <1> QED
    BY <1>3

\* Two depth-first orders of the same length from the same key are the same.
LEMMA PreorderIsOne ==
    ASSUME NEW D, \A k \in Keys : D[k] \in Seq(Keys),
           NEW s \in Seq(Keys), NEW t \in Seq(Keys), Len(s) = Len(t), s # <<>>, s[1] = t[1],
           Preorder(D, s), Preorder(D, t)
    PROVE  s = t
  <1> DEFINE P == {n \in 1..Len(s) : s[n] # t[n]}
  <1>1. SUFFICES ASSUME P # {} PROVE FALSE
    <2>1. Len(s) \in Nat /\ DOMAIN s = 1..Len(s) /\ DOMAIN t = 1..Len(s)
      OBVIOUS
    <2>2. P = {} => \A n \in 1..Len(s) : s[n] = t[n]
      OBVIOUS
    <2> QED
      BY <2>1, <2>2, SeqEqual
  <1>2. P \in SUBSET Nat
    OBVIOUS
  <1>3. PICK n \in P : \A m \in P : n <= m
    BY <1>1, <1>2, LeastOf
  <1>4. n \in 1..Len(s) /\ s[n] # t[n] /\ n # 1
    BY <1>3
  <1>5. \A i \in 1..(n - 1) : s[i] = t[i]
    BY <1>3, <1>4
  <1> HIDE DEF P
  <1>6. n - 1 \in 1..(Len(s) - 1) /\ n - 1 \in Nat /\ n - 1 <= Len(s) /\ (n - 1) + 1 = n
    BY <1>4
  <1>7. Follows(D, s, n - 1, s[n])
    BY <1>6 DEF Preorder
  <1>8. Follows(D, t, n - 1, t[n])
    BY <1>6 DEF Preorder
  <1>9. s[n] = t[n]
    BY <1>5, <1>6, <1>7, <1>8, FollowsIsOne
  <1> QED
    BY <1>4, <1>9

LEMMA FollowsIn ==
    ASSUME NEW D, NEW E, NEW s, NEW n \in Nat, \A i \in 1..n : D[s[i]] = E[s[i]],
           NEW d, Follows(D, s, n, d)
    PROVE  Follows(E, s, n, d)
  <1>1. PICK i \in 1..n : /\ First(D, s[i], d, Before(s, n))
                          /\ \A h \in (i + 1)..n : Needs(D, s[h]) \subseteq Before(s, n)
    BY DEF Follows
  <1>2. First(E, s[i], d, Before(s, n))
    BY <1>1 DEF First
  <1>3. \A h \in (i + 1)..n : Needs(E, s[h]) \subseteq Before(s, n)
    <2>1. \A h \in (i + 1)..n : h \in 1..n
      OBVIOUS
    <2>2. \A h \in 1..n : Needs(E, s[h]) = Needs(D, s[h])
      BY DEF Needs
    <2> QED
      BY <1>1, <2>1, <2>2
  <1> QED
    BY <1>2, <1>3 DEF Follows

LEMMA PreorderSame ==
    ASSUME NEW D, NEW E, NEW s \in Seq(Keys), Preorder(D, s), \A k \in Elems(s) : D[k] = E[k]
    PROVE  Preorder(E, s)
  <1>1. SUFFICES ASSUME NEW n \in 1..(Len(s) - 1) PROVE Follows(E, s, n, s[n + 1])
    BY DEF Preorder
  <1>2. \A i \in 1..n : i \in DOMAIN s
    OBVIOUS
  <1>3. n \in Nat /\ \A i \in 1..n : D[s[i]] = E[s[i]]
    BY <1>2 DEF Elems
  <1>4. Follows(D, s, n, s[n + 1])
    BY DEF Preorder
  <1> QED
    BY <1>3, <1>4, FollowsIn

LEMMA AppendFacts ==
    ASSUME NEW s \in Seq(Keys), NEW d \in Keys
    PROVE  /\ Append(s, d) \in Seq(Keys) /\ Len(Append(s, d)) = Len(s) + 1
           /\ DOMAIN s = 1..Len(s) /\ DOMAIN Append(s, d) = 1..(Len(s) + 1) /\ Len(s) \in Nat
           /\ \A i \in 1..Len(s) : Append(s, d)[i] = s[i]
           /\ Append(s, d)[Len(s) + 1] = d
           /\ Elems(Append(s, d)) = Elems(s) \cup {d}
  <1> DEFINE t == Append(s, d)
  <1>1. /\ t \in Seq(Keys) /\ Len(t) = Len(s) + 1 /\ Len(s) \in Nat
        /\ DOMAIN s = 1..Len(s) /\ DOMAIN t = 1..(Len(s) + 1)
        /\ \A i \in 1..Len(s) : t[i] = s[i]
        /\ t[Len(s) + 1] = d
    BY AppendProperties
  <1> HIDE DEF t
  <1>2. /\ \A i \in DOMAIN t : i \in DOMAIN s \/ i = Len(s) + 1
        /\ \A i \in DOMAIN s : i \in DOMAIN t
        /\ Len(s) + 1 \in DOMAIN t
    BY <1>1
  <1>3. Elems(t) = Elems(s) \cup {d}
    BY <1>1, <1>2 DEF Elems
  <1> QED
    BY <1>1, <1>3 DEF t

LEMMA PreorderGoesOn ==
    ASSUME NEW D, NEW s \in Seq(Keys), NEW t, Len(t) = Len(s) + 1,
           \A i \in 1..Len(s) : t[i] = s[i],
           Preorder(D, s), Follows(D, s, Len(s), t[Len(s) + 1])
    PROVE  Preorder(D, t)
  <1>1. Len(s) \in Nat
    OBVIOUS
  <1>2. SUFFICES ASSUME NEW n \in 1..Len(s) PROVE Follows(D, t, n, t[n + 1])
    BY <1>1 DEF Preorder
  <1>3. Follows(D, s, n, t[n + 1])
    <2>1. CASE n = Len(s)
      BY <1>1, <2>1
    <2>2. CASE n # Len(s)
      <3>1. n \in 1..(Len(s) - 1) /\ n + 1 \in 1..Len(s)
        BY <1>1, <2>2
      <3> QED
        BY <1>1, <3>1 DEF Preorder
    <2> QED
      BY <2>1, <2>2
  <1>4. n \in Nat /\ \A i \in 1..n : s[i] = t[i]
    BY <1>1
  <1>5. Before(t, n) = Before(s, n)
    BY <1>4 DEF Before
  <1>6. PICK i \in 1..n : /\ First(D, s[i], t[n + 1], Before(s, n))
                          /\ \A h \in (i + 1)..n : Needs(D, s[h]) \subseteq Before(s, n)
    BY <1>3 DEF Follows
  <1>7. \A h \in (i + 1)..n : Needs(D, t[h]) \subseteq Before(s, n)
    <2>1. \A h \in (i + 1)..n : h \in 1..n
      BY <1>4
    <2> QED
      BY <1>4, <1>6, <2>1
  <1>8. First(D, t[i], t[n + 1], Before(s, n))
    BY <1>4, <1>6
  <1>9. t[n + 1] \notin Before(s, n)
    BY <1>3 DEF Follows
  <1> QED
    BY <1>5, <1>7, <1>8, <1>9 DEF Follows

LEMMA PreorderAppend ==
    ASSUME NEW D, NEW s \in Seq(Keys), NEW d \in Keys, Preorder(D, s), Follows(D, s, Len(s), d)
    PROVE  Preorder(D, Append(s, d))
  <1>1. /\ Len(Append(s, d)) = Len(s) + 1 /\ Append(s, d)[Len(s) + 1] = d
        /\ \A i \in 1..Len(s) : Append(s, d)[i] = s[i]
    BY AppendFacts
  <1> QED
    BY <1>1, PreorderGoesOn

-----------------------------------------------------------------------------
(* A depth-first walk: frames f, and the list s of the keys met so far.    *)

Along(f, s) ==
    \A i, n \in DOMAIN f, a, b \in DOMAIN s :
        i < n /\ s[a] = f[i].key /\ s[b] = f[n].key => a < b
ListedBelow(f, D, S) ==
    \A i \in DOMAIN f : \A m \in 1..(f[i].next - 1) : D[f[i].key][m] \in S
Open(f, D, S) == \A k \in S : k \in KeysOf(f) \/ Needs(D, k) \subseteq S
Walked(D, f, s) ==
    /\ f \in Seq(Frames) /\ s \in Seq(Keys)
    /\ Once(s) /\ KeysOf(f) \subseteq Elems(s)
    /\ Along(f, s) /\ ListedBelow(f, D, Elems(s)) /\ Open(f, D, Elems(s))
    /\ Preorder(D, s)

\* The dependency a frame is at, when it is not listed, is what follows.
LEMMA NextFollows ==
    ASSUME NEW D, NEW f, NEW s, Walked(D, f, s), f # <<>>, NEW last, last = f[Len(f)],
           last.next \in DOMAIN D[last.key], NEW d, d = D[last.key][last.next],
           d \notin Elems(s)
    PROVE  Follows(D, s, Len(s), d)
  <1>1. f \in Seq(Frames) /\ s \in Seq(Keys)
    BY DEF Walked
  <1>2. Len(f) \in Nat /\ Len(f) \in DOMAIN f /\ DOMAIN f = 1..Len(f)
    BY <1>1, NonEmpty
  <1>3. DOMAIN s = 1..Len(s) /\ Len(s) \in Nat /\ Before(s, Len(s)) = Elems(s)
    BY <1>1 DEF Before, Elems
  <1>4. last.key \in KeysOf(f)
    BY <1>2 DEF KeysOf
  <1>5. PICK a \in DOMAIN s : s[a] = last.key
    BY <1>4 DEF Walked, Elems
  <1>6. First(D, s[a], d, Elems(s))
    BY <1>2, <1>5 DEF First, Walked, ListedBelow
  <1>7. ASSUME NEW h \in (a + 1)..Len(s) PROVE Needs(D, s[h]) \subseteq Elems(s)
    <2>1. h \in DOMAIN s /\ a < h /\ h # a
      BY <1>3, <1>5
    <2>2. s[h] \notin KeysOf(f)
      <3>1. SUFFICES ASSUME NEW i \in DOMAIN f, s[h] = f[i].key PROVE FALSE
        BY DEF KeysOf
      <3>2. CASE i = Len(f)
        BY <1>5, <2>1, <3>1, <3>2 DEF Walked, Once
      <3>3. CASE i < Len(f)
        <4>1. h < a
          BY <1>2, <1>5, <2>1, <3>1, <3>3 DEF Walked, Along
        <4> QED
          BY <1>3, <1>5, <2>1, <4>1
      <3> QED
        BY <1>2, <3>2, <3>3
    <2>3. s[h] \in Elems(s)
      BY <2>1 DEF Elems
    <2> QED
      BY <2>2, <2>3 DEF Walked, Open
  <1> QED
    BY <1>3, <1>5, <1>6, <1>7 DEF Follows

LEMMA WalkStarts ==
    ASSUME NEW D, NEW k \in Keys
    PROVE  Walked(D, <<Frame(k)>>, <<k>>) /\ Elems(<<k>>) = {k}
  <1> DEFINE f == <<Frame(k)>>
             s == <<k>>
  <1>1. f \in Seq(Frames) /\ s \in Seq(Keys)
    BY FrameFacts
  <1>2. /\ DOMAIN f = {1} /\ DOMAIN s = {1} /\ Len(s) = 1
        /\ f[1].key = k /\ f[1].next = 1 /\ s[1] = k
    BY FrameFacts
  <1> HIDE DEF f, s
  <1>3. KeysOf(f) = {k} /\ Elems(s) = {k} /\ Once(s)
    BY <1>2 DEF KeysOf, Elems, Once
  <1>4. Along(f, s) /\ ListedBelow(f, D, Elems(s)) /\ Open(f, D, Elems(s))
    BY <1>2, <1>3 DEF Along, ListedBelow, Open
  <1>5. Preorder(D, s)
    BY <1>2 DEF Preorder
  <1> QED
    BY <1>1, <1>3, <1>4, <1>5 DEF Walked, f, s

LEMMA NothingWalked == \A D : Walked(D, <<>>, <<>>)
  <1>1. <<>> \in Seq(Frames) /\ <<>> \in Seq(Keys)
    OBVIOUS
  <1>2. DOMAIN <<>> = {} /\ Len(<<>>) = 0
    OBVIOUS
  <1>3. KeysOf(<<>>) = {} /\ Elems(<<>>) = {}
    BY <1>2 DEF KeysOf, Elems
  <1> QED
    BY <1>1, <1>2, <1>3 DEF Walked, Once, Along, ListedBelow, Open, Preorder

LEMMA WalkedSame ==
    ASSUME NEW D, NEW E, NEW f, NEW s, Walked(D, f, s), \A k \in Elems(s) : D[k] = E[k]
    PROVE  Walked(E, f, s)
  <1>1. \A i \in DOMAIN f : f[i].key \in Elems(s)
    BY DEF Walked, KeysOf
  <1>2. ListedBelow(f, E, Elems(s))
    BY <1>1 DEF Walked, ListedBelow
  <1>3. Open(f, E, Elems(s))
    BY DEF Walked, Open, Needs
  <1>4. Preorder(E, s)
    BY PreorderSame DEF Walked
  <1> QED
    BY <1>2, <1>3, <1>4 DEF Walked

LEMMA WalkCalls ==
    ASSUME NEW D, NEW f, NEW s, Walked(D, f, s), NEW d \in Keys, Follows(D, s, Len(s), d),
           d \notin Elems(s), NEW g \in Seq(Frames), Len(g) = Len(f),
           \A i \in 1..Len(f) : g[i].key = f[i].key,
           ListedBelow(g, D, Elems(s) \cup {d})
    PROVE  Walked(D, Called(g, d), Append(s, d)) /\ Elems(Append(s, d)) = Elems(s) \cup {d}
  <1> DEFINE h == Called(g, d)
             t == Append(s, d)
  <1>1. f \in Seq(Frames) /\ s \in Seq(Keys)
    BY DEF Walked
  <1>2. /\ t \in Seq(Keys) /\ Elems(t) = Elems(s) \cup {d}
        /\ DOMAIN s = 1..Len(s) /\ DOMAIN t = 1..(Len(s) + 1) /\ Len(s) \in Nat
        /\ \A i \in 1..Len(s) : t[i] = s[i]
        /\ t[Len(s) + 1] = d
    BY <1>1, AppendFacts
  <1>3. /\ h \in Seq(Frames) /\ DOMAIN h = 1..(Len(g) + 1) /\ Len(g) \in Nat
        /\ DOMAIN g = 1..Len(g) /\ DOMAIN f = 1..Len(g)
        /\ \A i \in 1..Len(g) : h[i] = g[i]
        /\ h[Len(g) + 1] = Frame(d)
    <2>1. h \in Seq(Frames) /\ Len(h) = Len(g) + 1
      BY CalledFacts
    <2>2. \A i \in 1..Len(g) : h[i] = g[i]
      BY CalledFacts
    <2>3. h[Len(g) + 1] = Frame(d)
      BY CalledFacts
    <2> HIDE DEF h
    <2> QED
      BY <1>1, <2>1, <2>2, <2>3
  <1>4. Preorder(D, t)
    BY <1>1, PreorderAppend DEF Walked
  <1> HIDE DEF h, t
  <1>5. Once(t)
    <2>1. \A i \in DOMAIN s : t[i] \in Elems(s)
      BY <1>2 DEF Elems
    <2>2. \A i \in DOMAIN t : i \in DOMAIN s \/ i = Len(s) + 1
      BY <1>2
    <2> QED
      BY <1>2, <2>1, <2>2 DEF Walked, Once
  <1>6. /\ \A i \in DOMAIN h : i \in DOMAIN g \/ i = Len(g) + 1
        /\ \A i \in DOMAIN g : h[i].key = f[i].key /\ f[i].key \in Elems(s)
        /\ h[Len(g) + 1].key = d /\ h[Len(g) + 1].next = 1
    BY <1>1, <1>3, FrameFacts DEF Walked, KeysOf
  <1>7. KeysOf(h) \subseteq Elems(t) /\ KeysOf(f) \subseteq KeysOf(h) /\ d \in KeysOf(h)
    BY <1>2, <1>3, <1>6 DEF KeysOf
  <1>8. Along(h, t)
    <2>1. SUFFICES ASSUME NEW i \in DOMAIN h, NEW n \in DOMAIN h, NEW a \in DOMAIN t,
                          NEW b \in DOMAIN t, i < n, t[a] = h[i].key, t[b] = h[n].key
                   PROVE  a < b
      BY DEF Along
    <2>2. i \in DOMAIN g
      BY <1>3, <2>1
    <2>3. a \in DOMAIN s
      <3>1. t[a] # d
        BY <1>6, <2>1, <2>2
      <3> QED
        BY <1>2, <3>1
    <2>4. CASE n \in DOMAIN g
      <3>1. b \in DOMAIN s
        <4>1. t[b] # d
          BY <1>6, <2>1, <2>4
        <4> QED
          BY <1>2, <4>1
      <3>2. s[a] = f[i].key /\ s[b] = f[n].key
        BY <1>2, <1>6, <2>1, <2>2, <2>3, <2>4, <3>1
      <3> QED
        BY <1>3, <2>1, <2>2, <2>3, <2>4, <3>1, <3>2 DEF Walked, Along
    <2>5. CASE n = Len(g) + 1
      <3>1. t[b] = d
        BY <1>6, <2>1, <2>5
      <3>2. b = Len(s) + 1
        <4>1. Len(s) + 1 \in DOMAIN t
          BY <1>2
        <4> QED
          BY <1>2, <1>5, <3>1, <4>1 DEF Once
      <3> QED
        BY <1>2, <2>3, <3>2
    <2> QED
      BY <1>6, <2>4, <2>5
  <1>9. ListedBelow(h, D, Elems(t))
    BY <1>2, <1>3, <1>6 DEF ListedBelow
  <1>10. Open(h, D, Elems(t))
    BY <1>2, <1>7 DEF Walked, Open
  <1> QED
    BY <1>2, <1>3, <1>4, <1>5, <1>7, <1>8, <1>9, <1>10 DEF Walked, h, t

LEMMA WalkAdvances ==
    ASSUME NEW D, NEW f, NEW s, Walked(D, f, s), f # <<>>,
           D[f[Len(f)].key][f[Len(f)].next] \in Elems(s)
    PROVE  Walked(D, Advanced(f), s)
  <1> DEFINE g == Advanced(f)
  <1>1. f \in Seq(Frames) /\ Len(f) \in Nat /\ Len(f) >= 1 /\ DOMAIN f = 1..Len(f)
    BY NonEmpty DEF Walked
  <1>2. /\ g \in Seq(Frames) /\ Len(g) = Len(f)
        /\ \A i \in 1..Len(f) : g[i].key = f[i].key
        /\ \A i \in 1..(Len(f) - 1) : g[i] = f[i]
        /\ g[Len(f)].next = f[Len(f)].next + 1
    BY <1>1, AdvancedFacts
  <1>3. KeysOf(g) = KeysOf(f)
    BY <1>1, AdvancedKeys
  <1> HIDE DEF g
  <1>4. DOMAIN g = DOMAIN f
    BY <1>1, <1>2
  <1>5. Along(g, s)
    BY <1>1, <1>2, <1>4 DEF Walked, Along
  <1>6. ListedBelow(g, D, Elems(s))
    <2>1. SUFFICES ASSUME NEW i \in DOMAIN f, NEW m \in 1..(g[i].next - 1)
                   PROVE  D[f[i].key][m] \in Elems(s)
      BY <1>1, <1>2, <1>4 DEF ListedBelow
    <2>2. CASE i # Len(f)
      <3>1. g[i] = f[i]
        BY <1>1, <1>2, <2>2
      <3> QED
        BY <2>1, <3>1 DEF Walked, ListedBelow
    <2>3. CASE i = Len(f)
      <3>1. f[i] \in Frames
        BY <1>1
      <3>2. f[i].next \in Nat
        BY <3>1 DEF Frames
      <3>3. m \in 1..(f[i].next - 1) \/ m = f[i].next
        BY <1>2, <2>3, <3>2
      <3> QED
        BY <2>3, <3>3 DEF Walked, ListedBelow
    <2> QED
      BY <2>2, <2>3
  <1>7. Open(g, D, Elems(s))
    BY <1>3 DEF Walked, Open
  <1> QED
    BY <1>2, <1>3, <1>5, <1>6, <1>7 DEF Walked, g

LEMMA WalkPops ==
    ASSUME NEW D, NEW f, NEW s, Walked(D, f, s), f # <<>>,
           Needs(D, f[Len(f)].key) \subseteq Elems(s)
    PROVE  Walked(D, Popped(f), s)
  <1> DEFINE g == Popped(f)
  <1>1. f \in Seq(Frames) /\ Len(f) \in Nat /\ Len(f) >= 1 /\ DOMAIN f = 1..Len(f)
    BY NonEmpty DEF Walked
  <1>2. /\ g \in Seq(Frames) /\ Len(g) = Len(f) - 1
        /\ \A i \in 1..(Len(f) - 1) : g[i] = f[i]
    BY <1>1, PoppedFacts
  <1> HIDE DEF g
  <1>3. /\ \A i \in DOMAIN g : i \in DOMAIN f /\ g[i] = f[i]
        /\ \A i \in DOMAIN f : i \in DOMAIN g \/ i = Len(f)
    BY <1>1, <1>2
  <1>4. /\ KeysOf(g) \subseteq KeysOf(f)
        /\ \A k \in KeysOf(f) : k \in KeysOf(g) \/ k = f[Len(f)].key
    BY <1>3 DEF KeysOf
  <1>5. Along(g, s)
    BY <1>3 DEF Walked, Along
  <1>6. ListedBelow(g, D, Elems(s))
    BY <1>3 DEF Walked, ListedBelow
  <1>7. Open(g, D, Elems(s))
    BY <1>4 DEF Walked, Open
  <1> QED
    BY <1>2, <1>4, <1>5, <1>6, <1>7 DEF Walked, g

-----------------------------------------------------------------------------
(* The two walks of the model. *)

WalkedOrder == Walked(deps, stack, order) /\ (order # <<>> => order[1] = Root)
WalkedTrail ==
    phase \in {"walk", "ended"} /\ outcome = "ok" =>
        /\ Walked(deps, trail, out)
        /\ out # <<>> /\ out[1] = start /\ Elems(out) \subseteq Nodes
        /\ \A S \in SUBSET Keys : start \in S /\ Closed(S) => Elems(out) \subseteq S
        /\ phase = "ended" => trail = <<>>

LEMMA NeedsAreSuccessors == \A k : Needs(deps, k) = Successors(k)
  BY DEF Needs, Successors

LEMMA NodesAreElems == Nodes = Elems(order)
  BY DEF Nodes, Elems

LEMMA BuildStep ==
    ASSUME IInv, WalkedOrder, Next
    PROVE  WalkedOrder'
  <1>0. /\ order \in Seq(Keys) /\ stack \in Seq(Frames) /\ deps \in [Keys -> DepLists]
        /\ Elems(order) \subseteq Read
    BY NodesAreElems DEF IInv, TypeOK, Core, Members
  <1>1. ASSUME NEW m \in Manifests, LoadRoot(m) PROVE WalkedOrder'
    <2>1. order' = <<Root>> /\ stack' = <<Frame(Root)>>
      BY <1>1 DEF LoadRoot
    <2>2. Walked(deps', <<Frame(Root)>>, <<Root>>)
      BY WalkStarts, KeysAssumption
    <2>3. order'[1] = Root
      BY <2>1
    <2> QED
      BY <2>1, <2>2, <2>3 DEF WalkedOrder
  <1>2. ASSUME NEW m \in Manifests, Fetch(m) PROVE WalkedOrder'
    <2>1. /\ UNCHANGED <<order, stack>> /\ Dependency(stack) \notin loaded
          /\ deps' = deps \/ /\ Dependency(stack) # Root
                             /\ deps' = [deps EXCEPT ![Dependency(stack)] = ParseDependencyRefs(m)]
      BY <1>2 DEF Fetch
    <2>2. \A k \in Elems(order) : deps[k] = deps'[k]
      <3>1. SUFFICES ASSUME NEW k \in Elems(order) PROVE deps[k] = deps'[k]
        OBVIOUS
      <3>2. k \in Keys /\ k \in Read
        BY <1>0, KeysAssumption DEF Read, IInv, TypeOK
      <3>3. CASE deps' = deps
        BY <3>3
      <3>4. CASE /\ Dependency(stack) # Root
                 /\ deps' = [deps EXCEPT ![Dependency(stack)] = ParseDependencyRefs(m)]
        <4>1. k # Dependency(stack)
          BY <2>1, <3>2, <3>4 DEF Read
        <4> QED
          BY <1>0, <3>2, <3>4, <4>1
      <3> QED
        BY <2>1, <3>3, <3>4
    <2>3. Walked(deps, stack, order)
      BY DEF WalkedOrder
    <2>4. Walked(deps', stack, order)
      BY <2>2, <2>3, WalkedSame
    <2> QED
      BY <2>1, <2>4 DEF WalkedOrder
  <1>3. CASE LoadRootFails \/ FetchFails \/ Conflict \/ WalkOver \/ WalkBack
    BY <1>3 DEF LoadRootFails, FetchFails, Conflict, WalkOver, WalkBack, building, WalkedOrder
  <1>4. ASSUME NEW k \in Keys, Cycle(k) \/ Collect(k) \/ WalkInto(k) PROVE WalkedOrder'
    BY <1>4 DEF Cycle, Collect, WalkInto, building, WalkedOrder
  <1>5. ASSUME NEW d \in Keys, AlreadyCompleted(d) PROVE WalkedOrder'
    <2>1. /\ UNCHANGED <<deps, order>> /\ stack' = Advanced(stack)
          /\ Visits(d) /\ ~OtherVersion(d) /\ d \in completed
      BY <1>5 DEF AlreadyCompleted, IsCompleted
    <2>2. stack # <<>> /\ d = Dependency(stack)
      BY <2>1, VisitFacts DEF IInv
    <2>3. d \in Elems(order)
      BY <2>1, NodesAreElems DEF IInv, Core, Members
    <2>4. deps[stack[Len(stack)].key][stack[Len(stack)].next] \in Elems(order)
      BY <2>2, <2>3 DEF Dependency, Innermost
    <2>5. Walked(deps, Advanced(stack), order)
      BY <2>2, <2>4, WalkAdvances DEF WalkedOrder
    <2> QED
      BY <2>1, <2>5 DEF WalkedOrder
  <1>6. ASSUME NEW d \in Keys, Descend(d) PROVE WalkedOrder'
    <2>1. /\ UNCHANGED deps /\ stack' = Called(stack, d) /\ order' = Append(order, d)
          /\ Visits(d) /\ ~OtherVersion(d) /\ d \notin completed /\ d \notin Active
      BY <1>6 DEF Descend, IsCompleted, IsActive
    <2>2. /\ stack # <<>> /\ d = Dependency(stack)
          /\ Innermost(stack).next \in DOMAIN deps[Innermost(stack).key]
          /\ Innermost(stack).key \in Nodes
      BY <2>1, VisitFacts DEF IInv
    <2>3. d \notin Elems(order) /\ order # <<>>
      BY <2>1, <2>2, NodesAreElems DEF IInv, Core, Members, Nodes
    <2>4. Walked(deps, stack, order)
      BY DEF WalkedOrder
    <2>5. Follows(deps, order, Len(order), d)
      BY <2>2, <2>3, <2>4, NextFollows DEF Dependency, Innermost
    <2>6. ListedBelow(stack, deps, Elems(order) \cup {d})
      BY <2>4 DEF Walked, ListedBelow
    <2>7. Walked(deps, Called(stack, d), Append(order, d))
      BY <1>0, <2>3, <2>4, <2>5, <2>6, WalkCalls
    <2>8. Append(order, d)[1] = order[1]
      BY <1>0, <2>3
    <2> QED
      BY <2>1, <2>3, <2>7, <2>8 DEF WalkedOrder
  <1>7. CASE Return
    <2>1. /\ UNCHANGED <<deps, order>>
          /\ Len(stack) = 1 => stack' = <<>>
          /\ Len(stack) # 1 => stack' = Advanced(Popped(stack))
      BY <1>7 DEF Return
    <2>2. /\ stack # <<>> /\ Len(stack) \in Nat /\ Len(stack) >= 1
          /\ Successors(Innermost(stack).key) \subseteq completed
      BY <1>7, ReturnFacts DEF IInv
    <2>3. Needs(deps, stack[Len(stack)].key) \subseteq Elems(order)
      BY <2>2, NeedsAreSuccessors, NodesAreElems DEF IInv, Core, Members, Innermost
    <2>4. Walked(deps, Popped(stack), order)
      BY <2>2, <2>3, WalkPops DEF WalkedOrder
    <2>5. Len(Popped(stack)) = Len(stack) - 1 /\ \A i \in 1..(Len(stack) - 1) : Popped(stack)[i] = stack[i]
      BY <1>0, <2>2, PoppedFacts
    <2>6. CASE Len(stack) = 1
      <3>1. Popped(stack) = <<>>
        BY <2>4, <2>5, <2>6, EmptySeq DEF Walked
      <3> QED
        BY <2>1, <2>4, <2>6, <3>1 DEF WalkedOrder
    <2>7. CASE Len(stack) # 1
      <3> DEFINE n == Len(stack) - 1
      <3>1. n \in 1..(Len(stack) - 1) /\ Len(Popped(stack)) = n /\ Popped(stack)[n] = stack[n]
        BY <2>2, <2>5, <2>7
      <3>2. deps[stack[n].key][stack[n].next] = stack[n + 1].key
        BY <3>1 DEF IInv, TypeOK
      <3>3. n + 1 \in DOMAIN stack
        BY <1>0, <2>2
      <3>4. stack[n + 1].key \in Elems(order)
        BY <3>3, NodesAreElems DEF IInv, Core, Members, Active
      <3> HIDE DEF n
      <3>5. Popped(stack) # <<>>
        BY <3>1
      <3>6. Walked(deps, Advanced(Popped(stack)), order)
        BY <2>4, <3>1, <3>2, <3>4, <3>5, WalkAdvances
      <3> QED
        BY <2>1, <2>7, <3>6 DEF WalkedOrder
    <2> QED
      BY <2>6, <2>7
  <1> QED
    BY <1>1, <1>2, <1>3, <1>4, <1>5, <1>6, <1>7 DEF Next

LEMMA TrailStep ==
    ASSUME IInv, WalkedTrail, Next
    PROVE  WalkedTrail'
  <1>0. out \in Seq(Keys) /\ trail \in Seq(Frames) /\ start \in Keys
    BY DEF IInv, TypeOK
  <1> SUFFICES ASSUME phase' \in {"walk", "ended"}, outcome' = "ok" PROVE WalkedTrail'
    BY DEF WalkedTrail
  <1>1. \/ \E k \in Keys : Collect(k) \/ WalkInto(k)
        \/ WalkOver \/ WalkBack
    <2>1. ASSUME NEW m \in Manifests, LoadRoot(m) \/ Fetch(m) PROVE FALSE
      BY <2>1 DEF LoadRoot, Fetch
    <2>2. ~(LoadRootFails \/ FetchFails \/ Conflict)
      BY DEF LoadRootFails, FetchFails, Conflict, End
    <2>3. ASSUME NEW d \in Keys, AlreadyCompleted(d) \/ Cycle(d) \/ Descend(d) PROVE FALSE
      BY <2>3 DEF AlreadyCompleted, Cycle, Descend, Visits, End
    <2>4. ~Return
      BY DEF Return
    <2> QED
      BY <2>1, <2>2, <2>3, <2>4 DEF Next
  <1>2. UNCHANGED <<outcome, deps, order>>
    BY <1>1 DEF Collect, WalkInto, WalkOver, WalkBack, building
  <1>3. Nodes' = Nodes /\ \A S : Closed(S)' = Closed(S)
    BY <1>2 DEF Nodes, Closed, Successors
  <1>4. ASSUME NEW k \in Keys, Collect(k) PROVE WalkedTrail'
    <2>1. /\ phase' = "walk" /\ start' = k /\ trail' = <<Frame(k)>> /\ out' = <<k>> /\ k \in Nodes
      BY <1>4 DEF Collect
    <2>2. Walked(deps, <<Frame(k)>>, <<k>>) /\ Elems(<<k>>) = {k}
      BY WalkStarts
    <2>3. out' # <<>> /\ out'[1] = k /\ Elems(out') = {k}
      BY <2>1, <2>2
    <2>4. Walked(deps', trail', out')
      BY <1>2, <2>1, <2>2
    <2> QED
      BY <1>3, <2>1, <2>3, <2>4 DEF WalkedTrail
  <1>5. ASSUME phase = "walk"
        PROVE  /\ Walked(deps, trail, out) /\ trail # <<>>
               /\ out # <<>> /\ out[1] = start /\ Elems(out) \subseteq Nodes
               /\ \A S \in SUBSET Keys : start \in S /\ Closed(S) => Elems(out) \subseteq S
               /\ trail[Len(trail)].key \in Elems(out)
               /\ Nodes = completed /\ Closed(Nodes)
    <2>1. /\ Walked(deps, trail, out) /\ trail # <<>>
          /\ out # <<>> /\ out[1] = start /\ Elems(out) \subseteq Nodes
      BY <1>2, <1>5 DEF WalkedTrail, IInv, Control
    <2>2. \A S \in SUBSET Keys : start \in S /\ Closed(S) => Elems(out) \subseteq S
      BY <1>2, <1>5 DEF WalkedTrail
    <2>3. Len(trail) \in DOMAIN trail
      BY <1>0, <2>1, NonEmpty
    <2>4. trail[Len(trail)].key \in Elems(out)
      BY <2>1, <2>3 DEF Walked, KeysOf
    <2>5. Nodes = completed /\ Closed(Nodes)
      BY <1>2, AcceptedIsCompleted DEF IInv, Core, Finished
    <2> QED
      BY <2>1, <2>2, <2>4, <2>5
  <1>6. CASE WalkOver
    <2>1. /\ phase = "walk" /\ HasDependency(trail) /\ UNCHANGED <<phase, start, out>>
          /\ trail' = Advanced(trail)
          /\ Dependency(trail) \notin Nodes \/ Visited(Dependency(trail))
      BY <1>6 DEF WalkOver
    <2>2. Dependency(trail) \in Nodes
      <3>1. Dependency(trail) \in Successors(Innermost(trail).key)
        BY <1>0, <1>5, <2>1, DependencyType DEF IInv
      <3> QED
        BY <1>5, <2>1, <3>1 DEF Closed, Innermost
    <2>3. deps[trail[Len(trail)].key][trail[Len(trail)].next] \in Elems(out)
      BY <2>1, <2>2 DEF Visited, Elems, Dependency, Innermost
    <2>4. Walked(deps, Advanced(trail), out)
      BY <1>5, <2>1, <2>3, WalkAdvances
    <2>5. Walked(deps', trail', out')
      BY <1>2, <2>1, <2>4
    <2> QED
      BY <1>3, <1>5, <2>1, <2>5 DEF WalkedTrail
  <1>7. ASSUME NEW d \in Keys, WalkInto(d) PROVE WalkedTrail'
    <2>1. /\ phase = "walk" /\ HasDependency(trail) /\ UNCHANGED <<phase, start>>
          /\ d = Dependency(trail) /\ d \in Nodes /\ d \notin Elems(out)
          /\ out' = Append(out, d) /\ trail' = Called(Advanced(trail), d)
      BY <1>7 DEF WalkInto, Visited, Elems
    <2>2. /\ Innermost(trail).next \in DOMAIN deps[Innermost(trail).key]
          /\ d \in Successors(Innermost(trail).key)
      BY <1>0, <1>5, <2>1, DependencyType DEF IInv
    <2>3. Follows(deps, out, Len(out), d)
      BY <1>5, <2>1, <2>2, NextFollows DEF Dependency, Innermost
    <2> DEFINE g == Advanced(trail)
    <2>4. /\ g \in Seq(Frames) /\ Len(g) = Len(trail)
          /\ \A i \in 1..Len(trail) : g[i].key = trail[i].key
          /\ \A i \in 1..(Len(trail) - 1) : g[i] = trail[i]
          /\ g[Len(trail)].next = trail[Len(trail)].next + 1
      BY <1>0, <1>5, <2>1, AdvancedFacts
    <2> HIDE DEF g
    <2>5. ListedBelow(g, deps, Elems(out) \cup {d})
      <3>1. DOMAIN g = 1..Len(trail) /\ DOMAIN trail = 1..Len(trail) /\ Len(trail) \in Nat
        BY <1>0, <2>4
      <3>2. SUFFICES ASSUME NEW i \in 1..Len(trail), NEW m \in 1..(g[i].next - 1)
                     PROVE  deps[trail[i].key][m] \in Elems(out) \cup {d}
        BY <2>4, <3>1 DEF ListedBelow
      <3>3. CASE i # Len(trail)
        <4>1. g[i] = trail[i]
          BY <2>4, <3>1, <3>3
        <4> QED
          BY <1>5, <2>1, <3>1, <3>2, <4>1 DEF Walked, ListedBelow
      <3>4. CASE i = Len(trail)
        <4>1. trail[i] \in Frames
          BY <1>0, <3>1
        <4>2. trail[i].next \in Nat
          BY <4>1 DEF Frames
        <4>3. m \in 1..(trail[i].next - 1) \/ m = trail[i].next
          BY <2>4, <3>4, <4>2
        <4>4. m = trail[i].next => deps[trail[i].key][m] = d
          BY <2>1, <3>4 DEF Dependency, Innermost
        <4> QED
          BY <1>5, <2>1, <3>1, <4>3, <4>4 DEF Walked, ListedBelow
      <3> QED
        BY <3>3, <3>4
    <2>6. /\ Walked(deps, Called(g, d), Append(out, d))
          /\ Elems(Append(out, d)) = Elems(out) \cup {d}
      <3>1. Walked(deps, trail, out) /\ d \notin Elems(out)
        BY <1>5, <2>1
      <3>2. \A i \in 1..Len(trail) : g[i].key = trail[i].key
        BY <2>4
      <3>3. g \in Seq(Frames) /\ Len(g) = Len(trail)
        BY <2>4
      <3> QED
        BY <2>3, <2>5, <3>1, <3>2, <3>3, WalkCalls
    <2>7. Walked(deps', trail', out') /\ Elems(out') = Elems(out) \cup {d}
      BY <1>2, <2>1, <2>6 DEF g
    <2>8. out' # <<>> /\ out'[1] = out[1]
      BY <1>0, <1>5, <2>1
    <2>9. \A S \in SUBSET Keys : start \in S /\ Closed(S) => Elems(out) \cup {d} \subseteq S
      <3>1. trail[Len(trail)].key \in Elems(out) /\ d \in Successors(trail[Len(trail)].key)
        BY <1>5, <2>1, <2>2 DEF Innermost
      <3> QED
        BY <1>5, <2>1, <3>1 DEF Closed
    <2> QED
      BY <1>3, <1>5, <2>1, <2>7, <2>8, <2>9 DEF WalkedTrail
  <1>8. CASE WalkBack
    <2>1. /\ phase = "walk" /\ ~HasDependency(trail) /\ UNCHANGED <<start, out>>
          /\ trail' = Popped(trail)
          /\ phase' = "ended" => Len(trail) = 1
      BY <1>8 DEF WalkBack
    <2>2. Needs(deps, trail[Len(trail)].key) \subseteq Elems(out)
      <3> DEFINE k == trail[Len(trail)].key
                 next == trail[Len(trail)].next
      <3>1. trail[Len(trail)] \in Frames /\ Len(trail) \in DOMAIN trail
        BY <1>0, <1>5, <2>1, NonEmpty
      <3>2. deps[k] \in Seq(Keys) /\ next \in Nat
        BY <3>1, ListsAssumption DEF Frames, IInv, TypeOK
      <3>3. ~(next <= Len(deps[k]))
        BY <2>1 DEF HasDependency, Innermost
      <3>4. \A n \in 1..(next - 1) : deps[k][n] \in Elems(out)
        BY <1>5, <2>1, <3>1 DEF Walked, ListedBelow
      <3> HIDE DEF k, next
      <3>5. \A n \in DOMAIN deps[k] : n \in 1..(next - 1)
        BY <3>2, <3>3
      <3>6. Needs(deps, k) \subseteq Elems(out)
        BY <3>4, <3>5 DEF Needs
      <3> QED
        BY <3>6 DEF k
    <2>3. Walked(deps, Popped(trail), out)
      BY <1>5, <2>1, <2>2, WalkPops
    <2>4. Walked(deps', trail', out')
      BY <1>2, <2>1, <2>3
    <2>5. phase' = "ended" => trail' = <<>>
      <3>1. Popped(trail) \in Seq(Frames) /\ Len(Popped(trail)) = Len(trail) - 1
        BY <1>0, <1>5, <2>1, PoppedFacts
      <3> QED
        <4>1. ASSUME Len(trail) = 1 PROVE Popped(trail) = <<>>
          <5>1. Len(Popped(trail)) = 0
            BY <3>1, <4>1
          <5> QED
            BY <3>1, <5>1, EmptySeq
        <4> QED
          BY <2>1, <4>1
    <2> QED
      BY <1>3, <1>5, <2>1, <2>4, <2>5 DEF WalkedTrail
  <1> QED
    BY <1>1, <1>4, <1>6, <1>7, <1>8

LEMMA CountOnce ==
    ASSUME NEW s \in Seq(Keys), Once(s)
    PROVE  Cardinality(Elems(s)) = Len(s)
  <1>1. Len(s) \in Nat /\ DOMAIN s = 1..Len(s)
    OBVIOUS
  <1>2. s \in Bijection(1..Len(s), Elems(s))
    <2>1. s \in [1..Len(s) -> Elems(s)]
      BY <1>1 DEF Elems
    <2> QED
      BY <1>1, <2>1 DEF Bijection, Injection, Surjection, IsInjective, Once, Elems
  <1>3. ExistsBijection(1..Len(s), Elems(s))
    BY <1>2 DEF ExistsBijection
  <1> QED
    BY <1>1, <1>3, FS_CountingElements

\* A subtree that is collected is what the node reaches, each key once, and
\* from the root it is the whole graph in the order of its nodes: the walk of
\* collectSubtree meets them as the walk of buildDependencyGraph did.
THEOREM SubtreeTheorem == Spec => []SubtreeIsComplete
  <1>1. Init => WalkedOrder /\ WalkedTrail
    BY NothingWalked DEF Init, WalkedOrder, WalkedTrail
  <1>2. IInv /\ WalkedOrder /\ WalkedTrail /\ [Next]_vars => WalkedOrder' /\ WalkedTrail'
    <2>1. ASSUME WalkedOrder, WalkedTrail, UNCHANGED vars PROVE WalkedOrder' /\ WalkedTrail'
      <3> USE <2>1 DEF vars, building, walking
      <3>1. WalkedOrder'
        BY DEF WalkedOrder
      <3>2. Nodes' = Nodes /\ \A S : Closed(S)' = Closed(S)
        BY DEF Nodes, Closed, Successors
      <3>3. WalkedTrail'
        BY <3>2 DEF WalkedTrail
      <3> QED
        BY <3>1, <3>3
    <2> QED
      BY <2>1, BuildStep, TrailStep
  <1>3. ASSUME IInv, WalkedOrder, WalkedTrail, phase = "ended", outcome = "ok"
        PROVE  /\ Elems(out) = Reach(start) /\ Len(out) = Cardinality(Reach(start))
               /\ start = Root => out = order
    <2>1. /\ Walked(deps, <<>>, out) /\ out # <<>> /\ out[1] = start
          /\ \A S \in SUBSET Keys : start \in S /\ Closed(S) => Elems(out) \subseteq S
      BY <1>3 DEF WalkedTrail
    <2>2. out \in Seq(Keys) /\ order \in Seq(Keys) /\ start \in Keys
      BY <1>3 DEF IInv, TypeOK
    <2>3. Elems(out) \in SUBSET Keys /\ start \in Elems(out)
      BY <2>1, <2>2 DEF Elems
    <2>4. Closed(Elems(out))
      <3>1. KeysOf(<<>>) = {}
        BY DEF KeysOf
      <3> QED
        BY <2>1, <3>1, NeedsAreSuccessors DEF Walked, Open, Closed
    <2>5. Elems(out) = Reach(start)
      BY <2>1, <2>3, <2>4 DEF Reach
    <2>6. Len(out) = Cardinality(Elems(out))
      BY <2>1, <2>2, CountOnce DEF Walked
    <2>7. ASSUME start = Root PROVE out = order
      <3>1. Nodes = Reach(Root)
        <4>1. Nodes \subseteq Reach(Root)
          BY <1>3, NodesAreReached DEF IInv
        <4>2. Nodes \in SUBSET Keys /\ Root \in Nodes /\ Closed(Nodes)
          BY <1>3, AcceptedIsCompleted, KeysAssumption
             DEF IInv, Core, Members, Read, TypeOK, Finished
        <4> QED
          BY <4>1, <4>2 DEF Reach
      <3>2. Elems(order) = Elems(out)
        BY <2>5, <2>7, <3>1, NodesAreElems
      <3>3. Len(order) = Len(out) /\ order # <<>>
        <4>1. Len(order) = Cardinality(Elems(order))
          BY <1>3, <2>2, CountOnce DEF WalkedOrder, Walked
        <4>2. order # <<>>
          BY <2>3, <3>2 DEF Elems
        <4> QED
          BY <2>6, <3>2, <4>1, <4>2
      <3>4. order[1] = Root /\ Preorder(deps, order) /\ Preorder(deps, out)
        BY <1>3, <2>1, <3>3 DEF WalkedOrder, Walked
      <3>5. \A k \in Keys : deps[k] \in Seq(Keys)
        BY <1>3, ListsAssumption DEF IInv, TypeOK
      <3> QED
        BY <2>1, <2>2, <2>7, <3>3, <3>4, <3>5, PreorderIsOne
    <2> QED
      BY <2>5, <2>6, <2>7
  <1>4. IInv /\ WalkedOrder /\ WalkedTrail => SubtreeIsComplete
    BY <1>3 DEF SubtreeIsComplete, Elems
  <1> QED
    BY <1>1, <1>2, <1>4, Inductive, PTL DEF Spec
=============================================================================
