--------------------------- MODULE DependencyGraph ---------------------------
(***************************************************************************)
(* The dependency resolution of the command line (commands/query.ts):      *)
(* `skuare get`, `detail` and `deps` start from a root skill, fetch every  *)
(* skill it depends on from the registry, and refuse the root when a       *)
(* dependency cycle or two versions of one skill are met.  The graph they  *)
(* accept is then walked to find what must be installed.                   *)
(*                                                                         *)
(* The registry is not under the command's control: what a fetch answers   *)
(* is chosen when the fetch is made.  A skill at a version is a key        *)
(* <<skill, version>>, as formatNodeKey writes it.                         *)
(***************************************************************************)
EXTENDS Integers, Sequences, FiniteSets

CONSTANTS
    Skills, Versions,
    Keys,           \* the skill versions the registries may name
    Root,           \* the key the command was asked for
    DepLists,       \* the dependency lists a manifest may hold
    Manifests,      \* the pairs of dependency files a skill version may have
    None

ASSUME KeysAssumption == Keys \subseteq Skills \X Versions /\ Root \in Keys
ASSUME ListsAssumption == DepLists \subseteq Seq(Keys) /\ <<>> \in DepLists
ASSUME ManifestsAssumption ==
    Manifests \subseteq [lock : DepLists \cup {None}, plain : DepLists \cup {None}]
ASSUME NoneAssumption == None \notin Versions /\ None \notin DepLists

VARIABLES
    phase,      \* "root", "build", "built", "walk" or "ended"
    outcome,    \* "none", "ok", "conflict", "cycle" or "failed"
    deps,       \* the dependencies read for each key, <<>> while unread
    loaded,     \* the keys fetched as a dependency
    order,      \* the keys of graph.nodes in the order they were inserted
    version,    \* versionsBySkillID
    completed,  \* the keys all of whose dependencies are completed
    stack,      \* the keys being visited, each with the dependency it is at
    cyclePath,  \* the cycle reported by onDependencyCycle
    start,      \* the node collectSubtree was asked for
    trail,      \* the calls of walk, innermost last
    out         \* what collectSubtree returns

building == <<deps, loaded, order, version, completed, stack, cyclePath>>
walking == <<start, trail, out>>
vars == <<phase, outcome, building, walking>>

-----------------------------------------------------------------------------
(* The graph that was read. *)

Successors(k) == {deps[k][i] : i \in DOMAIN deps[k]}
Closed(S) == \A k \in S : Successors(k) \subseteq S

\* What can be reached from k: it is in every closed set that holds k.
Reach(k) == {n \in Keys : \A S \in SUBSET Keys : k \in S /\ Closed(S) => n \in S}

\* In a non-empty set without an end every path goes on, so it holds a cycle.
Endless(S) == S # {} /\ \A k \in S : Successors(k) \cap S # {}

Nodes == {order[i] : i \in DOMAIN order}
Active == {stack[i].key : i \in DOMAIN stack}

\* parseDependencyRefs: the lock file is preferred as a whole.
ParseDependencyRefs(m) ==
    IF m.lock # None THEN m.lock ELSE IF m.plain # None THEN m.plain ELSE <<>>

Frame(k) == [key |-> k, next |-> 1]
NotAdvanced(frames) == frames
Advanced(frames) == [frames EXCEPT ![Len(frames)].next = @ + 1]
CalledAfterAdvancing(frames, k) == Append(Advanced(frames), Frame(k))
Called(frames, k) == Append(frames, Frame(k))
Popped(frames) == [i \in 1..(Len(frames) - 1) |-> frames[i]]
Innermost(frames) == frames[Len(frames)]
HasDependency(frames) == Innermost(frames).next <= Len(deps[Innermost(frames).key])
Dependency(frames) == deps[Innermost(frames).key][Innermost(frames).next]

-----------------------------------------------------------------------------
Init ==
    /\ phase = "root" /\ outcome = "none"
    /\ deps = [k \in Keys |-> <<>>]
    /\ loaded = {} /\ order = <<>> /\ completed = {}
    /\ version = [s \in Skills |-> None]
    /\ stack = <<>> /\ cyclePath = <<>>
    /\ start = Root /\ trail = <<>> /\ out = <<>>

End(result) == phase' = "ended" /\ outcome' = result

\* The root is read, from the registry or from an installed directory, and
\* its visit starts.
LoadRoot(m) ==
    /\ phase = "root" /\ phase' = "build"
    /\ deps' = [deps EXCEPT ![Root] = ParseDependencyRefs(m)]
    /\ version' = [version EXCEPT ![Root[1]] = Root[2]]
    /\ order' = <<Root>> /\ stack' = <<Frame(Root)>>
    /\ UNCHANGED <<outcome, loaded, completed, cyclePath, walking>>

\* The root cannot be read: no SKILL.md, no identity, no version, bad JSON.
LoadRootFails ==
    /\ phase = "root" /\ End("failed")
    /\ UNCHANGED <<building, walking>>

\* The next dependency is not in `loaded`: it is fetched.  A second copy of the
\* root may be fetched, but the root being active its list is never read.
Fetch(m) ==
    LET d == Dependency(stack) IN
    /\ phase = "build" /\ HasDependency(stack) /\ d \notin loaded
    /\ loaded' = loaded \cup {d}
    /\ deps' = IF d = Root THEN deps ELSE [deps EXCEPT ![d] = ParseDependencyRefs(m)]
    /\ UNCHANGED <<phase, outcome, order, version, completed, stack, cyclePath, walking>>

\* The registry does not answer, does not know the version, or the version
\* holds no files or an invalid dependency file.
FetchFails ==
    /\ phase = "build" /\ HasDependency(stack) /\ Dependency(stack) \notin loaded
    /\ End("failed")
    /\ UNCHANGED <<building, walking>>

\* visit(d) is called: d was fetched.
Visits(d) ==
    /\ phase = "build" /\ HasDependency(stack)
    /\ d = Dependency(stack) /\ d \in loaded

OtherActiveVersion(d) == \E k \in Active : k[1] = d[1] /\ k # d
OtherVersion(d) == version[d[1]] \notin {None, d[2]}

Conflict ==
    /\ \E d \in Keys : Visits(d) /\ OtherVersion(d)
    /\ End("conflict")
    /\ UNCHANGED <<building, walking>>

IsInGraph(d) == d \in Nodes
IsCompleted(d) == d \in completed

AlreadyCompleted(d) ==
    /\ Visits(d) /\ ~OtherVersion(d) /\ IsCompleted(d)
    /\ version' = [version EXCEPT ![d[1]] = d[2]]
    /\ stack' = Advanced(stack)
    /\ UNCHANGED <<phase, outcome, deps, loaded, order, completed, cyclePath, walking>>

IsActive(d) == d \in Active

\* The slice of the stack from the key met again, closed by that key.
WholePath(d) == [i \in DOMAIN stack |-> stack[i].key] \o <<d>>
CyclePath(d) ==
    LET first == CHOOSE i \in DOMAIN stack : stack[i].key = d
    IN  [i \in 1..(Len(stack) - first + 1) |-> stack[first + i - 1].key] \o <<d>>

Cycle(d) ==
    /\ Visits(d) /\ ~OtherVersion(d) /\ ~IsCompleted(d) /\ IsActive(d)
    /\ version' = [version EXCEPT ![d[1]] = d[2]]
    /\ cyclePath' = CyclePath(d)
    /\ End("cycle")
    /\ UNCHANGED <<deps, loaded, order, completed, stack, walking>>

Descend(d) ==
    /\ Visits(d) /\ ~OtherVersion(d) /\ ~IsCompleted(d) /\ ~IsActive(d)
    /\ version' = [version EXCEPT ![d[1]] = d[2]]
    /\ order' = Append(order, d)
    /\ stack' = Called(stack, d)
    /\ UNCHANGED <<phase, outcome, deps, loaded, completed, cyclePath, walking>>

\* All dependencies of the innermost node are done; its caller goes on.
Return ==
    /\ phase = "build" /\ ~HasDependency(stack)
    /\ completed' = completed \cup {Innermost(stack).key}
    /\ IF Len(stack) = 1
       THEN stack' = <<>> /\ phase' = "built" /\ outcome' = "ok"
       ELSE stack' = Advanced(Popped(stack)) /\ UNCHANGED <<phase, outcome>>
    /\ UNCHANGED <<deps, loaded, order, version, cyclePath, walking>>

-----------------------------------------------------------------------------
(* collectSubtree: what `deps --brief` lists and `deps --install` installs. *)

Collect(k) ==
    /\ phase = "built" /\ k \in Nodes
    /\ phase' = "walk" /\ start' = k
    /\ trail' = <<Frame(k)>> /\ out' = <<k>>
    /\ UNCHANGED <<outcome, building>>

OnTrail(k) == \E i \in DOMAIN trail : trail[i].key = k
Visited(k) == \E i \in DOMAIN out : out[i] = k

WalkOver ==
    /\ phase = "walk" /\ HasDependency(trail)
    /\ Dependency(trail) \notin Nodes \/ Visited(Dependency(trail))
    /\ trail' = Advanced(trail)
    /\ UNCHANGED <<phase, outcome, building, start, out>>

WalkInto(d) ==
    /\ phase = "walk" /\ HasDependency(trail)
    /\ d = Dependency(trail) /\ d \in Nodes /\ ~Visited(d)
    /\ out' = Append(out, d)
    /\ trail' = Called(Advanced(trail), d)
    /\ UNCHANGED <<phase, outcome, building, start>>

WalkBack ==
    /\ phase = "walk" /\ ~HasDependency(trail)
    /\ trail' = Popped(trail)
    /\ phase' = IF Len(trail) = 1 THEN "ended" ELSE phase
    /\ UNCHANGED <<outcome, building, start, out>>

Next ==
    \/ \E m \in Manifests : LoadRoot(m) \/ Fetch(m)
    \/ LoadRootFails \/ FetchFails \/ Conflict
    \/ \E d \in Keys : AlreadyCompleted(d) \/ Cycle(d) \/ Descend(d)
    \/ Return
    \/ \E k \in Keys : Collect(k) \/ WalkInto(k)
    \/ WalkOver \/ WalkBack

\* The command is one sequential program and every fetch answers or fails.
Spec == Init /\ [][Next]_vars /\ WF_vars(Next)

-----------------------------------------------------------------------------
(* Properties. *)

Frames == [key : Keys, next : Nat \ {0}]

\* Every variable keeps its type, and while a graph is built the stack is a
\* path of the graph: a frame's dependency is the frame above it.
TypeOK ==
    /\ phase \in {"root", "build", "built", "walk", "ended"}
    /\ outcome \in {"none", "ok", "conflict", "cycle", "failed"}
    /\ deps \in [Keys -> DepLists]
    /\ loaded \in SUBSET Keys /\ completed \in SUBSET Keys
    /\ order \in Seq(Keys)
    /\ version \in [Skills -> Versions \cup {None}]
    /\ stack \in Seq(Frames) /\ trail \in Seq(Frames)
    /\ cyclePath \in Seq(Keys)
    /\ start \in Keys /\ out \in Seq(Keys)
    /\ \A i \in 1..(Len(stack) - 1) :
          /\ stack[i].next \in DOMAIN deps[stack[i].key]
          /\ deps[stack[i].key][stack[i].next] = stack[i + 1].key

\* A graph that is accepted has no cycle, through whatever order of fetches
\* and repeated dependencies it was reached (the `completed` and `active`
\* sets of buildDependencyGraph).
AcceptedIsAcyclic ==
    outcome = "ok" => ~\E S \in SUBSET Nodes : Endless(S)

\* A graph that is accepted is exactly what the root reaches, each skill at
\* one version: nothing is installed without what it needs, and nothing else.
GraphIsClosure ==
    outcome = "ok" =>
        /\ Nodes = Reach(Root)
        /\ \A k, n \in Nodes : k[1] = n[1] => k = n

\* A refusal is never a false alarm: the reported cycle is a closed path the
\* root reaches, and a reported conflict is between two versions it reaches.
RefusalIsReal ==
    /\ outcome = "cycle" =>
          /\ Len(cyclePath) >= 2 /\ cyclePath[1] = cyclePath[Len(cyclePath)]
          /\ \A i \in 1..(Len(cyclePath) - 1) :
                cyclePath[i + 1] \in Successors(cyclePath[i])
          /\ cyclePath[1] \in Reach(Root)
    /\ outcome = "conflict" =>
          \E k, n \in Reach(Root) : k[1] = n[1] /\ k # n

\* What `deps --install` writes is the chosen dependency with everything it
\* needs, once each; walked from the root it is the graph in the order in
\* which `get` installs it.
SubtreeIsComplete ==
    phase = "ended" /\ outcome = "ok" =>
        /\ {out[i] : i \in DOMAIN out} = Reach(start)
        /\ Len(out) = Cardinality(Reach(start))
        /\ start = Root => out = order

\* Resolution ends, whatever graph the registry answers with.
ResolutionEnds == <>(phase = "ended")
=============================================================================
