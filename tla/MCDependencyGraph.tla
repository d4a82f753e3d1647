-------------------------- MODULE MCDependencyGraph --------------------------
(***************************************************************************)
(* An instance of DependencyGraph for TLC: four skills, one of them at     *)
(* two versions, and dependency lists of at most two entries.              *)
(***************************************************************************)
EXTENDS DependencyGraph

CONSTANTS app, lib, util, base

TheSkills == {app, lib, util, base}
TheKeys == {<<app, 1>>, <<lib, 1>>, <<base, 1>>, <<util, 1>>, <<util, 2>>}
TheRoot == <<app, 1>>

\* Up to two dependencies besides the root, one of them repeated in a list, or
\* the root itself.
Others == TheKeys \ {TheRoot}
TheLists ==
    {<<>>, <<TheRoot>>, <<<<base, 1>>, <<base, 1>>>>}
        \cup {<<k>> : k \in Others}
        \cup {l \in Others \X Others : l[1] # l[2]}

\* Skills come with a lock file; one comes with a plain file only, one with
\* both and one with neither.
TheManifests ==
    {[lock |-> l, plain |-> None] : l \in TheLists}
        \cup {[lock |-> None, plain |-> <<<<lib, 1>>>>],
              [lock |-> <<<<util, 1>>>>, plain |-> <<<<util, 2>>>>],
              [lock |-> None, plain |-> None]}
=============================================================================
