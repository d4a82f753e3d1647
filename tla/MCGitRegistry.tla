---------------------------- MODULE MCGitRegistry ----------------------------
(***************************************************************************)
(* Instances of GitRegistry for TLC.                                       *)
(***************************************************************************)
EXTENDS GitRegistry

CONSTANTS s, g, c1, c2, m1, m2, p1, p2

Call(op, k, c, f, its, sk) ==
    [op |-> op, key |-> k, content |-> c, force |-> f, items |-> its, skip |-> sk]
Publish(k, c, f) == Call("publish", k, c, f, <<>>, FALSE)
Import(its, sk) == Call("import", s, c1, FALSE, its, sk)

\* Each process on a machine of its own, or both on one machine.
Apart == (p1 :> m1) @@ (p2 :> m2)
Together == (p1 :> m1) @@ (p2 :> m1)
Alone == (p1 :> m1)

\* Apart stays what it is when both pairs are exchanged.
Symmetry == {(p1 :> p2) @@ (p2 :> p1) @@ (m1 :> m2) @@ (m2 :> m1)}

Everything ==
    {Publish(s, c1, FALSE), Publish(s, c2, TRUE), Publish(g, c1, FALSE),
     Call("delete", s, c1, FALSE, <<>>, FALSE), Call("get", s, c1, FALSE, <<>>, FALSE),
     Import(<<<<s, c1>>, <<g, c2>>>>, FALSE), Import(<<<<s, c1>>, <<g, c2>>>>, TRUE)}
Publishes == {Publish(s, c1, FALSE), Publish(g, c1, FALSE)}

\* The import conflicts on its AGENTS.md, after its skill has been written.
Imports == {Publish(g, c2, FALSE), Import(<<<<s, c1>>, <<g, c1>>>>, FALSE),
            Import(<<<<s, c1>>, <<g, c1>>>>, TRUE)}
ByHand == {<<s, c2>>}
NoEdits == {}
=============================================================================
