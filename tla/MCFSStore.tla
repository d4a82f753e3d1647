------------------------------ MODULE MCFSStore ------------------------------
(***************************************************************************)
(* Instances of FSStore for TLC.                                           *)
(***************************************************************************)
EXTENDS FSStoreRefines, TLC

CONSTANTS a1, a2, h, s1, s2, v1, c1, c2

Call(op, s, a, c, f) == [op |-> op, skill |-> s, version |-> v1,
                         author |-> a, content |-> c, force |-> f]

\* One skill: publish under either author, replace, delete, read.
OneSkill == {Call("create", s1, a1, c1, FALSE), Call("create", s1, a2, c2, TRUE),
             Call("create", s1, a1, c2, TRUE), Call("delete", s1, a1, c1, FALSE),
             Call("get", s1, a1, c1, FALSE), Call("validate", s1, a1, c1, FALSE)}

\* Two skills, with Reindex; h is an author whose directory is not searched.
TwoSkills == {Call("create", s1, a1, c1, FALSE), Call("create", s1, a2, c2, TRUE),
              Call("create", s2, a1, c1, FALSE), Call("delete", s1, a1, c1, FALSE),
              Call("create", s1, h, c1, TRUE), Call("reindex", s1, a1, c1, FALSE)}

\* Two skills, no Reindex.
TwoWriters == {Call("create", s1, a1, c1, FALSE), Call("create", s2, a1, c1, FALSE)}

Symmetry == Permutations(Workers)
=============================================================================
