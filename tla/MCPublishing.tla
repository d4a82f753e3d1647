---------------------------- MODULE MCPublishing ----------------------------
(***************************************************************************)
(* Two people who both checked out app, which needs version 1 of lib, and  *)
(* have yet to make lib.  The registry has a version of lib whose          *)
(* suggestion carries (rc9), and one may be typed whose suggestion is the  *)
(* same version (1.16, where 16 stands for 2^53).                          *)
(***************************************************************************)
EXTENDS Publishing, TLC

CONSTANTS ann, bob, app, lib, dev

one == <<Number(1)>>
large == <<Number(1), Number(Exact)>>
rc9 == <<Number(1), Text(1, <<9>>)>>

TypedVersions == {one, large, rc9}
FirstOnes == [s \in {app, lib} |-> IF s = app THEN one ELSE None]
FirstFiles == [s \in {app, lib} |-> IF s = app THEN {Entry(lib, lib, one)} ELSE None]
AlreadyThere == {<<lib, rc9>>}

People2 == Permutations({ann, bob})
=============================================================================
