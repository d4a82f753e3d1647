--------------------------- MODULE MCConfigSources ---------------------------
(***************************************************************************)
(* A project in the home directory and a directory inside the project.     *)
(* The global file exists, has one source selected and leaves the setting  *)
(* out or has it; the project has no file yet.                             *)
(***************************************************************************)
EXTENDS ConfigSources, TLC

CONSTANTS s1, s2, home, proj, nested, origin, repo, u1, u2, key, empty

Upwards == [c \in {proj, nested} |->
                IF c = proj THEN <<proj, home>> ELSE <<nested, proj, home>>]

OneSource ==
    [default |-> origin,
     sources |-> [n \in {origin, repo} |-> IF n = origin THEN u1 ELSE None],
     settings |-> [x \in Settings |-> None]]
FirstFiles == [p \in {home, proj, nested} |-> IF p = home THEN OneSource ELSE Absent]

Symmetry == Permutations({s1, s2})
=============================================================================
