--------------------------- MODULE MCLocalInstall ---------------------------
(***************************************************************************)
(* Instances of LocalInstall for TLC.  app 1 needs lib and base, and lib 1 *)
(* needs base; app 2 needs lib 2, which needs nothing and so comes without *)
(* a dependency file; tool needs base.  The skills have the ids app,       *)
(* team/lib, team/base and other/tool, and tool's SKILL.md gives it the    *)
(* name lib too, so that "lib" may mean either.                            *)
(***************************************************************************)
EXTENDS LocalInstall, TLC

CONSTANTS app, lib, base, tool, t1, t2, p1, p2, mix1, mix2

TheSkills == {app, lib, base, tool}
ID(author, name) == [author |-> author, name |-> name]
TheIdOf == (app :> ID(None, "app")) @@ (lib :> ID("team", "lib"))
           @@ (base :> ID("team", "base")) @@ (tool :> ID("other", "tool"))
TheNameOf == [s \in TheSkills |-> IF s = tool THEN "lib" ELSE None]
TheAuthorOf == [s \in TheSkills |-> IF s = app THEN "team" ELSE None]
TheListing == <<<<app, 1>>, <<app, 2>>, <<tool, 1>>, <<tool, 2>>,
                <<base, 1>>, <<base, 2>>, <<lib, 1>>, <<lib, 2>>>>
TheDep ==
    [k \in TheSkills \X {1, 2} |->
        CASE k = <<app, 1>> -> {<<lib, 1>>, <<base, 1>>}
          [] k = <<app, 2>> -> {<<lib, 2>>}
          [] k = <<lib, 1>> -> {<<base, 1>>}
          [] k[1] = tool -> {<<base, 1>>}
          [] OTHER -> {}]
ThePlan ==
    (<<app, 1>> :> <<<<app, 1>>, <<lib, 1>>, <<base, 1>>>>)
        @@ (<<app, 2>> :> <<<<app, 2>>, <<lib, 2>>>>)
        @@ (<<lib, 1>> :> <<<<lib, 1>>, <<base, 1>>>>)
        @@ (<<lib, 2>> :> <<<<lib, 2>>>>)
        @@ (<<base, 1>> :> <<<<base, 1>>>>)
        @@ (<<tool, 1>> :> <<<<tool, 1>>, <<base, 1>>>>)

TheMix == (1 :> mix1) @@ (2 :> mix2)

\* Three tools, of which two share a directory.
TheDirOf == [codex |-> t1, cursor |-> t1, claude |-> t2]

Command(op, ref, mode, tools, tty) ==
    [op |-> op, ref |-> ref, version |-> None, pattern |-> None, root |-> None,
     mode |-> mode, tools |-> tools, tty |-> tty, deps |-> FALSE]
Get(ref, mode, tools, tty) == Command("get", ref, mode, tools, tty)
GetByPattern(pattern) ==
    [Get(None, "copy", <<"codex">>, FALSE) EXCEPT !.pattern = pattern]
Deps(root, ref) ==
    [Command("deps", ref, "copy", <<"codex">>, TRUE) EXCEPT !.root = root]
Remove(ref, tools, tty, deps) ==
    [Command("remove", ref, "copy", tools, tty) EXCEPT !.deps = deps]

App == Reference(None, "app", None)
Lib == Reference("team", "lib", None)
AnyLib == Reference(None, "lib", None)
At1(ref) == [ref EXCEPT !.version = 1]
At2(ref) == [ref EXCEPT !.version = 2]

\* One process is asked anything, the other runs one small command meanwhile.
Everything ==
    {Get(At1(App), "copy", <<"claude", "codex", "cursor">>, TRUE),
     Get(At2(App), "copy", <<"cursor", "codex">>, TRUE),
     Get(AnyLib, "copy", <<"codex">>, FALSE),
     [Get(At1(Lib), "slink", <<"codex">>, FALSE) EXCEPT !.version = 2],
     GetByPattern({<<app, 1>>}), GetByPattern({<<lib, 1>>, <<lib, 2>>}),
     Get(At1(App), "wrap", <<"codex">>, FALSE), Deps(app, AnyLib),
     Remove(App, <<"codex", "claude">>, TRUE, TRUE), Remove(AnyLib, <<"codex">>, TRUE, TRUE),
     Remove(Reference(None, "lib", 1), <<"codex">>, FALSE, TRUE),
     Remove(Reference(None, "base", None), <<"codex">>, FALSE, FALSE)}
Mixed == (p1 :> Everything) @@ (p2 :> {Get(At2(Lib), "copy", <<"codex">>, FALSE)})

\* A linked skill and a newer copy of it.
Linked == p1 :>
          {Get(At2(Lib), "slink", <<"codex">>, FALSE), Get(At2(Lib), "copy", <<"codex">>, FALSE),
           Get(At1(Lib), "copy", <<"codex">>, FALSE)}
=============================================================================
