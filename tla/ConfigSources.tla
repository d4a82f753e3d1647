---------------------------- MODULE ConfigSources ----------------------------
(***************************************************************************)
(* The command line's configuration: files found from the directory of the *)
(* command upwards, the global one in the home directory, and the commands *)
(* that change them, `remote source add`, `remove`, `select` and `init`    *)
(* (commands/remote_source.ts, commands/init.ts, config/).                 *)
(* Every command first resolves the server it is to talk to.  A change     *)
(* reads a file and later truncates and writes it, without a lock, while   *)
(* other commands do the same.                                             *)
(***************************************************************************)
EXTENDS Naturals, Sequences, FiniteSets

CONSTANTS
    Sessions,       \* the terminals, each running one command at a time
    Names, Urls,    \* of remote sources
    Settings,       \* the other fields: mode, address, keyId, llmTools ...
    Values, DefaultValue,
    Cwds,           \* the directories commands run in
    Lookup,         \* for each, the files looked for, its own first
    Global,         \* the file in the home directory
    First,          \* the files at the start
    MaxCommands, MaxBreaks,
    None, Absent,
    Truncated,      \* a file emptied and not yet written
    Torn            \* a file with a part of a text, or with parts of two

Paths == {Global} \cup UNION {{Lookup[c][i] : i \in DOMAIN Lookup[c]} : c \in Cwds}

\* A configuration file: a field that is not there is None.
Config == [default : Names \cup {None}, sources : [Names -> Urls \cup {None}],
           settings : [Settings -> Values \cup {None}]]

ASSUME ConfigAssumption ==
    /\ Absent # Truncated /\ Absent # Torn /\ Truncated # Torn
    /\ {Absent, Truncated, Torn} \cap Config = {}
    /\ None \notin Names \cup Urls \cup Values
    /\ DefaultValue \in Values
    /\ \A c \in Cwds : Lookup[c] \in Seq(Paths) /\ Lookup[c] # <<>>
    /\ First \in [Paths -> Config \cup {Absent}]

VARIABLES
    files,      \* each file: Absent, Truncated, Torn or a configuration
    cmd,        \* the command of each session
    added,      \* every <<file, name, url>> some `add` was given
    borrowed,   \* every <<file, name>> selected where the file lacks the name,
                \* at the start too
    spoiled,    \* the files two commands were writing at once, or one broke
                \* on, since a command last truncated them for itself
    commands, breaks

history == <<added, borrowed, spoiled>>
vars == <<files, cmd, history, commands, breaks>>

-----------------------------------------------------------------------------
(* Merging (config/merger.ts). *)

DefaultConfig ==
    [default |-> None, sources |-> [n \in Names |-> None],
     settings |-> [x \in Settings |-> DefaultValue]]

Unparsable(config) == config \in {Truncated, Torn}
Whole(config) == config # Absent /\ ~Unparsable(config)
ItemAsIs(base, item) == item
Given(base, item) == IF item = None THEN base ELSE item
FirstGiven(base, item) == IF base = None THEN item ELSE base
MergedDefault(base, item) == Given(base, item)

\* mergeConfig: what the later configuration has replaces what was there,
\* source by source and field by field.
Merge(base, item) ==
    IF item = Absent THEN base
    ELSE [default |-> MergedDefault(base.default, item.default),
          sources |-> [n \in Names |-> Given(base.sources[n], item.sources[n])],
          settings |-> [x \in Settings |-> Given(base.settings[x], item.settings[x])]]

Full(config) == Merge(DefaultConfig, config)

\* findNearestWorkspaceConfig: the first file there is; else the command's own.
Found(c) == {i \in DOMAIN Lookup[c] : files[Lookup[c][i]] # Absent}
Own(c) == Lookup[c][1]
Nearest(c) ==
    IF Found(c) = {} THEN Own(c)
    ELSE Lookup[c][CHOOSE i \in Found(c) : \A k \in Found(c) : i <= k]

Seen(c) == Merge(Full(files[Global]), files[Nearest(c)])

\* resolveConfiguredServer: a default that names no source is an error;
\* without a default the server is the configured address.
Dangling(config) == config.default # None /\ config.sources[config.default] = None

-----------------------------------------------------------------------------
(* Commands. *)

NoCommand == [op |-> "none", pc |-> "idle", cwd |-> None, isGlobal |-> FALSE,
              name |-> None, url |-> None, result |-> "none",
              undisturbed |-> TRUE, global |-> Absent, path |-> Global,
              next |-> Absent]

Init ==
    /\ files = First
    /\ cmd = [s \in Sessions |-> NoCommand]
    /\ added = {x \in Paths \X Names \X Urls :
                    Whole(First[x[1]]) /\ First[x[1]].sources[x[2]] = x[3]}
    /\ borrowed = {x \in Paths \X Names : LET c == First[x[1]] IN
                    Whole(c) /\ c.default = x[2] /\ Dangling(c)}
    /\ spoiled = {}
    /\ commands = 0 /\ breaks = 0

End(s, result) == [cmd EXCEPT ![s] = [NoCommand EXCEPT !.result = result]]
Fail(s) == cmd' = End(s, "failed")

\* main calls resolveConfig before any command: a file that cannot be parsed
\* or, without --server or SKUARE_SVC_URL, a dangling default ends it there.
Resolves(c, override) ==
    /\ ~Unparsable(files[Global]) /\ ~Unparsable(files[Nearest(c)])
    /\ override \/ ~Dangling(Seen(c))

Start(s, op, c, isGlobal, n, u) ==
    /\ cmd[s].pc = "idle" /\ commands < MaxCommands
    /\ commands' = commands + 1
    /\ \E override \in BOOLEAN :
        IF ~Resolves(c, override) THEN Fail(s)
        ELSE IF op = "read" THEN cmd' = End(s, "ok")
        ELSE cmd' = [cmd EXCEPT ![s] =
            [NoCommand EXCEPT !.op = op, !.pc = "global", !.cwd = c,
                              !.isGlobal = isGlobal, !.name = n, !.url = u]]
    /\ UNCHANGED <<files, history, breaks>>

\* The first read of a command that changes something; init reads the file of
\* the directory too, only to see that it can be parsed.
LoadGlobal(s) ==
    /\ cmd[s].pc = "global"
    /\ IF \/ Unparsable(files[Global])
          \/ cmd[s].op = "init" /\ Unparsable(files[Own(cmd[s].cwd)])
       THEN Fail(s)
       ELSE cmd' = [cmd EXCEPT ![s].pc = IF cmd[s].op = "init" THEN "edit" ELSE "target",
                               ![s].global = files[Global]]
    /\ UNCHANGED <<files, history, commands, breaks>>

-----------------------------------------------------------------------------
(* remote source: what it makes of a file with the configuration `base`.    *)

KeptDefault(j, base, left) == base.default
NextDefault(j, base, left) ==
    IF base.default # j.name THEN base.default
    ELSE IF left = {} THEN None ELSE CHOOSE n \in left : TRUE

Refuses(j, base, available) ==
    CASE j.op = "add" -> base.sources[j.name] # None
      [] j.op = "remove" -> base.sources[j.name] = None
      [] j.op = "select" -> available[j.name] = None

Changed(j, base) ==
    LET left == {n \in Names \ {j.name} : base.sources[n] # None} IN
    CASE j.op = "add" ->
            [base EXCEPT !.sources[j.name] = j.url,
                         !.default = IF @ = None THEN j.name ELSE @]
      [] j.op = "remove" ->
            [base EXCEPT !.sources[j.name] = None,
                         !.default = NextDefault(j, base, left)]
      [] j.op = "select" -> [base EXCEPT !.default = j.name]

\* What the change is made to: the file with the defaults filled in, and
\* nothing of the global configuration.
MergedBase(j, target) == Merge(Full(j.global), target)
Base(j, target) == Full(target)

LoadTarget(s) ==
    LET j == cmd[s]
        path == IF j.isGlobal THEN Global ELSE Nearest(j.cwd)
        target == IF j.isGlobal THEN j.global ELSE files[path]
    IN  /\ j.pc = "target"
        /\ IF Unparsable(target)
              \/ Refuses(j, Base(j, target), Merge(Full(j.global), target).sources)
           THEN Fail(s)
           ELSE cmd' = [cmd EXCEPT ![s].pc = "write", ![s].path = path,
                                   ![s].next = Changed(j, Base(j, target))]
        /\ UNCHANGED <<files, history, commands, breaks>>

-----------------------------------------------------------------------------
(* init.  The answers are given while other commands run; the file is read    *)
(* again after them, and its sources are kept.                               *)

InitPath(c, scope) == IF scope = "global" THEN Global ELSE Own(c)

\* reuse-global takes the global settings as they were when init began; any
\* other way each may be set.
Answers(j, mode) ==
    IF mode = "reuse-global" THEN {Full(j.global).settings} ELSE [Settings -> Values]

Edit(s, scope, mode) ==
    LET j == cmd[s]
        existing == files[InitPath(j.cwd, scope)]
    IN  /\ j.pc = "edit"
        /\ mode = "reuse-global" => scope = "workspace" /\ j.global # Absent
        /\ IF Unparsable(existing) THEN Fail(s)
           ELSE \E answers \in Answers(j, mode) :
                cmd' = [cmd EXCEPT ![s].pc = "confirm",
                                   ![s].path = InitPath(j.cwd, scope),
                                   ![s].next = [Full(existing) EXCEPT !.settings = answers]]
        /\ UNCHANGED <<files, history, commands, breaks>>

\* "Save config now"
Confirm(s) ==
    /\ cmd[s].pc = "confirm"
    /\ Fail(s) \/ cmd' = [cmd EXCEPT ![s].pc = "write"]
    /\ UNCHANGED <<files, history, commands, breaks>>

-----------------------------------------------------------------------------
(* writeConfig: the file is truncated and then written, from its start.     *)

Disturb(s, cs) ==
    [t \in Sessions |-> IF t = s \/ cs[t].pc = "idle" THEN cs[t]
                        ELSE [cs[t] EXCEPT !.undisturbed = FALSE]]

Writing(s, path) == cmd[s].pc = "writing" /\ cmd[s].path = path

\* The file is opened for writing as it is.
OpenOnly(s) ==
    /\ cmd[s].pc = "write"
    /\ cmd' = Disturb(s, [cmd EXCEPT ![s].pc = "writing"])
    /\ UNCHANGED <<files, history, commands, breaks>>

Truncate(s) ==
    LET path == cmd[s].path IN
    /\ cmd[s].pc = "write"
    /\ files' = [files EXCEPT ![path] = Truncated]
    /\ spoiled' = IF \E t \in Sessions : Writing(t, path) THEN spoiled \cup {path}
                                                        ELSE spoiled \ {path}
    /\ cmd' = Disturb(s, [cmd EXCEPT ![s].pc = "writing"])
    /\ UNCHANGED <<added, borrowed, commands, breaks>>

\* Over what another command has put there meanwhile: the end of a longer text
\* stays behind the new one.
Written(old, new) == IF old \in {Truncated, new} THEN {new} ELSE {new, Torn}

Persist(s) ==
    LET j == cmd[s] IN
    /\ j.pc = "writing"
    /\ \E x \in Written(files[j.path], j.next) : files' = [files EXCEPT ![j.path] = x]
    /\ cmd' = Disturb(s, End(s, "ok"))
    /\ added' = added \cup IF j.op = "add" THEN {<<j.path, j.name, j.url>>} ELSE {}
    /\ borrowed' = borrowed \cup
        IF j.op = "select" /\ Dangling(j.next) THEN {<<j.path, j.name>>} ELSE {}
    /\ UNCHANGED <<spoiled, commands, breaks>>

\* The command is killed, or its write fails, perhaps after a part of the text.
Break(s) ==
    LET j == cmd[s] IN
    /\ j.pc # "idle" /\ breaks < MaxBreaks
    /\ breaks' = breaks + 1
    /\ \/ j.pc # "writing" /\ Fail(s) /\ UNCHANGED <<files, spoiled>>
       \/ /\ j.pc = "writing"
          /\ \E x \in {files[j.path], Torn} : files' = [files EXCEPT ![j.path] = x]
          /\ cmd' = Disturb(s, End(s, "failed"))
          /\ spoiled' = spoiled \cup {j.path}
    /\ UNCHANGED <<added, borrowed, commands>>

Next ==
    \E s \in Sessions :
        \/ \E c \in Cwds, b \in BOOLEAN :
            \/ \E n \in Names, u \in Urls : Start(s, "add", c, b, n, u)
            \/ \E n \in Names, op \in {"remove", "select"} : Start(s, op, c, b, n, None)
            \/ \E op \in {"init", "read"} : Start(s, op, c, FALSE, None, None)
        \/ LoadGlobal(s) \/ LoadTarget(s)
        \/ \E scope \in {"global", "workspace"}, mode \in {"new", "modify", "reuse-global"} :
            Edit(s, scope, mode)
        \/ Confirm(s) \/ Truncate(s) \/ Persist(s) \/ Break(s)

Spec == Init /\ [][Next]_vars

-----------------------------------------------------------------------------
(* Properties. *)

FullConfig == [default : Names \cup {None}, sources : [Names -> Urls \cup {None}],
               settings : [Settings -> Values]]

\* What a command is to write has every source and every setting.
TypeOK ==
    /\ files \in [Paths -> Config \cup {Absent, Truncated, Torn}]
    /\ \A s \in Sessions :
        cmd[s].pc \in {"confirm", "write", "writing"} => cmd[s].next \in FullConfig
    /\ spoiled \subseteq Paths

\* A file no command can parse is being written right now, or two commands
\* wrote it at once or one broke while writing it, and no command has had the
\* file to itself since: writeConfig has no other way to leave one.
UnparsableIsExplained ==
    \A p \in Paths : Unparsable(files[p]) =>
        \/ p \in spoiled
        \/ files[p] = Truncated /\ \E s \in Sessions : Writing(s, p)

\* The sources of one scope never get into the file of another: what a file
\* has was added to that file, with that URL, whatever else ran meanwhile.
SourcesWereAddedThere ==
    \A p \in Paths, n \in Names :
        Whole(files[p]) /\ files[p].sources[n] # None =>
            <<p, n, files[p].sources[n]>> \in added

\* A default that its own file does not have was selected there while it came
\* from the global file: no add, remove or init leaves one behind.
DanglingIsExplained ==
    \A p \in Paths :
        Whole(files[p]) /\ Dangling(files[p]) => <<p, files[p].default>> \in borrowed

\* Selecting a source for a directory, with nothing written in between, makes
\* commands there talk to it, whatever the global default and the files above.
SelectTakesEffect ==
    [][\A s \in Sessions, c \in Cwds : LET j == cmd[s] IN
        /\ j.pc = "writing" /\ cmd'[s].pc = "idle" /\ cmd'[s].result = "ok"
        /\ j.op = "select" /\ j.cwd = c /\ ~j.isGlobal /\ j.undisturbed
        => Seen(c)'.default = j.name /\ ~Dangling(Seen(c)')]_vars
=============================================================================
