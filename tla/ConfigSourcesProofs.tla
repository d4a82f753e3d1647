------------------------- MODULE ConfigSourcesProofs -------------------------
(***************************************************************************)
(* TypeOK, UnparsableIsExplained, SourcesWereAddedThere,                   *)
(* DanglingIsExplained and SelectTakesEffect of ConfigSources hold for any *)
(* sessions, directories, sources and settings, any files at the start and *)
(* any number of commands and breaks.                                      *)
(*                                                                         *)
(* What a file says is as good as what the command that wrote it had made  *)
(* of the file it read before: the invariant carries the provenance of     *)
(* sources and defaults through the commands that are running (JobOK), and *)
(* for a select that nobody disturbed, that the files it looked at are     *)
(* still as it saw them (SelectOK).  A file that is not spoiled and is     *)
(* being written has one writer and is empty (SoleWriter).                 *)
(***************************************************************************)
EXTENDS ConfigSources, WellFoundedInduction, TLAPS

Ops == {"none", "add", "remove", "select", "init"}
Labels == {"idle", "global", "target", "edit", "confirm", "write", "writing"}
Command == [op : Ops, pc : Labels, cwd : Cwds \cup {None}, isGlobal : BOOLEAN,
            name : Names \cup {None}, url : Urls \cup {None},
            result : {"none", "ok", "failed"}, undisturbed : BOOLEAN,
            global : Config \cup {Absent}, path : Paths, next : FullConfig \cup {Absent}]

Holding(j) == j.pc \in {"confirm", "write", "writing"}

CommandOK(j) ==
    /\ j \in Command
    /\ j.pc # "idle" => j.cwd \in Cwds /\ j.op # "none"
    /\ j.pc = "target" => j.op \in {"add", "remove", "select"}
    /\ j.pc \in {"edit", "confirm"} => j.op = "init"
    /\ j.op \in {"add", "remove", "select"} => j.name \in Names
    /\ j.op = "add" => j.url \in Urls
    /\ Holding(j) => j.next \in FullConfig
Content == Config \cup {Absent, Truncated, Torn}
Types ==
    /\ files \in [Paths -> Content]
    /\ spoiled \subseteq Paths
    /\ cmd \in [Sessions -> Command]
    /\ \A s \in Sessions : CommandOK(cmd[s])

SoleWriter ==
    \A s \in Sessions : cmd[s].pc = "writing" /\ cmd[s].path \notin spoiled =>
        /\ files[cmd[s].path] = Truncated
        /\ \A t \in Sessions : Writing(t, cmd[s].path) => t = s

\* Where the sources and the default of a configuration of file p come from.
Known(p, c) == \A n \in Names : c.sources[n] # None => <<p, n, c.sources[n]>> \in added
Explained(p, c) == Dangling(c) => <<p, c.default>> \in borrowed

JobOK(j) ==
    /\ j.global # Absent => Known(Global, j.global) /\ Explained(Global, j.global)
    /\ Holding(j) =>
        /\ \A n \in Names : j.next.sources[n] # None =>
            \/ <<j.path, n, j.next.sources[n]>> \in added
            \/ j.op = "add" /\ n = j.name /\ j.next.sources[n] = j.url
        /\ Dangling(j.next) =>
            \/ <<j.path, j.next.default>> \in borrowed
            \/ j.op = "select" /\ j.next.default = j.name

\* A select of a directory in which nobody has written since it began.
Alone(j) == j.op = "select" /\ ~j.isGlobal /\ j.undisturbed
SelectOK(j) ==
    Alone(j) =>
        /\ j.pc = "target" => files[Global] = j.global
        /\ j.pc \in {"write", "writing"} =>
            /\ j.path = Nearest(j.cwd) /\ j.next.default = j.name
            /\ j.path = Global \/ files[Global] = j.global
            /\ \/ j.next.sources[j.name] # None
               \/ j.path # Global /\ Full(j.global).sources[j.name] # None
        /\ j.pc = "writing" => files[j.path] = Truncated

FilesOK == \A p \in Paths : Whole(files[p]) => Known(p, files[p]) /\ Explained(p, files[p])
JobsOK == \A s \in Sessions : JobOK(cmd[s])
SelectsOK == \A s \in Sessions : SelectOK(cmd[s])
IInv == Types /\ UnparsableIsExplained /\ SoleWriter /\ FilesOK /\ JobsOK /\ SelectsOK

-----------------------------------------------------------------------------
(* Configurations. *)

LEMMA Sentinels == {Absent, Truncated, Torn} \cap FullConfig = {} /\ FullConfig \subseteq Config
  <1>1. FullConfig \subseteq Config
    BY DEF FullConfig, Config
  <1> QED
    BY <1>1, ConfigAssumption

LEMMA MergeType ==
    ASSUME NEW base \in FullConfig, NEW item \in Config \cup {Absent}
    PROVE  Merge(base, item) \in FullConfig
  <1>1. CASE item = Absent
    BY <1>1 DEF Merge
  <1>2. CASE item \in Config
    <2>1. MergedDefault(base.default, item.default) \in Names \cup {None}
      BY <1>2 DEF MergedDefault, Given, FullConfig, Config
    <2>2. \A n \in Names : Given(base.sources[n], item.sources[n]) \in Urls \cup {None}
      BY <1>2 DEF Given, FullConfig, Config
    <2>3. \A x \in Settings : Given(base.settings[x], item.settings[x]) \in Values
      BY <1>2 DEF Given, FullConfig, Config
    <2> QED
      BY <1>2, <2>1, <2>2, <2>3, ConfigAssumption DEF Merge, FullConfig
  <1> QED
    BY <1>1, <1>2

\* Filling in the defaults leaves the sources and the default as they are.
LEMMA FullFacts ==
    ASSUME NEW c \in Config \cup {Absent}
    PROVE  /\ Full(c) \in FullConfig
           /\ c # Absent => Full(c).default = c.default /\ Full(c).sources = c.sources
           /\ c = Absent => /\ Full(c).default = None
                            /\ Full(c).sources = [n \in Names |-> None]
  <1>1. DefaultConfig \in FullConfig
    BY ConfigAssumption DEF DefaultConfig, FullConfig
  <1>2. CASE c = Absent
    BY <1>1, <1>2, MergeType DEF Full, Merge, DefaultConfig
  <1>3. CASE c \in Config
    <2>1. c # Absent
      BY <1>3, ConfigAssumption
    <2>2. Full(c).default = c.default
      BY <1>3, <2>1 DEF Full, Merge, DefaultConfig, MergedDefault, Given
    <2>3. c.sources \in [Names -> Urls \cup {None}]
      BY <1>3 DEF Config
    <2>4. Full(c).sources = [n \in Names |-> Given(None, c.sources[n])]
      BY <1>3, <2>1 DEF Full, Merge, DefaultConfig
    <2>5. \A n \in Names : Given(None, c.sources[n]) = c.sources[n]
      BY DEF Given
    <2> QED
      BY <1>1, <1>3, <2>1, <2>2, <2>3, <2>4, <2>5, MergeType DEF Full
  <1> QED
    BY <1>2, <1>3

\* The set of the files found is a set of positions, and one is the first.
LEMMA FirstPosition ==
    ASSUME NEW T \in SUBSET Nat, T # {}
    PROVE  \E i \in T : \A k \in T : i <= k
  <1>1. IsWellFoundedOn(OpToRel(<, Nat), Nat)
    BY NatLessThanWellFounded
  <1>2. PICK i \in T : \A k \in T : <<k, i>> \notin OpToRel(<, Nat)
    BY <1>1, WFMin
  <1>3. \A k \in T : ~(k < i)
    BY <1>2 DEF OpToRel
  <1> QED
    BY <1>3

LEMMA NearestFacts ==
    ASSUME NEW c \in Cwds
    PROVE  /\ Nearest(c) \in Paths /\ Own(c) \in Paths
           /\ Found(c) # {} => \E i \in Found(c) :
                Nearest(c) = Lookup[c][i] /\ \A k \in Found(c) : i <= k
           /\ Found(c) = {} => Nearest(c) = Own(c)
  <1>1. Lookup[c] \in Seq(Paths) /\ 1 \in DOMAIN Lookup[c] /\ DOMAIN Lookup[c] \subseteq Nat
    BY ConfigAssumption
  <1>2. CASE Found(c) = {}
    BY <1>1, <1>2 DEF Nearest, Own
  <1>3. CASE Found(c) # {}
    <2>1. Found(c) \subseteq DOMAIN Lookup[c]
      BY DEF Found
    <2>2. \E i \in Found(c) : \A k \in Found(c) : i <= k
      BY <1>1, <1>3, <2>1, FirstPosition
    <2> DEFINE first == CHOOSE i \in Found(c) : \A k \in Found(c) : i <= k
    <2>3. first \in Found(c) /\ \A k \in Found(c) : first <= k
      BY <2>2
    <2>4. Nearest(c) = Lookup[c][first]
      BY <1>3 DEF Nearest
    <2> QED
      BY <1>1, <1>3, <2>1, <2>3, <2>4 DEF Own
  <1> QED
    BY <1>2, <1>3

-----------------------------------------------------------------------------
(* What a command makes of the configuration it read. *)

LEMMA AddFacts ==
    ASSUME NEW base \in FullConfig, NEW j, j.op = "add", j.name \in Names, j.url \in Urls
    PROVE  LET c == Changed(j, base) IN
           /\ c \in FullConfig
           /\ c.default = IF base.default = None THEN j.name ELSE base.default
           /\ c.sources = [base.sources EXCEPT ![j.name] = j.url]
  BY DEF Changed, FullConfig

LEMMA SelectFacts ==
    ASSUME NEW base \in FullConfig, NEW j, j.op = "select", j.name \in Names
    PROVE  LET c == Changed(j, base) IN
           /\ c \in FullConfig
           /\ c.default = j.name /\ c.sources = base.sources
  BY DEF Changed, FullConfig

LEMMA RemoveFacts ==
    ASSUME NEW base \in FullConfig, NEW j, j.op = "remove", j.name \in Names
    PROVE  LET c == Changed(j, base) IN
           /\ c \in FullConfig
           /\ c.sources = [base.sources EXCEPT ![j.name] = None]
           /\ base.default # j.name => c.default = base.default
           /\ base.default = j.name /\ c.default # None => c.sources[c.default] # None
  <1> DEFINE left == {n \in Names \ {j.name} : base.sources[n] # None}
             c == Changed(j, base)
  <1>1. base.default # j.name => NextDefault(j, base, left) = base.default
    BY DEF NextDefault
  <1>2. base.default = j.name /\ left = {} => NextDefault(j, base, left) = None
    BY DEF NextDefault
  <1>3. base.default = j.name /\ left # {} => NextDefault(j, base, left) \in left
    BY DEF NextDefault
  <1>4. NextDefault(j, base, left) \in Names \cup {None}
    BY <1>1, <1>2, <1>3 DEF FullConfig
  <1>5. c = [base EXCEPT !.sources[j.name] = None, !.default = NextDefault(j, base, left)]
    BY DEF Changed
  <1>6. /\ c \in FullConfig /\ c.default = NextDefault(j, base, left)
        /\ c.sources = [base.sources EXCEPT ![j.name] = None]
    <2> HIDE DEF left, c
    <2> QED
      BY <1>4, <1>5 DEF FullConfig
  <1>7. base.sources \in [Names -> Urls \cup {None}]
    BY DEF FullConfig
  <1> QED
    BY <1>1, <1>2, <1>3, <1>6, <1>7

\* The configuration a command is to write has the sources and the default of
\* the one it read, but for what it was told to do.
LEMMA ChangedIsExplained ==
    ASSUME NEW j \in Command, j.op \in {"add", "remove", "select"}, j.name \in Names,
           j.op = "add" => j.url \in Urls,
           NEW p \in Paths, NEW base \in FullConfig, Known(p, base), Explained(p, base)
    PROVE  LET c == Changed(j, base) IN
           /\ c \in FullConfig
           /\ \A n \in Names : c.sources[n] # None =>
                \/ <<p, n, c.sources[n]>> \in added
                \/ j.op = "add" /\ n = j.name /\ c.sources[n] = j.url
           /\ Dangling(c) =>
                \/ <<p, c.default>> \in borrowed
                \/ j.op = "select" /\ c.default = j.name
  <1> DEFINE c == Changed(j, base)
  <1> USE DEF Known, Explained, Dangling
  <1>t. base.sources \in [Names -> Urls \cup {None}] /\ base.default \in Names \cup {None}
    BY DEF FullConfig
  <1>1. CASE j.op = "add"
    <2>1. /\ c \in FullConfig /\ c.sources = [base.sources EXCEPT ![j.name] = j.url]
          /\ c.default = IF base.default = None THEN j.name ELSE base.default
      BY <1>1, AddFacts
    <2>2. \A n \in Names : c.sources[n] = IF n = j.name THEN j.url ELSE base.sources[n]
      BY <1>t, <2>1
    <2>3. ASSUME Dangling(c) PROVE <<p, c.default>> \in borrowed
      BY <1>t, <1>1, <2>1, <2>2, <2>3, ConfigAssumption
    <2> QED
      BY <2>1, <2>2, <2>3, <1>1
  <1>2. CASE j.op = "select"
    <2>1. c \in FullConfig /\ c.default = j.name /\ c.sources = base.sources
      BY <1>2, SelectFacts
    <2> QED
      BY <1>2, <2>1
  <1>3. CASE j.op = "remove"
    <2>1. /\ c \in FullConfig /\ c.sources = [base.sources EXCEPT ![j.name] = None]
          /\ base.default # j.name => c.default = base.default
          /\ base.default = j.name /\ c.default # None => c.sources[c.default] # None
      BY <1>3, RemoveFacts
    <2>2. \A n \in Names : c.sources[n] = IF n = j.name THEN None ELSE base.sources[n]
      BY <1>t, <2>1
    <2>3. ASSUME Dangling(c) PROVE <<p, c.default>> \in borrowed
      BY <1>t, <2>1, <2>2, <2>3
    <2> QED
      BY <2>1, <2>2, <2>3
  <1> QED
    BY <1>1, <1>2, <1>3

\* Filling in the defaults keeps the provenance too.
LEMMA FullIsExplained ==
    ASSUME NEW p \in Paths, NEW c \in Config \cup {Absent},
           c # Absent => Known(p, c) /\ Explained(p, c)
    PROVE  Full(c) \in FullConfig /\ Known(p, Full(c)) /\ Explained(p, Full(c))
  BY FullFacts DEF Known, Explained, Dangling

-----------------------------------------------------------------------------
LEMMA InitIInv == Init => IInv
  <1> SUFFICES ASSUME Init PROVE IInv
    OBVIOUS
  <1> USE DEF Init
  <1>1. Types
    <2>1. NoCommand \in Command /\ NoCommand.pc = "idle" /\ NoCommand.op = "none"
      BY DEF NoCommand, Command, Ops, Labels, Paths
    <2> QED
      BY <2>1, ConfigAssumption DEF Types, CommandOK, Holding, Content
  <1>2. UnparsableIsExplained /\ SoleWriter
    BY ConfigAssumption DEF UnparsableIsExplained, Unparsable, SoleWriter, NoCommand
  <1>3. FilesOK
    <2> SUFFICES ASSUME NEW p \in Paths, Whole(files[p])
                 PROVE  Known(p, files[p]) /\ Explained(p, files[p])
      BY DEF FilesOK
    <2>1. files[p] \in Config /\ files[p] = First[p]
      BY ConfigAssumption DEF Whole, Unparsable
    <2>2. /\ files[p].sources \in [Names -> Urls \cup {None}]
          /\ files[p].default \in Names \cup {None}
      BY <2>1 DEF Config
    <2> QED
      BY <2>1, <2>2 DEF Known, Explained, Dangling
  <1>4. JobsOK /\ SelectsOK
    BY DEF JobsOK, JobOK, SelectsOK, SelectOK, Alone, Holding, NoCommand
  <1> QED
    BY <1>1, <1>2, <1>3, <1>4 DEF IInv

LEMMA NearestStays ==
    ASSUME UNCHANGED files
    PROVE  \A c \in Cwds : Nearest(c)' = Nearest(c)
  <1> SUFFICES ASSUME NEW c \in Cwds PROVE Nearest(c)' = Nearest(c)
    OBVIOUS
  <1>1. Found(c)' = Found(c)
    BY DEF Found
  <1> QED
    BY <1>1 DEF Nearest

-----------------------------------------------------------------------------
\* A step of a command that writes nothing: what holds of the command holds of
\* it afterwards, the files and the other commands stay.
LEMMA QuietStep ==
    ASSUME IInv, NEW s \in Sessions, NEW j,
           cmd' = [cmd EXCEPT ![s] = j],
           UNCHANGED <<files, history>>,
           cmd[s].pc # "writing", j.pc # "writing",
           CommandOK(j), JobOK(j), SelectOK(j)
    PROVE  IInv'
  <1> USE DEF IInv, history
  <1>0. cmd'[s] = j /\ \A t \in Sessions \ {s} : cmd'[t] = cmd[t]
    BY DEF Types
  <1>1. Types'
    <2>1. \A t \in Sessions : CommandOK(cmd'[t])
      BY <1>0 DEF Types
    <2> QED
      BY <2>1 DEF Types, CommandOK
  <1>2. UnparsableIsExplained' /\ SoleWriter'
    <2>1. \A t \in Sessions, p \in Paths : Writing(t, p)' <=> Writing(t, p)
      BY <1>0 DEF Writing
    <2>2. UnparsableIsExplained'
      BY <2>1 DEF UnparsableIsExplained
    <2>3. \A t \in Sessions : cmd'[t].pc = "writing" => t # s /\ cmd'[t] = cmd[t]
      BY <1>0
    <2>4. \A t \in Sessions : CommandOK(cmd[t])
      BY DEF Types
    <2> QED
      BY <1>0, <2>1, <2>2, <2>3, <2>4 DEF SoleWriter, CommandOK, Command
  <1>3. FilesOK'
    BY DEF FilesOK, Known, Explained, Whole
  <1>4. JobsOK'
    BY <1>0 DEF JobsOK, JobOK, Known, Explained
  <1>5. SelectsOK'
    <2>1. \A c \in Cwds : Nearest(c)' = Nearest(c)
      BY NearestStays
    <2>2. \A t \in Sessions : CommandOK(cmd'[t])
      BY <1>1 DEF Types, CommandOK
    <2> QED
      BY <1>0, <2>1, <2>2 DEF SelectsOK, SelectOK, Alone, CommandOK
  <1> QED
    BY <1>1, <1>2, <1>3, <1>4, <1>5

\* The command has ended.
LEMMA EndedOK ==
    ASSUME NEW result \in {"none", "ok", "failed"}
    PROVE  LET j == [NoCommand EXCEPT !.result = result] IN
           CommandOK(j) /\ JobOK(j) /\ SelectOK(j)
  <1> DEFINE j == [NoCommand EXCEPT !.result = result]
  <1>1. j \in Command
    BY DEF NoCommand, Command, Ops, Labels, Paths
  <1>2. j.pc = "idle" /\ j.op = "none" /\ j.global = Absent
    BY DEF NoCommand
  <1> QED
    BY <1>1, <1>2 DEF CommandOK, JobOK, SelectOK, Alone, Holding

LEMMA FailStep ==
    ASSUME IInv, NEW s \in Sessions, Fail(s), UNCHANGED <<files, history>>,
           cmd[s].pc # "writing"
    PROVE  IInv'
  BY EndedOK, QuietStep DEF Fail, End, NoCommand

LEMMA EndStep ==
    ASSUME IInv, NEW s \in Sessions, cmd' = End(s, "ok"),
           UNCHANGED <<files, history>>, cmd[s].pc # "writing"
    PROVE  IInv'
  BY EndedOK, QuietStep DEF End, NoCommand

LEMMA StartStep ==
    ASSUME IInv, NEW s \in Sessions, NEW op \in {"add", "remove", "select", "init", "read"},
           NEW c \in Cwds, NEW b \in BOOLEAN, NEW n \in Names \cup {None}, NEW u \in Urls \cup {None},
           op \in {"add", "remove", "select"} => n \in Names, op = "add" => u \in Urls,
           Start(s, op, c, b, n, u)
    PROVE  IInv'
  <1>0. /\ cmd[s].pc # "writing"
        /\ UNCHANGED <<files, history>>
    BY DEF IInv, Types, Start
  <1> DEFINE j == [NoCommand EXCEPT !.op = op, !.pc = "global", !.cwd = c,
                                    !.isGlobal = b, !.name = n, !.url = u]
  <1>1. Fail(s) \/ cmd' = End(s, "ok") \/ (op # "read" /\ cmd' = [cmd EXCEPT ![s] = j])
    BY DEF Start
  <1>2. CASE Fail(s)
    BY <1>0, <1>2, FailStep
  <1>3. CASE cmd' = End(s, "ok")
    BY <1>0, <1>3, EndStep
  <1>4. CASE op # "read" /\ cmd' = [cmd EXCEPT ![s] = j]
    <2>1. j \in Command
      BY <1>4 DEF NoCommand, Command, Ops, Labels, Paths
    <2>2. /\ j.pc = "global" /\ j.op = op /\ j.name = n /\ j.url = u /\ j.cwd = c
          /\ j.global = Absent
      BY DEF NoCommand
    <2> HIDE DEF j
    <2>3. CommandOK(j)
      BY <2>1, <2>2 DEF CommandOK, Holding
    <2>4. JobOK(j) /\ SelectOK(j)
      BY <2>2 DEF JobOK, SelectOK, Alone, Holding
    <2> QED
      BY <1>0, <1>4, <2>2, <2>3, <2>4, QuietStep
  <1> QED
    BY <1>1, <1>2, <1>3, <1>4

LEMMA LoadGlobalStep ==
    ASSUME IInv, NEW s \in Sessions, LoadGlobal(s)
    PROVE  IInv'
  <1>0. /\ UNCHANGED <<files, history>>
        /\ cmd[s].pc = "global" /\ CommandOK(cmd[s]) /\ JobOK(cmd[s])
        /\ SelectOK(cmd[s]) /\ Global \in Paths
    BY DEF LoadGlobal, IInv, Types, JobsOK, SelectsOK, Paths
  <1>1. CASE Fail(s)
    BY <1>0, <1>1, FailStep
  <1>2. CASE ~Fail(s)
    <2> DEFINE j == [cmd[s] EXCEPT !.pc = IF cmd[s].op = "init" THEN "edit" ELSE "target",
                                   !.global = files[Global]]
    <2>1. files[Global] \in Config \cup {Absent} /\ cmd' = [cmd EXCEPT ![s] = j]
      BY <1>0, <1>2 DEF LoadGlobal, IInv, Types, Content, Unparsable
    <2>2. /\ j \in Command /\ j.pc \in {"edit", "target"} /\ j.global = files[Global]
          /\ j.pc = "target" <=> j.op # "init"
          /\ j.op = cmd[s].op /\ j.name = cmd[s].name /\ j.url = cmd[s].url /\ j.cwd = cmd[s].cwd
      <3> DEFINE next == IF cmd[s].op = "init" THEN "edit" ELSE "target"
      <3>1. cmd[s] \in Command
        BY <1>0 DEF CommandOK
      <3>2. next \in {"edit", "target"} /\ (next = "target" <=> cmd[s].op # "init")
        OBVIOUS
      <3>3. j = [cmd[s] EXCEPT !.pc = next, !.global = files[Global]]
        OBVIOUS
      <3> HIDE DEF next, j
      <3>4. j.pc = next /\ j.global = files[Global]
        BY <3>1, <3>3 DEF Command
      <3>5. j.op = cmd[s].op /\ j.name = cmd[s].name /\ j.url = cmd[s].url /\ j.cwd = cmd[s].cwd
        BY <3>1, <3>3 DEF Command
      <3>6. j \in Command
        BY <2>1, <3>1, <3>2, <3>3 DEF Command, Labels
      <3> QED
        BY <3>2, <3>4, <3>5, <3>6
    <2>3. files[Global] # Absent => Known(Global, files[Global]) /\ Explained(Global, files[Global])
      BY <1>0, <2>1, ConfigAssumption DEF IInv, FilesOK, Whole, Unparsable
    <2> HIDE DEF j
    <2>4. CommandOK(j)
      BY <1>0, <2>2 DEF CommandOK, Holding, Command, Ops
    <2>5. JobOK(j) /\ SelectOK(j)
      BY <2>2, <2>3 DEF JobOK, SelectOK, Alone, Holding
    <2> QED
      BY <1>0, <2>1, <2>2, <2>4, <2>5, QuietStep
  <1> QED
    BY <1>1, <1>2

LEMMA LoadTargetStep ==
    ASSUME IInv, NEW s \in Sessions, LoadTarget(s)
    PROVE  IInv'
  <1> DEFINE j == cmd[s]
             path == IF j.isGlobal THEN Global ELSE Nearest(j.cwd)
             target == IF j.isGlobal THEN j.global ELSE files[path]
             base == Full(target)
             k == [j EXCEPT !.pc = "write", !.path = path, !.next = Changed(j, base)]
  <1>0. /\ UNCHANGED <<files, history>>
        /\ j.pc = "target"
    BY DEF LoadTarget, IInv, Types
  <1>1. CommandOK(j) /\ JobOK(j) /\ SelectOK(j)
    BY DEF IInv, Types, JobsOK, SelectsOK
  <1>2. CASE Fail(s)
    BY <1>0, <1>2, FailStep
  <1>3. CASE ~Fail(s)
    <2>1. /\ ~Unparsable(target)
          /\ ~Refuses(j, base, Merge(Full(j.global), target).sources)
          /\ cmd' = [cmd EXCEPT ![s] = k]
      BY <1>3 DEF LoadTarget, Base
    <2>2. /\ j \in Command /\ j.cwd \in Cwds /\ j.name \in Names
          /\ j.op \in {"add", "remove", "select"} /\ (j.op = "add" => j.url \in Urls)
          /\ j.global \in Config \cup {Absent}
      BY <1>0, <1>1 DEF CommandOK, Command
    <2>3. path \in Paths
      BY <2>2, NearestFacts DEF Paths
    <2>4. target \in Config \cup {Absent}
      BY <2>1, <2>2, <2>3 DEF IInv, Types, Content, Unparsable
    <2>5. target # Absent => Known(path, target) /\ Explained(path, target)
      <3>1. CASE j.isGlobal
        BY <3>1, <1>1 DEF JobOK
      <3>2. CASE ~j.isGlobal
        BY <3>2, <2>1, <2>3 DEF IInv, FilesOK, Whole, Unparsable
      <3> QED
        BY <3>1, <3>2
    <2>6. base \in FullConfig /\ Known(path, base) /\ Explained(path, base)
      BY <2>3, <2>4, <2>5, FullIsExplained
    <2>7. /\ k.op = j.op /\ k.name = j.name /\ k.url = j.url /\ k.cwd = j.cwd
          /\ k.isGlobal = j.isGlobal /\ k.undisturbed = j.undisturbed /\ k.global = j.global
          /\ k.pc = "write" /\ k.path = path /\ k.next = Changed(j, base)
      BY <2>2 DEF Command
    <2>8. /\ k.next \in FullConfig
          /\ \A n \in Names : k.next.sources[n] # None =>
                \/ <<path, n, k.next.sources[n]>> \in added
                \/ j.op = "add" /\ n = j.name /\ k.next.sources[n] = j.url
          /\ Dangling(k.next) =>
                \/ <<path, k.next.default>> \in borrowed
                \/ j.op = "select" /\ k.next.default = j.name
      <3> HIDE DEF base, path, j
      <3> QED
        BY <2>2, <2>3, <2>6, <2>7, ChangedIsExplained
    <2>9. k \in Command
      <3> HIDE DEF path
      <3> QED
        BY <2>2, <2>3, <2>7, <2>8 DEF Command, Labels
    <2>10. SelectOK(k)
      <3> SUFFICES ASSUME Alone(j)
                   PROVE  /\ path = Nearest(j.cwd) /\ k.next.default = j.name
                          /\ path = Global \/ files[Global] = j.global
                          /\ \/ k.next.sources[j.name] # None
                             \/ path # Global /\ Full(j.global).sources[j.name] # None
        BY <2>7 DEF SelectOK, Alone
      <3>1. files[Global] = j.global /\ path = Nearest(j.cwd) /\ target = files[path]
        BY <1>0, <1>1 DEF SelectOK, Alone
      <3>2. k.next.default = j.name /\ k.next.sources = base.sources
        <4> HIDE DEF base, path, j
        <4> QED
          BY <2>2, <2>6, <2>7, SelectFacts DEF Alone
      <3>3. Merge(Full(j.global), target).sources[j.name] # None
        BY <2>1 DEF Refuses, Alone
      <3>4. Full(j.global).sources[j.name] # None \/ base.sources[j.name] # None
        <4>1. CASE target = Absent
          BY <3>3, <4>1 DEF Merge
        <4>2. CASE target # Absent
          <5>1. Merge(Full(j.global), target).sources[j.name]
                  = Given(Full(j.global).sources[j.name], target.sources[j.name])
            BY <2>2, <4>2 DEF Merge
          <5>2. base.sources = target.sources
            BY <2>4, <4>2, FullFacts
          <5> QED
            BY <3>3, <5>1, <5>2 DEF Given
        <4> QED
          BY <4>1, <4>2
      <3>5. path = Global => base.sources = Full(j.global).sources
        BY <3>1
      <3> QED
        BY <3>1, <3>2, <3>4, <3>5
    <2> HIDE DEF k, j, path
    <2>11. CommandOK(k)
      BY <2>2, <2>7, <2>8, <2>9 DEF CommandOK
    <2>12. JobOK(k)
      BY <1>1, <2>7, <2>8 DEF JobOK
    <2> QED
      BY <1>0, <2>1, <2>7, <2>10, <2>11, <2>12, QuietStep DEF j
  <1> QED
    BY <1>2, <1>3

LEMMA EditStep ==
    ASSUME IInv, NEW s \in Sessions, NEW scope, NEW mode, Edit(s, scope, mode)
    PROVE  IInv'
  <1> DEFINE j == cmd[s]
             path == InitPath(j.cwd, scope)
             existing == files[path]
             K(answers) == [j EXCEPT !.pc = "confirm", !.path = path,
                                     !.next = [Full(existing) EXCEPT !.settings = answers]]
  <1>0. /\ UNCHANGED <<files, history>>
        /\ j.pc = "edit"
    BY DEF Edit, IInv, Types
  <1>1. CommandOK(j) /\ JobOK(j) /\ SelectOK(j)
    BY DEF IInv, Types, JobsOK, SelectsOK
  <1>2. CASE Fail(s)
    BY <1>0, <1>2, FailStep
  <1>3. CASE ~Fail(s)
    <2>1. /\ ~Unparsable(existing)
          /\ \E answers \in Answers(j, mode) : cmd' = [cmd EXCEPT ![s] = K(answers)]
      BY <1>3 DEF Edit
    <2>2. PICK answers \in Answers(j, mode) : cmd' = [cmd EXCEPT ![s] = K(answers)]
      BY <2>1
    <2> DEFINE k == K(answers)
    <2>3. j \in Command /\ j.cwd \in Cwds /\ j.global \in Config \cup {Absent}
      BY <1>0, <1>1 DEF CommandOK, Command
    <2>4. path \in Paths /\ existing \in Config \cup {Absent}
      BY <2>1, <2>3, NearestFacts DEF InitPath, Paths, IInv, Types, Content, Unparsable
    <2>5. existing # Absent => Known(path, existing) /\ Explained(path, existing)
      BY <2>1, <2>4 DEF IInv, FilesOK, Whole, Unparsable
    <2>6. Full(existing) \in FullConfig /\ Known(path, Full(existing)) /\ Explained(path, Full(existing))
      BY <2>4, <2>5, FullIsExplained
    <2>7. answers \in [Settings -> Values]
      BY <2>3, FullFacts DEF Answers, FullConfig
    <2>8. /\ k.pc = "confirm" /\ k.path = path /\ k.next \in FullConfig
          /\ k.next.sources = Full(existing).sources /\ k.next.default = Full(existing).default
      <3> HIDE DEF path, existing
      <3> QED
        BY <2>3, <2>6, <2>7 DEF Command, FullConfig
    <2>9. /\ k.op = j.op /\ k.name = j.name /\ k.url = j.url /\ k.cwd = j.cwd
          /\ k.global = j.global /\ k.isGlobal = j.isGlobal /\ k.undisturbed = j.undisturbed
          /\ k \in Command
      <3> HIDE DEF path, existing
      <3> QED
        BY <2>3, <2>4, <2>8 DEF Command, Labels
    <2> HIDE DEF k, path, existing, j
    <2>10. CommandOK(k)
      BY <1>0, <1>1, <2>8, <2>9 DEF CommandOK, Holding
    <2>11. JobOK(k) /\ SelectOK(k)
      BY <1>1, <2>6, <2>8, <2>9 DEF JobOK, SelectOK, Alone, Known, Explained, Dangling
    <2> QED
      BY <1>0, <2>2, <2>8, <2>10, <2>11, QuietStep DEF k, j
  <1> QED
    BY <1>2, <1>3

LEMMA ConfirmStep ==
    ASSUME IInv, NEW s \in Sessions, Confirm(s)
    PROVE  IInv'
  <1> DEFINE j == cmd[s]
             k == [j EXCEPT !.pc = "write"]
  <1>0. /\ UNCHANGED <<files, history>> /\ cmd' \in {End(s, "failed"), [cmd EXCEPT ![s] = k]}
        /\ j.pc = "confirm"
    BY DEF Confirm, Fail, IInv, Types
  <1>1. CommandOK(j) /\ JobOK(j) /\ j.op = "init"
    BY <1>0 DEF IInv, Types, JobsOK, CommandOK
  <1>2. CASE cmd' = End(s, "failed")
    BY <1>0, <1>2, FailStep DEF Fail
  <1>3. CASE cmd' = [cmd EXCEPT ![s] = k]
    <2>1. /\ k \in Command /\ k.pc = "write" /\ k.op = j.op /\ k.name = j.name /\ k.url = j.url
          /\ k.cwd = j.cwd /\ k.global = j.global /\ k.path = j.path /\ k.next = j.next
      BY <1>1 DEF CommandOK, Command, Labels
    <2> HIDE DEF k, j
    <2>2. CommandOK(k)
      BY <1>0, <1>1, <2>1 DEF CommandOK, Holding
    <2>3. JobOK(k) /\ SelectOK(k)
      BY <1>0, <1>1, <2>1 DEF JobOK, Holding, SelectOK, Alone
    <2> QED
      BY <1>0, <1>3, <2>1, <2>2, <2>3, QuietStep DEF j
  <1> QED
    BY <1>0, <1>2, <1>3

-----------------------------------------------------------------------------
(* The steps that write. *)

\* The other commands go on as they were, and know of nothing; what was known
\* of their configurations stays known.
LEMMA DisturbFacts ==
    ASSUME IInv, NEW s \in Sessions, NEW k,
           cmd' = Disturb(s, [cmd EXCEPT ![s] = k]), CommandOK(k),
           added \subseteq added', borrowed \subseteq borrowed'
    PROVE  /\ cmd' \in [Sessions -> Command] /\ cmd'[s] = k
           /\ \A t \in Sessions \ {s} :
                /\ CommandOK(cmd'[t]) /\ JobOK(cmd[t])' /\ SelectOK(cmd[t])'
                /\ cmd'[t].pc = cmd[t].pc /\ cmd'[t].path = cmd[t].path
  <1>1. cmd'[s] = k
    BY DEF Disturb, IInv, Types
  <1>2. ASSUME NEW t \in Sessions, t # s
        PROVE  /\ CommandOK(cmd'[t]) /\ JobOK(cmd[t])' /\ SelectOK(cmd[t])'
               /\ cmd'[t].pc = cmd[t].pc /\ cmd'[t].path = cmd[t].path
    <2>0. CommandOK(cmd[t]) /\ JobOK(cmd[t]) /\ cmd[t] \in Command
      BY DEF IInv, Types, JobsOK
    <2>1. CASE cmd[t].pc = "idle"
      <3>1. cmd'[t] = cmd[t]
        BY <1>2, <2>1 DEF Disturb, IInv, Types
      <3>2. JobOK(cmd[t])'
        BY <2>0, <2>1, <3>1 DEF JobOK, Known, Explained, Holding
      <3>3. SelectOK(cmd[t])'
        BY <2>1, <3>1 DEF SelectOK
      <3> QED
        BY <2>0, <3>1, <3>2, <3>3
    <2>2. CASE cmd[t].pc # "idle"
      <3>1. cmd'[t] = [cmd[t] EXCEPT !.undisturbed = FALSE]
        BY <1>2, <2>2 DEF Disturb, IInv, Types
      <3>2. /\ cmd'[t] \in Command /\ ~cmd'[t].undisturbed
            /\ cmd'[t].pc = cmd[t].pc /\ cmd'[t].op = cmd[t].op /\ cmd'[t].cwd = cmd[t].cwd
            /\ cmd'[t].name = cmd[t].name /\ cmd'[t].url = cmd[t].url
            /\ cmd'[t].path = cmd[t].path /\ cmd'[t].global = cmd[t].global
            /\ cmd'[t].next = cmd[t].next
        BY <2>0, <3>1 DEF Command
      <3>3. CommandOK(cmd'[t])
        BY <2>0, <3>2 DEF CommandOK, Holding
      <3>4. JobOK(cmd[t])'
        BY <2>0, <3>2 DEF JobOK, Known, Explained, Holding
      <3>5. SelectOK(cmd[t])'
        BY <3>2 DEF SelectOK, Alone
      <3> QED
        BY <3>2, <3>3, <3>4, <3>5
    <2> QED
      BY <2>1, <2>2
  <1>3. cmd' \in [Sessions -> Command]
    <2>1. \A t \in Sessions : cmd'[t] \in Command
      BY <1>1, <1>2 DEF CommandOK
    <2>2. cmd' = [t \in Sessions |-> cmd'[t]]
      BY DEF Disturb
    <2> QED
      BY <2>1, <2>2
  <1> QED
    BY <1>1, <1>2, <1>3

\* Truncating the nearest file does not make another one the nearest.
LEMMA TruncatedIsNearest ==
    ASSUME IInv, NEW c \in Cwds, files' = [files EXCEPT ![Nearest(c)] = Truncated]
    PROVE  Nearest(c)' = Nearest(c)
  <1> DEFINE near == Nearest(c)
  <1>1. near \in Paths /\ files \in [Paths -> Content]
    BY NearestFacts DEF IInv, Types
  <1>2. \A i \in DOMAIN Lookup[c] : Lookup[c][i] \in Paths
    BY ConfigAssumption
  <1>3. Found(c)' = Found(c) \cup {i \in DOMAIN Lookup[c] : Lookup[c][i] = near}
    BY <1>1, <1>2, ConfigAssumption DEF Found, Content
  <1>4. DOMAIN Lookup[c] \subseteq Nat /\ 1 \in DOMAIN Lookup[c] /\ \A i \in DOMAIN Lookup[c] : 1 <= i
    BY ConfigAssumption
  <1>5. \E i \in Found(c)' : Lookup[c][i] = near /\ \A k \in Found(c)' : i <= k
    <2>1. CASE Found(c) = {}
      BY <1>3, <1>4, <2>1, NearestFacts DEF Own
    <2>2. CASE Found(c) # {}
      <3>1. PICK i \in Found(c) : near = Lookup[c][i] /\ \A k \in Found(c) : i <= k
        BY <2>2, NearestFacts
      <3>2. \A k \in DOMAIN Lookup[c] : Lookup[c][k] = near => k \in Found(c)
        BY <3>1 DEF Found
      <3> QED
        BY <1>3, <3>1, <3>2
    <2> QED
      BY <2>1, <2>2
  <1> DEFINE first == CHOOSE i \in Found(c)' : \A k \in Found(c)' : i <= k
  <1>6. first \in Found(c)' /\ \A k \in Found(c)' : first <= k
    BY <1>5
  <1>7. PICK i \in Found(c)' : Lookup[c][i] = near /\ \A k \in Found(c)' : i <= k
    BY <1>5
  <1>8. Found(c)' \subseteq Nat
    BY <1>4 DEF Found
  <1>9. first = i
    <2> HIDE DEF first
    <2> QED
      BY <1>6, <1>7, <1>8
  <1>10. Nearest(c)' = Lookup[c][first]
    BY <1>5 DEF Nearest
  <1> QED
    BY <1>7, <1>9, <1>10

LEMMA TruncateStep ==
    ASSUME IInv, NEW s \in Sessions, Truncate(s)
    PROVE  IInv'
  <1> DEFINE j == cmd[s]
             k == [j EXCEPT !.pc = "writing"]
  <1>0. /\ j.pc = "write" /\ files' = [files EXCEPT ![j.path] = Truncated]
        /\ cmd' = Disturb(s, [cmd EXCEPT ![s] = k])
        /\ UNCHANGED <<added, borrowed>>
        /\ spoiled' = IF \E t \in Sessions : Writing(t, j.path)
                        THEN spoiled \cup {j.path} ELSE spoiled \ {j.path}
    BY DEF Truncate
  <1>1. CommandOK(j) /\ JobOK(j) /\ SelectOK(j) /\ j \in Command /\ j.cwd \in Cwds
        /\ j.path \in Paths
    BY <1>0 DEF IInv, Types, JobsOK, SelectsOK, CommandOK, Command
  <1>2. /\ k \in Command /\ k.pc = "writing" /\ k.op = j.op /\ k.name = j.name /\ k.url = j.url
        /\ k.cwd = j.cwd /\ k.global = j.global /\ k.path = j.path /\ k.next = j.next
        /\ k.isGlobal = j.isGlobal /\ k.undisturbed = j.undisturbed
    BY <1>1 DEF Command, Labels
  <1> HIDE DEF k
  <1>3. CommandOK(k)
    BY <1>0, <1>1, <1>2 DEF CommandOK, Holding
  <1>4. /\ cmd' \in [Sessions -> Command] /\ cmd'[s] = k
        /\ \A t \in Sessions \ {s} :
                /\ CommandOK(cmd'[t]) /\ JobOK(cmd[t])' /\ SelectOK(cmd[t])'
                /\ cmd'[t].pc = cmd[t].pc /\ cmd'[t].path = cmd[t].path
    BY <1>0, <1>3, DisturbFacts
  <1>5. Types'
    BY <1>0, <1>1, <1>3, <1>4 DEF IInv, Types, CommandOK, Content
  <1>6. UnparsableIsExplained' /\ SoleWriter'
    <2>1. /\ files'[j.path] = Truncated
          /\ \A p \in Paths \ {j.path} : files'[p] = files[p] /\ (p \in spoiled' <=> p \in spoiled)
      BY <1>0, <1>1 DEF IInv, Types
    <2>2. /\ \A t \in Sessions, p \in Paths : t # s => (Writing(t, p)' <=> Writing(t, p))
          /\ \A p \in Paths : Writing(s, p)' <=> p = j.path
          /\ \A p \in Paths : ~Writing(s, p)
      BY <1>0, <1>2, <1>4 DEF Writing
    <2>3. UnparsableIsExplained'
      BY <2>1, <2>2 DEF IInv, UnparsableIsExplained
    <2>4. ASSUME NEW t \in Sessions, NEW p \in Paths, Writing(t, p)', p \notin spoiled'
          PROVE  files'[p] = Truncated /\ \A r \in Sessions : Writing(r, p)' => r = t
      <3>2. CASE p = j.path
        <4>1. \A r \in Sessions : ~Writing(r, p)
          BY <1>0, <2>4, <3>2
        <4> QED
          BY <2>1, <2>2, <2>4, <3>2, <4>1
      <3>3. CASE p # j.path
        <4>1. t # s /\ Writing(t, p) /\ p \notin spoiled
          BY <2>1, <2>2, <2>4, <3>3
        <4>2. files[p] = Truncated /\ \A r \in Sessions : Writing(r, p) => r = t
          BY <4>1 DEF IInv, SoleWriter, Writing
        <4> QED
          BY <2>1, <2>2, <3>3, <4>1, <4>2
      <3> QED
        BY <3>2, <3>3
    <2>5. SoleWriter'
      <3>1. \A t \in Sessions : cmd'[t].path \in Paths
        BY <1>4 DEF Command
      <3> QED
        BY <2>4, <3>1 DEF SoleWriter, Writing
    <2> QED
      BY <2>3, <2>5
  <1>7. FilesOK'
    <2> SUFFICES ASSUME NEW p \in Paths, Whole(files'[p])
                 PROVE  Known(p, files[p])' /\ Explained(p, files[p])'
      BY DEF FilesOK
    <2>1. files'[p] = files[p] /\ Whole(files[p])
      BY <1>0, <1>1 DEF Whole, Unparsable, IInv, Types
    <2> QED
      BY <1>0, <2>1 DEF IInv, FilesOK, Known, Explained
  <1>8. JobOK(cmd[s])'
    <2>1. JobOK(k)
      BY <1>0, <1>1, <1>2 DEF JobOK, Holding
    <2> QED
      BY <1>0, <1>4, <2>1 DEF JobOK, Known, Explained
  <1>9. SelectOK(cmd[s])'
    <2> SUFFICES ASSUME Alone(j)
                 PROVE  /\ j.path = Nearest(j.cwd)' /\ j.next.default = j.name
                        /\ j.path = Global \/ files'[Global] = j.global
                        /\ \/ j.next.sources[j.name] # None
                           \/ j.path # Global /\ Full(j.global).sources[j.name] # None
                        /\ files'[j.path] = Truncated
      BY <1>2, <1>4 DEF SelectOK, Alone
    <2>1. /\ j.path = Nearest(j.cwd) /\ j.next.default = j.name
          /\ j.path = Global \/ files[Global] = j.global
          /\ \/ j.next.sources[j.name] # None
             \/ j.path # Global /\ Full(j.global).sources[j.name] # None
      BY <1>0, <1>1 DEF SelectOK
    <2>2. files'[j.path] = Truncated /\ (j.path = Global \/ files'[Global] = files[Global])
      BY <1>0, <1>1 DEF IInv, Types, Paths
    <2>3. Nearest(j.cwd)' = j.path
      <3>1. PICK c \in Cwds : c = j.cwd
        BY <1>1
      <3>2. Nearest(c)' = j.path
        BY <1>0, <2>1, <3>1, TruncatedIsNearest
      <3> QED
        BY <1>2, <1>4, <3>1, <3>2
    <2> QED
      BY <2>1, <2>2, <2>3
  <1> QED
    BY <1>4, <1>5, <1>6, <1>7, <1>8, <1>9 DEF IInv, JobsOK, SelectsOK

\* A command ends whose file was open for writing: it has written its text,
\* or the file is spoiled or as it was.
LEMMA PutStep ==
    ASSUME IInv, NEW s \in Sessions, cmd[s].pc = "writing",
           NEW x, files' = [files EXCEPT ![cmd[s].path] = x],
           NEW result \in {"ok", "failed"}, cmd' = Disturb(s, End(s, result)),
           added \subseteq added', borrowed \subseteq borrowed',
           \/ x \in {files[cmd[s].path], Torn}
           \/ /\ x = cmd[s].next
              /\ cmd[s].op = "add" => <<cmd[s].path, cmd[s].name, cmd[s].url>> \in added'
              /\ cmd[s].op = "select" /\ Dangling(cmd[s].next) =>
                    <<cmd[s].path, cmd[s].name>> \in borrowed',
           \/ spoiled' = spoiled \cup {cmd[s].path}
           \/ spoiled' = spoiled /\ x \in Written(files[cmd[s].path], cmd[s].next)
    PROVE  IInv'
  <1> DEFINE j == cmd[s]
             k == [NoCommand EXCEPT !.result = result]
  <1>0. /\ j.pc = "writing" /\ files' = [files EXCEPT ![j.path] = x]
        /\ cmd' = Disturb(s, [cmd EXCEPT ![s] = k])
    BY DEF End
  <1>1. CommandOK(j) /\ JobOK(j) /\ j \in Command /\ j.path \in Paths /\ j.next \in FullConfig
    BY <1>0 DEF IInv, Types, JobsOK, CommandOK, Command, Holding
  <1>2. CommandOK(k) /\ k.pc = "idle" /\ k.op = "none" /\ k.global = Absent
    BY EndedOK DEF NoCommand
  <1> HIDE DEF k
  <1>4. /\ cmd' \in [Sessions -> Command] /\ cmd'[s] = k
        /\ \A t \in Sessions \ {s} :
                /\ CommandOK(cmd'[t]) /\ JobOK(cmd[t])' /\ SelectOK(cmd[t])'
                /\ cmd'[t].pc = cmd[t].pc /\ cmd'[t].path = cmd[t].path
    BY <1>0, <1>2, DisturbFacts
  <1>5. Types'
    <2>1. x \in Content
      BY <1>0, <1>1, Sentinels DEF IInv, Types, Content
    <2>2. files' \in [Paths -> Content] /\ spoiled' \subseteq Paths
      BY <1>0, <1>1, <2>1 DEF IInv, Types
    <2> QED
      BY <1>2, <1>4, <2>2 DEF Types, CommandOK
  <1>6. UnparsableIsExplained' /\ SoleWriter'
    <2>1. /\ files'[j.path] = x
          /\ \A p \in Paths \ {j.path} : files'[p] = files[p] /\ (p \in spoiled' <=> p \in spoiled)
      BY <1>0, <1>1 DEF IInv, Types
    <2>2. /\ \A t \in Sessions, p \in Paths : t # s => (Writing(t, p)' <=> Writing(t, p))
          /\ \A p \in Paths : ~Writing(s, p)'
          /\ Writing(s, j.path)
      BY <1>0, <1>2, <1>4 DEF Writing
    <2>3. ASSUME j.path \notin spoiled'
          PROVE  /\ \A t \in Sessions : Writing(t, j.path) => t = s
                 /\ ~Unparsable(x)
      <3>1. j.path \notin spoiled /\ x \in Written(files[j.path], j.next)
        BY <2>3
      <3>2. files[j.path] = Truncated /\ \A t \in Sessions : Writing(t, j.path) => t = s
        BY <1>0, <3>1 DEF IInv, SoleWriter
      <3> QED
        BY <1>1, <3>1, <3>2, Sentinels DEF Written, Unparsable
    <2>4. UnparsableIsExplained'
      <3> SUFFICES ASSUME NEW p \in Paths, Unparsable(files'[p]), p \notin spoiled'
                   PROVE  files'[p] = Truncated /\ \E t \in Sessions : Writing(t, p)'
        BY DEF UnparsableIsExplained, Unparsable
      <3>1. p # j.path
        BY <2>1, <2>3
      <3>2. files'[p] = files[p] /\ p \notin spoiled /\ Unparsable(files[p])
        BY <2>1, <3>1 DEF Unparsable
      <3>3. files[p] = Truncated /\ \E t \in Sessions : Writing(t, p)
        BY <3>2 DEF IInv, UnparsableIsExplained
      <3>4. ~Writing(s, p)
        BY <3>1 DEF Writing
      <3> QED
        BY <2>2, <3>2, <3>3, <3>4
    <2>5. ASSUME NEW t \in Sessions, NEW p \in Paths, Writing(t, p)', p \notin spoiled'
          PROVE  files'[p] = Truncated /\ \A r \in Sessions : Writing(r, p)' => r = t
      <3>1. t # s /\ Writing(t, p)
        BY <2>2, <2>5
      <3>2. p # j.path /\ p \notin spoiled
        BY <2>1, <2>3, <2>5, <3>1
      <3>3. files[p] = Truncated /\ \A r \in Sessions : Writing(r, p) => r = t
        BY <3>1, <3>2 DEF IInv, SoleWriter, Writing
      <3> QED
        BY <2>1, <2>2, <3>1, <3>2, <3>3
    <2>6. SoleWriter'
      <3>1. \A t \in Sessions : cmd'[t].path \in Paths
        BY <1>4 DEF Command
      <3> QED
        BY <2>5, <3>1 DEF SoleWriter, Writing
    <2> QED
      BY <2>4, <2>6
  <1>7. FilesOK'
    <2> SUFFICES ASSUME NEW p \in Paths, Whole(files'[p])
                 PROVE  Known(p, files[p])' /\ Explained(p, files[p])'
      BY DEF FilesOK
    <2>1. CASE p = j.path /\ x = j.next /\ x # files[p]
      <3>1. files'[p] = j.next /\ ~(x \in {files[j.path], Torn})
        BY <1>0, <1>1, <2>1, Sentinels DEF IInv, Types
      <3>2. /\ \A n \in Names : j.next.sources[n] # None => <<p, n, j.next.sources[n]>> \in added'
            /\ Dangling(j.next) => <<p, j.next.default>> \in borrowed'
        BY <1>0, <1>1, <2>1, <3>1 DEF JobOK, Holding
      <3> QED
        BY <3>1, <3>2 DEF Known, Explained
    <2>2. CASE ~(p = j.path /\ x = j.next /\ x # files[p])
      <3>1. files'[p] = files[p] /\ Whole(files[p])
        BY <1>0, <1>1, <2>2 DEF Whole, Unparsable, IInv, Types
      <3> QED
        BY <1>0, <3>1 DEF IInv, FilesOK, Known, Explained
    <2> QED
      BY <2>1, <2>2
  <1>8. JobOK(cmd[s])' /\ SelectOK(cmd[s])'
    BY <1>2, <1>4 DEF JobOK, SelectOK, Holding
  <1> QED
    BY <1>4, <1>5, <1>6, <1>7, <1>8 DEF IInv, JobsOK, SelectsOK

LEMMA PersistStep ==
    ASSUME IInv, NEW s \in Sessions, Persist(s)
    PROVE  IInv'
  <1> DEFINE j == cmd[s]
  <1>1. PICK x \in Written(files[j.path], j.next) : files' = [files EXCEPT ![j.path] = x]
    BY DEF Persist
  <1>2. x \in {j.next, Torn}
    BY <1>1 DEF Written
  <1>3. /\ j.pc = "writing" /\ cmd' = Disturb(s, End(s, "ok"))
        /\ added \subseteq added' /\ borrowed \subseteq borrowed' /\ spoiled' = spoiled
        /\ j.op = "add" => <<j.path, j.name, j.url>> \in added'
        /\ j.op = "select" /\ Dangling(j.next) => <<j.path, j.name>> \in borrowed'
    BY DEF Persist
  <1> QED
    BY <1>1, <1>2, <1>3, PutStep

LEMMA BreakStep ==
    ASSUME IInv, NEW s \in Sessions, Break(s)
    PROVE  IInv'
  <1> DEFINE j == cmd[s]
  <1>1. CASE j.pc # "writing"
    BY <1>1, FailStep DEF Break, history
  <1>2. CASE j.pc = "writing"
    <2>1. PICK x \in {files[j.path], Torn} : files' = [files EXCEPT ![j.path] = x]
      BY <1>2 DEF Break
    <2>2. /\ cmd' = Disturb(s, End(s, "failed")) /\ added' = added /\ borrowed' = borrowed
          /\ spoiled' = spoiled \cup {j.path}
      BY <1>2 DEF Break
    <2> QED
      BY <1>2, <2>1, <2>2, PutStep
  <1> QED
    BY <1>1, <1>2

-----------------------------------------------------------------------------
LEMMA Step == IInv /\ [Next]_vars => IInv'
  <1> SUFFICES ASSUME IInv, [Next]_vars PROVE IInv'
    OBVIOUS
  <1>1. CASE UNCHANGED vars
    <2>1. Types' /\ FilesOK' /\ JobsOK'
      BY <1>1 DEF IInv, vars, history, Types, FilesOK, JobsOK, JobOK, Known, Explained
    <2>3. UnparsableIsExplained' /\ SoleWriter'
      BY <1>1 DEF IInv, vars, history, UnparsableIsExplained, SoleWriter, Writing
    <2>2. SelectsOK'
      <3>1. \A c \in Cwds : Nearest(c)' = Nearest(c)
        BY <1>1, NearestStays DEF vars
      <3>2. \A t \in Sessions : CommandOK(cmd[t])
        BY DEF IInv, Types
      <3> QED
        BY <1>1, <3>1, <3>2 DEF IInv, vars, SelectsOK, SelectOK, Alone, CommandOK
    <2> QED
      BY <2>1, <2>2, <2>3 DEF IInv
  <1>2. ASSUME NEW s \in Sessions, NEW c \in Cwds, NEW b \in BOOLEAN,
               \/ \E n \in Names, u \in Urls : Start(s, "add", c, b, n, u)
               \/ \E n \in Names, op \in {"remove", "select"} : Start(s, op, c, b, n, None)
               \/ \E op \in {"init", "read"} : Start(s, op, c, FALSE, None, None)
        PROVE  IInv'
    BY <1>2, StartStep
  <1>3. ASSUME NEW s \in Sessions,
               \/ LoadGlobal(s) \/ LoadTarget(s)
               \/ \E scope \in {"global", "workspace"}, mode \in {"new", "modify", "reuse-global"} :
                    Edit(s, scope, mode)
               \/ Confirm(s) \/ Truncate(s) \/ Persist(s) \/ Break(s)
        PROVE  IInv'
    BY <1>3, LoadGlobalStep, LoadTargetStep, EditStep, ConfirmStep, TruncateStep, PersistStep, BreakStep
  <1> QED
    BY <1>1, <1>2, <1>3 DEF Next

LEMMA Inductive == Spec => []IInv
  BY InitIInv, Step, PTL DEF Spec

(* What a command is to write has every source and every setting, and a    *)
(* file holds a configuration, nothing, or what is left of one             *)
(* (mergeConfig, remote source, init, writeConfig).                        *)
THEOREM TypeSafety == Spec => []TypeOK
  <1>1. IInv => TypeOK
    BY DEF IInv, Types, TypeOK, CommandOK, Holding, Content
  <1> QED
    BY <1>1, Inductive, PTL

(* However many commands run, a file that no command can parse is being    *)
(* written, or two commands wrote it at once or one broke while writing it *)
(* (writeConfig).                                                          *)
THEOREM UnparsableTheorem == Spec => []UnparsableIsExplained
  <1>1. IInv => UnparsableIsExplained
    BY DEF IInv
  <1> QED
    BY <1>1, Inductive, PTL

(* No command, however it interleaves with others, brings a source of one  *)
(* scope into the file of another (remote source, init, writeConfig).      *)
THEOREM SourcesTheorem == Spec => []SourcesWereAddedThere
  <1>1. IInv => SourcesWereAddedThere
    BY DEF IInv, FilesOK, Known, SourcesWereAddedThere
  <1> QED
    BY <1>1, Inductive, PTL

(* Only a select leaves a default that its own file does not have          *)
(* (remote source add, remove, select; init).                              *)
THEOREM DanglingTheorem == Spec => []DanglingIsExplained
  <1>1. IInv => DanglingIsExplained
    BY DEF IInv, FilesOK, Explained, DanglingIsExplained
  <1> QED
    BY <1>1, Inductive, PTL

-----------------------------------------------------------------------------
\* Only its own Persist ends a command that was writing with success.
LEMMA OkIsPersisted ==
    ASSUME IInv, Next, NEW s \in Sessions,
           cmd[s].pc = "writing", cmd'[s].pc = "idle", cmd'[s].result = "ok"
    PROVE  Persist(s)
  <1>0. cmd \in [Sessions -> Command]
    BY DEF IInv, Types
  <1>1. PICK t \in Sessions :
            \/ \E op, c, b, n, u : Start(t, op, c, b, n, u)
            \/ LoadGlobal(t) \/ LoadTarget(t) \/ \E scope, mode : Edit(t, scope, mode)
            \/ Confirm(t) \/ Break(t) \/ Truncate(t) \/ Persist(t)
    BY DEF Next
  <1>2. CASE \/ \E op, c, b, n, u : Start(t, op, c, b, n, u)
             \/ LoadGlobal(t) \/ LoadTarget(t) \/ \E scope, mode : Edit(t, scope, mode)
             \/ Confirm(t)
    <2>0. Fail(t) => \E k : cmd' = [cmd EXCEPT ![t] = k]
      BY DEF Fail, End
    <2>1. PICK k : cmd' = [cmd EXCEPT ![t] = k]
      <3>1. ASSUME NEW op, NEW c, NEW b, NEW n, NEW u, Start(t, op, c, b, n, u)
            PROVE  \E k : cmd' = [cmd EXCEPT ![t] = k]
        BY <2>0, <3>1 DEF Start, End
      <3>2. LoadGlobal(t) => \E k : cmd' = [cmd EXCEPT ![t] = k]
        <4> DEFINE e == [[cmd[t] EXCEPT !.pc = IF cmd[t].op = "init" THEN "edit" ELSE "target"]
                            EXCEPT !.global = files[Global]]
        <4>1. LoadGlobal(t) => Fail(t) \/ cmd' = [cmd EXCEPT ![t] = e]
          BY <1>0 DEF LoadGlobal
        <4> QED
          BY <2>0, <4>1
      <3>3. LoadTarget(t) => \E k : cmd' = [cmd EXCEPT ![t] = k]
        BY <1>0, <2>0 DEF LoadTarget
      <3>4. ASSUME NEW scope, NEW mode, Edit(t, scope, mode)
            PROVE  \E k : cmd' = [cmd EXCEPT ![t] = k]
        BY <1>0, <2>0, <3>4 DEF Edit
      <3>5. Confirm(t) => \E k : cmd' = [cmd EXCEPT ![t] = k]
        BY <1>0, <2>0 DEF Confirm
      <3> QED
        BY <1>2, <3>1, <3>2, <3>3, <3>4, <3>5
    <2>2. t = s
      BY <1>0, <2>1
    <2>3. Fail(s)
      BY <1>2, <2>2 DEF Start, LoadGlobal, LoadTarget, Edit, Confirm
    <2> QED
      BY <1>0, <2>3 DEF Fail, End, NoCommand
  <1>3. CASE Truncate(t)
    BY <1>0, <1>3 DEF Truncate, Disturb, Command
  <1>4. CASE Persist(t)
    <2>1. t = s
      BY <1>0, <1>4 DEF Persist, Disturb, End, Command
    <2> QED
      BY <1>4, <2>1
  <1>5. CASE Break(t)
    <2>1. Fail(t) \/ cmd' = Disturb(t, End(t, "failed"))
      BY <1>5 DEF Break
    <2>2. t = s \/ cmd'[s].pc = cmd[s].pc
      BY <1>0, <2>1 DEF Fail, Disturb, End, Command
    <2>3. cmd'[t].result = "failed"
      BY <1>0, <2>1 DEF Fail, Disturb, End, NoCommand
    <2> QED
      BY <2>2, <2>3
  <1> QED
    BY <1>1, <1>2, <1>3, <1>4, <1>5

\* A select whose files nobody has written since it looked at them.
LEMMA PersistedSelect ==
    ASSUME IInv, NEW s \in Sessions, Persist(s), Alone(cmd[s]), NEW c \in Cwds, cmd[s].cwd = c
    PROVE  Seen(c)'.default = cmd[s].name /\ ~Dangling(Seen(c)')
  <1> DEFINE j == cmd[s]
  <1>0. j.pc = "writing" /\ CommandOK(j) /\ SelectOK(j) /\ j \in Command
    BY DEF Persist, IInv, Types, SelectsOK
  <1>1. /\ files' = [files EXCEPT ![j.path] = j.next] /\ j.pc = "writing"
        /\ CommandOK(j) /\ SelectOK(j) /\ j \in Command
    <2>1. files[j.path] = Truncated
      BY <1>0 DEF SelectOK
    <2> QED
      BY <1>0, <2>1 DEF Persist, Written
  <1>2. /\ j.path = Nearest(c) /\ j.next.default = j.name /\ files[j.path] = Truncated
        /\ j.path = Global \/ files[Global] = j.global
        /\ \/ j.next.sources[j.name] # None
           \/ j.path # Global /\ Full(j.global).sources[j.name] # None
    BY <1>1 DEF SelectOK
  <1>3. /\ j.path \in Paths /\ j.name \in Names /\ j.next \in FullConfig
        /\ j.global \in Config \cup {Absent} /\ Global \in Paths
        /\ files \in [Paths -> Content]
    BY <1>1 DEF CommandOK, Command, Alone, Holding, IInv, Types, Paths
  <1>4. Found(c)' = Found(c)
    <2>1. files'[j.path] # Absent /\ files[j.path] # Absent
      BY <1>1, <1>2, <1>3, Sentinels, ConfigAssumption
    <2>2. \A p \in Paths : files'[p] = Absent <=> files[p] = Absent
      BY <1>1, <1>3, <2>1
    <2>3. \A i \in DOMAIN Lookup[c] : Lookup[c][i] \in Paths
      BY ConfigAssumption
    <2> QED
      BY <2>2, <2>3 DEF Found
  <1>5. Nearest(c)' = j.path
    BY <1>2, <1>4 DEF Nearest
  <1>6. files'[j.path] = j.next /\ j.next \in Config /\ j.next # Absent
    BY <1>1, <1>3, Sentinels
  <1> DEFINE base == Full(files'[Global])
  <1>7. base \in FullConfig
    BY <1>1, <1>2, <1>3, <1>6, FullFacts
  <1>8. Seen(c)' = Merge(base, j.next)
    BY <1>5, <1>6 DEF Seen
  <1>9. j.next.sources[j.name] # None \/ base.sources[j.name] # None
    BY <1>1, <1>2, <1>3
  <1> HIDE DEF base, j
  <1>10. Merge(base, j.next).default = j.name
    BY <1>2, <1>3, <1>6, ConfigAssumption DEF Merge, MergedDefault, Given
  <1>11. Merge(base, j.next).sources[j.name] # None
    BY <1>3, <1>6, <1>9 DEF Merge, Given
  <1> QED
    BY <1>8, <1>10, <1>11 DEF Dangling, j

(* A select that ends well, with nothing written in between, makes the     *)
(* commands of its directory talk to the source (remote source select,     *)
(* resolveConfiguredServer, findNearestWorkspaceConfig).                   *)
THEOREM SelectTheorem == Spec => SelectTakesEffect
  <1> DEFINE Effect == \A s \in Sessions, c \in Cwds : LET j == cmd[s] IN
        /\ j.pc = "writing" /\ cmd'[s].pc = "idle" /\ cmd'[s].result = "ok"
        /\ j.op = "select" /\ j.cwd = c /\ ~j.isGlobal /\ j.undisturbed
        => Seen(c)'.default = j.name /\ ~Dangling(Seen(c)')
  <1>1. IInv /\ [Next]_vars => [Effect]_vars
    <2> SUFFICES ASSUME IInv, Next PROVE Effect
      OBVIOUS
    <2> SUFFICES ASSUME NEW s \in Sessions, NEW c \in Cwds,
                        cmd[s].pc = "writing", cmd'[s].pc = "idle", cmd'[s].result = "ok",
                        cmd[s].op = "select", cmd[s].cwd = c, ~cmd[s].isGlobal, cmd[s].undisturbed
                 PROVE  Seen(c)'.default = cmd[s].name /\ ~Dangling(Seen(c)')
      OBVIOUS
    <2>1. Persist(s)
      BY OkIsPersisted
    <2> QED
      BY <2>1, PersistedSelect DEF Alone
  <1> QED
    BY <1>1, Inductive, PTL DEF SelectTakesEffect, Spec
=============================================================================
