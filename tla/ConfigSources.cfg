\* Two sessions, two directories under the home directory, two source names.
CONSTANTS
    None = None
    Absent = Absent
    Truncated = Truncated
    Torn = Torn
    s1 = s1
    s2 = s2
    home = home
    proj = proj
    nested = nested
    origin = origin
    repo = repo
    u1 = u1
    u2 = u2
    key = key
    empty = empty
    Sessions = {s1, s2}
    Names = {origin, repo}
    Urls = {u1, u2}
    Settings = {keyId}
    Values = {empty, key}
    DefaultValue = empty
    Cwds = {proj, nested}
    Lookup <- Upwards
    Global = home
    First <- FirstFiles
    MaxCommands = 3
    MaxBreaks = 1
SPECIFICATION Spec
SYMMETRY Symmetry
INVARIANTS TypeOK UnparsableIsExplained SourcesWereAddedThere DanglingIsExplained
PROPERTIES SelectTakesEffect
CHECK_DEADLOCK FALSE
