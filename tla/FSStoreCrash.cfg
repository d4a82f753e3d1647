SPECIFICATION Spec
CONSTANTS
    Skills = {s1, s2}
    Versions = {v1}
    Authors = {a1, a2, h}
    Hidden = {h}
    Contents = {c1, c2}
    Workers = {w1, w2}
    MaxCalls = 3
    MaxFaults = 0
    MaxCrashes = 1
    None = None
    Partial = Partial
    Corrupt = Corrupt
    a1 = a1
    a2 = a2
    h = h
    s1 = s1
    s2 = s2
    v1 = v1
    c1 = c1
    c2 = c2
    Requests <- TwoSkills
SYMMETRY Symmetry
INVARIANT RepairAfterCrash
