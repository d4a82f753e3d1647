SPECIFICATION Spec
CONSTANTS
    Skills = {s}
    Guides = {g}
    Contents = {c1, c2}
    Machines = {m1, m2}
    Procs = {p1, p2}
    CheckoutOf <- Apart
    Requests <- Everything
    Edits <- ByHand
    MaxCalls = 3
    MaxEdits = 1
    MaxTroubles = 1
    None = None
    Partial = Partial
    s = s
    g = g
    c1 = c1
    c2 = c2
    m1 = m1
    m2 = m2
    p1 = p1
    p2 = p2
SYMMETRY Symmetry
INVARIANTS TypeOK AnsweredIsPublished
PROPERTY RemoteIsImmutable
