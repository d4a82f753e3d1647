SPECIFICATION Spec
CONSTANTS
    Skills = {s}
    Guides = {g}
    Contents = {c1, c2}
    Machines = {m1, m2}
    Procs = {p1, p2}
    CheckoutOf <- Apart
    Requests <- Publishes
    Edits <- NoEdits
    MaxCalls = 3
    MaxEdits = 0
    MaxTroubles = 0
    None = None
    Partial = Partial
    s = s
    g = g
    c1 = c1
    c2 = c2
    m1 = m1
    m2 = m2
    p1 = p1
    p2 = p2
PROPERTY WritesStartFromRemote
