SPECIFICATION Spec
CONSTANTS
    c1 = c1
    c2 = c2
    poller = poller
    s1 = s1
    d1 = d1
    m1 = m1
    p1 = p1
    Commits = {c1, c2}
    Poller = poller
    Hooks = {}
    Syncs = {s1}
    Adds = {d1}
    Removers = {m1}
    Posts = {p1}
    None = None
    Torn = Torn
    MaxMoves = 2
    MaxFaults = 1
INVARIANTS
    FreshClaimHolds
PROPERTIES
    PauseSurvives
    RemovedStaysRemoved
CONSTRAINT AllBounds
VIEW IndexAt
SYMMETRY CommitSymmetry
