SPECIFICATION FairSpec
CONSTANTS
    c1 = c1
    c2 = c2
    c3 = c3
    poller = poller
    h1 = h1
    Commits = {c1, c2, c3}
    Poller = poller
    Hooks = {h1}
    Syncs = {}
    Adds = {}
    Removers = {}
    Posts = {}
    None = None
    Torn = Torn
    MaxMoves = 3
    MaxFaults = 2
INVARIANTS
    LoopsExclude
PROPERTIES
    EventuallyFresh
CHECK_DEADLOCK FALSE
