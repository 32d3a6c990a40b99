SPECIFICATION FairSpec
CONSTANTS
    c1 = c1
    c2 = c2
    poller = poller
    Commits = {c1, c2}
    Poller = poller
    Hooks = {}
    Syncs = {}
    Adds = {}
    Removers = {}
    Posts = {}
    None = None
    Torn = Torn
    MaxMoves = 1
    MaxFaults = 1
PROPERTIES
    MemoryMatchesSource
CHECK_DEADLOCK FALSE
