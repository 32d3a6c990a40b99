SPECIFICATION Spec
CONSTANTS
    r1 = r1
    r2 = r2
    s1 = s1
    s2 = s2
    v1 = v1
    v2 = v2
    None = None
    Repos = {r1, r2}
    Slots = {s1, s2}
    Versions = {v1, v2}
    Blank = {v2}
    MaxRequests = 3
    MaxFaults = 1
INVARIANTS
    SwitchServes
    ReembedServes
    SizesFollowMode
    PointsFollowRows
    ConfigKept
SYMMETRY Symmetry
CHECK_DEADLOCK FALSE
