SPECIFICATION Spec
CONSTANTS
    f1 = f1
    f2 = f2
    a = a
    b = b
    v1 = v1
    v1moved = v1moved
    v2 = v2
    v3 = v3
    s1 = s1
    s2 = s2
    s3 = s3
    Files = {f1}
    Names = {a, b}
    Versions = {v1, v2, v3}
    Shas = {s1, s2, s3}
    Sha <- PairSha
    Calls <- PairCalls
    Precedes <- PairPrecedes
    Trees <- PairTrees
    Modes = {TRUE, FALSE}
    Runs = {r1, r2}
    r1 = r1
    r2 = r2
    Tier = "lite"
    Blank = {s3}
    Reembed = Reembed
    None = None
    Absent = Absent
    Broken = Broken
    NoVector = NoVector
SYMMETRY
    PairSymmetry
INVARIANTS
    EdgeEndpointsExist
    ReembedBackfills
CONSTRAINT
    PairBounds
