SPECIFICATION Spec
CONSTANTS
    f1 = f1
    f2 = f2
    a = a
    b = b
    v1 = v1
    v1moved = v1moved
    v2 = v2
    v3 = v3
    s1 = s1
    s2 = s2
    s3 = s3
    Files = {f1, f2}
    Names = {a, b}
    Versions = {v1, v1moved, v2}
    Shas = {s1, s2}
    Sha <- MCSha
    Calls <- MCCalls
    Precedes <- MCPrecedes
    Trees <- MCTrees
    Modes = {TRUE}
    Runs = {r1}
    r1 = r1
    r2 = r2
    Tier = "server"
    Blank = {}
    Reembed = Reembed
    None = None
    Absent = Absent
    Broken = Broken
    NoVector = NoVector
INVARIANTS
    TypeOK
    CleanRunMirrors
    CleanRunLinks
    StoresAgree
    RowsAreOneVersion
PROPERTIES
    VectorsKept
CONSTRAINT
    OneAtATime
