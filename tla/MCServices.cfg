SPECIFICATION ServicesSpec
CONSTANTS
    None = None
    AutoSha = AutoSha
    Order <- MCOrder
    Files <- MCFiles
    Depth <- MCDepth
    SafeModeEnabled = FALSE
    LocalSlots = {1}
    MaxEvents = 4
    Kind <- MCKind
    Graphs <- MCGraphs
    Used <- MCUsed
    Scanners = {1, 2}
    Writers = {"w"}
    UsageSaturation = 2
    CentralitySaturation = 30
    LowPriority = 30
    CentralityLow = 20
    RefreshBelow = 40
    SuccessFloor = 50
    DecayAge = 1
    MaxClock = 2
    MaxCounted = 3
    Users = {"u"}
    Orgs = {"default", "b"}
    Repos = {"r"}
    Teams = {"t"}
    TeamOrg <- MCTeamOrg
    Roles = {"owner", "member", "viewer"}
    Access = {"read", "write"}
    Slots = {1, 2}
    MaxOps = 5
    Threads = {"x", "y"}
    Tenants = {"t1", "t2"}
    Repositories = {"r"}
    Policies <- MCPolicies
    Requests <- MCRequests
    MaxChain = 2
    Tasks = {"a", "b", "c"}
    Prio <- MCPrio
    WorkerCount = 1
    MaxRetries = 1
    Callers = {1, 2}
    Inputs <- MCTexts
    BatchSize = 2
    Dimension = 3
    Keys = {"k", "l", "m"}
    Versions = {"v1", "v2"}
    MaxSize = 2
    Ttl = 2
    MaxTime = 2
    MaxCalls = 4
    Rate = 1
    Burst = 3
    Costs = {1, 2}
    MaxStamp = 3
    MaxGranted = 4
INVARIANTS PriorityKept DecisionsHold AccessGrounded AnswersFit
PROPERTIES Settles ScansSound LocalFollows
CHECK_DEADLOCK FALSE
