SPECIFICATION KnowledgeSpec
CONSTANTS
    None = None
    Sessions = {"s1", "s2"}
    Calls <- MCCalls
    NodeRecords <- MCNodeRecords
    EdgeRecords <- MCEdges
    Rules <- MCRules
    MaxDepth = 10
    MaxNeighbors = 2
    Worlds <- MCWorlds
    Queries <- MCQueries
    MaxTraversalDepth = 2
    MaxContextTokens = 32
    Inputs <- MCInputs
    ChunkChars = 4
    OverlapChars = 1
    Batches <- MCBatches
    Searches <- MCTableQueries
    NameRank <- MCNameRank
    NameLength <- MCNameLength
    MaxTokens = 180
    Tokens = {1}
    Providers = {1}
    Slots = {1, 2}
    MaxOps = 3
INVARIANTS BuilderAccepts UnitsNest DepthsShortest LossNeverRaises PacketMaximal ReadsExact AnswersHonest SummariesAgree GatesFollow
PROPERTIES KeepsContract
CHECK_DEADLOCK FALSE
