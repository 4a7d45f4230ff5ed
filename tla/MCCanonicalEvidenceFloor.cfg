SPECIFICATION Spec
CONSTANTS
    Runs = {"r1"}
    MaxIterations = 138
    MaxBlockExecutions = 2
    MaxRepeatedSequence = 3
    SessionOf <- OneSession
    Order <- CanonicalOrder
    Dependencies <- CanonicalDependencies
    Registered <- CanonicalBlocks
    AlwaysOn <- CanonicalAlwaysOn
    Floor <- CanonicalFloor
    ActiveBlocks <- EvidenceProfile
    IntentGroups <- NoGroups
    IntentSkips = {}
    ShortCircuits <- NoShortCircuit
    RetryBlocks = {}
    TimeBlock = "time_update_sot"
    InitBlock = "initialize_unified_state"
    RevisionGate = "response_revision_gate"
    ResponseBuild = "response_build"
    StateBlocks <- CanonicalState
    ExitBlocks <- CanonicalExit
    SelfSkips = {}
    Decliners = {}
    Parallel = FALSE
    GuardOn = TRUE
    RollbackOn = TRUE
    CopiesFail = FALSE
    Concurrent = FALSE
    MayTimeOut = FALSE
    MaxFaults = 0
INVARIANTS
    FloorRuns
