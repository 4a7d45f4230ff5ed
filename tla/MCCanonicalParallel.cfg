SPECIFICATION FairSpec
CONSTANTS
    Runs = {"r1"}
    MaxIterations = 138
    MaxBlockExecutions = 2
    MaxRepeatedSequence = 3
    SessionOf <- OneSession
    Order <- CanonicalOrder
    Dependencies <- CanonicalDependencies
    Registered <- CanonicalBlocks
    AlwaysOn <- CanonicalAlwaysOn
    Floor <- CanonicalFloor
    ActiveBlocks <- CanonicalBlocks
    IntentGroups <- NoGroups
    IntentSkips = {}
    ShortCircuits <- NoShortCircuit
    RetryBlocks <- CanonicalRetry
    TimeBlock = "time_update_sot"
    InitBlock = "initialize_unified_state"
    RevisionGate = "response_revision_gate"
    ResponseBuild = "response_build"
    StateBlocks <- CanonicalState
    ExitBlocks <- CanonicalExit
    SelfSkips <- Unserved
    Decliners = {}
    Parallel = TRUE
    GuardOn = TRUE
    RollbackOn = TRUE
    CopiesFail = TRUE
    Concurrent = FALSE
    MayTimeOut = FALSE
    MaxFaults = 1
INVARIANTS
    FloorRuns
PROPERTIES
    RunsEnd
    DependenciesFirst
