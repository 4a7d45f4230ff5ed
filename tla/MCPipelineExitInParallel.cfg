SPECIFICATION Spec
CONSTANTS
    Runs = {"r1"}
    MaxIterations = 27
    MaxBlockExecutions = 2
    MaxRepeatedSequence = 3
    SessionOf <- OneSession
    Order <- SmallOrder
    Dependencies <- SmallDependencies
    Registered <- SmallBlocks
    AlwaysOn <- SmallAlwaysOn
    Floor <- SmallFloor
    ActiveBlocks <- SmallBlocks
    IntentGroups <- NoGroups
    IntentSkips = {}
    ShortCircuits <- NoShortCircuit
    RetryBlocks <- SmallRetry
    TimeBlock = "time_update_sot"
    InitBlock = "initialize_unified_state"
    RevisionGate = "response_revision_gate"
    ResponseBuild = "response_build"
    StateBlocks <- SmallState
    ExitBlocks <- SmallExit
    SelfSkips = {}
    Decliners = {}
    Parallel = TRUE
    GuardOn = TRUE
    RollbackOn = TRUE
    CopiesFail = FALSE
    Concurrent = FALSE
    MayTimeOut = FALSE
    MaxFaults = 0
PROPERTIES
    EarlyExitStops
