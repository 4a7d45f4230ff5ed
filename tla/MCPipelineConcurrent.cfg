SPECIFICATION Spec
CONSTANTS
    Runs = {"r1", "r2"}
    MaxIterations = 27
    MaxBlockExecutions = 2
    MaxRepeatedSequence = 3
    SessionOf <- OwnSession
    Order <- SmallOrder
    Dependencies <- SmallDependencies
    Registered <- SmallRegistered
    AlwaysOn <- SmallAlwaysOn
    Floor <- SmallFloor
    ActiveBlocks <- SmallProfile
    IntentGroups <- SmallGroups
    IntentSkips = {"time_update_sot"}
    ShortCircuits <- GateShortCircuit
    RetryBlocks <- SmallRetry
    TimeBlock = "time_update_sot"
    InitBlock = "initialize_unified_state"
    RevisionGate = "response_revision_gate"
    ResponseBuild = "response_build"
    StateBlocks <- SmallState
    ExitBlocks <- SmallExit
    SelfSkips = {"state_update_physics"}
    Decliners = {"create_scenario_frame"}
    Parallel = TRUE
    GuardOn = TRUE
    RollbackOn = FALSE
    CopiesFail = FALSE
    Concurrent = TRUE
    MayTimeOut = TRUE
    MaxFaults = 0
INVARIANTS
    SessionsIsolated
    NoDoubleExecution
