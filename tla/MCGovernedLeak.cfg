SPECIFICATION GSpec
CONSTANTS
    DriftMax = 1
    CooldownTime = 0
    FailClosed = TRUE
    MaxLog = 1
    MaxDrift = 2
    MaxTime = 0
    GatesFailClosed = FALSE
    AbstainFailClosed = TRUE
    Severe <- Worst
    Configurations <- Complete
    MayRaise <- Fragile
    MaxTrouble = 1
    MaxFaults = 0
    MaxTurns = 1
    MaxCalls = 0
    Depth = 6
INVARIANTS
    LeakNeverDelivered
