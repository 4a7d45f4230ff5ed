SPECIFICATION GSpec
CONSTANTS
    DriftMax = 1
    CooldownTime = 0
    FailClosed = TRUE
    MaxLog = 1
    MaxDrift = 2
    MaxTime = 0
    GatesFailClosed = FALSE
    AbstainFailClosed = TRUE
    Severe <- Worst
    Configurations <- Deployments
    MayRaise <- Fragile
    MaxTrouble = 2
    MaxFaults = 1
    MaxTurns = 1
    MaxCalls = 1
    Depth = 6
INVARIANTS
    GTypeOK
    ExitIsSilent
    SeverestWins
    JudgedAsDelivered
    EveryTurnAnswers
