SPECIFICATION ServicesSpec
CONSTANTS
    DriftMax = 2
    CooldownTime = 2
    FailClosed = TRUE
    MaxLog = 3
    MaxDrift = 4
    MaxTime = 4
    Turns = {t1, t2, t3}
    FailureThreshold = 2
    RecoveryTimeout = 2
    HalfOpenTestLimit = 2
    GracePeriod = 1
    Values = {1, 2, 3, 4}
    InRange = {1, 2, 3}
    Quality <- Scores
    Violating = {3}
    Tax = 1
    MaxExperiments = 3
    MaxFailures = 2
    MaxSessions = 2
    MaxGitFailures = 2
    ParameterValues = {0, 4, 5}
    Gains <- SomeGains
    MinExperiments = 2
    Demands <- SomeDemands
    Fraction = 2
    MaxRecords = 2
    MaxUpdates = 1
    ApprovalTimeout = 2
    Hour = 4
    MaxPendingRequests = 2
    EvictionBatch = 1
    MaxRequests = 5
    MaxClock = 5
INVARIANTS
    DriftBounded
    AuditChain
    TimesConsistent
    ClosedBelowThreshold
    TrialsLimited
    SurfaceRestored
    BaselineRatchets
    AppliedIsJustified
    AnsweredInTime
PROPERTIES
    ReleaseIsAudited
    WaitsOutRecovery
CHECK_DEADLOCK FALSE
