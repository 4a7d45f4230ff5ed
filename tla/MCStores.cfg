SPECIFICATION StoresSpec
CONSTANTS
    Expiry = 1
    MaxQueue = 2
    AutoDeny = TRUE
    ArchiveKept = 2
    MaxItems = 4
    MaxFilings = 5
    VariableCount = 3
    KnownLinks <- SomeKnownLinks
    ObservationPairs <- SomePairs
    MaxNodes = 3
    MinObservations = 2
    WarmUp = 1
    AnyCaller = TRUE
    MaxGraphCalls = 3
    Questions = {q1, q2}
    Retrievals = {r1, r2}
    Ttl = 1
    MaxCacheSize = 1
    MaxMemories = 2
    MaxMemoryClock = 4
    EventIds = {e1, e2}
    Payloads = {p1, p2}
    WorldValues = {v1, v2}
    MaxHistory = 2
    MaxVersions = 2
    MaxTurn = 3
    MaxUpdatesSeen = 3
    MaxSnapshots = 3
    GoalIds = {g1, g2}
    GoalSessions = {s1, s2}
    MaxGoalCalls = 5
    Founder = founder
    AIs = {phionyx}
    NoteSessions = {s1, s2}
    MaxActive = 2
    ArchiveLimit = 1
    MaxNotes = 3
INVARIANTS
    ApprovalStands
    Conserved
    FileIsCurrent
    Acyclic
    EffectsFlowDownstream
    AnswersAreRecent
    RestrictionsHold
    QueriesAreHistory
    VersionsKeepTheirState
    GoalsAreSaved
    NotesAreKept
CHECK_DEADLOCK FALSE
