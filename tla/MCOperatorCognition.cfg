SPECIFICATION SurfaceSpec
CONSTANTS
    ApprovalTtl = 2
    Fresh = 0
    Retention = 1
    Plans <- MCPlans
    StaleSending = 0
    MaxSendAttempts = 2
    RatePerMinute = 2
    MissionCap = 1
    Minute = 1
    Day = 2
    Changes <- MCChanges
    IdentityPlans <- MCIdentityPlans
    ApprovalWait = 1
    RateCap = 1
    RateWindow = 1
    MaxLost = 1
INVARIANTS
    OperatorTypeOK
    CognitionTypeOK
    OperatorToldTruth
    OffsetCoversHandled
    IdentityGoverned
    CognitionIsPinned
PROPERTIES
    SettledCardCloses
    RunsEnd
CHECK_DEADLOCK FALSE
