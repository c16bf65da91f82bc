SPECIFICATION MonitorSpec
CONSTANTS
    Unavailable = Unavailable
    Configured = {"restate", "door"}
    Expected <- MCExpected
    FireGrace = 2
    PlannedGrace = 1
    BootstrapGrace = 1
    Facts <- MCFacts
    Scenarios <- MCOutage
INVARIANT UnknownIsNoRecovery
CHECK_DEADLOCK FALSE
