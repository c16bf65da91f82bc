SPECIFICATION Spec
CONSTANTS
    Ttl = 2
    MaxTime = 2
    MaxCrashes = 1
    Calls <- MCCalls
    CallAction <- MCCallAction
    CallActor <- MCCallActor
    Skews <- MCSkews
    Effects <- MCEffects
CHECK_DEADLOCK FALSE
INVARIANT
    GrantedTaskCompletes
