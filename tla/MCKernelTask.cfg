SPECIFICATION Spec
CONSTANTS
    StepIds <- MCStepIds
    Operations = {"op1", "op2"}
    EventKeys <- MCKeys
    Recipes <- MCRecipes
    Times <- MCTimes
    CreatedAt = 1
    MaxCrashes = 3
    Calls <- MCCalls
    CallAction <- MCAction
INVARIANTS KernelTypeOK CompletionIsBacked AnswersAreKept CancelledDidPrefix ResultIsDurable
PROPERTY EveryTaskEnds
CHECK_DEADLOCK FALSE
