CONSTANTS
    Indices <- MCIndices
    Inputs <- MCInputsByIndex
    MaxReasoning = 1
SPECIFICATION Spec
INVARIANT NothingIsLost
INVARIANT OnlyOpenCallsWait
INVARIANT ClosedCallsAreDelivered
INVARIANT FinishIsLast
INVARIANT ReasoningIsDelivered
PROPERTY TurnEndsForItsCalls
CHECK_DEADLOCK FALSE
