CONSTANTS
    Decoders = {"bytes"}
    Tokens = {"a", "L2", "L4", "C"}
    MaxPrompt = 2
    MaxSteps = 3
    Context = 5
SPECIFICATION Spec
INVARIANT BoundaryRecovery
CHECK_DEADLOCK FALSE
