CONSTANTS
    MaxWords = 3
    Inputs <- MCInputs
    ForcedStart = FALSE
SPECIFICATION Spec
INVARIANT CutsDoNotMatter
INVARIANT AnswersAreRead
INVARIANT ResetGivesBack
INVARIANT OnlyMarkersWait
CHECK_DEADLOCK FALSE
