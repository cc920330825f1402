\* The streams of both decoders, and the stop decoder over tiktoken's.
CONSTANTS
    Decoders = {"bytes", "fallback"}
    Tokens = {"a", "b", "word", "end", "special", "L2", "L3", "C"}
    StreamTokens = {"a", "word", "special", "L2", "L3", "C"}
    SequenceTokens = {"a", "b", "word", "end", "L2", "C"}
    MaxPrompt = 3
    MaxSteps = 4
    Context = 2
    StopSequences <- MCStops
    VisibleIds = {"word"}
    HiddenIds = {"end"}
    MaxTokens = 6
SPECIFICATION MCSpec
INVARIANT ChunksAreAppendOnly
INVARIANT FinishedIsComplete
INVARIANT NeverRewrites
INVARIANT JailLosesNothing
INVARIANT StopSequenceIsHidden
CHECK_DEADLOCK FALSE
