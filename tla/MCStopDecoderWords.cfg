CONSTANTS
    Decoders = {"bytes"}
    Tokens = {"a", "b", "word", "end", "L2", "C"}
    StopSequences <- MCStops
    VisibleIds = {"word"}
    HiddenIds = {"end"}
    MaxTokens = 6
SPECIFICATION StopSpec
INVARIANT StopWordsTriggerAStop
CHECK_DEADLOCK FALSE
