CONSTANTS
    Indices <- MCIndices
    Inputs <- MCInputsByIndex
    MaxReasoning = 1
SPECIFICATION Spec
INVARIANT TerminalChunkIsTheLast
CHECK_DEADLOCK FALSE
