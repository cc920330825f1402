\* As MCTransactionDirectory, for what an interrupted recovery leaves behind.
CONSTANTS
    w1 = w1
    w2 = w2
    r1 = r1
    r2 = r2
    NoProc = NoProc
    Writers = {w1, w2}
    Readers = {r1}
    N = 1
    Dirs = {1}
    Entries = {1, 2}
    Retained = {}
    MaxVersion = 2
    MaxFaults = 2
SPECIFICATION Spec
INVARIANT InterruptedRecoveryIsRepeatable
CHECK_DEADLOCK FALSE
