\* A data-only publication: a new generation directory, retained on rollback, and the
\* catalog and publication files that refer to it.
CONSTANTS
    w1 = w1
    w2 = w2
    r1 = r1
    r2 = r2
    NoProc = NoProc
    Writers = {w1, w2}
    Readers = {}
    N = 3
    Dirs = {1}
    Entries = {1, 2}
    Retained = {1}
    MaxVersion = 2
    MaxFaults = 3
SPECIFICATION Spec
INVARIANT TypeOK
INVARIANT CatalogsFindTheirGeneration
PROPERTY ImplementsPublication
CHECK_DEADLOCK FALSE
