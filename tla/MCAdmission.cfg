CONSTANTS
    index = index
    validation = validation
    t1 = t1
    t2 = t2
    t3 = t3
    t4 = t4
    a1 = a1
    a2 = a2
    None = None
    Ops <- MCOps
    Tasks <- MCTasks
    Archives <- MCArchives
    Limit = 3
    OpOf <- MCOpOf
    ArchiveOf <- MCArchiveOf
    First <- MCFirst
    Second <- MCSecond
    Expects <- MCExpects
    MaxVersion = 2
    MaxFaults = 1
SPECIFICATION LiveSpec
INVARIANT BudgetIsExact
INVARIANT SessionsAgree
INVARIANT AdmittedIsTheOpenedFile
PROPERTY EveryOperationEnds
CHECK_DEADLOCK FALSE
