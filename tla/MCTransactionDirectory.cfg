\* A full publication: one directory of two files, replaced by a publisher that may
\* die and start again, while two readers come, overlap and go.
CONSTANTS
    w1 = w1
    w2 = w2
    r1 = r1
    r2 = r2
    NoProc = NoProc
    Writers = {w1}
    Readers = {r1, r2}
    N = 1
    Dirs = {1}
    Entries = {1, 2}
    Retained = {}
    MaxVersion = 3
    MaxFaults = 2
SPECIFICATION LiveSpec
INVARIANT ReadersSeeOnePublication
INVARIANT OneFaultLosesNothing
INVARIANT RecoveryIsNeverStuck
INVARIANT CandidatesSurvive
PROPERTY CommitIsFinal
PROPERTY ReadersAreStable
PROPERTY EveryoneIsServed
PROPERTY JournalsAreRecovered
CHECK_DEADLOCK FALSE
