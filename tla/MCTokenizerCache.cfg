CONSTANTS
    a = a
    b = b
    c = c
    t1 = t1
    t2 = t2
    extends = extends
    plain = plain
    other = other
    overlapping = overlapping
    letterA = a
    letterB = b
    MaxLen = 6
    Threads <- MCThreads
    Wrappers <- MCWrappers
    Namespace <- MCNamespace
    Specials <- MCSpecials
    Extend <- MCExtend
    Select = "longest"
    Chars <- MCChars
    Tag = 255
    Texts <- MCTexts
    Segments <- MCSegments
    SegmentLists <- MCSegmentLists
    MinCached = 2
    MaxCalls = 3
    MaxEvictions = 1
SPECIFICATION MCSpec
SYMMETRY Symmetry
INVARIANT AcceptedSetsCutSafely
INVARIANT TextResultsAreExact
INVARIANT SegmentResultsAreExact
INVARIANT EntriesAreExact
INVARIANT NextTurnHitsDeepest
INVARIANT UsageIsExact
CHECK_DEADLOCK FALSE
