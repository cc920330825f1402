\* A publisher and an indexing run of one checkout, two edits, or an edit and a fault.
CONSTANTS
    p1 = p1
    i1 = i1
    Procs = {p1, i1}
    Kind <- MCKind
    Authored = authored
    Captures = {first, second}
    Metadata = {taxonomy}
    Assets = {viewer}
    Late = {second}
    MaxVersion = 2
    MaxEdits = 2
    MaxFaults = 1
    MaxEvents = 2
SPECIFICATION Spec
INVARIANT ResultIsASnapshot
INVARIANT EntriesAreExact
INVARIANT EntriesAreClosed
INVARIANT RunsDoNotDisturb
CONSTRAINT SecondEdit
CHECK_DEADLOCK FALSE
