SPECIFICATION Spec
CONSTANTS
    Rids = {"r1", "r2"}
    Assets = {"a", "x"}
    OutOfScope = {"x"}
    Row <- MCRow
    None = None
    Interval = 2
    Restores = FALSE
    MaxEdits = 2
    MaxTroubles = 1
INVARIANTS CompletedWasRead ReaderKnows
PROPERTIES DuplicateClosedOnProof BaselineCatchesUp
CHECK_DEADLOCK FALSE
