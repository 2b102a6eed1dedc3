SPECIFICATION Spec
CONSTANTS
    Rids = {"r1"}
    Assets = {"a", "x"}
    OutOfScope = {"x"}
    Row <- MCRow
    None = None
    Interval = 2
    Restores = TRUE
    MaxEdits = 3
    MaxTroubles = 0
INVARIANT MonitoredIsTold

CHECK_DEADLOCK FALSE
