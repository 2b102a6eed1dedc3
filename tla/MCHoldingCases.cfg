SPECIFICATION Spec
CONSTANTS
    Workers = {"w1"}
    Operators = {op1, op2}
    Events <- MCEvents
    None = None
    MaxAttempts = 2
    MaxCommands = 2
    MaxFaults = 1
SYMMETRY MCSymmetry
INVARIANTS RetryableNeverSent
PROPERTIES AutomaticWriteHolds KeepStands
CHECK_DEADLOCK FALSE
