CONSTANTS
    Receipts = {r1, r2}
    Dispatchers = {d1, d2}
    ClaimIds = {1, 2, 3, 4}
    None = None
    Lease = 1
    RetryDelay <- MCRetryDelay
    Limit = 2
    MaxOperatorRetries = 1
    MaxCrashes = 1
SPECIFICATION Spec
SYMMETRY MCSymmetry
INVARIANTS NoBlindResend QueuedIsNotInFlight
PROPERTIES MarkedByClaimant Delivers
