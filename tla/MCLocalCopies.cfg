SPECIFICATION MCSpec
CONSTANTS
  Keys = {"fund", "cash"}
  Ids = {1, 2, 3}
  Quantities = {0, 1, 2}
  Initial <- OneHeld
  Threads = {"service", "sync"}
  ProcessOf <- Itself
  Bounds <- SomeBounds
  None = None
  Dates = {1, 2}
  RowIds = {1, 2, 3}
  Details = {"plain", "final"}
  FirstRows <- OneRow
  RowBounds <- SomeRowBounds
  Lag = 720
  Codes = {"a", "s"}
  MarketOf <- Market
  Job = "sync"
  Accounts <- TwoRuns
  Holds <- Holdings
  Instants <- SomeInstants
  MaxAttempts = 2
  QuoteBudgets <- SomeQuoteBudgets
  Moments <- SomeMoments
  Versions = {1, 2}
  Profiles = {p, q}
  Valuations <- SomeValuations
  GateBudgets <- SomeGateBudgets
SYMMETRY MCSymmetry
INVARIANTS WritesAreSeen CopiesWereThere RowsAreKept
PROPERTIES KeepsBase QuotesAreGood NavRestsOnProof ReportIsTrue
CHECK_DEADLOCK FALSE
