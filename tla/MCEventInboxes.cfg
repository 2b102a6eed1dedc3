SPECIFICATION MCSpec
CONSTANTS
  Records = {r1, r2}
  Facts = {cny, usd, bad}
  Invalid = {bad}
  Foreign = {usd}
  Rate = 7
  Workers = {"w1", "w2"}
  Operators = {}
  Events = {1, 2}
  MaxAttempts = 2
  MaxCommands = 0
  MaxFaults = 1
  None = None
INVARIANTS NothingForgotten
PROPERTIES SettledByClaimant InboxesSettle
CHECK_DEADLOCK FALSE
