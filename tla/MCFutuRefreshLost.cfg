SPECIFICATION Spec
CONSTANTS
    Positions = {"a", "b"}
    Fund = "fund"
    Versions = {1, 2, 3}
    Broker <- MCBroker
    Requests = {"r", "s"}
    Workers = {"w1", "w2"}
    Commands = {"t"}
    NavRuns = {"n"}
    Edited = {5, None}
    LostResults = {TRUE, FALSE}
    Budgets <- MCBudgets
    None = None

PROPERTY RequestsComplete
CHECK_DEADLOCK FALSE
