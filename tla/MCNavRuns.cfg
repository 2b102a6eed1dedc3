SPECIFICATION MCSpec
CONSTANTS
    Procs = {"p", "q"}
    Runs = {1, 2}
    Dates = {1, 2}
    Keys = {"a", "b"}
    Contents = {1, 2}
    None = None
    Values = {"both", "one", "other", "closed"}
    Target <- MCTarget
    Histories <- MCHistories
    Budgets <- MCBudgets
INVARIANTS RowsMatchSlices
PROPERTIES SliceFollowsRow RepairIsSound WorkEnds
CHECK_DEADLOCK FALSE
