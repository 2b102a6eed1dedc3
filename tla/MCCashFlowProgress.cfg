CONSTANTS
    Records = {r1}
    Ids = {1, 2}
    Flows <- MCDatedFlows
    None = None
    Procs = {"op", "timer"}
    Roles <- MCRoles
    ExternalActions = {"apply_delta"}
    Trades <- MCTrades
    Opening <- MCOpening
    FirstDay = "before"
    MaxEdits = 2
    MaxHands = 0
    MaxFaults = 1
    MaxNavs = 1
SPECIFICATION Spec
PROPERTIES SourceCatchesUp
