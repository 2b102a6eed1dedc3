CONSTANTS
    Records = {r1}
    Ids = {1, 2}
    Flows <- MCFlows
    None = None
    Procs = {"op", "timer"}
    Roles <- MCRoles
    ExternalActions = {"apply_delta"}
    Trades <- MCTrades
    Opening <- MCOpening
    FirstDay = "ready"
    MaxEdits = 3
    MaxHands = 0
    MaxFaults = 0
    MaxNavs = 0
SPECIFICATION Spec
INVARIANTS DeletionReverses
