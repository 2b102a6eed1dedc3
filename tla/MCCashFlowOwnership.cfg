CONSTANTS
    Records = {r1, r2}
    Ids = {1, 2}
    Flows <- MCOneFlow
    None = None
    Procs = {"op", "timer"}
    Roles <- MCRoles
    ExternalActions = {"apply_delta"}
    Trades <- MCTrades
    Opening <- MCOpening
    FirstDay = "ready"
    MaxEdits = 2
    MaxHands = 0
    MaxFaults = 1
    MaxNavs = 0
SPECIFICATION Spec
PROPERTIES CompensationOwnsHolding
