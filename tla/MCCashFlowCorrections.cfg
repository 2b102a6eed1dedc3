CONSTANTS
    Records = {r1}
    Ids = {1, 2}
    Flows <- MCCorrections
    None = None
    Procs = {"op", "timer"}
    Roles <- MCRoles
    ExternalActions = {"apply_delta"}
    Trades <- MCTrades
    Opening <- MCOpening
    FirstDay = "ready"
    MaxEdits = 3
    MaxHands = 0
    MaxFaults = 1
    MaxNavs = 0
SPECIFICATION Spec
PROPERTIES WriteCompletesFlow VerifiedMeansIncluded
