CONSTANTS
    Records = {r1}
    Ids = {1, 2}
    Flows <- MCFlows
    None = None
    Procs = {"op", "timer"}
    Roles <- MCRoles
    ExternalActions = {"apply_delta", "already_reflected"}
    Trades <- MCTrades
    Opening <- MCOpening
    FirstDay = "ready"
    MaxEdits = 2
    MaxHands = 1
    MaxFaults = 1
    MaxNavs = 1
SPECIFICATION Spec
INVARIANTS OneOpenVersion
PROPERTIES WriteCompletesFlow VerifiedMeansIncluded GateBlocksWhileApplying
