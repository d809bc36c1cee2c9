CONSTANTS
    Modes = {"DirectDocker"}
    Counts = {1, 2}
    MaxSurge = 1
    MaxUnavailable = 1
    LastRev = 2
    Copies = 2
    Rolls = {g1}
    MaxRolls = 1
    Puts = 1
    Stops = 1
    Holds = 1
    Lost = 0
    Faults = 1
    Ops = 1
    Crashes = 0
    Limits <- MCLimits
SPECIFICATION FairSpec
INVARIANTS
    SurgeRespected
    StopsWithinBudget
    StopLeavesNothing
PROPERTIES
    RolloutConverges
    KeepsOrders
    StopCompletes
CHECK_DEADLOCK FALSE
