CONSTANTS
    Modes = {"IndirectStar"}
    Counts = {2}
    MaxSurge = 1
    MaxUnavailable = 1
    LastRev = 3
    Copies = 2
    Rolls = {g1}
    MaxRolls = 1
    Puts = 2
    Stops = 2
    Holds = 0
    Lost = 1
    Faults = 0
    Ops = 0
    Crashes = 1
    Limits <- MCLimits
SPECIFICATION Spec
CONSTRAINT FewRequests
INVARIANTS
    TypeOK
    
    StopsWithinBudget
    
    RollMoves

    
CHECK_DEADLOCK FALSE
