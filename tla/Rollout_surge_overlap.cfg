CONSTANTS
    Modes = {"DirectStar", "IndirectStar", "DirectDocker"}
    Counts = {2}
    MaxSurge = 1
    MaxUnavailable = 1
    LastRev = 2
    Copies = 4
    Rolls = {g1, g2}
    MaxRolls = 2
    Puts = 0
    Stops = 0
    Holds = 0
    Lost = 0
    Faults = 0
    Ops = 0
    Crashes = 0
    Limits <- MCLimits
SPECIFICATION Spec
INVARIANTS
    SurgeBound
CHECK_DEADLOCK FALSE
