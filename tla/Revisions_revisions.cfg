CONSTANTS
    Specs = {a, b}
    FirstSpec = a
    Limit = 3
    MaxName = 6
    Events = 2
SPECIFICATION FairSpec
INVARIANTS
    TypeOK
    LimitKept
    UnnamedDropsOldest
    
PROPERTIES
    PutSettles
CHECK_DEADLOCK FALSE
