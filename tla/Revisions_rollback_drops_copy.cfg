CONSTANTS
    Specs = {a, b}
    FirstSpec = a
    Limit = 2
    MaxName = 4
    Events = 3
SPECIFICATION Spec
INVARIANTS
    CopyKept
CHECK_DEADLOCK FALSE
