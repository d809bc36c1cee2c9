CONSTANTS
    MsgCap = 100
    InterruptCap = 10
    Checks = 10
    StopCheck = 6
    MaxLoad = 11
    MaxMsgs = 12
    MaxErrs = 0
SPECIFICATION Spec
INVARIANTS
    NeverWedged
CHECK_DEADLOCK FALSE
