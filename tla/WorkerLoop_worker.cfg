CONSTANTS
    MsgCap = 4
    InterruptCap = 2
    Checks = 3
    StopCheck = 2
    MaxLoad = 2
    MaxMsgs = 3
    MaxErrs = 1
SPECIFICATION FairSpec
INVARIANTS
    TypeOK
    PushFindsRoom
    NoMissedSignal
    ClosedOnce
    RemovedIsQuiet
PROPERTIES
    TaskIsReconciled
    StopEndsWorker
CHECK_DEADLOCK FALSE
