CONSTANTS
    Clients = {c1, c2, c3}
    Kinds = {"put", "stop"}
    Crashes = 0
    Errs = 0
    None = None
SPECIFICATION Spec
INVARIANTS
    AckedPutRuns
CHECK_DEADLOCK FALSE
