CONSTANTS
    Clients = {c1, c2, c3}
    Kinds = {"put", "pause", "unpause", "stop", "delete"}
    Crashes = 1
    Errs = 1
    None = None
SPECIFICATION Spec
SYMMETRY ClientsAlike
INVARIANTS
    TypeOK
    AckMeansApplied
    OneWorker
PROPERTIES
    AppliedOnce
    KeepsRequests
CHECK_DEADLOCK FALSE
