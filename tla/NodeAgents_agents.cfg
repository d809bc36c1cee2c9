SPECIFICATION Spec
CONSTANTS
    Nodes = {n1, n2}
    Local = n1
    Apps = {a1, a2}
    Rev = rev
    Jobs = {j1, j2}
    None = None
    Modes = {"DirectDocker", "DirectStar", "IndirectStar"}
    Ops <- SomeOps
    MaxCalls <- FewCalls
    MaxFaults <- SomeFaults
SYMMETRY Alike
INVARIANTS TypeOK FreshListing
PROPERTY KeepsContract
CHECK_DEADLOCK FALSE
