SPECIFICATION Spec
CONSTANTS
    NIL = NIL
    Requests <- OneOdd
    Clients = {c}
    Found <- OneApp
    Horizon = 2
    Tasks = 3
INVARIANTS TypeOK AcceptedIsStored CompletedIsLeftAlone
PROPERTIES FailureHolds FailuresAreSpaced DeadlineActs
CHECK_DEADLOCK FALSE
