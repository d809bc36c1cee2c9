SPECIFICATION Spec
CONSTANTS
    NIL = NIL
    Requests <- OneOdd
    Clients = {c}
    Found <- OneApp
    Horizon = 2
    Tasks = 1
PROPERTY DeadlineGivesTime
CHECK_DEADLOCK FALSE
