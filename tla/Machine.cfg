SPECIFICATION Spec
CONSTANTS
    Nat63Max = 500
    Programs <- MCPrograms
    Quanta = {0, 2, 5}
    MaxRuns = 2
    MaxPending = 1
    Respond <- MCRespond
INVARIANTS
    ResultMatches
    HolesOwned
PROPERTIES
    Terminates
CHECK_DEADLOCK FALSE
