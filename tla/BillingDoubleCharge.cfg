SPECIFICATION Spec
CONSTANTS
    MaxPeriods = 1
    MaxAttempts = 2
    MaxTries = 3
    Worker = worker
    Requests = {r1, r2}
    MaxRequests = 3
    MaxFaults = 0
INVARIANTS
    ChargedOnce
CHECK_DEADLOCK FALSE
SYMMETRY Identities
