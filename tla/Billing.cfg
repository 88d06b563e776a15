SPECIFICATION Spec
CONSTANTS
    MaxPeriods = 3
    MaxAttempts = 2
    MaxTries = 3
    Worker = worker
    Requests = {r1, r2}
    MaxRequests = 2
    MaxFaults = 1
INVARIANTS
    ActiveMeansPaid
    BillsInOrder
    ChargedOnceUndisturbed
PROPERTIES
    ServesWhatIsPaid
CHECK_DEADLOCK FALSE
SYMMETRY Identities
