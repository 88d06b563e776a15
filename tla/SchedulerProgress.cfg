SPECIFICATION SchedulerSpec
CONSTANTS
    MaxPeriods = 2
    MaxAttempts = 2
    MaxTries = 3
    Worker = worker
    Requests = {r1}
    MaxRequests = 2
    MaxFaults = 0
    SendingDomains = {"d1"}
    Rechecks = {"again"}
    MaxDomainFaults = 2
PROPERTIES
    PastDueEnds
    RenewalHappens
    EveryDomainSettles
CHECK_DEADLOCK FALSE
