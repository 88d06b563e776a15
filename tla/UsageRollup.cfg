SPECIFICATION Spec
CONSTANTS
    Campaigns = {{a1, a2}}
    Messages = {m1}
    Allowance = 2
    Metered = FALSE
    Lapses = {}
    MaxPeriods = 1
    MaxResumes = 0
    MaxFaults = 0
INVARIANTS
    CountersMatchUsage
CHECK_DEADLOCK FALSE
