SPECIFICATION Spec
CONSTANTS
    Campaigns = {{a1, a2}}
    Messages = {m1}
    Allowance = 2
    Metered = FALSE
    Lapses = {"suspended", "canceled"}
    MaxPeriods = 2
    MaxResumes = 1
    MaxFaults = 1
INVARIANTS
    UsageNeverOverstated
    QuotaHoldsWhenSerial
    RefusedBeforeMail
PROPERTIES
    UsageNeverDrops
CHECK_DEADLOCK FALSE
