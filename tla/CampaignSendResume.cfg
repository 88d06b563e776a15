SPECIFICATION Spec
CONSTANTS
    NumEmails = 2
    BatchSize = 1
    MaxSendErrors = 1
    QuotaAnswers = {TRUE}
    LateJoiners = {}
    MaySuppress = {1, 2}
    Workers = {w1}
    Handlers = {h1}
    Operations = {"start", "pause", "resume"}
    DroppedErrors = TRUE
    MaxRequests = 3
    MaxFaults = 0
INVARIANTS
    ResumeReachesPending
CHECK_DEADLOCK FALSE
SYMMETRY Identities
