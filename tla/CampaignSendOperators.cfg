SPECIFICATION Spec
CONSTANTS
    NumEmails = 3
    BatchSize = 2
    MaxSendErrors = 1
    QuotaAnswers = {TRUE, FALSE}
    LateJoiners = {}
    MaySuppress = {}
    Workers = {w1, w2}
    Handlers = {h1}
    Operations = {"start", "pause", "resume", "cancel"}
    DroppedErrors = TRUE
    MaxRequests = 3
    MaxFaults = 0
INVARIANTS
    
    FinishedCoversRoster
    FinishedCountersExact
    MailedOnceWhenUndisturbed
CHECK_DEADLOCK FALSE
SYMMETRY Identities
