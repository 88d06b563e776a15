SPECIFICATION Spec
CONSTANTS
    NumEmails = 2
    BatchSize = 1
    MaxSendErrors = 1
    QuotaAnswers = {TRUE, FALSE}
    LateJoiners = {1}
    MaySuppress = {2}
    Workers = {w1, w2}
    Handlers = {h1}
    Operations = {"start", "update", "archive", "cancel"}
    DroppedErrors = TRUE
    MaxRequests = 2
    MaxFaults = 1
INVARIANTS
    SentWasMailed
    BilledWasMailed
PROPERTIES
    NeverMailedOnceSuppressed
    KeepsLedger
CHECK_DEADLOCK FALSE
SYMMETRY Identities
