SPECIFICATION FairSpec
CONSTANTS
    NumEmails = 2
    BatchSize = 1
    MaxSendErrors = 2
    QuotaAnswers = {TRUE}
    LateJoiners = {}
    MaySuppress = {}
    Workers = {w1, w2}
    Handlers = {h1}
    Operations = {"start"}
    DroppedErrors = FALSE
    MaxRequests = 1
    MaxFaults = 1
PROPERTIES
    EveryRecipientReached
    QueueDrains
CHECK_DEADLOCK FALSE
