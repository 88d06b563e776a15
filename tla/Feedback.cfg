SPECIFICATION Spec
CONSTANTS
    a1 = a1
    e1 = e1
    e2 = e2
    w1 = w1
    w2 = w2
    Mails <- TwoCopies
    EventIds = {e1, e2}
    Kinds = {"Bounce", "Send"}
    Workers = {w1, w2}
    Operators = {o1}
    Operations = {"add", "remove", "settings"}
    Choices <- Lenient
    MaxTopic = 2
    MaxRequests = 1
    MaxFaults = 1
INVARIANTS
    CommittedIsCovered
    AttributedIsDecided
    RecordedSendIsAttributed
SYMMETRY Symmetry
CHECK_DEADLOCK FALSE
