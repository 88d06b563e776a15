SPECIFICATION Spec
CONSTANTS
    a = a
    b = b
    Emails = {a, b}
    Lists = {l1}
    Finds <- Apart
    Slots = {p1, p2}
    Operations = {"submit", "resend", "confirm", "unsubscribe", "preferences", "update", "create", "delete", "add", "remove", "change", "list", "page", "import", "export"}
    Files <- Upload
    Seed <- Left
    PageSize = 1
    MaxSubs = 3
    MaxTokens = 2
    MaxRequests = 3
    MaxFaults = 1

    
    
PROPERTIES
    SuppressedStayOut
    ImportOnlyAdds
    
SYMMETRY Symmetry
CHECK_DEADLOCK FALSE
