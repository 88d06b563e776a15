SPECIFICATION Spec
CONSTANTS
    f = f
    p = p
    c1 = c1
    c2 = c2
    People = {f, p}
    Founder = f
    Permitted = {f, p}
    Callers = {c1, c2}
    MaxVerifications = 3
    MaxSessions = 2
    MaxInvitations = 1
    MaxCalls = 4
    MaxAccountFaults = 1
    u1 = u1
    u2 = u2
    Members = {u1, u2}
    RoleNames = {"Owner", "Editor"}
    AccessCallers = {c1, c2}
    MaxLogins = 2
    MaxRoles = 2
    MaxKeys = 1
    MaxBatches = 2
    MaxRequests = 3
    MaxAccessFaults = 1
    Tenants = {"t1", "t2"}
    Pods = {"p1", "p2"}
    ClockAhead <- Clocks
    MaxSkew = 1
    MaxLag = 1
    TenantMax = 1
    TenantWindow = 4
    GlobalMax = 2
    GlobalWindow = 5
    MaxTime = 6
    Assets = {"a1", "a2"}
    Deleters = {"d1", "d2"}
    AmbiguousCommits = TRUE
    MaxMediaFaults = 2
    s1 = s1
    s2 = s2
    s3 = s3
    Slugs = {s1, s2, s3}
    FieldCallers = {c1, c2}
    MaxFieldRequests = 6
    x = x
    y = y
    Templates = {x}
    Campaigns = {y}
    Editors = {c1, c2}
    MaxVersions = 3
    MaxStamps = 4
    MaxContentFaults = 1
    NumSubscribers = 2
    Rows <- SomeRows
    Trees <- SomeTrees
    Height <- SomeHeights
    PageSize = 1
    MaxChanges = 1
    CustomSlugs = {"city", "ghost"}
    Documents <- SomeDocuments
    CodeBodies <- SomeBodies
    MaxDepth = 2
    MaxEdits = 4
INVARIANTS
    ConsumedMeansVerified
    InvitationAdmitsOnce
    ValidLinksAreMailed
    CodeOpensOneSession
    OneBootstrapOwner
    RateHolds
    ListedHasObject
    OrderLasts
    
PROPERTIES
    OverwritesWhatItShows
    
CHECK_DEADLOCK FALSE
SYMMETRY CallSymmetry
