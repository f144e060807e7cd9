\* Lifecycle under provider failures, no store failures: two concurrent
\* requests over two stream ids.
CONSTANTS
    s1 = s1
    s2 = s2
    b1 = b1
    k1 = k1
    k2 = k2
    r1 = r1
    r2 = r2
    Users <- MC_Users
    Sellers <- MC_Sellers
    StreamIds <- MC_StreamIds
    Reqs <- MC_Reqs
    Anonymous = Anonymous
    NULL = NULL
    LiveKitConfigured = TRUE
    MaxRequests = 4
    MaxDbFailures = 0
    MaxLkFailures = 1
SPECIFICATION Spec
CHECK_DEADLOCK FALSE
INVARIANTS
    TypeOK
    LiveRoomExists
PROPERTIES
    CreatingResolves
    SessionRefinement
