\* Lifecycle under store and provider failures: two store rejections so
\* that a compensation can itself be rejected, one room-service rejection.
CONSTANTS
    s1 = s1
    s2 = s2
    b1 = b1
    k1 = k1
    k2 = k2
    r1 = r1
    r2 = r2
    Users <- MC_Users
    Sellers <- MC_Sellers
    StreamIds <- MC_StreamIds
    Reqs <- MC_Reqs
    Anonymous = Anonymous
    NULL = NULL
    LiveKitConfigured = TRUE
    MaxRequests = 3
    MaxDbFailures = 2
    MaxLkFailures = 1
SPECIFICATION Spec
\* Every request can end; a system with no request in flight may stay idle.
CHECK_DEADLOCK FALSE
PROPERTIES
    SessionRefinement
