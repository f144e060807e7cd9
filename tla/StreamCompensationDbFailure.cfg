\* A failed create whose compensating delete is rejected by the store.
CONSTANTS
    s1 = s1
    s2 = s2
    b1 = b1
    k1 = k1
    k2 = k2
    r1 = r1
    r2 = r2
    Users <- MC_Users
    Sellers <- MC_Sellers
    StreamIds <- MC_StreamIds
    Reqs <- MC_Reqs
    Anonymous = Anonymous
    NULL = NULL
    LiveKitConfigured = TRUE
    MaxRequests = 3
    MaxDbFailures = 1
    MaxLkFailures = 1
SPECIFICATION Spec
CHECK_DEADLOCK FALSE
INVARIANTS
    CompensationRemovesRow
