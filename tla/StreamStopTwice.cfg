\* A second stopStream on a stopped stream: does endedAt stay put?
CONSTANTS
    s1 = s1
    s2 = s2
    b1 = b1
    k1 = k1
    k2 = k2
    r1 = r1
    r2 = r2
    Users <- MC_Users
    Sellers <- MC_Sellers
    StreamIds <- MC_StreamIds
    Reqs <- MC_Reqs
    Anonymous = Anonymous
    NULL = NULL
    LiveKitConfigured = TRUE
    MaxRequests = 3
    MaxDbFailures = 0
    MaxLkFailures = 0
SPECIFICATION Spec
CHECK_DEADLOCK FALSE
PROPERTIES
    EndedAtStable
