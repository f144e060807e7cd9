\* Two identifiers, two OTP codes, one request at a time.
CONSTANTS
    u1 = u1
    u2 = u2
    k1 = k1
    k2 = k2
    k0 = k0
    r1 = r1
    r2 = r2
    NULL = NULL
    Idents <- MC_Idents
    Codes <- MC_Codes
    Bypass = k0
    Reqs <- MC_OneReq
    MaxRequests = 7
    MaxSends = 2
    MaxDbFailures = 1
    MaxRedisFailures = 1
    MailConfigured = TRUE
    Registered = {}
SPECIFICATION Spec
SYMMETRY MC_Symmetry
\* The request budget ends every behaviour: the service then idles.
CHECK_DEADLOCK FALSE
INVARIANTS
    OtpSingleUse
    OtpNotLostUnused
    EscapedTextInert
