\* Two concurrent verifyOtp requests for the same code, sent to an
\* identifier whose user row exists.
CONSTANTS
    u1 = u1
    u2 = u2
    k1 = k1
    k2 = k2
    k0 = k0
    r1 = r1
    r2 = r2
    NULL = NULL
    Idents <- MC_Idents
    Codes <- MC_Codes
    Bypass = k0
    Reqs <- MC_TwoReqs
    MaxRequests = 3
    MaxSends = 2
    MaxDbFailures = 1
    MaxRedisFailures = 0
    MailConfigured = TRUE
    Registered = {u1}
SPECIFICATION Spec
\* u1 is registered, so only the codes are interchangeable.
SYMMETRY MC_CodeSymmetry
\* The request budget ends every behaviour: the service then idles.
CHECK_DEADLOCK FALSE
INVARIANTS
    OtpSingleUse
