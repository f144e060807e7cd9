------------------------------ MODULE Accounts ------------------------------
(***************************************************************************)
(* Accounts as AuthService (src/src/auth/auth.service.ts), SellersService  *)
(* (src/src/sellers/sellers.service.ts) and SupportService change them:    *)
(* user rows with their role, the seller row's verification status and     *)
(* its edits, the Redis keys otp:{identifier} and refresh:{jti}, and the   *)
(* support tickets a user files.                                           *)
(*                                                                         *)
(* An identifier stands for the email or phone a request names; one user   *)
(* row holds it (both columns are unique).  A request slot holds a handler *)
(* between two awaits whose interleaving with another request matters:     *)
(* the GET and the DEL of verifyOtp, the existence checks and the          *)
(* transaction of registration, the status read and the update of a        *)
(* review.  bcrypt, JWT signing and the response shape are left out.       *)
(* refresh (93-131) only reads Redis and the user row and writes nothing,  *)
(* so it has no action.  Key TTLs are not modelled: no key expires.        *)
(***************************************************************************)
EXTENDS Naturals, FiniteSets, SupportMail

CONSTANTS
    Idents,        \* emails / phone numbers requests name
    Codes,         \* OTP codes randomInt(100000, 999999) may draw
    Bypass,        \* the code '796300' of verifyOtp, line 173
    Reqs,          \* concurrent HTTP request slots
    MaxRequests,   \* bound: requests started over a behaviour
    MaxSends,      \* bound: sendOtp calls over a behaviour
    MaxDbFailures, \* bound: failed store calls
    MaxRedisFailures, \* bound: Redis commands that reject
    MailConfigured, \* MAIL_HOST is set and is a host name, not an address
    Registered,    \* identifiers whose BUYER user row exists at the start
    NULL

ASSUME Bypass \notin Codes
ASSUME Registered \subseteq Idents
ASSUME MailConfigured \in BOOLEAN
ASSUME MaxRequests \in Nat /\ MaxSends \in Nat /\ MaxDbFailures \in Nat /\ MaxRedisFailures \in Nat

VARIABLES
    users,     \* users[x]: role of the user row holding x, or "none"
    seller,    \* seller[x]: status of that user's seller row, or NULL
    edited,    \* edited[x]: the seller row's own fields were written since registration
    otp,       \* Redis otp:{x}: [n, code] of the send that set it, or NULL
    sessions,  \* refresh:{jti} keys stored for x's user (keys never expire)
    sent,      \* sendOtp calls so far; send n set otp:{sentTo[n]}
    sentTo,    \* history: the identifier of each send
    accepted,  \* history: accepted[n], verifications whose compare matched send n
    issued,    \* history: issued[n], verifications with send n that answered success
    tickets,   \* supportTicket rows created so far, numbered 1..tickets
    mailed,    \* tickets whose concern email the SMTP server accepted
    dbFails,   \* store writes (registration, ticket, user lookup) that failed so far
    redisFails, \* Redis commands that rejected so far
    req,       \* per request slot: operation, program counter, locals
    reqCount   \* requests started so far

vars == <<users, seller, edited, otp, sessions, sent, sentTo, accepted, issued, tickets,
          mailed, dbFails, redisFails, req, reqCount>>

Roles    == {"BUYER", "SELLER"}
Statuses == {"PENDING", "VERIFIED", "REJECTED"}
Sends    == 1..MaxSends
\* The status each review writes (lines 99 and 118).
Verdict  == [approve |-> "VERIFIED", reject |-> "REJECTED"]

Idle == [op |-> "idle", pc |-> "idle", x |-> NULL, n |-> NULL, role |-> NULL]

Finish(r) == req' = [req EXCEPT ![r] = Idle]
Goto(r, pc) == req' = [req EXCEPT ![r].pc = pc]

\* The compare of verifyOtp, line 177: otp:{x} holds code c.
Matches(x, c) == otp[x] # NULL /\ otp[x].code = c

\* RolesGuard (auth/roles.guard.ts 18-40): a route marked @Roles(role)
\* throws Forbidden unless the caller's token lists the role.  A token
\* lists the roles of the user row at login, and no handler changes them.
HasRole(x, role) == users[x] = role

\* A Redis command rejects: the connection is down and ioredis gives up
\* after maxRetriesPerRequest = 3 (redis.service.ts 15-19).  The handler
\* throws.  The command may still have run at the server when only its
\* reply was lost, so the caller of RedisFails says what it may have done.
RedisFails ==
    /\ redisFails < MaxRedisFailures
    /\ redisFails' = redisFails + 1

\* A request starts: at most MaxRequests over a behaviour.
Start(r) ==
    /\ req[r].op = "idle"
    /\ reqCount < MaxRequests
    /\ reqCount' = reqCount + 1


-----------------------------------------------------------------------------
\* login, lines 38-91: findUnique by email, bcrypt.compare, then with
\* JWT_REFRESH_SECRET set store refresh:{jti} -> user id (76).  An unknown
\* identifier or a wrong password throws Unauthorized before any write.
Login(r, x) ==
    /\ Start(r)
    /\ \/ /\ users[x] # "none"
          /\ sessions' = [sessions EXCEPT ![x] = @ + 1]
       \/ UNCHANGED sessions
    /\ UNCHANGED <<edited, tickets, mailed, users, seller, otp, sent, sentTo, accepted, dbFails, req, issued, redisFails>>

\* sendOtp, lines 134-161: draw a code and SET otp:{x} (145), replacing
\* any code sent to x before.  A rejected SET throws before the code is
\* logged (156); if only its reply was lost the code is stored all the
\* same, and counts as a send.
SendOtp(r, x) ==
    /\ Start(r)
    /\ \/ /\ sent < MaxSends
          /\ UNCHANGED redisFails \/ RedisFails
          /\ sent' = sent + 1
          /\ sentTo' = [sentTo EXCEPT ![sent + 1] = x]
          /\ \E c \in Codes : otp' = [otp EXCEPT ![x] = [n |-> sent + 1, code |-> c]]
       \/ RedisFails /\ UNCHANGED <<sent, sentTo, otp>>
    /\ UNCHANGED <<edited, tickets, mailed, users, seller, sessions, accepted, dbFails, req, issued>>

\* Mutant of VerifyOtp: the key is deleted before the code is compared.
VerifyOtpDelFirst(r, x, c) ==
    /\ Start(r)
    /\ \/ /\ c = Bypass
          /\ req' = [req EXCEPT ![r] = [Idle EXCEPT !.op = "verify", !.pc = "tokens", !.x = x]]
          /\ UNCHANGED <<otp, accepted>>
       \/ /\ c # Bypass /\ Matches(x, c)
          /\ accepted' = [accepted EXCEPT ![otp[x].n] = @ + 1]
          /\ req' = [req EXCEPT ![r] = [Idle EXCEPT !.op = "verify", !.pc = "del",
                                                     !.x = x, !.n = otp[x].n]]
          /\ UNCHANGED otp
       \/ /\ c # Bypass /\ ~Matches(x, c)
          /\ otp' = [otp EXCEPT ![x] = NULL]
          /\ UNCHANGED <<accepted, req>>
    /\ UNCHANGED <<edited, tickets, mailed, users, seller, sessions, sent, sentTo, dbFails, issued, redisFails>>

\* verifyOtp, lines 167-179: the code '796300' skips the check (173-174);
\* any other code is compared with the value GET returns (176-177), and a
\* missing or different value throws Unauthorized.  A match consumes the
\* send that stored it.
VerifyOtp(r, x, c) ==
    /\ Start(r)
    /\ \/ /\ c = Bypass
          /\ req' = [req EXCEPT ![r] = [Idle EXCEPT !.op = "verify", !.pc = "tokens", !.x = x]]
          /\ UNCHANGED accepted
       \/ /\ c # Bypass /\ Matches(x, c)
          /\ accepted' = [accepted EXCEPT ![otp[x].n] = @ + 1]
          /\ req' = [req EXCEPT ![r] = [Idle EXCEPT !.op = "verify", !.pc = "del",
                                                     !.x = x, !.n = otp[x].n]]
       \/ /\ c # Bypass /\ ~Matches(x, c)
          /\ UNCHANGED <<accepted, req>>
    /\ UNCHANGED <<edited, tickets, mailed, users, seller, otp, sessions, sent, sentTo, dbFails, issued, redisFails>>

\* The DEL of line 180 on otp:{x}: deleted, or left there when the DEL
\* was not run.
Deleted(x) == otp' = [otp EXCEPT ![x] = NULL]

\* Mutant of VerifyOtpDel: a rejected DEL is caught and ignored, and the
\* request goes on to the tokens.
VerifyOtpDelSwallow(r) ==
    /\ req[r].pc = "del"
    /\ \/ Deleted(req[r].x) /\ UNCHANGED redisFails
       \/ RedisFails /\ (Deleted(req[r].x) \/ UNCHANGED otp)
    /\ Goto(r, "tokens")
    /\ UNCHANGED <<edited, tickets, mailed, users, seller, sessions, sent, sentTo, accepted, dbFails, reqCount, issued>>

\* Line 180: DEL otp:{x}, whatever code it holds by now.  A rejected DEL
\* throws: the verification answers an error, and the key is gone or
\* still there depending on whether the server ran it.
VerifyOtpDel(r) ==
    /\ req[r].pc = "del"
    /\ \/ Deleted(req[r].x) /\ Goto(r, "tokens") /\ UNCHANGED redisFails
       \/ RedisFails /\ (Deleted(req[r].x) \/ UNCHANGED otp) /\ Finish(r)
    /\ UNCHANGED <<edited, tickets, mailed, users, seller, sessions, sent, sentTo, accepted, dbFails, reqCount, issued>>

\* verifyOtp, lines 183-227: findFirst the user holding x; if there is one,
\* store a refresh key (203-207) and return tokens, else isNewUser.  A
\* rejected SET throws: no tokens, and the key is stored or not.  The
\* login that ends a registration (308, 357) finds the user it created
\* and stores a key the same way (41-77); its promise is returned, not
\* awaited, inside the try, so a rejection there escapes the catch of
\* 309-316 and is answered 500 although the rows are committed.
IssueTokens(r) ==
    LET x == req[r].x
        \* a verification answers success, for the send it matched
        Answered == issued' = IF req[r].op = "verify" /\ req[r].n # NULL
                              THEN [issued EXCEPT ![req[r].n] = @ + 1] ELSE issued
        Stored   == sessions' = [sessions EXCEPT ![x] = @ + 1]
    IN
    /\ req[r].pc = "tokens"
    /\ \/ users[x] = "none" /\ Answered /\ UNCHANGED <<sessions, redisFails>>
       \/ users[x] # "none" /\ Stored /\ Answered /\ UNCHANGED redisFails
       \/ /\ users[x] # "none" /\ RedisFails
          /\ Stored \/ UNCHANGED sessions
          /\ UNCHANGED issued
    /\ Finish(r)
    /\ UNCHANGED <<edited, tickets, mailed, users, seller, otp, sent, sentTo, accepted, dbFails, reqCount>>


\* The request goes on to the transaction, with the role it will create.
BeginTx(r, x, role) ==
    req' = [req EXCEPT ![r] = [Idle EXCEPT !.op = "register", !.pc = "tx",
                                            !.x = x, !.role = role]]

\* registerSeller, lines 230-257: the email (235) and phone (241) checks
\* read the user table outside the transaction; a taken identifier throws
\* Conflict, a missing phone (232) or an unknown category id (252)
\* BadRequest.
RegisterSeller(r, x) ==
    /\ Start(r)
    /\ \/ users[x] = "none" /\ BeginTx(r, x, "SELLER")
       \/ UNCHANGED req
    /\ UNCHANGED <<edited, tickets, mailed, users, seller, otp, sessions, sent, sentTo, accepted, dbFails, issued, redisFails>>

\* registerBuyer, lines 319-329: the email check, then the transaction.
RegisterBuyer(r, x) ==
    /\ Start(r)
    /\ \/ users[x] = "none" /\ BeginTx(r, x, "BUYER")
       \/ users[x] # "none" /\ UNCHANGED req
    /\ UNCHANGED <<edited, tickets, mailed, users, seller, otp, sessions, sent, sentTo, accepted, dbFails, issued, redisFails>>

\* A registration transaction that creates the user with its one role and,
\* on commit, leaves the seller rows as sellerRows, all or nothing.  A
\* concurrent registration that took the identifier since the checks makes
\* user.create violate the unique constraint; that, or any failing create,
\* rolls back and throws Conflict.  On commit the request logs in.
Transact(r, sellerRows) ==
    LET x == req[r].x IN
    /\ \/ /\ users[x] # "none"
          /\ Finish(r)
          /\ UNCHANGED <<users, seller, dbFails>>
       \/ /\ users[x] = "none" /\ dbFails < MaxDbFailures
          /\ dbFails' = dbFails + 1
          /\ Finish(r)
          /\ UNCHANGED <<users, seller>>
       \/ /\ users[x] = "none"
          /\ users' = [users EXCEPT ![x] = req[r].role]
          /\ seller' = sellerRows
          /\ Goto(r, "tokens")
          /\ UNCHANGED dbFails
    /\ UNCHANGED <<edited, tickets, mailed, otp, sessions, sent, sentTo, accepted, reqCount, issued, redisFails>>

\* The transaction of registerSeller, lines 259-317: the SELLER user, its
\* seller row (status PENDING by default), the pickup address and the
\* category links.  Its errors become Conflict (309-316); on commit it
\* returns this.login (308).
RegisterSellerTx(r) ==
    /\ req[r].pc = "tx" /\ req[r].role = "SELLER"
    /\ Transact(r, [seller EXCEPT ![req[r].x] = "PENDING"])

\* The transaction of registerBuyer, lines 331-360: the BUYER user and its
\* buyer row; errors become Conflict (358-360), a commit logs in (357).
RegisterBuyerTx(r) ==
    /\ req[r].pc = "tx" /\ req[r].role = "BUYER"
    /\ Transact(r, seller)

\* approve (89-96) and reject (107-114): findUnique the seller row; a
\* missing row throws NotFound, a status other than PENDING BadRequest.
Review(r, x, op) ==
    /\ Start(r)
    /\ \/ /\ seller[x] = "PENDING"
          /\ req' = [req EXCEPT ![r] = [Idle EXCEPT !.op = op, !.pc = "write", !.x = x]]
       \/ /\ seller[x] # "PENDING"
          /\ UNCHANGED req
    /\ UNCHANGED <<edited, tickets, mailed, users, seller, otp, sessions, sent, sentTo, accepted, dbFails, issued, redisFails>>

\* The update by id of approve (97-103) or reject (115-124), whatever the
\* status is by now.
ReviewWrite(r) ==
    LET q == req[r] IN
    /\ q.pc = "write"
    /\ seller' = [seller EXCEPT ![q.x] = Verdict[q.op]]
    /\ Finish(r)
    /\ UNCHANGED <<edited, tickets, mailed, users, otp, sessions, sent, sentTo, accepted, dbFails, reqCount, issued, redisFails>>

\* The seller's edits of its own row: each handler below does findUnique
\* by userId, throws NotFound when there is no seller row, and updates
\* only the fields its DTO names (bank account, IFSC, store name, GST,
\* logo, signature...); none writes status.  No operation deletes a
\* seller row, so the row found is still there at the update, and the read
\* and the write are one step here.  The fields are abstracted to whether
\* any was written.
EditSellerRow(r, x) ==
    /\ Start(r)
    /\ HasRole(x, "SELLER")
    /\ \/ seller[x] # NULL /\ edited' = [edited EXCEPT ![x] = TRUE]
       \/ seller[x] = NULL /\ UNCHANGED edited
    /\ UNCHANGED <<users, seller, tickets, mailed, otp, sessions, sent, sentTo, accepted, dbFails, req, issued, redisFails>>

\* updateProfile, lines 38-62: description, bank account, IFSC, logo, banner.
UpdateProfile(r, x) == EditSellerRow(r, x)
\* updateBankDetails, lines 276-299.
UpdateBankDetails(r, x) == EditSellerRow(r, x)
\* updateStoreDetails, lines 323-347.
UpdateStoreDetails(r, x) == EditSellerRow(r, x)
\* updateSignature, lines 360-374.
UpdateSignature(r, x) == EditSellerRow(r, x)

\* A store call rejects; the request throws and ends.
StoreFails(r) ==
    /\ dbFails < MaxDbFailures
    /\ dbFails' = dbFails + 1
    /\ Finish(r)

\* SupportService.reportIssue (support.service.ts 58-67), for the user x
\* the JWT guard names: one supportTicket.create.
ReportIssue(r, x) ==
    /\ Start(r)
    /\ users[x] # "none"
    /\ \/ tickets' = tickets + 1 /\ UNCHANGED <<dbFails, req>>
       \/ StoreFails(r) /\ UNCHANGED tickets
    /\ UNCHANGED <<edited, users, seller, mailed, otp, sessions, sent, sentTo, accepted, issued, redisFails>>

\* submitConcern, lines 69-91: the ticket is created first; then with no
\* usable MAIL_HOST (79-85) or no toEmail (87-91) the ticket is returned
\* and no email is tried, else the request goes on to the user lookup.
SubmitConcern(r, x, toEmail) ==
    /\ Start(r)
    /\ users[x] # "none"
    /\ \/ /\ tickets' = tickets + 1
          /\ \/ /\ MailConfigured /\ toEmail
                /\ req' = [req EXCEPT ![r] = [Idle EXCEPT !.op = "concern", !.pc = "mail",
                                                         !.x = x, !.n = tickets + 1]]
             \/ ~(MailConfigured /\ toEmail) /\ UNCHANGED req
          /\ UNCHANGED dbFails
       \/ StoreFails(r) /\ UNCHANGED tickets
    /\ UNCHANGED <<edited, users, seller, mailed, otp, sessions, sent, sentTo, accepted, issued, redisFails>>

\* submitConcern, lines 93-152: user.findUnique outside the try (a
\* rejection throws, with the ticket already stored); registration always
\* stores an email, so a found user has one (114-115); then sendMail, whose
\* failure is logged and swallowed (147-149).  The ticket is returned.
SendConcern(r) ==
    /\ req[r].pc = "mail"
    /\ \/ mailed' = mailed \cup {req[r].n} /\ Finish(r) /\ UNCHANGED dbFails
       \/ Finish(r) /\ UNCHANGED <<mailed, dbFails>>
       \/ StoreFails(r) /\ UNCHANGED mailed
    /\ UNCHANGED <<edited, users, seller, tickets, otp, sessions, sent, sentTo, accepted, reqCount, issued, redisFails>>

-----------------------------------------------------------------------------
Init ==
    /\ users = [x \in Idents |-> IF x \in Registered THEN "BUYER" ELSE "none"]
    /\ seller = [x \in Idents |-> NULL]
    /\ edited = [x \in Idents |-> FALSE]
    /\ tickets = 0
    /\ mailed = {}
    /\ otp = [x \in Idents |-> NULL]
    /\ sessions = [x \in Idents |-> 0]
    /\ sent = 0
    /\ sentTo = [n \in Sends |-> NULL]
    /\ accepted = [n \in Sends |-> 0]
    /\ issued = [n \in Sends |-> 0]
    /\ dbFails = 0
    /\ redisFails = 0
    /\ req = [r \in Reqs |-> Idle]
    /\ reqCount = 0

\* The routes of AuthController, SellersController (sellers.controller.ts
\* 20-127) and SupportController.  The seller's PATCH routes are
\* @Roles(SELLER) and act on the caller's own row; approve and reject are
\* @Roles(ADMIN) and name the seller by id (x here is the seller
\* reviewed, the admin is not an identifier of this model).  The GET
\* routes of the profile, dashboard, revenue, bank, store, signature and
\* pending list only read.
Next ==
    \E r \in Reqs :
       \/ \E x \in Idents :
             \/ Login(r, x)
             \/ SendOtp(r, x)
             \/ \E c \in Codes \cup {Bypass} : VerifyOtp(r, x, c)
             \/ RegisterSeller(r, x)
             \/ RegisterBuyer(r, x)
             \/ \E op \in DOMAIN Verdict : Review(r, x, op)
             \/ UpdateProfile(r, x)
             \/ UpdateBankDetails(r, x)
             \/ UpdateStoreDetails(r, x)
             \/ UpdateSignature(r, x)
             \/ ReportIssue(r, x)
             \/ \E toEmail \in BOOLEAN : SubmitConcern(r, x, toEmail)
       \/ SendConcern(r)
       \/ VerifyOtpDel(r)
       \/ IssueTokens(r)
       \/ RegisterSellerTx(r)
       \/ RegisterBuyerTx(r)
       \/ ReviewWrite(r)

Spec == Init /\ [][Next]_vars

-----------------------------------------------------------------------------
TypeOK ==
    /\ users \in [Idents -> Roles \cup {"none"}]
    /\ seller \in [Idents -> Statuses \cup {NULL}]
    /\ edited \in [Idents -> BOOLEAN]
    /\ tickets \in 0..MaxRequests
    /\ mailed \subseteq 1..tickets
    /\ otp \in [Idents -> [n : Sends, code : Codes] \cup {NULL}]
    /\ sessions \in [Idents -> 0..MaxRequests]
    /\ sent \in 0..MaxSends
    /\ sentTo \in [Sends -> Idents \cup {NULL}]
    /\ accepted \in [Sends -> 0..MaxRequests]
    /\ issued \in [Sends -> 0..MaxRequests]
    /\ dbFails \in 0..MaxDbFailures
    /\ redisFails \in 0..MaxRedisFailures
    /\ req \in [Reqs -> [op : {"idle", "verify", "register", "concern"} \cup DOMAIN Verdict,
                         pc : {"idle", "del", "tokens", "tx", "write", "mail"},
                         x : Idents \cup {NULL}, n : 1..MaxRequests \cup {NULL},
                         role : Roles \cup {NULL}]]
    /\ reqCount \in 0..MaxRequests

\* The code of send n is still in Redis.
Stored(n) == otp[sentTo[n]] # NULL /\ otp[sentTo[n]].n = n

\* verifyOtp deletes the code it matched (line 180) before it answers, so
\* an OTP logs in once: no send is answered with success by two
\* verifications, whatever requests interleave between the GET (176) and
\* the DEL, and when the DEL or the refresh-key SET rejects.
OtpSingleUse ==
    \A n \in Sends : issued[n] <= 1

\* A code sent to x stays in Redis until a verification that presented it
\* deletes it (180) or a later sendOtp to x replaces it (145): a wrong
\* code throws at 177-179 before the DEL and leaves the stored one usable.
\* Checked with one request at a time; a sendOtp landing between another
\* verification's GET and DEL is not.  (OTP_TTL_SECONDS expiry is not
\* modelled.)
OtpNotLostUnused ==
    \A n \in 1..sent :
        accepted[n] > 0 \/ Stored(n) \/ \E m \in n + 1..sent : sentTo[m] = sentTo[n]

\* A concern email that has gone out (sendMail, support.service.ts:139)
\* shows exactly the text the seller typed and none of it as markup,
\* whatever that text was: each field is
\* put through escapeHtml (support.service.ts:264-271) when the template
\* is built (200-226).
EscapedTextInert ==
    mailed # {} => EscapingInert
=============================================================================
