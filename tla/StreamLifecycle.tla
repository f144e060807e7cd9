-------------------------- MODULE StreamLifecycle --------------------------
(***************************************************************************)
(* The live-stream lifecycle of StreamsService (src/src/streams/          *)
(* streams.service.ts) together with the parts of LiveKitService          *)
(* (src/src/livekit/livekit.service.ts) and of the Prisma store that it    *)
(* drives.                                                                 *)
(*                                                                         *)
(* Every HTTP request runs in a request slot r \in Reqs.  A request is a  *)
(* sequence of steps, one per await of the handler that touches shared     *)
(* state (the stream table, the LiveKit room set), so that requests on the *)
(* same stream interleave exactly where Node.js can interleave them.       *)
(* Awaits on data that this model keeps static (seller profile, products,  *)
(* categories) are folded into the step that precedes them.                *)
(*                                                                         *)
(* Failures: the store (Prisma) and the room provider (LiveKit) may each  *)
(* reject a call; MaxDbFailures and MaxLkFailures bound how many times.    *)
(***************************************************************************)
EXTENDS Naturals, FiniteSets, Functions, TLC

CONSTANTS
    Users,              \* authenticated users (JwtAuthGuard)
    Sellers,            \* users with a seller profile and the SELLER role
    Anonymous,          \* holder of a token minted by the unauthenticated viewer-token route
    StreamIds,          \* the ids Prisma may generate for new stream rows
    Reqs,               \* concurrent HTTP request slots
    LiveKitConfigured,  \* LIVEKIT_URL, LIVEKIT_API_KEY and LIVEKIT_API_SECRET all set
    MaxRequests,        \* bound: lifecycle requests started over a behaviour
    MaxDbFailures,      \* bound: store calls that reject
    MaxLkFailures,      \* bound: LiveKit room-service calls that reject
    NULL

ASSUME Sellers \subseteq Users
ASSUME Anonymous \notin Users
ASSUME LiveKitConfigured \in BOOLEAN
ASSUME MaxRequests \in Nat /\ MaxDbFailures \in Nat /\ MaxLkFailures \in Nat

VARIABLES
    rows,           \* the stream table: id -> [isLive, ended, room]
    owner,          \* stream id -> seller user id (sellerId is fixed at creation)
    used,           \* ids already generated (uuids are never reused)
    rooms,          \* rooms that exist at the LiveKit server
    grants,         \* access tokens minted and handed to a client
    failedCreates,  \* ids of create requests that ended by throwing
    req,            \* per request slot: operation, program counter and locals
    reqCount,       \* lifecycle requests started so far
    dbFails,        \* store rejections so far
    lkFails,        \* LiveKit rejections so far
    clock           \* the value new Date() gives the next endedAt

store == <<rows, owner, used, failedCreates>>
vars  == <<rows, owner, used, rooms, grants, failedCreates, req, reqCount,
           dbFails, lkFails, clock>>

(***************************************************************************)
(* A stream row.  ended = NULL models endedAt = null; room = TRUE models    *)
(* livekitRoomName and livekitUrl both set (they are written by one       *)
(* update, streams.service.ts:121-124, and never cleared).  startedAt is   *)
(* set by the insert and never changes, so it is not represented.          *)
(***************************************************************************)
Row == [isLive : BOOLEAN, ended : {NULL} \cup Nat, room : BOOLEAN]

Grant == [sid : StreamIds, holder : Users \cup {Anonymous}, publish : BOOLEAN]

Ops == {"idle", "create", "stop", "remove"}
Pcs == {"idle", "persist", "createRoom", "update", "reload", "compensate",
        "deleteRoom", "write"}

Idle == [op |-> "idle", pc |-> "idle", user |-> NULL, sid |-> NULL,
         hadRoom |-> FALSE]

Goto(r, l) == req' = [req EXCEPT ![r].pc = l]
Finish(r)  == req' = [req EXCEPT ![r] = Idle]

\* A store call rejects (connection loss, timeout, constraint error).
DbFail == dbFails < MaxDbFailures /\ dbFails' = dbFails + 1
\* A LiveKit room-service call rejects (ECONNREFUSED, fetch failed, 4xx/5xx).
LkFail == lkFails < MaxLkFailures /\ lkFails' = lkFails + 1

DeleteRow(sid) == rows' = Restrict(rows, DOMAIN rows \ {sid})

-----------------------------------------------------------------------------
(***************************************************************************)
(* create (streams.service.ts:40-152)                                      *)
(***************************************************************************)

\* Mutant of Create: the seller lookup of lines 47-52 is left out, so a
\* user without a seller profile creates a stream.
CreateNoSellerCheck(r) ==
    /\ req[r].op = "idle"
    /\ reqCount < MaxRequests
    /\ used # StreamIds
    /\ reqCount' = reqCount + 1
    /\ \E u \in Users, valid \in BOOLEAN :
         \/ /\ LiveKitConfigured /\ valid
            /\ \E sid \in StreamIds \ used :
                 /\ used' = used \cup {sid}
                 /\ req' = [req EXCEPT ![r] = [op |-> "create", pc |-> "persist",
                              user |-> u, sid |-> sid, hadRoom |-> FALSE]]
         \/ /\ ~(LiveKitConfigured /\ valid)
            /\ UNCHANGED <<used, req>>
    /\ UNCHANGED <<rows, owner, rooms, grants, failedCreates, dbFails, lkFails, clock>>

\* Lines 41-83: LiveKit configuration, seller profile, product ownership and
\* category checks.  All read data this model keeps static, so they are one
\* step; valid stands for "every productId is the seller's and the category
\* exists".  A rejection throws before any side effect.  The id Prisma will
\* give the row is drawn here; the pool StreamIds bounds how many creates run.
Create(r) ==
    /\ req[r].op = "idle"
    /\ reqCount < MaxRequests
    /\ used # StreamIds
    /\ reqCount' = reqCount + 1
    /\ \E u \in Users, valid \in BOOLEAN :
         \/ /\ LiveKitConfigured /\ u \in Sellers /\ valid
            /\ \E sid \in StreamIds \ used :
                 /\ used' = used \cup {sid}
                 /\ req' = [req EXCEPT ![r] = [op |-> "create", pc |-> "persist",
                              user |-> u, sid |-> sid, hadRoom |-> FALSE]]
         \/ /\ ~(LiveKitConfigured /\ u \in Sellers /\ valid)
            /\ UNCHANGED <<used, req>>
    /\ UNCHANGED <<rows, owner, rooms, grants, failedCreates, dbFails, lkFails, clock>>

\* Lines 85-102: insert the row with isLive = true before the room exists.
CreatePersist(r) ==
    LET q == req[r] IN
    /\ q.pc = "persist"
    /\ \/ /\ rows' = rows @@ (q.sid :> [isLive |-> TRUE, ended |-> NULL, room |-> FALSE])
          /\ owner' = owner @@ (q.sid :> q.user)
          /\ Goto(r, "createRoom")
          /\ UNCHANGED dbFails
       \/ /\ DbFail
          /\ Finish(r)
          /\ UNCHANGED <<rows, owner>>
    /\ UNCHANGED <<used, rooms, grants, failedCreates, reqCount, lkFails, clock>>

\* Mutant of CreateRoom: a createRoom rejection is logged and swallowed,
\* and the handler goes on to record the room.
CreateRoomSwallow(r) ==
    LET q == req[r] IN
    /\ q.pc = "createRoom"
    /\ \/ /\ rooms' = rooms \cup {q.sid} /\ UNCHANGED lkFails
       \/ /\ LkFail /\ UNCHANGED rooms
    /\ Goto(r, "update")
    /\ UNCHANGED <<store, grants, reqCount, dbFails, clock>>

\* Mutant of CreateRoom: no try/catch, a createRoom rejection propagates
\* with no compensation.
CreateRoomNoCatch(r) ==
    LET q == req[r] IN
    /\ q.pc = "createRoom"
    /\ \/ /\ rooms' = rooms \cup {q.sid} /\ Goto(r, "update") /\ UNCHANGED lkFails
       \/ /\ LkFail /\ Finish(r) /\ UNCHANGED rooms
    /\ UNCHANGED <<store, grants, reqCount, dbFails, clock>>

\* Lines 104-113 with LiveKitService.createRoom (livekit.service.ts:66-74).
\* Unreachable and other errors differ only in the exception thrown at
\* lines 145-150; both run the same compensation.
CreateRoom(r) ==
    LET q == req[r] IN
    /\ q.pc = "createRoom"
    /\ \/ /\ rooms' = rooms \cup {q.sid}
          /\ Goto(r, "update")
          /\ UNCHANGED lkFails
       \/ /\ LkFail
          /\ Goto(r, "compensate")
          /\ UNCHANGED rooms
    /\ UNCHANGED <<store, grants, reqCount, dbFails, clock>>

\* Mutant of CreateUpdate: the update that records the room also sets
\* isLive = true, reviving a stream stopped meanwhile.
CreateUpdateRelive(r) ==
    LET q == req[r] IN
    /\ q.pc = "update"
    /\ \/ /\ q.sid \in DOMAIN rows
          /\ rows' = [rows EXCEPT ![q.sid].room = TRUE, ![q.sid].isLive = TRUE]
          /\ Goto(r, "reload")
          /\ UNCHANGED dbFails
       \/ /\ q.sid \notin DOMAIN rows
          /\ Goto(r, "compensate")
          /\ UNCHANGED <<rows, dbFails>>
       \/ /\ q.sid \in DOMAIN rows
          /\ DbFail
          /\ Goto(r, "compensate")
          /\ UNCHANGED rows
    /\ UNCHANGED <<owner, used, rooms, grants, failedCreates, reqCount, lkFails, clock>>

\* Lines 115-124: mint the publisher token (no I/O), then record the room.
\* The update rejects when the row is gone (P2025) or the store fails.
CreateUpdate(r) ==
    LET q == req[r] IN
    /\ q.pc = "update"
    /\ \/ /\ q.sid \in DOMAIN rows
          /\ rows' = [rows EXCEPT ![q.sid].room = TRUE]
          /\ Goto(r, "reload")
          /\ UNCHANGED dbFails
       \/ /\ q.sid \notin DOMAIN rows
          /\ Goto(r, "compensate")
          /\ UNCHANGED <<rows, dbFails>>
       \/ /\ q.sid \in DOMAIN rows
          /\ DbFail
          /\ Goto(r, "compensate")
          /\ UNCHANGED rows
    /\ UNCHANGED <<owner, used, rooms, grants, failedCreates, reqCount, lkFails, clock>>

\* Lines 126-136: re-read the row and return it with the publisher token.
\* A row removed meanwhile makes findUnique return null and the spread of
\* null returns the token alone: the request still succeeds.
CreateReload(r) ==
    LET q == req[r] IN
    /\ q.pc = "reload"
    /\ \/ /\ grants' = grants \cup {[sid |-> q.sid, holder |-> q.user, publish |-> TRUE]}
          /\ Finish(r)
          /\ UNCHANGED dbFails
       \/ /\ DbFail
          /\ Goto(r, "compensate")
          /\ UNCHANGED grants
    /\ UNCHANGED <<store, rooms, reqCount, lkFails, clock>>

\* Lines 137-151: delete the row, swallowing any rejection (.catch(() => {})),
\* then rethrow.  The room, if it was created, is left at the provider.
CreateCompensate(r) ==
    LET q == req[r] IN
    /\ q.pc = "compensate"
    /\ \/ /\ DeleteRow(q.sid)
          /\ UNCHANGED dbFails
       \/ /\ q.sid \in DOMAIN rows
          /\ DbFail
          /\ UNCHANGED rows
    /\ failedCreates' = failedCreates \cup {q.sid}
    /\ Finish(r)
    /\ UNCHANGED <<owner, used, rooms, grants, reqCount, lkFails, clock>>

-----------------------------------------------------------------------------
(***************************************************************************)
(* stopStream (230-242) and remove (222-228)                               *)
(***************************************************************************)

\* assertStreamOwnership (201-212) and the read of livekitRoomName at
\* lines 224/232: NotFound and Forbidden throw before any side effect.  The
\* room flag read here is used after the next await.
StartOwned(r, op) ==
    /\ req[r].op = "idle"
    /\ reqCount < MaxRequests
    /\ reqCount' = reqCount + 1
    /\ \E u \in Sellers, sid \in DOMAIN owner :
         \/ /\ sid \in DOMAIN rows /\ owner[sid] = u
            /\ req' = [req EXCEPT ![r] = [op |-> op,
                         pc |-> IF rows[sid].room THEN "deleteRoom" ELSE "write",
                         user |-> u, sid |-> sid, hadRoom |-> rows[sid].room]]
         \/ /\ sid \notin DOMAIN rows \/ owner[sid] # u
            /\ UNCHANGED req
    /\ UNCHANGED <<store, rooms, grants, dbFails, lkFails, clock>>

Stop(r)   == StartOwned(r, "stop")
Remove(r) == StartOwned(r, "remove")

\* LiveKitService.deleteRoom (livekit.service.ts:79-86): a rejection,
\* including "room not found", is swallowed.
RoomDelete(r) ==
    LET q == req[r] IN
    /\ q.pc = "deleteRoom"
    /\ \/ /\ rooms' = rooms \ {q.sid}
          /\ UNCHANGED lkFails
       \/ /\ LkFail
          /\ UNCHANGED rooms
    /\ Goto(r, "write")
    /\ UNCHANGED <<store, grants, reqCount, dbFails, clock>>

\* Lines 235-241: isLive = false, endedAt = now.  Nothing checks that the
\* stream is still live.
StopWrite(r) ==
    LET q == req[r] IN
    /\ q.pc = "write" /\ q.op = "stop"
    /\ \/ /\ q.sid \in DOMAIN rows
          /\ rows' = [rows EXCEPT ![q.sid].isLive = FALSE, ![q.sid].ended = clock]
          /\ clock' = clock + 1
          /\ UNCHANGED dbFails
       \/ /\ q.sid \notin DOMAIN rows
          /\ UNCHANGED <<rows, clock, dbFails>>
       \/ /\ q.sid \in DOMAIN rows
          /\ DbFail
          /\ UNCHANGED <<rows, clock>>
    /\ Finish(r)
    /\ UNCHANGED <<owner, used, rooms, grants, failedCreates, reqCount, lkFails>>

\* Line 227: delete the row whatever its live state.
RemoveWrite(r) ==
    LET q == req[r] IN
    /\ q.pc = "write" /\ q.op = "remove"
    /\ \/ /\ q.sid \in DOMAIN rows
          /\ DeleteRow(q.sid)
          /\ UNCHANGED dbFails
       \/ /\ q.sid \notin DOMAIN rows
          /\ UNCHANGED <<rows, dbFails>>
       \/ /\ q.sid \in DOMAIN rows
          /\ DbFail
          /\ UNCHANGED rows
    /\ Finish(r)
    /\ UNCHANGED <<owner, used, rooms, grants, failedCreates, reqCount, lkFails, clock>>

-----------------------------------------------------------------------------
(***************************************************************************)
(* Token routes: one read, then token minting that does no I/O.            *)
(***************************************************************************)

\* getJoinToken (247-277): the owner gets a publisher grant, anyone else a
\* subscriber grant, provided the row records a room.
IssueJoinToken ==
    \E u \in Users, sid \in DOMAIN rows :
       /\ LiveKitConfigured
       /\ rows[sid].room
       /\ grants' = grants \cup {[sid |-> sid, holder |-> u, publish |-> owner[sid] = u]}
       /\ UNCHANGED <<store, rooms, req, reqCount, dbFails, lkFails, clock>>

\* getViewerToken (283-303): unauthenticated, always a subscriber grant.
IssueViewerToken ==
    \E sid \in DOMAIN rows :
       /\ LiveKitConfigured
       /\ rows[sid].room
       /\ grants' = grants \cup {[sid |-> sid, holder |-> Anonymous, publish |-> FALSE]}
       /\ UNCHANGED <<store, rooms, req, reqCount, dbFails, lkFails, clock>>

-----------------------------------------------------------------------------
Init ==
    /\ rows = <<>>
    /\ owner = <<>>
    /\ used = {}
    /\ rooms = {}
    /\ grants = {}
    /\ failedCreates = {}
    /\ req = [r \in Reqs |-> Idle]
    /\ reqCount = 0
    /\ dbFails = 0
    /\ lkFails = 0
    /\ clock = 0

\* The steps of a request already in flight: the handler runs to its end.
InFlight(r) ==
    \/ CreatePersist(r) \/ CreateRoom(r) \/ CreateUpdate(r) \/ CreateReload(r)
    \/ CreateCompensate(r) \/ RoomDelete(r) \/ StopWrite(r) \/ RemoveWrite(r)

\* The routes of StreamsController (streams.controller.ts 23-104): create,
\* stopStream and remove need the SELLER role (Create and StartOwned take a
\* seller), getJoinToken a JWT (any user), the two viewer-token routes no
\* caller at all.  update and the reads have no action.
Next ==
    \/ \E r \in Reqs : Create(r) \/ Stop(r) \/ Remove(r) \/ InFlight(r)
    \/ IssueJoinToken
    \/ IssueViewerToken

\* Each awaited call eventually settles (no cancellation, livekit.service.ts
\* and Prisma both resolve or reject), so an in-flight handler keeps going.
\* Clients are not obliged to send requests.
Fairness == \A r \in Reqs : WF_vars(InFlight(r))

Spec == Init /\ [][Next]_vars /\ Fairness

-----------------------------------------------------------------------------
TypeOK ==
    /\ DOMAIN rows \subseteq used /\ \A sid \in DOMAIN rows : rows[sid] \in Row
    /\ DOMAIN owner \subseteq used /\ \A sid \in DOMAIN owner : owner[sid] \in Sellers
    /\ used \subseteq StreamIds
    /\ rooms \subseteq StreamIds
    /\ grants \subseteq Grant
    /\ failedCreates \subseteq used
    /\ req \in [Reqs -> [op : Ops, pc : Pcs, user : Users \cup {NULL},
                         sid : StreamIds \cup {NULL}, hadRoom : BOOLEAN]]
    /\ reqCount \in 0..MaxRequests
    /\ dbFails \in 0..MaxDbFailures
    /\ lkFails \in 0..MaxLkFailures
    /\ clock \in Nat

\* A row in the CREATING phase: persisted, live, room not yet recorded.
Creating(sid) == sid \in DOMAIN rows /\ rows[sid].isLive /\ ~rows[sid].room

\* A stop or remove of sid is between its ownership read and its write.
TearingDown(sid) ==
    \E r \in Reqs : req[r].op \in {"stop", "remove"} /\ req[r].sid = sid

Quiescent == \A r \in Reqs : req[r].op = "idle"

-----------------------------------------------------------------------------
(***************************************************************************)
(* Properties                                                              *)
(***************************************************************************)

\* spec section 8: if creating the stream fails, no stream row is left
\* behind.  The compensation at streams.service.ts:144 must remove the row
\* whichever step failed and whatever stop or remove ran on it meanwhile.
CompensationRemovesRow ==
    \A sid \in failedCreates : sid \notin DOMAIN rows

\* spec section 3: the CREATING phase is transient.  A persisted live row
\* without a room (streams.service.ts:85-102) eventually gets its room,
\* stops being live, or disappears.
CreatingResolves ==
    \A sid \in StreamIds : Creating(sid) ~> ~Creating(sid)

\* A live stream that records a room identifier has that room at LiveKit,
\* unless a stop or remove is tearing it down: room identifiers are only
\* written after createRoom succeeded (streams.service.ts:106-124), and a
\* room is only deleted by a stop or remove that then ends the row.
LiveRoomExists ==
    \A sid \in DOMAIN rows :
        rows[sid].isLive /\ rows[sid].room /\ ~TearingDown(sid) => sid \in rooms

\* spec section 4.2: stop rejects a stream that is not live, so endedAt,
\* once written by stopStream (streams.service.ts:235-241), never changes.
EndedAtStable ==
    [][\A sid \in DOMAIN rows \cap DOMAIN rows' :
          rows[sid].ended # NULL => rows'[sid].ended = rows[sid].ended]_vars

\* spec section 3: a stopped stream's room is deleted and a removed stream
\* has none, so once no lifecycle request is in flight every LiveKit room
\* belongs to a live stream row.
RoomOnlyForLiveStream ==
    Quiescent => \A sid \in rooms : sid \in DOMAIN rows /\ rows[sid].isLive

(***************************************************************************)
(* Refinement of the session lifecycle of the spec (StreamSession).  A     *)
(* row's phase is read off the stream table: owner records every id that  *)
(* was ever persisted, so an id in it without a row has been deleted.      *)
(***************************************************************************)
Phase(sid) ==
    CASE sid \notin DOMAIN owner -> "absent"
      [] sid \notin DOMAIN rows  -> "gone"
      [] ~rows[sid].isLive       -> "stopped"
      [] rows[sid].room          -> "live"
      [] OTHER                   -> "creating"

Session == INSTANCE StreamSession WITH Ids <- StreamIds,
                                        phase <- [sid \in StreamIds |-> Phase(sid)]

\* spec section 3: every behaviour of the handlers, projected on the rows,
\* is a behaviour of the session lifecycle: a stopped or deleted stream is
\* never live again, a stop only ends a live row, and a row is created
\* only once, whatever the interleaving of create's awaits
\* (streams.service.ts:85-151) with stopStream and remove (222-242).
SessionRefinement == Session!Spec

=============================================================================
