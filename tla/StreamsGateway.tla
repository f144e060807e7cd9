--------------------------- MODULE StreamsGateway ---------------------------
(***************************************************************************)
(* The socket.io gateway of src/src/streams/streams.gateway.ts and the     *)
(* Redis presence sets it keeps through RedisService                        *)
(* (src/src/redis/redis.service.ts).                                        *)
(*                                                                         *)
(* Each gateway process (an element of Instances) owns one ioredis client. *)
(* ioredis sends the commands of one client over one connection, Redis     *)
(* runs them in that order and the replies come back in that order; the    *)
(* model therefore applies a command to the Redis sets when the handler     *)
(* issues it and queues its reply in pending[i], which delivers replies in *)
(* FIFO order.  A handler's code after an await runs when its reply is     *)
(* delivered.  socket.io's server.to(room).emit reaches the sockets of     *)
(* the emitting process only: the gateway installs no Redis adapter.       *)
(***************************************************************************)
EXTENDS Naturals, FiniteSets, Sequences

CONSTANTS
    Conns,        \* socket ids
    Streams,      \* stream ids clients name in their payloads
    Instances,    \* gateway processes
    Home,         \* Home[c]: the process socket c is connected to
    Kinds,        \* relayed events: chat_message, like_stream, pin_product
    MaxEvents,    \* bound: client events (join_room and relays) handled
    MaxCrashes,   \* bound: gateway process crashes
    NULL

ASSUME Home \in [Conns -> Instances]
ASSUME MaxEvents \in Nat
ASSUME MaxCrashes \in Nat

VARIABLES
    status,     \* socket state: "new", "open" or "closed"
    ctx,        \* the streamId the join handler stores on the socket object
    joined,     \* socket.io rooms (one per stream) the socket is in
    presence,   \* Redis set stream:viewers:{streamId} -> socket ids
    pending,    \* per process: replies of issued Redis commands, in order
    seen,       \* seen[c][s]: last viewer_count for s socket c received
    heard,      \* relayed (kind, stream) events socket c received
    events,     \* client events handled so far
    crashes     \* process crashes so far

vars == <<status, ctx, joined, presence, pending, seen, heard, events, crashes>>

Reply == [conn : Conns, cmd : {"sadd", "srem", "scard"}, sid : Streams,
          count : 0..Cardinality(Conns)]

\* The sockets a server.to(`stream:${s}`).emit on process i reaches.
Audience(i, s) == {m \in Conns : status[m] = "open" /\ s \in joined[m] /\ Home[m] = i}

\* Issue a Redis command on c's process whose reply carries count n.
Issue(c, cmd, s, n) ==
    pending' = [pending EXCEPT ![Home[c]] =
                  Append(@, [conn |-> c, cmd |-> cmd, sid |-> s, count |-> n])]

-----------------------------------------------------------------------------
\* socket.io accepts the connection; the gateway has no connection handler.
Connect(c) ==
    /\ status[c] = "new"
    /\ status' = [status EXCEPT ![c] = "open"]
    /\ UNCHANGED <<ctx, joined, presence, pending, seen, heard, events, crashes>>

\* handleJoinRoom, lines 37-48: store the streamId on the socket (replacing
\* any earlier one), join the room, SADD.  A payload without streamId
\* returns at line 43 and changes nothing.
JoinRoom(c, s) ==
    /\ status[c] = "open"
    /\ events < MaxEvents
    /\ events' = events + 1
    /\ ctx' = [ctx EXCEPT ![c] = s]
    /\ joined' = [joined EXCEPT ![c] = @ \cup {s}]
    /\ presence' = [presence EXCEPT ![s] = @ \cup {c}]
    /\ Issue(c, "sadd", s, 0)
    /\ UNCHANGED <<status, seen, heard, crashes>>

\* handleDisconnect, lines 25-29: socket.io has already removed the socket
\* from its rooms; the handler SREMs it from the one stream stored on it.
Disconnect(c) ==
    /\ status[c] = "open"
    /\ status' = [status EXCEPT ![c] = "closed"]
    /\ joined' = [joined EXCEPT ![c] = {}]
    /\ IF ctx[c] # NULL
          THEN /\ presence' = [presence EXCEPT ![ctx[c]] = @ \ {c}]
               /\ Issue(c, "srem", ctx[c], 0)
          ELSE UNCHANGED <<presence, pending>>
    /\ UNCHANGED <<ctx, seen, heard, events, crashes>>

\* Mutant of AfterUpdate: the count is taken as one more than the set size.
AfterUpdateOffByOne(i) ==
    LET h == Head(pending[i]) IN
    /\ pending[i] # << >>
    /\ h.cmd \in {"sadd", "srem"}
    /\ pending' = [pending EXCEPT ![i] =
                     Append(Tail(@), [h EXCEPT !.cmd = "scard",
                                               !.count = Cardinality(presence[h.sid]) + 1])]
    /\ UNCHANGED <<status, ctx, joined, presence, seen, heard, events, crashes>>

\* The continuation after SADD (line 49) or SREM (line 30): SCARD.
AfterUpdate(i) ==
    LET h == Head(pending[i]) IN
    /\ pending[i] # << >>
    /\ h.cmd \in {"sadd", "srem"}
    /\ pending' = [pending EXCEPT ![i] =
                     Append(Tail(@), [h EXCEPT !.cmd = "scard",
                                               !.count = Cardinality(presence[h.sid])])]
    /\ UNCHANGED <<status, ctx, joined, presence, seen, heard, events, crashes>>

\* Mutant of EmitCount: client.emit instead of server.to(room).emit, so
\* only the socket whose event ran the handler receives the count.
EmitCountToSender(i) ==
    LET h == Head(pending[i]) IN
    /\ pending[i] # << >>
    /\ h.cmd = "scard"
    /\ pending' = [pending EXCEPT ![i] = Tail(@)]
    /\ seen' = [m \in Conns |->
                  IF m \in Audience(i, h.sid) \cap {h.conn}
                     THEN [seen[m] EXCEPT ![h.sid] = h.count] ELSE seen[m]]
    /\ UNCHANGED <<status, ctx, joined, presence, heard, events, crashes>>

\* The continuation after SCARD (lines 31-33, 50): emit viewer_count with
\* the count to the room, as this process sees it now.
EmitCount(i) ==
    LET h == Head(pending[i]) IN
    /\ pending[i] # << >>
    /\ h.cmd = "scard"
    /\ pending' = [pending EXCEPT ![i] = Tail(@)]
    /\ seen' = [m \in Conns |->
                  IF m \in Audience(i, h.sid)
                     THEN [seen[m] EXCEPT ![h.sid] = h.count] ELSE seen[m]]
    /\ UNCHANGED <<status, ctx, joined, presence, heard, events, crashes>>

\* handleChatMessage (54-70), handleLikeStream (72-81), handlePinProduct
\* (83-101): broadcast to the room on the sender's process.  The sender
\* need not be in the room; pin_product is not checked against the owner.
\* A payload lacking streamId (or message / productId) is dropped.
Relay(c, k, s) ==
    /\ status[c] = "open"
    /\ events < MaxEvents
    /\ events' = events + 1
    /\ heard' = [m \in Conns |->
                   IF m \in Audience(Home[c], s) THEN heard[m] \cup {<<k, s>>} ELSE heard[m]]
    /\ UNCHANGED <<status, ctx, joined, presence, pending, seen, crashes>>

\* Process i dies without a graceful shutdown (a kill or an out-of-memory
\* exit, which the shutdown hooks of main.ts:35 do not see): its sockets
\* drop without handleDisconnect (lines 25-35) running, and the replies
\* its ioredis client was waiting for are lost with their continuations.
\* The Redis sets outlive the process.  A restarted process accepts new
\* sockets, which Connect covers.
Crash(i) ==
    /\ crashes < MaxCrashes
    /\ crashes' = crashes + 1
    /\ \E m \in Conns : Home[m] = i /\ status[m] = "open"
    /\ status' = [m \in Conns |-> IF Home[m] = i /\ status[m] = "open"
                                  THEN "closed" ELSE status[m]]
    /\ joined' = [m \in Conns |-> IF Home[m] = i THEN {} ELSE joined[m]]
    /\ pending' = [pending EXCEPT ![i] = << >>]
    /\ UNCHANGED <<ctx, presence, seen, heard, events>>

-----------------------------------------------------------------------------
Init ==
    /\ status = [c \in Conns |-> "new"]
    /\ ctx = [c \in Conns |-> NULL]
    /\ joined = [c \in Conns |-> {}]
    /\ presence = [s \in Streams |-> {}]
    /\ pending = [i \in Instances |-> << >>]
    /\ seen = [c \in Conns |-> [s \in Streams |-> NULL]]
    /\ heard = [c \in Conns |-> {}]
    /\ events = 0
    /\ crashes = 0

\* Reply processing on process i.
Deliver(i) == AfterUpdate(i) \/ EmitCount(i)

Next ==
    \/ \E c \in Conns : Connect(c) \/ Disconnect(c)
    \/ \E c \in Conns, s \in Streams : JoinRoom(c, s)
    \/ \E c \in Conns, k \in Kinds, s \in Streams : Relay(c, k, s)
    \/ \E i \in Instances : Deliver(i) \/ Crash(i)

\* Redis answers every command and the event loop runs every continuation.
Fairness == \A i \in Instances : WF_vars(Deliver(i))

Spec == Init /\ [][Next]_vars /\ Fairness

-----------------------------------------------------------------------------
TypeOK ==
    /\ status \in [Conns -> {"new", "open", "closed"}]
    /\ ctx \in [Conns -> Streams \cup {NULL}]
    /\ joined \in [Conns -> SUBSET Streams]
    /\ presence \in [Streams -> SUBSET Conns]
    /\ pending \in [Instances -> Seq(Reply)]
    /\ seen \in [Conns -> [Streams -> (0..Cardinality(Conns)) \cup {NULL}]]
    /\ heard \in [Conns -> SUBSET (Kinds \X Streams)]
    /\ events \in 0..MaxEvents
    /\ crashes \in 0..MaxCrashes

\* No handler continuation is waiting for Redis.
Settled == \A i \in Instances : pending[i] = << >>

\* spec section 8: two joins yield a count of 2 whatever their arrival
\* order.  Once every handler continuation has run, each open socket shows,
\* for every stream room it is in, the size of the Redis presence set as it
\* is now.  The SADD/SREM, SCARD and emit of concurrent handlers
\* (streams.gateway.ts:25-52) interleave; only the FIFO reply order of one
\* ioredis client makes the last emit carry the last count.  It compares
\* with the Redis set, not with the live sockets: whether the set itself is
\* right is PresenceMatchesRoom, which a crash (dead sockets stay in the
\* set) or a second join of one socket breaks.
AccurateViewerCount ==
    Settled =>
        \A m \in Conns, s \in Streams :
            status[m] = "open" /\ s \in joined[m] => seen[m][s] = Cardinality(presence[s])

\* spec section 8: a connection that joins and then disconnects leaves the
\* presence set as it was.  Once handlers have settled, the presence set
\* of every stream is exactly the open sockets in that stream's room.
PresenceMatchesRoom ==
    Settled =>
        \A s \in Streams :
            presence[s] = {m \in Conns : status[m] = "open" /\ s \in joined[m]}

=============================================================================
