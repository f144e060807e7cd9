# TLA+ models of the Vybekart backend

This directory holds TLC-checkable models of the parts of the backend under
`src/` where concurrency and partial failure decide correctness:

- the live-stream lifecycle, with an abstract session specification it refines;
- the socket.io gateway with its Redis presence sets;
- orders, products and stock;
- accounts: login, OTP, registration, seller verification and the seller's
  own edits, support tickets and the escaping of the concern email.

Every action names, in its comment, the lines it translates. `PROJECT.json`:

- maps each definition to its source lines;
- lists the runs and the mutants that show each checked property can fail;
- records the findings and the hazards.

## The system and how its parts interact

| Part | Source | State | Operations |
|---|---|---|---|
| Stream lifecycle orchestrator | `streams/streams.service.ts`, `streams.controller.ts` | stream rows (isLive, endedAt, room ids) | create, stopStream, remove, getJoinToken, getViewerToken, update, reads |
| Room provider client | `livekit/livekit.service.ts` | rooms at LiveKit | createRoom, deleteRoom (swallows errors), token minting, URL derivation |
| Realtime gateway | `streams/streams.gateway.ts` | socket rooms, `client.streamId` | join_room, disconnect, chat_message, like_stream, pin_product |
| Presence tracker | `redis/redis.service.ts` | Redis set `stream:viewers:{id}` | sadd, srem, scard |
| Orders and stock | `orders/orders.service.ts`, `orders.controller.ts` | order rows (status, items), product stock | create, accept, ship, deliver, cancel, return |
| Products | `products/products.service.ts` | product rows and their stock | create, update, remove, reads |
| Auth | `auth/auth.service.ts` | users; refresh keys and OTPs in Redis | register, login, refresh, OTP send/verify |
| Sellers | `sellers/sellers.service.ts` | seller rows (status, profile fields) | approve, reject, profile/bank/store/signature edits, reads |
| Support | `support/support.service.ts` | support tickets; outbound email | reportIssue, submitConcern, reads |
| Users, buyers, catalog tables | the remaining services | — | reads only |

How the parts interact:

- The gateway and the lifecycle share no state. A client names a stream id in
  `join_room`, and nothing checks that the stream exists or is live.
- The lifecycle drives LiveKit. Both the lifecycle and LiveKit go through the
  Prisma store, which has no optimistic locking.
- Orders touch products only through `stock`.
- A seller row is created with its user in the registration transaction, and
  the admin review and the seller's edits then update it.

## Modules

### `StreamSession`: the abstract lifecycle

Each session id moves absent → creating → live → stopped, and may reach `gone`
from any persisted phase. There are no requests, awaits or external calls.

`StreamLifecycle` instantiates it as `Session`:

- it maps `phase[sid]` from the row, the owner, `isLive` and the room id (`Phase`);
- it checks `SessionRefinement == Session!Spec` as a property.

### `StreamLifecycle` (with `MC_StreamLifecycle`)

**State.**

- `rows`: the stream table, id ↦ [isLive, ended, room]. `room` stands for
  `livekitRoomName`/`livekitUrl`, which are written together.
- `owner` and `used` (ids already generated).
- `rooms`: rooms existing at LiveKit.
- `grants`: tokens handed to clients.
- `failedCreates`: create requests that threw.
- `req`: one record per HTTP request slot (operation, program counter, locals).

**Actions.** Each request has one action per await that touches shared state:

- `Create`: validation, lines 41-83.
- `CreatePersist`: the insert with isLive=true, 85-102.
- `CreateRoom`: 104-113.
- `CreateUpdate`: the room ids, 121-124.
- `CreateReload`: 128-136.
- `CreateCompensate`: the catch, 137-151.
- `Stop`/`Remove` → `RoomDelete` → `StopWrite`/`RemoveWrite`: 222-242.
- `IssueJoinToken` and `IssueViewerToken`: 247-303.
- `Next` follows the guards of the controller's routes. Create, stop and remove
  need a seller; a join token needs any user; a viewer token needs nobody.

**Type invariant.** `TypeOK` also says that every stream's owner is a
seller. `MC_Users` holds `b1`, a user with no seller profile, so the seller
lookup of create (47-52) rejects a caller the model really offers.

**Failures.** `DbFail` and `LkFail` are store and LiveKit rejections:

- each is bounded by `MaxDbFailures` or `MaxLkFailures`;
- each is taken at every await where the code can see one.

**Fairness.** Weak fairness on each slot's in-flight steps:

- every awaited Prisma or LiveKit call settles (there is no cancellation, spec §5);
- clients are never obliged to send requests.

### `StreamsGateway` (with `MC_StreamsGateway`)

**State.**

- Per socket: status, `ctx` (the `client.streamId` field), the rooms joined,
  `seen` (the last `viewer_count` received per stream) and `heard` (relayed events).
- `presence`: the Redis sets.
- `pending[i]`: the FIFO of replies on gateway process i's single ioredis
  connection.
- `crashes`: process crashes so far.

**Actions.**

- `JoinRoom` and `Disconnect` apply SADD/SREM and queue the reply.
- `AfterUpdate` runs the continuation that issues SCARD.
- `EmitCount` emits to the sockets of the room *on the same process*.
- `Relay` covers chat, like and pin.
- `Crash(i)` kills process i, bounded by `MaxCrashes`:
  - its sockets close without running `handleDisconnect`;
  - its socket rooms and queued replies vanish;
  - Redis keeps the presence members it added.
  - `enableShutdownHooks` (main.ts:35) runs only on a signal, not on a crash.

**Fairness.** `Home` assigns sockets to processes. There is weak fairness on
`Deliver(i)`: Redis answers, and the event loop runs continuations.

### `OrderLifecycle` (with `MC_OrderLifecycle`)

**State.**

- `stock`, `listed` (products that exist) and `removed` (products deleted;
  ids are uuids, so a deleted id is never created again).
- `supply`: the stock a product would have if no order held any. It is the
  total the seller set, plus what cancels gave back.
- The order table (status, items), ids, and request slots.

**Actions.**

- `Create` is the stock check read at line 53. `CreateTx` is the transaction at
  67-86, which inserts the order and decrements stock.
- `Transition(r, op)` is the status-check read of accept, ship, deliver, cancel
  and return. `Write` is the later unconditional update; for cancel, it is the
  transaction that also restores stock.
- `ProductCreate` is `products.service.ts` create (20-37).
- `EditRead` and `EditPatch` are the seller's edit:
  - the form is filled from `findOne` (66-73);
  - `update` (75-97) later writes the stock as an *absolute* value (the read
    value plus the seller's change, `Restock`); if the product was deleted
    meanwhile it throws NotFound.
- `RemoveRead` and `RemoveDelete` are `products.service.ts` remove: the
  `findUnique` with its checks (99-109), then `product.delete` (111). The
  Prisma schema is not under `src/`. The handlers read `item.product.sellerId`
  with no null check, so `OrderItem.product` is a required relation, and the
  model takes Prisma's default for one, `onDelete: Restrict`: the delete fails
  while any order item (of any status) references the product, and
  `CreateTx` rolls back when a product of its cart was deleted after the
  read at line 33.
- Each Prisma interactive transaction is one step: it commits whole, and each
  increment or decrement is one atomic UPDATE.

**No abstract order book.** With one request at a time every handler is
atomic, and an abstract book would repeat the guards of the detailed one.
With two slots the handlers implement no atomic book: `orders_oversell` and
`orders_cancel_race` are behaviours that no sequence of atomic steps
produces. The order properties are therefore stated on the handlers.

**Fairness.** None (no liveness property).

### `Accounts` (with `MC_Accounts`)

**State.**

- `users[x]`: the role of the user row holding identifier x (email or phone).
- `seller[x]`: the seller row's status (or NULL).
- `edited[x]`: whether the seller has written its own profile fields.
- `otp`: the Redis key `otp:{x}`, with the send that set it.
- `sessions`: the refresh keys stored per user.
- The histories `sent`, `sentTo`, `accepted` (verifications whose compare
  matched a send) and `issued` (verifications of a send that answered success).
- `redisFails`: Redis commands that rejected so far.
- `tickets` and `mailed`: support tickets, and those whose email went out.
- `dbFails` and the request slots.

**Actions.**

- `Login`.
- `SendOtp`.
- `VerifyOtp` and then `VerifyOtpDel`: the GET/compare and the separate DEL.
  The TEMP bypass code `796300` is `Bypass`.
- `IssueTokens`.
- `RegisterSeller`/`RegisterBuyer` and then `RegisterSellerTx`/`RegisterBuyerTx`:
  the existence checks outside the transaction, then the transaction with its
  unique-constraint failure.
- `Review` and then `ReviewWrite`: approve/reject read the status, and update later.
- `UpdateProfile`, `UpdateBankDetails`, `UpdateStoreDetails` and `UpdateSignature`:
  `@Roles(SELLER)` routes (`HasRole`, the `RolesGuard` check), then a NotFound
  check, then a field update that never writes status.
- `ReportIssue`.
- `SubmitConcern` and then `SendConcern`:
  - the ticket insert;
  - the MAIL_HOST and toEmail checks;
  - the user lookup outside the `try`;
  - `sendMail`, whose failure is swallowed.

`refresh` only reads, so it has no action.

**Initial users.** `Registered` names identifiers whose BUYER user row
exists when the run starts. The `accounts` run starts with none (so that
identifiers stay symmetric); `accounts_otp_reuse` starts with `u1`, so that
both verifications find a user and store a refresh key.

**Type invariant.** `TypeOK` states the types of the state. No run checks
it: the only code changes that break it write a value the Prisma enums or
columns reject.

**Redis faults.** The ioredis client gives up on a command after
`maxRetriesPerRequest` = 3 (`redis.service.ts` 15-19), and the handler throws.
`RedisFails` bounds these rejections by `MaxRedisFailures`. A command whose
reply was lost may still have run, so every failing step allows both outcomes:

- the SET of `sendOtp`: the code may be stored, but it is never logged;
- the DEL of `verifyOtp`: the verification answers an error, and the key is
  gone or still there;
- the refresh-key SET of the token step: no tokens. After a registration
  the login promise is returned without `await` inside the `try`, so its
  rejection escapes the catch (309-316) and is answered 500, although the
  rows are committed.

`OtpSingleUse` counts successful answers (`issued`), so it holds through
these failures. Its mutant catches a rejected DEL and goes on to the tokens.
Then a retry with the same code logs in again.

**Fairness.** None (no liveness property).

### `SupportMail` (extended by `Accounts`)

The concern email puts every field the seller typed through `escapeHtml`
(`support.service.ts` 264-271) before placing it in the HTML body.

- A text is a sequence of one-character strings.
- `ReplaceChar(s, c, rep)` is `s.replace(/c/g, rep)`.
- `EscapeHtml` is the code's chain of five replaces, in the code's order:
  `&` first, then `<`, `>`, `"` and `'`.
- `Decode` is the reference: what an HTML parser shows for a text, decoding
  the five character references.
- `EscapingInert` takes every text of up to `MaxTextLen` = 4 characters over
  `& < > " ' a`.
- `Accounts` states `EscapedTextInert`: once a concern email has gone out,
  `EscapingInert` holds. The `accounts` run checks it. The escaped text has
  no markup character, and it decodes back to the text typed. Four characters
  fit a special character next to an entity-like run such as `&lt`.

## Runs

| Run | Bounds | Expect | What it shows |
|---|---|---|---|
| `stream_lifecycle` | 2 sellers and a buyer, 2 stream ids, 2 slots, 4 requests, 1 LiveKit failure | pass | only sellers own streams; a live stream with a room id has its room; CREATING resolves (liveness); the lifecycle refines `StreamSession` while stop and remove land inside a create |
| `stream_store_failures` | as above, 3 requests, 2 store failures | pass | the refinement holds when any store call fails, including the room-id update, the reload and the stop write |
| `stream_stop_twice` | 3 requests | violation `EndedAtStable` | a second stop rewrites endedAt (no isLive check) |
| `stream_create_race` | 3 requests | violation `RoomOnlyForLiveStream` | a stop between createRoom and the id update leaves a room for a stopped stream |
| `stream_compensation_db_failure` | 1 store, 1 LiveKit failure | violation `CompensationRemovesRow` | the swallowed compensating delete leaves a CREATING row |
| `gateway` | 3 sockets, 2 streams, 1 process, 4 events, 1 crash, symmetry | pass | once replies are delivered, every open socket shows the current size of the Redis set, whatever the interleaving of joins and disconnects (after a crash the set still holds dead sockets, which this run does not judge) |
| `gateway_double_join` | 3 events, no crash | violation `PresenceMatchesRoom` | joining two streams then disconnecting leaks presence |
| `orders_sequential` | 3 products (stock 2, 1, unlisted), 3 order ids, 1 slot, 6 requests, seller changes of ±1 | pass | stock stays non-negative and is conserved against supply, with one request at a time |
| `orders_oversell` | 2 slots, 4 requests, no seller edits | violation `StockNonNegative` | two orders for the last unit both succeed |
| `orders_cancel_race` | 2 slots, 4 requests, no seller edits | violation `StockConservation` | cancel racing accept (or cancel) restores stock of an order that is not cancelled |
| `accounts` | 2 identifiers, 2 codes plus the bypass, 1 slot, 7 requests, 2 sends, 1 store failure, 1 Redis failure, symmetry | pass | an OTP logs in at most once, also when a Redis command rejects; a wrong code never removes the stored one; escaped concern text is inert and decodes back to itself |
| `accounts_otp_reuse` | 2 slots, 3 requests, `u1` registered | violation `OtpSingleUse` | two verifyOtp calls with the same code both store a refresh key and log in |

**Why the bounds are enough.**

- Two request slots and two stream ids are the least that let a stop land inside
  a create and two streams differ.
- One LiveKit failure reaches every catch.
- Two store failures reach a rejected compensation after a rejected update.
- Three sockets and four events reach a join that is overtaken by two updates
  before its SCARD reply. One crash is enough to lose a process's sockets
  while Redis keeps their presence.
- Stock of one on `p2` lets a single order take the last unit. The unlisted
  `p3` lets a product be created during the run.
- Seven account requests fit a send, a verification with its DEL and token step,
  a registration with its transaction, a review, and a second send.
- Three requests over two slots fit a send and two verifications of one
  code for a user that exists.

**Symmetry.** Symmetry is used only in runs with no liveness property:

- the gateway run, over sockets and streams;
- the accounts run, over identifiers and codes;
- `accounts_otp_reuse`, over codes only (`u1` is registered, `u2` is not).

**Deadlock.** Every cfg disables deadlock checking, because the request and
event budgets end each behaviour.

**Mutants.** Each property of a passing run has a mutant in `PROJECT.json`: a
plausible bug that makes it fail. Examples:

- a dropped stock check;
- a cancel without the stock restore;
- a swallowed createRoom error;
- `client.emit` instead of a room broadcast;
- a create without the seller lookup;
- a room id update that also sets isLive;
- a rejected OTP DEL that still issues tokens, or a DEL before the compare;
- `escapeHtml` replacing `&` last.

## Findings

See `PROJECT.json` "findings". In short:

- stopStream has no isLive check;
- a stop racing create leaves a LiveKit room for a stopped stream, until
  LiveKit's empty timeout closes it;
- the compensating delete swallows its own failure;
- a double `join_room` leaks presence;
- orders oversell stock;
- cancel races restore stock wrongly;
- one OTP can be used twice by concurrent verifications.

Three findings have no run of their own:

- A failed stop write leaves a live stream without a room.
- There is no cross-process broadcast of the viewer count. TLC reports
  `AccurateViewerCount` violated with two processes (`Home <-
  MC_TwoProcesses`), an instance no listed run checks.
- The hard-coded OTP `796300` works for any account. The bypass path is
  reachable in the `accounts` run.

## Hazards without a property

`PROJECT.json` "hazards" lists every hazard, each with the properties that
cover it, or with a note. Those that have only a note:

- the reload after create (`streams.service.ts:128`);
- a registration whose login fails after the commit (reachable in `Accounts`
  when the refresh-key SET rejects, but the spec says nothing to check it
  against);
- an order with items of several sellers: any one of them ships the whole
  order, and each counts the whole total as revenue
  (`orders.service.ts:303`, `sellers.service.ts:156`);
- client-chosen LiveKit identities (anyone can mint a grant for `seller-{id}`);
- a support ticket stored by a request that then answers 500;
- `verifyOtp` counting no failed attempts (a wrong code leaves the OTP in
  place, so it can be guessed within its TTL).

These hazards are reached by no run:

- a broadcast that reaches one process only (`streams.gateway.ts:31`): the
  gateway run has one process;
- a crashed process leaving its sockets in Redis (`streams.gateway.ts:29`):
  `gateway_double_join` has no crash;
- a sendOtp between a verification's GET and DEL (`auth.service.ts:180`):
  the `accounts` run has one slot;
- two admins reviewing one seller at once (`sellers.service.ts:97`): one
  slot again;
- a product deleted while an order references it
  (`products.service.ts:111`): whether it fails rests on a foreign key of a
  schema outside `src/`, which the model assumes (Restrict).

## Not modelled, and why

- Stream `update`: its DTO file is absent from `src/`, so what it may write is
  unknown.
- The list and read queries, pagination and URL derivation: these are reads and
  formatting. `getClientUrl` has no caller in `src/`. The stream row stores
  the unconverted `LIVEKIT_URL` (`streams.service.ts:115`), and only the
  viewer token converts it with `getWebSocketUrl`.
- `refresh`: it only reads Redis and the user row.
- The TTLs of tokens, OTP keys and refresh keys, and the room `emptyTimeout`.
- Redis failures outside `Accounts`: the gateway model takes every SADD, SREM
  and SCARD as answered, and `refresh` writes nothing.
- The layout of the email template, and chat payload contents.
- The seller's profile fields are abstracted to "edited". No property reads
  them.
- Seller and buyer authorization checks: they read static rows, so a failing
  check throws before any write.
- Users, buyers, categories, countries, material types, FAQs and the seed: these
  are reads or static data.
