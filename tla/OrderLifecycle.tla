--------------------------- MODULE OrderLifecycle ---------------------------
(***************************************************************************)
(* Orders and product stock as OrdersService (src/src/orders/              *)
(* orders.service.ts) and ProductsService (src/src/products/               *)
(* products.service.ts) change them.                                       *)
(*                                                                         *)
(* Every handler reads the rows it decides on with one query and writes    *)
(* with a later one; nothing locks the rows in between.  A request slot    *)
(* r \in Reqs holds a handler between its read and its write, so that two  *)
(* requests interleave exactly there.  The interactive transactions of     *)
(* create (67-86) and cancelOrder (401-412) commit all their updates or    *)
(* none, and each `stock: { decrement | increment }` is a single atomic    *)
(* UPDATE, so each transaction is one step.  The final findUnique of       *)
(* create and cancelOrder only shapes the response.                        *)
(*                                                                         *)
(* Caller checks (buyer or seller profile, the buyer owning the order, the *)
(* seller having a product in it) read rows this model keeps static; a     *)
(* request failing them throws before any write and is not represented.    *)
(*                                                                         *)
(* A seller changes stock only by PATCH /products/:id with an absolute     *)
(* value.  A seller's edit is one request slot: the GET /products/:id the  *)
(* form is filled from, then the PATCH of the value read plus the change   *)
(* the seller makes.  supply records the units sellers meant to offer.     *)
(*                                                                         *)
(* A seller deletes a product with DELETE /products/:id: a findUnique and  *)
(* then a delete.  The Prisma schema is not in src/; the handlers read     *)
(* item.product.sellerId with no null check (lines 149, 267, 304, 347),    *)
(* so OrderItem.product is a required relation, and Prisma's default for a *)
(* required relation is onDelete: Restrict.  The model takes that default: *)
(* deleting a product an order item references fails, and inserting an    *)
(* item for a product that is gone fails the transaction.  Product ids are *)
(* generated uuids, so a deleted id is never created again.                *)
(***************************************************************************)
EXTENDS Integers, FiniteSets, FiniteSetsExt, TLC

CONSTANTS
    Products,     \* product ids
    InitStock,    \* InitStock[p]: stock of each product listed at the start
    Restock,      \* changes a seller makes to the stock shown in the form
    Qty,          \* quantities a cart line may ask for (CreateOrderDto)
    OrderIds,     \* the ids Prisma may generate for new order rows
    Reqs,         \* concurrent HTTP request slots
    MaxRequests,  \* bound: order requests started over a behaviour
    NULL

ASSUME \A p \in DOMAIN InitStock : p \in Products /\ InitStock[p] \in Nat
ASSUME Restock \subseteq Int
ASSUME Qty \subseteq Nat \ {0}
ASSUME MaxRequests \in Nat

VARIABLES
    stock,     \* Product.stock (0 for a product not created yet)
    listed,    \* product rows that exist
    removed,   \* product rows deleted
    supply,    \* history: units sellers meant to offer, per product
    orders,    \* the order table: id -> [status, items]
    used,      \* ids already generated
    req,       \* per request slot: operation, program counter and locals
    reqCount   \* order requests started so far

vars == <<stock, listed, removed, supply, orders, used, req, reqCount>>

Statuses == {"PENDING", "PAID", "SHIPPED", "DELIVERED", "CANCELLED", "RETURNED"}

\* A cart: at least one line (line 28), one line per product.
Carts == UNION {[P -> Qty] : P \in SUBSET Products \ {{}}}

Order == [status : Statuses, items : Carts]

\* The status each seller or buyer transition requires (the checks at
\* lines 272, 309, 352, 391-394, 447) and the status it writes.
From == [accept  |-> {"PENDING"},  ship   |-> {"PAID"},
         deliver |-> {"SHIPPED"},  cancel |-> {"PENDING", "PAID"},
         return  |-> {"DELIVERED"}]
To   == [accept  |-> "PAID",       ship   |-> "SHIPPED",
         deliver |-> "DELIVERED",  cancel |-> "CANCELLED",
         return  |-> "RETURNED"]
Transitions == DOMAIN From

Idle == [op |-> "idle", pc |-> "idle", oid |-> NULL, items |-> NULL, p |-> NULL, v |-> NULL]

Finish(r) == req' = [req EXCEPT ![r] = Idle]

\* stock after adding sign * items[p] to every product of a cart.
Adjust(items, sign) ==
    [p \in Products |-> IF p \in DOMAIN items THEN stock[p] + sign * items[p]
                                              ELSE stock[p]]

\* The products of a cart exist (lines 33-39, 50-52).
Exists(items) == DOMAIN items \subseteq listed

\* A request starts: at most MaxRequests over a behaviour.
Start(r) ==
    /\ req[r].op = "idle"
    /\ reqCount < MaxRequests
    /\ reqCount' = reqCount + 1

-----------------------------------------------------------------------------
\* Mutant of Create: the stock check of line 53 is left out.
CreateNoStockCheck(r) ==
    /\ Start(r)
    /\ used # OrderIds
    /\ \E items \in Carts :
          \/ /\ Exists(items)
             /\ \E oid \in OrderIds \ used :
                  /\ used' = used \cup {oid}
                  /\ req' = [req EXCEPT ![r] = [Idle EXCEPT !.op = "create", !.pc = "tx",
                                                             !.oid = oid, !.items = items]]
          \/ /\ ~Exists(items)
             /\ UNCHANGED <<used, req>>
    /\ UNCHANGED <<stock, listed, removed, supply, orders>>

\* create, lines 21-65: read the products of the cart, a missing one
\* throws BadRequest (37-39), and check each line against the stock read
\* now (53); a short line throws BadRequest.  The id the transaction's
\* insert will get is drawn here.
Create(r) ==
    /\ Start(r)
    /\ used # OrderIds
    /\ \E items \in Carts :
          \/ /\ Exists(items) /\ \A p \in DOMAIN items : stock[p] >= items[p]
             /\ \E oid \in OrderIds \ used :
                  /\ used' = used \cup {oid}
                  /\ req' = [req EXCEPT ![r] = [Idle EXCEPT !.op = "create", !.pc = "tx",
                                                             !.oid = oid, !.items = items]]
          \/ /\ ~Exists(items) \/ \E p \in DOMAIN items : stock[p] < items[p]
             /\ UNCHANGED <<used, req>>
    /\ UNCHANGED <<stock, listed, removed, supply, orders>>

\* Mutant of CreateTx: the insert leaves out `items: { create: ... }`.
CreateTxNoItems(r) ==
    LET q == req[r] IN
    /\ q.pc = "tx" /\ q.op = "create"
    /\ orders' = orders @@ (q.oid :> [status |-> "PENDING", items |-> <<>>])
    /\ stock' = Adjust(q.items, -1)
    /\ Finish(r)
    /\ UNCHANGED <<listed, removed, supply, used, reqCount>>

\* Lines 67-86: insert the PENDING order with its items and decrement the
\* stock of every line, without re-checking it.  An item for a product
\* deleted since line 33 fails its foreign key and rolls the whole
\* transaction back.
CreateTx(r) ==
    LET q == req[r] IN
    /\ q.pc = "tx" /\ q.op = "create"
    /\ \/ /\ Exists(q.items)
          /\ orders' = orders @@ (q.oid :> [status |-> "PENDING", items |-> q.items])
          /\ stock' = Adjust(q.items, -1)
       \/ /\ ~Exists(q.items)
          /\ UNCHANGED <<orders, stock>>
    /\ Finish(r)
    /\ UNCHANGED <<listed, removed, supply, used, reqCount>>

\* acceptOrder (254-276), shipOrder (291-314), deliverOrder (334-357),
\* cancelOrder (375-399), returnOrder (426-452): read the order with its
\* items and check its status; a status not in From[op] throws BadRequest.
Transition(r, op) ==
    /\ Start(r)
    /\ \E oid \in DOMAIN orders :
          \/ /\ orders[oid].status \in From[op]
             /\ req' = [req EXCEPT ![r] = [Idle EXCEPT !.op = op, !.pc = "write", !.oid = oid,
                                                        !.items = orders[oid].items]]
          \/ /\ orders[oid].status \notin From[op]
             /\ UNCHANGED req
    /\ UNCHANGED <<stock, listed, removed, supply, orders, used>>

\* Mutant of Write: the cancel transaction sets CANCELLED without the
\* increment loop.
WriteNoRestore(r) ==
    LET q == req[r] IN
    /\ q.pc = "write"
    /\ orders' = [orders EXCEPT ![q.oid].status = To[q.op]]
    /\ UNCHANGED stock
    /\ Finish(r)
    /\ UNCHANGED <<listed, removed, supply, used, reqCount>>

\* The write after the check, by id and whatever the status is now:
\* order.update (278-287, 316-330, 359-371, 454-463), or for cancel the
\* transaction of 401-412, which first increments the stock of every item
\* read at line 383.
Write(r) ==
    LET q == req[r] IN
    /\ q.pc = "write"
    /\ orders' = [orders EXCEPT ![q.oid].status = To[q.op]]
    /\ stock' = IF q.op = "cancel" THEN Adjust(q.items, 1) ELSE stock
    /\ Finish(r)
    /\ UNCHANGED <<listed, removed, supply, used, reqCount>>

\* products create, lines 20-37: a seller lists a new product with the
\* stock of the form (@Min(0); absent means the column default, 0).
ProductCreate(r, p, v) ==
    /\ Start(r)
    /\ p \notin listed \cup removed
    /\ listed' = listed \cup {p}
    /\ stock' = [stock EXCEPT ![p] = v]
    /\ supply' = [supply EXCEPT ![p] = v]
    /\ UNCHANGED <<removed, orders, used, req>>

\* products findOne, lines 66-73: the edit form is filled with the stock
\* the product has now.
EditRead(r, p) ==
    /\ Start(r)
    /\ p \in listed
    /\ req' = [req EXCEPT ![r] = [Idle EXCEPT !.op = "edit", !.pc = "patch",
                                               !.p = p, !.v = stock[p]]]
    /\ UNCHANGED <<stock, listed, removed, supply, orders, used>>

\* products update, lines 75-97: ownership check, then the PATCH writes the
\* form's stock (the value read plus the seller's change) as an absolute
\* value, whatever the stock is by now.  The ownership read (77-86) finds
\* no row for a product deleted since the form was filled: NotFound.
EditPatch(r) ==
    LET q == req[r] IN
    /\ q.pc = "patch"
    /\ \/ /\ q.p \in listed
          /\ \E d \in Restock :
                /\ q.v + d >= 0
                /\ stock' = [stock EXCEPT ![q.p] = q.v + d]
                /\ supply' = [supply EXCEPT ![q.p] = @ + d]
       \/ /\ q.p \notin listed
          /\ UNCHANGED <<stock, supply>>
    /\ Finish(r)
    /\ UNCHANGED <<listed, removed, orders, used, reqCount>>

\* An order item of some order, whatever its status, references p.
Referenced(p) == \E o \in DOMAIN orders : p \in DOMAIN orders[o].items

\* products remove, lines 99-109: read the product and its seller; a
\* missing one throws NotFound, a foreign one Forbidden (rows this model
\* keeps static).  The delete of line 111 comes with a later query.
RemoveRead(r, p) ==
    /\ Start(r)
    /\ p \in listed
    /\ req' = [req EXCEPT ![r] = [Idle EXCEPT !.op = "remove", !.pc = "delete", !.p = p]]
    /\ UNCHANGED <<stock, listed, removed, supply, orders, used>>

\* Line 111: product.delete by id.  It throws when the row is gone by now
\* (P2025) and when an order item references it (Restrict); the error is
\* not caught.
RemoveDelete(r) ==
    LET q == req[r] IN
    /\ q.pc = "delete"
    /\ \/ /\ q.p \in listed /\ ~Referenced(q.p)
          /\ listed' = listed \ {q.p}
          /\ removed' = removed \cup {q.p}
       \/ /\ q.p \notin listed \/ Referenced(q.p)
          /\ UNCHANGED <<listed, removed>>
    /\ Finish(r)
    /\ UNCHANGED <<stock, supply, orders, used, reqCount>>

-----------------------------------------------------------------------------
Init ==
    /\ listed = DOMAIN InitStock
    /\ removed = {}
    /\ stock = [p \in Products |-> IF p \in listed THEN InitStock[p] ELSE 0]
    /\ supply = stock
    /\ orders = <<>>
    /\ used = {}
    /\ req = [r \in Reqs |-> Idle]
    /\ reqCount = 0

\* The routes of OrdersController (orders.controller.ts 24-121): create,
\* cancel and return for a BUYER, accept, ship and deliver for a SELLER,
\* each one request; the list, count and findOne routes only read.  The
\* caller's role and ownership read rows no step here changes, so a request
\* they reject throws before any write and is left out.  The product
\* create, edit and delete are the SELLER routes of ProductsController.
Next ==
    \E r \in Reqs :
       \/ Create(r)
       \/ CreateTx(r)
       \/ \E op \in Transitions : Transition(r, op)
       \/ Write(r)
       \/ \E p \in Products, v \in {0} \cup Qty : ProductCreate(r, p, v)
       \/ \E p \in Products : EditRead(r, p)
       \/ EditPatch(r)
       \/ \E p \in Products : RemoveRead(r, p)
       \/ RemoveDelete(r)

Spec == Init /\ [][Next]_vars

-----------------------------------------------------------------------------
TypeOK ==
    /\ stock \in [Products -> Int]
    /\ listed \subseteq Products /\ removed \subseteq Products \ listed
    /\ supply \in [Products -> Int]
    /\ DOMAIN orders \subseteq used /\ \A o \in DOMAIN orders : orders[o] \in Order
    /\ used \subseteq OrderIds
    /\ req \in [Reqs -> [op : {"idle", "create", "edit", "remove"} \cup Transitions,
                         pc : {"idle", "tx", "write", "patch", "delete"},
                         oid : OrderIds \cup {NULL}, items : Carts \cup {NULL},
                         p : Products \cup {NULL}, v : Nat \cup {NULL}]]
    /\ reqCount \in 0..MaxRequests

\* Quantity of p held by orders that are not cancelled.
Held(p) ==
    MapThenSumSet(LAMBDA o : IF p \in DOMAIN orders[o].items THEN orders[o].items[p] ELSE 0,
                  {o \in DOMAIN orders : orders[o].status # "CANCELLED"})

\* create checks every line against the stock (orders.service.ts:53)
\* before decrementing it (80-83): stock never goes below zero.
StockNonNegative ==
    \A p \in Products : stock[p] >= 0

\* Every unit a seller offered is either on the shelf or held by exactly
\* one order that is not cancelled: create decrements once per order
\* (80-83), cancelOrder, "Restores stock" (line 374), increments once per
\* order it cancels (403-406), and a seller's edit changes the stock by
\* the change the seller made (products update, 90-96).
StockConservation ==
    \A p \in Products : stock[p] + Held(p) = supply[p]
=============================================================================
