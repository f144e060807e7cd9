\* A cancel racing another request on the same order.
CONSTANTS
    p1 = p1
    p2 = p2
    p3 = p3
    o1 = o1
    o2 = o2
    o3 = o3
    r1 = r1
    r2 = r2
    Products <- MC_Products
    InitStock <- MC_InitStock
    OrderIds <- MC_OrderIds
    Reqs <- MC_TwoReqs
    Qty = {1, 2}
    \* no seller edits stock in this run
    Restock = {}
    MaxRequests = 4
    NULL = NULL
SPECIFICATION Spec
\* The request budget ends every behaviour.
CHECK_DEADLOCK FALSE
INVARIANTS
    StockConservation
