\* One client at a time: every order request runs to its end before the
\* next one starts.
CONSTANTS
    p1 = p1
    p2 = p2
    p3 = p3
    o1 = o1
    o2 = o2
    o3 = o3
    r1 = r1
    r2 = r2
    Products <- MC_Products
    InitStock <- MC_InitStock
    OrderIds <- MC_OrderIds
    Reqs <- MC_OneReq
    Qty = {1, 2}
    Restock <- MC_Restock
    MaxRequests = 6
    NULL = NULL
SPECIFICATION Spec
\* The request budget ends every behaviour.
CHECK_DEADLOCK FALSE
INVARIANTS
    TypeOK
    StockNonNegative
    StockConservation
