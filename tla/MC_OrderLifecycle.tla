-------------------------- MODULE MC_OrderLifecycle --------------------------
(* Instance of OrderLifecycle for TLC: two listed products, one of them    *)
(* with a single unit, so that one order can take the last unit of it,     *)
(* and a third product a seller may create.                                *)
EXTENDS OrderLifecycle

CONSTANTS p1, p2, p3, o1, o2, o3, r1, r2

MC_Products  == {p1, p2, p3}
MC_InitStock == (p1 :> 2) @@ (p2 :> 1)
MC_OrderIds  == {o1, o2, o3}
MC_OneReq    == {r1}
MC_TwoReqs   == {r1, r2}
\* a seller takes one unit off or puts one more on
MC_Restock   == {-1, 1}
=============================================================================
