----------------------------- MODULE MC_Accounts -----------------------------
(* Model-checking instance of Accounts.                                   *)
EXTENDS Accounts, TLC

CONSTANTS u1, u2, k1, k2, k0, r1, r2

MC_Idents == {u1, u2}
MC_Codes  == {k1, k2}
MC_OneReq  == {r1}
MC_TwoReqs == {r1, r2}

MC_Symmetry == Permutations(MC_Idents) \cup Permutations(MC_Codes)
MC_CodeSymmetry == Permutations(MC_Codes)
=============================================================================
