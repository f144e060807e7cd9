------------------------ MODULE MC_StreamLifecycle ------------------------
(* Model-checking instance of StreamLifecycle: two sellers, two stream    *)
(* ids, two concurrent requests.                                          *)
EXTENDS StreamLifecycle

CONSTANTS s1, s2, b1, k1, k2, r1, r2

\* b1 is a user with no seller profile
MC_Users     == {s1, s2, b1}
MC_Sellers   == {s1, s2}
MC_StreamIds == {k1, k2}
MC_Reqs      == {r1, r2}

MC_Symmetry == Permutations(MC_Reqs) \cup Permutations(MC_StreamIds)
=============================================================================
