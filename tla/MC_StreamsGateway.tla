------------------------- MODULE MC_StreamsGateway -------------------------
(* Model-checking instance of StreamsGateway.                             *)
EXTENDS StreamsGateway, TLC

CONSTANTS c1, c2, c3, t1, t2, g1, g2, chat, like, pin

MC_Conns     == {c1, c2, c3}
MC_Streams   == {t1, t2}
MC_Kinds     == {chat, like, pin}
\* every socket on one gateway process
MC_OneProcess  == [c \in MC_Conns |-> g1]
\* c1 on one process, the other sockets on a second one
MC_TwoProcesses == [c \in MC_Conns |-> IF c = c1 THEN g1 ELSE g2]

MC_Symmetry == Permutations(MC_Streams) \cup Permutations(MC_Conns)
=============================================================================
