--------------------------- MODULE StreamSession ---------------------------
(***************************************************************************)
(* What the session lifecycle promises (spec section 3 and 4.2), with no   *)
(* request, await or external call in it: each session id moves through   *)
(*                                                                         *)
(*   absent -> creating -> live -> stopped                                 *)
(*                 \________\________\______-> gone                        *)
(*                                                                         *)
(* A session is stopped only while its row is live (creating or live);    *)
(* it is deleted from any persisted phase; nothing ever comes back.        *)
(* StreamLifecycle is checked to implement this specification.             *)
(***************************************************************************)
CONSTANT Ids

VARIABLE phase

Phases == {"absent", "creating", "live", "stopped", "gone"}

Init == phase = [i \in Ids |-> "absent"]

Move(i, from, to) ==
    /\ phase[i] \in from
    /\ phase' = [phase EXCEPT ![i] = to]

\* The row is persisted, live, without a room.
Open(i)    == Move(i, {"absent"}, "creating")
\* The room exists and its identifiers are recorded.
Promote(i) == Move(i, {"creating"}, "live")
\* stop: precondition isLive = true.
Stop(i)    == Move(i, {"creating", "live"}, "stopped")
\* remove, or the compensation of a failed create.
Delete(i)  == Move(i, {"creating", "live", "stopped"}, "gone")

Next == \E i \in Ids : Open(i) \/ Promote(i) \/ Stop(i) \/ Delete(i)

Spec == Init /\ [][Next]_phase

TypeOK == phase \in [Ids -> Phases]

=============================================================================
