----------------------------- MODULE Membership -----------------------------
(***************************************************************************)
(* What the rest of the system may rely on about the rows of a meeting's   *)
(* participants, however requests and webhooks interleave and whatever     *)
(* fails: a row changes its status in any way, but it stays until the      *)
(* meeting is deleted, when all rows go, and then none comes back.         *)
(***************************************************************************)
CONSTANT Users

VARIABLE stage \* how far each user has come: the status of the row, if any

Stages == {"none", "waiting", "admitted", "denied", "left"}
Present == {u \in Users : stage[u] # "none"}

Founded(host) ==
  stage = [u \in Users |-> IF u = host THEN "admitted" ELSE "none"]

MembershipInit == \E host \in Users : Founded(host)

\* Any number of rows is written, for users with and without one.
Change ==
  /\ Present # {}
  /\ stage' \in [Users -> Stages]
  /\ Present \subseteq Present'

Erase == stage' = [u \in Users |-> "none"]

MembershipNext == Change \/ Erase

MembershipSpec == MembershipInit /\ [][MembershipNext]_stage
=============================================================================
