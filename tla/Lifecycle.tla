----------------------------- MODULE Lifecycle -----------------------------
(***************************************************************************)
(* What the meeting service promises about admission as long as requests   *)
(* do not overlap, without awaits, LiveKit or webhooks: a user gets in     *)
(* straight away or out of the waiting room; whoever is in waits again,    *)
(* and whoever was denied gets in, only after having left; and a meeting   *)
(* closes when everybody is out of it, for good.  That a denied user stays *)
(* out is not promised: anybody with a row may leave, and whoever has left *)
(* may ask again.                                                          *)
(***************************************************************************)
EXTENDS Membership

VARIABLE open \* the meeting has not ended and is not deleted

lifecycleVars == <<stage, open>>

LifecycleInit == MembershipInit /\ open = TRUE

Move(u, st) == stage' = [stage EXCEPT ![u] = st]

Wait(u) ==
  /\ open
  /\ stage[u] \in {"none", "left"}
  /\ Move(u, "waiting")
  /\ UNCHANGED open

Admit(u) ==
  /\ open
  /\ stage[u] \in {"none", "left", "waiting"}
  /\ Move(u, "admitted")
  /\ UNCHANGED open

Deny(u) ==
  /\ u \in Present
  /\ Move(u, "denied")
  /\ UNCHANGED open

\* Of any status, denied included: leaveMeeting asks for a row only.
Leave(u) ==
  /\ u \in Present
  /\ Move(u, "left")
  /\ UNCHANGED open

Evacuate ==
  /\ stage' = [u \in Users |-> IF u \in Present THEN "left" ELSE "none"]
  /\ UNCHANGED open

Close ==
  /\ \A u \in Users : stage[u] \notin {"waiting", "admitted"}
  /\ open' = FALSE
  /\ UNCHANGED stage

\* Everything but the deletion of the meeting.
Moves ==
  \/ \E u \in Users : Wait(u) \/ Admit(u) \/ Deny(u) \/ Leave(u)
  \/ Evacuate \/ Close

LifecycleNext == Moves \/ (Erase /\ open' = FALSE)

LifecycleSpec == LifecycleInit /\ [][LifecycleNext]_lifecycleVars
=============================================================================
