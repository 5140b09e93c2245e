----------------------------- MODULE MCBreakout -----------------------------
(* Breakout rooms on a small instance: besides the two default rooms, the  *)
(* host asks for one room, or for two with a user on both lists.           *)
EXTENDS Breakout, TLC

CONSTANTS s1, s2, r1, r2, r3, host, ann, bob

MCLists == {<<{}>>, <<{ann, host}, {ann, bob}>>}

Symmetry == Permutations(Slots) \cup Permutations(RoomIds)

VARIABLE disturbed \* history: requests have overlapped, or one has died

\* A step that is also one of a living request is no death.
Disturbs ==
  \/ \E s, t \in Slots : s # t /\ req'[s] # Idle /\ req'[t] # Idle
  \/ \E s \in Slots : req[s] # Idle /\ req'[s] = req[s] /\ room' # room
  \/ \E s \in Slots : Abort(s) /\ ~Continue(s)

MCInit == Init /\ disturbed = FALSE

MCNext == Next /\ disturbed' = (disturbed \/ Disturbs)

MCSpec == MCInit /\ [][MCNext]_<<vars, disturbed>>

-----------------------------------------------------------------------------
(* As long as no requests have overlapped or died.                         *)

\* While no request is at work, an assignment leads into an open room: after
\* endAllBreakoutRooms all rooms are closed and nobody is left assigned, those
\* included who are not in the meeting just then (joinBreakoutRoom refuses a
\* closed room, and only endAllBreakoutRooms takes anybody out of it).
AssignedRoomsOpen == disturbed \/ LeadIntoOpenRooms

\* createBreakoutRooms places everybody it found: in a room of its own, one on
\* whose list the user is if there is any.
EverybodyPlaced == [][disturbed' \/ PlacesEverybody]_vars

\* It spreads those who are on no list evenly: no room gets two more than
\* another (createBreakoutRooms goes round the rooms).
EvenlySpread == [][disturbed' \/ SpreadsEvenly]_vars
=============================================================================
