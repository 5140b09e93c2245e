------------------------------ MODULE MCPolls ------------------------------
(* Polls on a small instance: a poll with two options, another with one.   *)
EXTENDS Polls, TLC

CONSTANTS s1, s2, p1, p2, yes, no, maybe

MCOptionOf == [o \in Options |-> IF o = maybe THEN p2 ELSE p1]

SlotSymmetry == Permutations(Slots)

VARIABLE overlapped \* history: two requests have been in flight at a time

\* A request of one step overlaps with one that stands still meanwhile.
Overlap ==
  \/ \E s, t \in Slots : s # t /\ req'[s] # Idle /\ req'[t] # Idle
  \/ \E s \in Slots :
       /\ req[s] # Idle
       /\ req'[s] = req[s]
       /\ <<poll, votes>>' # <<poll, votes>>

MCInit == Init /\ overlapped = FALSE

MCNext == Next /\ overlapped' = (overlapped \/ Overlap)

MCSpec == MCInit /\ [][MCNext]_<<vars, overlapped>>

-----------------------------------------------------------------------------

\* As long as no requests have overlapped, a closed poll's votes do not change
\* ("Poll is closed", submitPollVote).
ClosedIsFinal == [][overlapped' \/ KeepsClosed]_vars
=============================================================================
