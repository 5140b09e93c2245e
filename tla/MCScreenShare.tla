--------------------------- MODULE MCScreenShare ---------------------------
(* ScreenShare on small instances.                                         *)
EXTENDS ScreenShare, TLC

CONSTANTS host, ann, bob, s1, s2

SlotSymmetry == Permutations(Slots)

\* History: whether requests have overlapped, or else whether one has died.
VARIABLE history

Busy == {s \in Slots : req[s] # Idle \/ sreq[s] # Quiet}

\* updateMeeting, of one step, overlaps with a request that stands still.
Overlap ==
  \/ Cardinality(Busy') > 1
  \/ Busy # {} /\ policy' # policy

\* A step that is also one of a living request is no death.
Dies ==
  \E s \in Slots :
    \/ Abort(s) /\ ~Continue(s)
    \/ ShareAbort(s) /\ ~ShareContinue(s)

MCInit == ShareInit /\ history = "calm"

MCNext ==
  /\ ShareNext
  /\ history' = IF history = "overlapped" \/ Overlap THEN "overlapped"
                ELSE IF Dies THEN "died" ELSE history

MCSpec == MCInit /\ [][MCNext]_<<allVars, history>>

-----------------------------------------------------------------------------

\* As long as no requests have overlapped, at most one participant shares the
\* screen (startScreenShare, approveScreenShare).
OneSharerSerially == history = "overlapped" \/ OneSharer

\* As long as no requests have overlapped or died, only those in the meeting
\* share or ask to, in both tables: whatever ends somebody's participation
\* ends the share (leaveMeeting, kickParticipant, endMeeting).
SharesEndWithParticipation == history # "calm" \/ SharersParticipate
=============================================================================
