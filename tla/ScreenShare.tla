---------------------------- MODULE ScreenShare ----------------------------
(***************************************************************************)
(* Screen sharing (ScreenShare/screenShare.service.ts) in the meeting of   *)
(* module Meeting: a user with a row in screenShare asks to share or       *)
(* shares, and is_screen_sharing of the participant says which.  The       *)
(* handlers of Meeting write both as well, when somebody leaves.           *)
(*                                                                         *)
(* A request in flight occupies a slot, in req or in sreq; a step is one   *)
(* call to the database or to LiveKit.  The first read is merged with the  *)
(* arrival: of the meeting with its policy, or, in an approval, which does *)
(* not use the policy, of the moderator's row.  Of the permissions in      *)
(* LiveKit only the failure of the call that changes them is modelled.     *)
(***************************************************************************)
EXTENDS Meeting

CONSTANTS
  Inside,    \* users who have joined when the model starts
  ShareOps   \* the operations on screen shares that are called

ASSUME InsideAssumption == Inside \subseteq Users \ {Host}

VARIABLES
  policy,    \* allow_screenshare, screenshare_needs_approval of the meeting
  sreq,      \* requests in flight
  permitted  \* ghost: users who were let share without approval, or with one

shareVars == <<policy, sreq, permitted>>
meetingVars == <<meeting, participants, shares, req, ghosts, livekit>>
allVars == <<meetingVars, shareVars>>

SharePCs == {"idle", "FindParticipant", "FindSharing", "FindShare",
             "FindRequest", "Permit", "UpsertShare", "ClearAll", "SetOwn",
             "FindRequester", "FindTarget", "DeleteShare", "ClearOwn"}

\* of: whose share; ask: the meeting wants approval, and, once the row is read,
\* of a guest; other: who denies, until the role is read, or the user found
\* sharing.
ShareRequest == [pc : SharePCs, op : ShareOps \cup {"none"},
                 of : Users \cup {Nobody}, ask : BOOLEAN,
                 other : Users \cup {Nobody}]

ShareCall(op, u, ask, pc) ==
  [pc |-> pc, op |-> op, of |-> u, ask |-> ask, other |-> Nobody]

Quiet == ShareCall("none", Nobody, FALSE, "idle")

ShareTypeOK ==
  /\ TypeOK
  /\ policy \in [allow : BOOLEAN, approval : BOOLEAN]
  /\ sreq \in [Slots -> ShareRequest]
  /\ permitted \subseteq Users

\* The host and the users inside have joined; their tokens have expired.
ShareInit ==
  /\ meeting \in [status : {"active"}, waiting_room_on : {TRUE},
                  max_participants : Limits]
  /\ participants = [u \in Users |->
       IF u \in Inside \cup {Host}
       THEN [NoRow EXCEPT !.role = IF u = Host THEN "host" ELSE "guest",
                          !.status = "admitted"]
       ELSE NoRow]
  /\ shares = {}
  /\ req = [s \in Slots |-> Idle]
  /\ approved = Inside \cup {Host}
  /\ granted = {}
  /\ room = TRUE
  /\ connected = Inside \cup {Host}
  /\ tokens = {}
  /\ hooks = {}
  /\ policy \in [allow : BOOLEAN, approval : BOOLEAN]
  /\ sreq = [s \in Slots |-> Quiet]
  /\ permitted = {}

Admitted(u) == participants[u].status = "admitted"
Guest(u) == participants[u].role = "guest"
Sharing == {u \in Users : Admitted(u) /\ participants[u].is_screen_sharing}

Turn(s, q) == sreq' = [sreq EXCEPT ![s] = q]
Step(s, pc) == Turn(s, [sreq[s] EXCEPT !.pc = pc])
Answer(s) == Turn(s, Quiet)
Enter(s, q) ==
  /\ q.op \in ShareOps
  /\ Exists
  /\ req[s] = Idle
  /\ sreq[s] = Quiet
  /\ Turn(s, q)

SetFlag(u, on) == SetRow(u, [participants[u] EXCEPT !.is_screen_sharing = on])

Keep == UNCHANGED <<meetingVars, policy>>
KeepAll == Keep /\ UNCHANGED permitted
KeepBut == UNCHANGED <<meeting, req, ghosts, livekit, policy, permitted>>

-----------------------------------------------------------------------------
(* startScreenShare and approveScreenShare                                 *)

StartScreenShare(s, u) ==
  /\ policy.allow
  /\ Enter(s, ShareCall("start", u, policy.approval, "FindParticipant"))
  /\ KeepAll

ApproveScreenShare(s, u, v) ==
  /\ Moderator(u)
  /\ Enter(s, ShareCall("approve", v, FALSE, "FindParticipant"))
  /\ KeepAll

Found(q) ==
  [q EXCEPT !.pc = IF q.op = "stop" THEN "DeleteShare" ELSE "FindSharing",
            !.ask = q.ask /\ Guest(q.of)]

\* The admitted row whose share it is, in stopScreenShare too.
FindParticipant(s) ==
  /\ sreq[s].pc = "FindParticipant"
  /\ IF Admitted(sreq[s].of) THEN Turn(s, Found(sreq[s])) ELSE Answer(s)
  /\ KeepAll

Unrivalled(q) ==
  [q EXCEPT !.pc = IF q.op = "approve" THEN "FindRequest" ELSE "UpsertShare",
            !.other = Nobody]

\* Nobody else shares. Who starts now without having to ask may share.
Proceed(s) ==
  LET q == sreq[s] IN
  /\ Turn(s, Unrivalled(q))
  /\ permitted' = IF q.op = "approve" \/ q.ask THEN permitted
                  ELSE permitted \cup {q.of}

\* getActiveShare: one of those sharing, then that user's row in screenShare.
FindSharing(s) ==
  LET q == sreq[s] IN
  /\ q.pc = "FindSharing"
  /\ \/ \E v \in Sharing \ {q.of} :
          /\ Turn(s, [q EXCEPT !.pc = "FindShare", !.other = v])
          /\ UNCHANGED permitted
     \/ Sharing \subseteq {q.of} /\ Proceed(s)
     \/ q.of \in Sharing /\ Proceed(s)
  /\ Keep

FindShare(s) ==
  LET q == sreq[s] IN
  /\ q.pc = "FindShare"
  /\ \/ q.other \in shares /\ Answer(s) /\ UNCHANGED permitted
     \/ q.other \notin shares /\ Proceed(s)
  /\ Keep

\* The last check of an approval: there is a request.
FindRequest(s) ==
  LET q == sreq[s] IN
  /\ q.pc = "FindRequest"
  /\ IF q.of \in shares
     THEN Step(s, "Permit") /\ permitted' = permitted \cup {q.of}
     ELSE Answer(s) /\ UNCHANGED permitted
  /\ Keep

\* updateParticipant: an error for a user who is not connected.
Permit(s) ==
  LET q == sreq[s] IN
  /\ q.pc = "Permit"
  /\ \/ /\ q.of \in connected
        /\ Step(s, IF q.op = "approve" THEN "UpsertShare" ELSE "ClearOwn")
     \/ q.of \notin connected /\ Answer(s)
     \/ "livekit" \in Faults /\ Answer(s)
  /\ KeepAll

UpsertShareUnasked(s) ==
  /\ sreq[s].pc = "UpsertShare"
  /\ Exists
  /\ shares' = shares \cup {sreq[s].of}
  /\ Step(s, "ClearAll")
  /\ UNCHANGED participants
  /\ KeepBut

\* The foreign key refuses a row of a deleted meeting.
UpsertShare(s) ==
  /\ sreq[s].pc = "UpsertShare"
  /\ \/ /\ Exists
        /\ shares' = shares \cup {sreq[s].of}
        /\ Step(s, IF sreq[s].ask THEN "ClearOwn" ELSE "ClearAll")
     \/ ~Exists /\ Answer(s) /\ UNCHANGED shares
  /\ UNCHANGED participants
  /\ KeepBut

ClearAllOfOwn(s) ==
  /\ sreq[s].pc = "ClearAll"
  /\ SetFlag(sreq[s].of, FALSE)
  /\ Step(s, "SetOwn")
  /\ UNCHANGED shares
  /\ KeepBut

ClearAll(s) ==
  /\ sreq[s].pc = "ClearAll"
  /\ participants' = [u \in Users |->
       [participants[u] EXCEPT !.is_screen_sharing = FALSE]]
  /\ Step(s, "SetOwn")
  /\ UNCHANGED shares
  /\ KeepBut

\* By id: an error when the row is gone.
SetOwn(s) ==
  LET u == sreq[s].of IN
  /\ sreq[s].pc = "SetOwn"
  /\ IF HasRow(u) THEN SetFlag(u, TRUE) ELSE UNCHANGED participants
  /\ Answer(s)
  /\ UNCHANGED shares
  /\ KeepBut

-----------------------------------------------------------------------------
(* stopScreenShare and denyScreenShare                                     *)

StopScreenShare(s, u) ==
  /\ Enter(s, ShareCall("stop", u, policy.approval, "FindParticipant"))
  /\ KeepAll

DenyScreenShare(s, u, v) ==
  /\ Enter(s, [ShareCall("deny", v, policy.approval, "FindRequester")
                EXCEPT !.other = u])
  /\ KeepAll

FindRequester(s) ==
  LET q == sreq[s] IN
  /\ q.pc = "FindRequester"
  /\ IF Moderator(q.other)
     THEN Turn(s, [q EXCEPT !.pc = "FindTarget", !.other = Nobody])
     ELSE Answer(s)
  /\ KeepAll

FindTarget(s) ==
  LET q == sreq[s] IN
  /\ q.pc = "FindTarget"
  /\ IF HasRow(q.of)
     THEN Turn(s, [q EXCEPT !.pc = "DeleteShare", !.ask = q.ask /\ Guest(q.of)])
     ELSE Answer(s)
  /\ KeepAll

DeleteShare(s) ==
  /\ sreq[s].pc = "DeleteShare"
  /\ shares' = shares \ {sreq[s].of}
  /\ Step(s, IF sreq[s].ask THEN "Permit" ELSE "ClearOwn")
  /\ UNCHANGED participants
  /\ KeepBut

ClearOwn(s) ==
  LET u == sreq[s].of IN
  /\ sreq[s].pc = "ClearOwn"
  /\ IF HasRow(u) THEN SetFlag(u, FALSE) ELSE UNCHANGED participants
  /\ Answer(s)
  /\ UNCHANGED shares
  /\ KeepBut

-----------------------------------------------------------------------------

\* updateMeeting, the columns that Meeting leaves out.
UpdatePolicy(s) ==
  /\ "policy" \in ShareOps
  /\ Exists
  /\ req[s] = Idle /\ sreq[s] = Quiet
  /\ policy' \in [allow : BOOLEAN, approval : BOOLEAN]
  /\ UNCHANGED <<meetingVars, sreq, permitted>>

ShareAbort(s) ==
  /\ "crash" \in Faults
  /\ sreq[s] # Quiet
  /\ Answer(s)
  /\ KeepAll

ShareStart(s) ==
  \/ \E u \in Users :
       \/ StartScreenShare(s, u) \/ StopScreenShare(s, u)
       \/ \E v \in Users : ApproveScreenShare(s, u, v) \/ DenyScreenShare(s, u, v)
  \/ UpdatePolicy(s)

ShareContinue(s) ==
  \/ FindParticipant(s) \/ FindSharing(s) \/ FindShare(s) \/ FindRequest(s)
  \/ Permit(s) \/ UpsertShare(s) \/ ClearAll(s) \/ SetOwn(s)
  \/ FindRequester(s) \/ FindTarget(s) \/ DeleteShare(s) \/ ClearOwn(s)

MeetingNext ==
  /\ \/ \E s \in Slots : Start(s) /\ sreq[s] = Quiet
     \/ \E s \in Slots : Continue(s) \/ Abort(s)
     \/ Outside
  /\ UNCHANGED shareVars

ShareNext ==
  \/ \E s \in Slots : ShareStart(s) \/ ShareContinue(s) \/ ShareAbort(s)
  \/ MeetingNext

ShareSpec == ShareInit /\ [][ShareNext]_allVars

-----------------------------------------------------------------------------

\* Nobody shares whose request neither the meeting's policy nor a moderator
\* has ever permitted, whatever start, stop, approve and deny overlap with.
NobodySharesUnasked ==
  \A u \in Users : participants[u].is_screen_sharing => u \in permitted

AllAnswered == \A s \in Slots : req[s] = Idle /\ sreq[s] = Quiet

SharersParticipate ==
  AllAnswered =>
    \A u \in Users :
      u \in shares \/ participants[u].is_screen_sharing => Admitted(u)

OneSharer == Cardinality(Sharing) <= 1
=============================================================================
