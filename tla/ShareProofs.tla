---------------------------- MODULE ShareProofs ----------------------------
(***************************************************************************)
(* Proofs about ScreenShare together with the Meeting it shares its rows   *)
(* with, for any users, slots, operations and failures.                    *)
(***************************************************************************)
EXTENDS MCScreenShare, MeetingProofs, FiniteSetTheorems

-----------------------------------------------------------------------------
(* Types.                                                                  *)

\* A request knows whose share it is about.
Asked == {q \in ShareRequest : q.pc # "idle" => q.of \in Users}

ShareTypes ==
  /\ policy \in [allow : BOOLEAN, approval : BOOLEAN]
  /\ sreq \in [Slots -> Asked]
  /\ permitted \subseteq Users

ShareTyped == TypeOK /\ ShareTypes

LEMMA QuietType == Quiet \in Asked
  BY DEF Quiet, ShareCall, Asked, ShareRequest, SharePCs

\* A share request whose caller may share, and one that moves on.
LEMMA ShareCallType ==
  ASSUME NEW op \in ShareOps, NEW u \in Users, NEW ask \in BOOLEAN,
         NEW pc \in SharePCs
  PROVE  ShareCall(op, u, ask, pc) \in Asked
  BY DEF ShareCall, Asked, ShareRequest

LEMMA TurnType ==
  ASSUME ShareTypes, NEW s \in Slots, NEW q \in Asked, Turn(s, q)
  PROVE  /\ sreq' \in [Slots -> Asked]
         /\ sreq'[s] = q
         /\ \A t \in Slots \ {s} : sreq'[t] = sreq[t]
  BY DEF ShareTypes, Turn

LEMMA StepType ==
  ASSUME ShareTypes, NEW s \in Slots, NEW pc \in SharePCs, Step(s, pc),
         sreq[s].pc # "idle"
  PROVE  /\ sreq' \in [Slots -> Asked]
         /\ Turn(s, [sreq[s] EXCEPT !.pc = pc])
         /\ [sreq[s] EXCEPT !.pc = pc] \in Asked
<1>1. [sreq[s] EXCEPT !.pc = pc] \in Asked
  BY DEF ShareTypes, Asked, ShareRequest
<1> QED
  BY <1>1, TurnType DEF Step

LEMMA FoundType ==
  ASSUME NEW q \in Asked, q.pc # "idle"
  PROVE  /\ Found(q) \in Asked
         /\ Found(q).pc = IF q.op = "stop" THEN "DeleteShare" ELSE "FindSharing"
         /\ Found(q).op = q.op /\ Found(q).of = q.of
         /\ Found(q).ask => q.ask
<1> DEFINE ask == q.ask /\ Guest(q.of)
           pc == IF q.op = "stop" THEN "DeleteShare" ELSE "FindSharing"
<1>1. ask \in BOOLEAN /\ (ask => q.ask) /\ pc \in SharePCs
  BY DEF Asked, ShareRequest, SharePCs
<1>2. Found(q) = [q EXCEPT !.pc = pc, !.ask = ask]
  BY DEF Found
<1> HIDE DEF ask
<1> QED
  BY <1>1, <1>2 DEF Asked, ShareRequest

LEMMA UnrivalledType ==
  ASSUME NEW q \in Asked, q.pc # "idle"
  PROVE  /\ Unrivalled(q) \in Asked
         /\ Unrivalled(q).pc
              = IF q.op = "approve" THEN "FindRequest" ELSE "UpsertShare"
         /\ Unrivalled(q).op = q.op /\ Unrivalled(q).of = q.of
         /\ Unrivalled(q).ask = q.ask
  BY DEF Unrivalled, Asked, ShareRequest, SharePCs

LEMMA SetFlagType ==
  ASSUME TypeOK, NEW u, NEW on \in BOOLEAN, SetFlag(u, on)
  PROVE  participants' \in [Users -> Row]
  BY DEF TypeOK, SetFlag, SetRow, Row

\* What the handlers of screenShare.service.ts write of the meeting's tables
\* keeps their types.
LEMMA TablesType ==
  ASSUME TypeOK, participants' \in [Users -> Row], shares' \subseteq Users,
         UNCHANGED <<meeting, req, ghosts, livekit>>
  PROVE  TypeOK'
<1>1. UNCHANGED <<approved, granted, room, connected, tokens, hooks>>
  BY DEF ghosts, livekit
<1> QED
  BY <1>1 DEF TypeOK, ReqType, LiveKitTypeOK

LEMMA KeepType ==
  ASSUME TypeOK, UNCHANGED meetingVars
  PROVE  /\ TypeOK'
         /\ UNCHANGED <<meeting, participants, shares, req>>
<1>1. UNCHANGED <<meeting, participants, shares, req, ghosts, livekit>>
  BY DEF meetingVars
<1>2. participants' \in [Users -> Row] /\ shares' \subseteq Users
  BY <1>1 DEF TypeOK
<1> QED
  BY <1>1, <1>2, TablesType

LEMMA ShareStartType ==
  ASSUME ShareTyped, NEW s \in Slots, ShareStart(s)
  PROVE  ShareTyped'
<1>1. TypeOK /\ ShareTypes
  BY DEF ShareTyped
<1>2. policy.approval \in BOOLEAN
  BY <1>1 DEF ShareTypes
<1>3. ASSUME NEW q \in Asked, Enter(s, q), KeepAll
      PROVE  ShareTyped'
  <2>1. sreq' \in [Slots -> Asked]
    BY <1>1, <1>3, TurnType DEF Enter
  <2> QED
    BY <1>1, <1>3, <2>1, KeepType DEF KeepAll, Keep, ShareTyped, ShareTypes
<1>4. ASSUME NEW u \in Users,
             \/ StartScreenShare(s, u) \/ StopScreenShare(s, u)
             \/ \E v \in Users : ApproveScreenShare(s, v, u)
      PROVE  ShareTyped'
  <2>1. ASSUME NEW op, NEW ask \in BOOLEAN,
               Enter(s, ShareCall(op, u, ask, "FindParticipant")), KeepAll
        PROVE  ShareTyped'
    <3>1. op \in ShareOps
      BY <2>1 DEF Enter, ShareCall
    <3>2. ShareCall(op, u, ask, "FindParticipant") \in Asked
      BY <3>1, ShareCallType DEF SharePCs
    <3> QED
      BY <1>3, <2>1, <3>2
  <2> QED
    BY <1>2, <1>4, <2>1
       DEF StartScreenShare, StopScreenShare, ApproveScreenShare
<1>5. ASSUME NEW u \in Users, NEW v \in Users, DenyScreenShare(s, u, v)
      PROVE  ShareTyped'
  <2> DEFINE q == ShareCall("deny", v, policy.approval, "FindRequester")
  <2>1. Enter(s, [q EXCEPT !.other = u]) /\ KeepAll
    BY <1>5 DEF DenyScreenShare
  <2>2. "deny" \in ShareOps
    BY <2>1 DEF Enter, ShareCall
  <2>3. q \in Asked
    BY <1>2, <2>2, ShareCallType DEF SharePCs
  <2>4. [q EXCEPT !.other = u] \in Asked
    <3> HIDE DEF q
    <3> QED
      BY <2>3 DEF Asked, ShareRequest
  <2> QED
    BY <1>3, <2>1, <2>4
<1>6. CASE UpdatePolicy(s)
  BY <1>1, <1>6, KeepType DEF UpdatePolicy, ShareTyped, ShareTypes
<1> QED
  BY <1>4, <1>5, <1>6 DEF ShareStart

LEMMA ShareContinueType ==
  ASSUME ShareTyped, NEW s \in Slots, ShareContinue(s) \/ ShareAbort(s)
  PROVE  ShareTyped'
<1>1. TypeOK /\ ShareTypes /\ sreq[s] \in Asked
  BY DEF ShareTyped, ShareTypes
<1>2. Answer(s) => sreq' \in [Slots -> Asked]
  BY <1>1, QuietType, TurnType DEF Answer
<1>3. ASSUME NEW pc \in SharePCs, Step(s, pc), sreq[s].pc # "idle"
      PROVE  sreq' \in [Slots -> Asked]
  BY <1>1, <1>3, StepType
<1> USE DEF SharePCs
<1>4. ASSUME sreq' \in [Slots -> Asked], Keep,
             permitted' \in {permitted, permitted \cup {sreq[s].of}},
             sreq[s].pc # "idle"
      PROVE  ShareTyped'
  BY <1>1, <1>4, KeepType DEF Keep, ShareTyped, ShareTypes, Asked
<1>5. ASSUME sreq' \in [Slots -> Asked], KeepAll
      PROVE  ShareTyped'
  BY <1>1, <1>5, KeepType DEF KeepAll, Keep, ShareTyped, ShareTypes
<1>6. ASSUME sreq' \in [Slots -> Asked], KeepBut,
             participants' \in [Users -> Row], shares' \subseteq Users
      PROVE  ShareTyped'
  BY <1>1, <1>6, TablesType DEF KeepBut, ShareTyped, ShareTypes
<1>7. ASSUME Proceed(s), Keep, sreq[s].pc # "idle"
      PROVE  ShareTyped'
  <2>1. Unrivalled(sreq[s]) \in Asked
    BY <1>1, <1>7, UnrivalledType
  <2>2. sreq' \in [Slots -> Asked]
    BY <1>1, <1>7, <2>1, TurnType DEF Proceed
  <2> QED
    BY <1>4, <1>7, <2>2 DEF Proceed
<1>8. CASE FindSharing(s)
  <2>1. sreq[s].pc # "idle" /\ Keep
    BY <1>8 DEF FindSharing
  <2>2. ASSUME NEW v \in Users, UNCHANGED permitted,
               Turn(s, [sreq[s] EXCEPT !.pc = "FindShare", !.other = v])
        PROVE  ShareTyped'
    <3>1. [sreq[s] EXCEPT !.pc = "FindShare", !.other = v] \in Asked
      BY <1>1, <2>1 DEF Asked, ShareRequest
    <3> QED
      BY <1>1, <1>4, <2>1, <2>2, <3>1, TurnType
  <2> QED
    BY <1>7, <1>8, <2>1, <2>2 DEF FindSharing, Sharing
<1>9. CASE FindShare(s)
  BY <1>2, <1>4, <1>7, <1>9 DEF FindShare
<1>10. CASE FindParticipant(s)
  <2>1. sreq[s].pc # "idle"
    BY <1>10 DEF FindParticipant
  <2>2. Found(sreq[s]) \in Asked
    BY <1>1, <2>1, FoundType
  <2> QED
    BY <1>1, <1>2, <1>5, <1>10, <2>2, TurnType DEF FindParticipant
<1>11. CASE FindTarget(s) \/ FindRequester(s)
  <2>1. sreq[s].pc # "idle" /\ KeepAll
    BY <1>11 DEF FindTarget, FindRequester
  <2>2. [sreq[s] EXCEPT !.pc = "DeleteShare",
                        !.ask = sreq[s].ask /\ Guest(sreq[s].of)] \in Asked
    BY <1>1, <2>1 DEF Asked, ShareRequest, Guest
  <2>3. [sreq[s] EXCEPT !.pc = "FindTarget", !.other = Nobody] \in Asked
    BY <1>1, <2>1 DEF Asked, ShareRequest
  <2> QED
    BY <1>1, <1>2, <1>5, <1>11, <2>1, <2>2, <2>3, TurnType
       DEF FindTarget, FindRequester
<1>12. CASE FindRequest(s)
  BY <1>2, <1>3, <1>4, <1>12 DEF FindRequest
<1>13. CASE Permit(s)
  BY <1>2, <1>3, <1>5, <1>13 DEF Permit
<1>14. CASE ShareAbort(s)
  BY <1>2, <1>5, <1>14 DEF ShareAbort
<1>15. participants \in [Users -> Row] /\ shares \subseteq Users
  BY <1>1 DEF TypeOK
<1>16. CASE UpsertShare(s)
  BY <1>1, <1>2, <1>3, <1>6, <1>15, <1>16 DEF UpsertShare, Asked
<1>17. CASE DeleteShare(s)
  BY <1>3, <1>6, <1>15, <1>17 DEF DeleteShare
<1>18. CASE ClearAll(s)
  <2>1. participants' \in [Users -> Row]
    BY <1>15, <1>18 DEF ClearAll, Row
  <2> QED
    BY <1>3, <1>6, <1>15, <1>18, <2>1 DEF ClearAll
<1>19. CASE SetOwn(s) \/ ClearOwn(s)
  <2>1. participants' \in [Users -> Row]
    BY <1>1, <1>15, <1>19, SetFlagType DEF SetOwn, ClearOwn
  <2> QED
    BY <1>2, <1>6, <1>15, <1>19, <2>1 DEF SetOwn, ClearOwn
<1> QED
  BY <1>10, <1>11, <1>13, <1>14, <1>16, <1>17, <1>18, <1>19, <1>8, <1>9, <1>12
     DEF ShareContinue

-----------------------------------------------------------------------------
(* The handlers of meetings.service.ts start nobody's sharing.             *)

Flag(u) == participants[u].is_screen_sharing

FlagsFall == \A u \in Users : Flag(u)' => Flag(u)

LEMMA SetRowFalls ==
  ASSUME TypeOK, NEW v, NEW r, SetRow(v, r),
         v \in Users => (r.is_screen_sharing => Flag(v))
  PROVE  FlagsFall
  BY DEF TypeOK, SetRow, FlagsFall, Flag

LEMMA RowFalls ==
  ASSUME NEW r \in Row, NEW st
  PROVE  /\ LetIn(r, st).is_screen_sharing = r.is_screen_sharing
         /\ ~PutOut(r, st).is_screen_sharing
         /\ [LetIn(r, st) EXCEPT !.is_muted = FALSE].is_screen_sharing
              = r.is_screen_sharing
         /\ [r EXCEPT !.is_muted = TRUE].is_screen_sharing = r.is_screen_sharing
         /\ [r EXCEPT !.role = "cohost"].is_screen_sharing = r.is_screen_sharing
  BY DEF LetIn, PutOut, Row

LEMMA MeetingFlagsFall ==
  ASSUME TypeOK, NEW s \in Slots, Start(s) \/ Continue(s) \/ Abort(s)
  PROVE  FlagsFall
<1>1. participants \in [Users -> Row]
  BY DEF TypeOK
<1>2. CASE UNCHANGED participants
  BY <1>2 DEF FlagsFall, Flag
<1>3. ReadOnly => UNCHANGED participants
  BY DEF ReadOnly, db
<1>4. CASE Start(s)
  <2>1. ASSUME NEW u \in Users, DeleteMeeting(s, u)
        PROVE  FlagsFall
    BY <2>1 DEF DeleteMeeting, FlagsFall, Flag, NoRow
  <2>2. ASSUME NEW u \in Users, UpdateMeeting(s, u)
        PROVE  UNCHANGED participants
    BY <2>2 DEF UpdateMeeting
  <2>3. ASSUME NEW h \in hooks, Deliver(s, h)
        PROVE  UNCHANGED participants
    BY <2>3 DEF Deliver, db
  <2>4. ASSUME NEW u \in Users, NEW v \in Users,
               \/ JoinMeetingFind(s, u) \/ GetLiveKitTokenFind(s, u)
               \/ LeaveMeetingFind(s, u) \/ AdmitAll(s, u) \/ MuteAll(s, u)
               \/ EndMeetingFind(s, u) \/ AdmitParticipant(s, u, v)
               \/ DenyFind(s, u, v) \/ KickParticipantFind(s, u, v)
               \/ AssignCohostFind(s, u, v) \/ MuteParticipant(s, u, v)
        PROVE  UNCHANGED participants
    BY <1>3, <2>4
       DEF JoinMeetingFind, GetLiveKitTokenFind, LeaveMeetingFind, AdmitAll,
           MuteAll, EndMeetingFind, AdmitParticipant, DenyFind,
           KickParticipantFind, AssignCohostFind, MuteParticipant
  <2> QED
    BY <1>2, <1>4, <2>1, <2>2, <2>3, <2>4 DEF Start
<1>5. CASE \/ JoinCount(s) \/ GetLiveKitTokenRow(s) \/ EnsureRoomExists(s)
           \/ MarkMeetingActive(s) \/ NormalizeShares(s)
           \/ RemoveLiveKitParticipant(s) \/ EnsureModerator(s)
           \/ AdmitCount(s) \/ AdmitParticipantFind(s) \/ AdmitAllFind(s)
           \/ AdmitAllCount(s) \/ DenyParticipantFind(s) \/ DenyShares(s)
           \/ CloseShares(s) \/ CloseMeeting(s) \/ DeleteLiveKitRoom(s)
           \/ MuteFind(s) \/ MuteAllFind(s) \/ HookStarted(s)
           \/ HookLeftShares(s) \/ Abort(s)
  BY <1>2, <1>3, <1>5
     DEF JoinCount, GetLiveKitTokenRow, EnsureRoomExists, MarkMeetingActive,
         NormalizeShares, RemoveLiveKitParticipant, EnsureModerator,
         AdmitCount, AdmitParticipantFind, AdmitAllFind, AdmitAllCount,
         DenyParticipantFind, DenyShares, CloseShares, CloseMeeting,
         DeleteLiveKitRoom, MuteFind, MuteAllFind, HookStarted,
         HookLeftShares, Abort, Reject, db
<1>6. CASE JoinWrite(s)
  <2>1. CASE Reject(s)
    BY <1>2, <1>3, <2>1 DEF Reject
  <2>2. CASE ~Reject(s)
    <3> DEFINE u == req[s].by
    <3>1. u \in Users /\ SetRow(u, JoinedRow(req[s]))
      BY <1>6, <2>2 DEF JoinWrite, TypeOK, ReqType, RequestOK, CallerPCs
    <3>2. JoinedRow(req[s]).is_screen_sharing = Flag(u)
      BY <1>1, <3>1 DEF JoinedRow, LetIn, Flag, Row
    <3> QED
      BY <3>1, <3>2, SetRowFalls
  <2> QED
    BY <2>1, <2>2
<1>7. CASE \/ IssueParticipantToken(s) \/ NormalizeRow(s) \/ DenyWrite(s)
           \/ CohostWrite(s) \/ MuteWrite(s) \/ HookJoined(s) \/ HookLeft(s)
           \/ AdmitWrite(s) \/ \E v \in Users : AdmitAllWrite(s, v)
  <2>1. ASSUME NEW v, NEW st,
               NEW r \in {LetIn(participants[v], st), PutOut(participants[v], st),
                          [LetIn(participants[v], st) EXCEPT !.is_muted = FALSE],
                          [participants[v] EXCEPT !.is_muted = TRUE],
                          [participants[v] EXCEPT !.role = "cohost"]},
               SetRow(v, r)
        PROVE  FlagsFall
    <3>1. ASSUME v \in Users
          PROVE  r.is_screen_sharing => Flag(v)
      <4>1. PICK w \in Row : w = participants[v]
        BY <1>1, <3>1
      <4>2. CASE r = LetIn(w, st)
        BY <4>1, <4>2, RowFalls DEF Flag
      <4>3. CASE r = PutOut(w, st)
        BY <4>1, <4>3, RowFalls DEF Flag
      <4>4. CASE r = [LetIn(w, st) EXCEPT !.is_muted = FALSE]
        BY <4>1, <4>4, RowFalls DEF Flag
      <4>5. CASE r = [w EXCEPT !.is_muted = TRUE]
        BY <4>1, <4>5, RowFalls DEF Flag
      <4>6. CASE r = [w EXCEPT !.role = "cohost"]
        BY <4>1, <4>6, RowFalls DEF Flag
      <4> QED
        BY <2>1, <4>1, <4>2, <4>3, <4>4, <4>5, <4>6
    <3> QED
      BY <2>1, <3>1, SetRowFalls
  <2> QED
    BY <1>2, <1>3, <1>7, <2>1
       DEF IssueParticipantToken, NormalizeRow, DenyWrite, CohostWrite,
           MuteWrite, HookJoined, HookLeft, AdmitWrite, AdmitAllWrite, Admit,
           Reject
<1>8. CASE CloseRows(s) \/ MuteAllWrite(s)
  <2>1. ASSUME NEW u \in Users
        PROVE  Flag(u)' => Flag(u)
    <3>1. /\ ~PutOut(participants[u], "left").is_screen_sharing
          /\ [participants[u] EXCEPT !.is_muted = TRUE].is_screen_sharing = Flag(u)
          /\ ~NoRow.is_screen_sharing
      BY <1>1, RowFalls DEF Flag, NoRow
    <3> QED
      BY <1>8, <3>1 DEF CloseRows, MuteAllWrite, Flag
  <2> QED
    BY <2>1 DEF FlagsFall
<1> QED
  BY <1>4, <1>5, <1>6, <1>7, <1>8 DEF Continue

-----------------------------------------------------------------------------
(* Nobody shares unasked.                                                  *)

\* Inductive: a request that is about to let somebody share has been found to
\* need no approval, or is an approval that has passed its checks; ps are the
\* users who may share.
RequestPermitted(q, ps) ==
  /\ q.pc \in {"ClearAll", "SetOwn"} => q.of \in ps
  /\ q.pc = "UpsertShare" => q.ask \/ q.of \in ps
  /\ q.pc = "Permit" /\ q.op = "approve" => q.of \in ps
  /\ q.pc \in {"FindRequester", "FindTarget", "DeleteShare"} => q.op # "approve"

PermitInv ==
  /\ NobodySharesUnasked
  /\ \A s \in Slots : RequestPermitted(sreq[s], permitted)

\* Permissions are never taken back, and one slot moves to a permitted request.
LEMMA PermitStep ==
  ASSUME ShareTyped, PermitInv, NEW s \in Slots, NEW q, Turn(s, q),
         permitted \subseteq permitted', RequestPermitted(q, permitted'),
         \A u \in Users : Flag(u)' => Flag(u) \/ u \in permitted'
  PROVE  PermitInv'
<1>1. sreq'[s] = q /\ \A t \in Slots \ {s} : sreq'[t] = sreq[t]
  BY DEF ShareTyped, ShareTypes, Turn
<1>2. \A t \in Slots : RequestPermitted(sreq[t], permitted)'
  BY <1>1 DEF PermitInv, RequestPermitted
<1>3. NobodySharesUnasked'
  BY DEF PermitInv, NobodySharesUnasked, Flag
<1> QED
  BY <1>2, <1>3 DEF PermitInv

LEMMA PermitQuiet ==
  ASSUME ShareTyped, PermitInv, UNCHANGED shareVars, FlagsFall
  PROVE  PermitInv'
<1>1. UNCHANGED <<sreq, permitted>>
  BY DEF shareVars
<1> QED
  BY <1>1 DEF PermitInv, RequestPermitted, NobodySharesUnasked, FlagsFall, Flag

LEMMA QuietPermitted == \A ps : RequestPermitted(Quiet, ps)
  BY DEF RequestPermitted, Quiet, ShareCall

LEMMA KeepFlags ==
  ASSUME UNCHANGED meetingVars
  PROVE  FlagsFall /\ UNCHANGED <<meeting, participants, shares, req>>
  BY DEF meetingVars, FlagsFall, Flag

LEMMA PermitStart ==
  ASSUME ShareTyped, PermitInv, NEW s \in Slots, ShareStart(s)
  PROVE  PermitInv'
<1>1. UNCHANGED meetingVars => FlagsFall
  BY KeepFlags
<1>2. ASSUME NEW q, Enter(s, q), KeepAll,
             \/ q.pc = "FindParticipant"
             \/ q.pc = "FindRequester" /\ q.op = "deny"
      PROVE  PermitInv'
  <2>1. Turn(s, q) /\ FlagsFall /\ permitted' = permitted
    BY <1>1, <1>2 DEF Enter, KeepAll, Keep
  <2>2. RequestPermitted(q, permitted')
    BY <1>2 DEF RequestPermitted
  <2> QED
    BY <2>1, <2>2, PermitStep DEF FlagsFall
<1>3. ASSUME NEW u \in Users, NEW v \in Users,
             \/ StartScreenShare(s, u) \/ StopScreenShare(s, u)
             \/ ApproveScreenShare(s, u, v)
      PROVE  PermitInv'
  BY <1>2, <1>3
     DEF StartScreenShare, StopScreenShare, ApproveScreenShare, ShareCall
<1>4. ASSUME NEW u \in Users, NEW v \in Users, DenyScreenShare(s, u, v)
      PROVE  PermitInv'
  <2> DEFINE q == [ShareCall("deny", v, policy.approval, "FindRequester")
                     EXCEPT !.other = u]
  <2>1. q.pc = "FindRequester" /\ q.op = "deny"
    BY DEF ShareCall
  <2>2. Enter(s, q) /\ KeepAll
    BY <1>4 DEF DenyScreenShare
  <2> HIDE DEF q
  <2> QED
    BY <1>2, <2>1, <2>2
<1>5. CASE UpdatePolicy(s)
  BY <1>1, <1>5
     DEF UpdatePolicy, PermitInv, RequestPermitted, NobodySharesUnasked,
         FlagsFall, Flag
<1> QED
  BY <1>3, <1>4, <1>5 DEF ShareStart

LEMMA PermitContinue ==
  ASSUME ShareTyped, PermitInv, NEW s \in Slots, ShareContinue(s) \/ ShareAbort(s)
  PROVE  PermitInv'
<1>1. PICK q \in Asked : q = sreq[s]
  BY DEF ShareTyped, ShareTypes
<1>2. /\ RequestPermitted(q, permitted)
      /\ participants \in [Users -> Row]
  BY <1>1 DEF PermitInv, ShareTyped, TypeOK
<1>3. UNCHANGED participants => FlagsFall
  BY DEF FlagsFall, Flag
<1>4. Keep \/ KeepAll => FlagsFall
  BY KeepFlags DEF KeepAll, Keep
<1>5. KeepBut \/ KeepAll => permitted' = permitted
  BY DEF KeepBut, KeepAll
<1>6. ASSUME NEW r, Turn(s, r), RequestPermitted(r, permitted'), FlagsFall,
             permitted \subseteq permitted'
      PROVE  PermitInv'
  BY <1>6, PermitStep DEF FlagsFall
<1>7. Answer(s) /\ FlagsFall /\ permitted' = permitted => PermitInv'
  BY <1>6, QuietPermitted DEF Answer
<1>8. ASSUME NEW pc, Step(s, pc), FlagsFall, permitted \subseteq permitted',
             \/ pc = "ClearOwn"
             \/ pc \notin {"FindRequester", "FindTarget", "DeleteShare"}
                  /\ q.of \in permitted'
             \/ pc = "Permit" /\ q.op # "approve"
      PROVE  PermitInv'
  <2>1. Turn(s, [q EXCEPT !.pc = pc])
    BY <1>1, <1>8 DEF Step
  <2>2. RequestPermitted([q EXCEPT !.pc = pc], permitted')
    BY <1>1, <1>8 DEF RequestPermitted, Asked, ShareRequest
  <2> QED
    BY <1>6, <1>8, <2>1, <2>2
<1>9. CASE FindParticipant(s)
  <2>1. q.pc # "idle"
    BY <1>1, <1>9 DEF FindParticipant
  <2>2. RequestPermitted(Found(q), permitted')
    BY <2>1, FoundType DEF RequestPermitted
  <2> QED
    BY <1>1, <1>4, <1>5, <1>6, <1>7, <1>9, <2>2 DEF FindParticipant
<1>10. ASSUME Proceed(s), FlagsFall, q.pc # "idle"
       PROVE  PermitInv'
  <2>1. /\ permitted \subseteq permitted'
        /\ q.op = "approve" \/ q.ask \/ q.of \in permitted'
    BY <1>1, <1>10 DEF Proceed
  <2>2. RequestPermitted(Unrivalled(q), permitted')
    BY <1>10, <2>1, UnrivalledType DEF RequestPermitted
  <2> QED
    BY <1>1, <1>6, <1>10, <2>1, <2>2 DEF Proceed
<1>11. CASE FindSharing(s)
  <2>1. FlagsFall /\ q.pc # "idle"
    BY <1>1, <1>4, <1>11 DEF FindSharing
  <2>2. ASSUME NEW v, Turn(s, [q EXCEPT !.pc = "FindShare", !.other = v]),
               UNCHANGED permitted
        PROVE  PermitInv'
    <3>1. RequestPermitted([q EXCEPT !.pc = "FindShare", !.other = v], permitted')
      BY <1>1 DEF RequestPermitted, Asked, ShareRequest
    <3> QED
      BY <1>6, <2>1, <2>2, <3>1
  <2> QED
    BY <1>1, <1>10, <1>11, <2>1, <2>2 DEF FindSharing
<1>12. CASE FindShare(s)
  <2>1. FlagsFall /\ q.pc # "idle"
    BY <1>1, <1>4, <1>12 DEF FindShare
  <2> QED
    BY <1>1, <1>7, <1>10, <1>12, <2>1 DEF FindShare
<1>13. CASE FindRequest(s)
  <2>1. FlagsFall
    BY <1>4, <1>13 DEF FindRequest
  <2> QED
    BY <1>1, <1>7, <1>8, <1>13, <2>1 DEF FindRequest
<1>14. CASE Permit(s)
  <2>1. FlagsFall /\ permitted' = permitted /\ q.pc = "Permit"
    BY <1>1, <1>4, <1>5, <1>14 DEF Permit
  <2> QED
    BY <1>1, <1>2, <1>7, <1>8, <1>14, <2>1 DEF Permit, RequestPermitted
<1>15. CASE UpsertShare(s)
  <2>1. q.pc = "UpsertShare" /\ (q.ask \/ q.of \in permitted)
    BY <1>1, <1>2, <1>15 DEF UpsertShare, RequestPermitted
  <2> QED
    BY <1>1, <1>3, <1>5, <1>7, <1>8, <1>15, <2>1 DEF UpsertShare
<1>16. CASE ClearAll(s)
  <2>1. FlagsFall
    BY <1>2, <1>16 DEF ClearAll, FlagsFall, Flag, Row
  <2>2. q.of \in permitted
    BY <1>1, <1>2, <1>16 DEF ClearAll, RequestPermitted
  <2> QED
    BY <1>5, <1>8, <1>16, <2>1, <2>2 DEF ClearAll
<1>17. CASE SetOwn(s)
  <2>1. q.of \in permitted /\ permitted' = permitted
    BY <1>1, <1>2, <1>5, <1>17 DEF SetOwn, RequestPermitted
  <2>2. \A u \in Users : Flag(u)' => Flag(u) \/ u \in permitted'
    BY <1>1, <1>2, <1>17, <2>1 DEF SetOwn, SetFlag, SetRow, Flag, Row
  <2>3. Turn(s, Quiet)
    BY <1>17 DEF SetOwn, Answer
  <2> QED
    BY <2>1, <2>2, <2>3, QuietPermitted, PermitStep
<1>18. CASE FindRequester(s)
  <2>1. RequestPermitted([q EXCEPT !.pc = "FindTarget", !.other = Nobody],
                         permitted')
    BY <1>1, <1>2, <1>18 DEF FindRequester, RequestPermitted, Asked, ShareRequest
  <2> QED
    BY <1>1, <1>4, <1>5, <1>6, <1>7, <1>18, <2>1 DEF FindRequester
<1>19. CASE FindTarget(s)
  <2> DEFINE ask == q.ask /\ Guest(q.of)
  <2>1. q.pc = "FindTarget" /\ q.op # "approve"
    BY <1>1, <1>2, <1>19 DEF FindTarget, RequestPermitted
  <2>2. RequestPermitted([q EXCEPT !.pc = "DeleteShare", !.ask = ask], permitted')
    <3> HIDE DEF ask
    <3> QED
      BY <1>1, <2>1 DEF RequestPermitted, Asked, ShareRequest
  <2>3. \/ Turn(s, [q EXCEPT !.pc = "DeleteShare", !.ask = ask])
        \/ Answer(s)
    BY <1>1, <1>19 DEF FindTarget
  <2>4. FlagsFall /\ permitted' = permitted
    BY <1>4, <1>5, <1>19 DEF FindTarget
  <2> QED
    BY <1>6, <1>7, <2>2, <2>3, <2>4
<1>20. CASE DeleteShare(s)
  <2>1. q.op # "approve"
    BY <1>1, <1>2, <1>20 DEF DeleteShare, RequestPermitted
  <2> QED
    BY <1>1, <1>3, <1>5, <1>8, <1>20, <2>1 DEF DeleteShare
<1>21. CASE ClearOwn(s)
  <2>1. FlagsFall
    BY <1>2, <1>21, SetRowFalls DEF ClearOwn, SetFlag, FlagsFall, Flag, Row, ShareTyped
  <2> QED
    BY <1>5, <1>7, <1>21, <2>1 DEF ClearOwn
<1>22. CASE ShareAbort(s)
  BY <1>4, <1>5, <1>7, <1>22 DEF ShareAbort
<1> QED
  BY <1>9, <1>11, <1>12, <1>13, <1>14, <1>15, <1>16, <1>17, <1>18, <1>19,
     <1>20, <1>21, <1>22 DEF ShareContinue

LEMMA ShareInitial == ShareInit => ShareTyped /\ PermitInv
<1> SUFFICES ASSUME ShareInit PROVE ShareTyped /\ PermitInv
  OBVIOUS
<1>1. meeting \in MeetingRow
  BY DEF ShareInit, MeetingRow
<1>2. participants \in [Users -> Row] /\ \A u \in Users : ~Flag(u)
  BY NoRowType DEF ShareInit, NoRow, Row, Roles, Statuses, Flag
<1>3. ReqType
  BY IdleType DEF ShareInit, ReqType
<1>4. LiveKitTypeOK
  BY InsideAssumption, HostAssumption DEF ShareInit, LiveKitTypeOK
<1>5. TypeOK
  BY <1>1, <1>2, <1>3, <1>4, InsideAssumption, HostAssumption DEF ShareInit, TypeOK
<1>6. ShareTypes
  BY QuietType DEF ShareInit, ShareTypes
<1>7. PermitInv
  BY <1>2, QuietPermitted DEF ShareInit, PermitInv, NobodySharesUnasked, Flag
<1> QED
  BY <1>5, <1>6, <1>7 DEF ShareTyped

\* A step of the meeting's own handlers, or of LiveKit.
LEMMA MeetingMoves ==
  ASSUME ShareTyped, MeetingNext
  PROVE  TypeOK' /\ ShareTypes' /\ FlagsFall
<1>1. UNCHANGED <<policy, sreq, permitted>>
  BY DEF MeetingNext, shareVars
<1>2. ShareTypes'
  BY <1>1 DEF ShareTyped, ShareTypes
<1>3. Next
  BY DEF MeetingNext, Next
<1>4. TypeOK'
  BY <1>3, TypeNext DEF ShareTyped
<1>5. Outside => FlagsFall
  BY DEF Outside, db, FlagsFall, Flag
<1>6. FlagsFall
  BY <1>5, MeetingFlagsFall DEF MeetingNext, ShareTyped
<1> QED
  BY <1>2, <1>4, <1>6

LEMMA ShareInductive ==
  ASSUME ShareTyped, PermitInv, [ShareNext]_allVars
  PROVE  ShareTyped' /\ PermitInv'
<1>1. CASE MeetingNext
  BY <1>1, MeetingMoves, PermitQuiet DEF ShareTyped, MeetingNext
<1>2. CASE UNCHANGED allVars
  <2>1. UNCHANGED meetingVars /\ UNCHANGED shareVars
    BY <1>2 DEF allVars
  <2>2. TypeOK' /\ FlagsFall
    BY <2>1, KeepType, KeepFlags DEF ShareTyped
  <2>3. ShareTypes'
    BY <2>1 DEF ShareTyped, ShareTypes, shareVars
  <2> QED
    BY <2>1, <2>2, <2>3, PermitQuiet DEF ShareTyped
<1> QED
  BY <1>1, <1>2, ShareStartType, ShareContinueType, PermitStart, PermitContinue
     DEF ShareNext

\* Rows, permissions and the requests in flight of both services have their
\* types in every behaviour; a request knows whose share it is about.
THEOREM ShareTypeCorrect == ShareSpec => []ShareTypeOK
<1>1. ShareTyped => ShareTypeOK
  BY DEF ShareTyped, ShareTypes, ShareTypeOK, Asked
<1> QED
  BY <1>1, ShareInitial, ShareInductive, PTL DEF ShareSpec

\* Nobody's row says sharing unless the meeting's policy let them or a
\* moderator has approved: screenShare.service.ts keeps this however many of
\* its requests and of the meeting's handlers run at once, and die.
THEOREM SharingIsPermitted == ShareSpec => []NobodySharesUnasked
<1>1. PermitInv => NobodySharesUnasked
  BY DEF PermitInv
<1> QED
  BY <1>1, ShareInitial, ShareInductive, PTL DEF ShareSpec

-----------------------------------------------------------------------------
(* The meeting in which screens are shared keeps what it keeps without.    *)

Flagged(u, on) ==
  participants'[u] = [participants[u] EXCEPT !.is_screen_sharing = on]

\* screenShare.service.ts marks rows that are there as sharing, clears marks,
\* and writes shares of an existing meeting.
SharesOnly ==
  /\ UNCHANGED <<meeting, req, ghosts, livekit>>
  /\ \A u \in Users :
       \/ participants'[u] = participants[u]
       \/ Flagged(u, FALSE)
       \/ HasRow(u) /\ Flagged(u, TRUE)
  /\ Exists \/ shares' \subseteq shares

LEMMA SharesOnlyWrites ==
  ASSUME ShareTyped, NEW s \in Slots,
         ShareStart(s) \/ ShareContinue(s) \/ ShareAbort(s)
  PROVE  SharesOnly
<1>1. \A u \in Users : participants[u] \in Row
  BY DEF ShareTyped, TypeOK
<1>2. ASSUME UNCHANGED meetingVars
      PROVE  SharesOnly
  BY <1>2 DEF meetingVars, SharesOnly
<1>3. CASE ShareStart(s) \/ ShareAbort(s)
  BY <1>2, <1>3
     DEF ShareStart, StartScreenShare, ApproveScreenShare, StopScreenShare,
         DenyScreenShare, UpdatePolicy, ShareAbort, Keep, KeepAll
<1>4. CASE FindParticipant(s) \/ FindSharing(s) \/ FindShare(s)
             \/ FindRequest(s) \/ Permit(s) \/ FindRequester(s) \/ FindTarget(s)
  BY <1>2, <1>4
     DEF FindParticipant, FindSharing, FindShare, FindRequest, Permit,
         FindRequester, FindTarget, Keep, KeepAll
<1>5. CASE UpsertShare(s) \/ DeleteShare(s)
  BY <1>5 DEF UpsertShare, DeleteShare, KeepBut, SharesOnly
<1>6. CASE ClearAll(s) \/ SetOwn(s) \/ ClearOwn(s)
  <2>1. UNCHANGED <<meeting, shares, req, ghosts, livekit>>
    BY <1>6 DEF ClearAll, SetOwn, ClearOwn, KeepBut
  <2>2. ASSUME NEW u \in Users
        PROVE  \/ participants'[u] = participants[u]
               \/ Flagged(u, FALSE)
               \/ HasRow(u) /\ Flagged(u, TRUE)
    BY <1>6
       DEF ClearAll, SetOwn, ClearOwn, SetFlag, SetRow, Flagged, ShareTyped,
           TypeOK
  <2> QED
    BY <2>1, <2>2 DEF SharesOnly
<1> QED
  BY <1>3, <1>4, <1>5, <1>6 DEF ShareContinue

LEMMA SharesKeepMeeting ==
  ASSUME TypeOK, AdmissionInv, RowsInv, SharesOnly
  PROVE  /\ AdmissionInv' /\ RowsInv'
         /\ UNCHANGED [u \in Users |-> participants[u].status]
<1>1. UNCHANGED <<meeting, req, approved, granted, tokens, connected, hooks>>
  BY DEF SharesOnly, ghosts, livekit
<1>2. ASSUME NEW u \in Users
      PROVE  /\ participants'[u].status = participants[u].status
             /\ participants'[u].role = participants[u].role
             /\ participants'[u].left_at = participants[u].left_at
             /\ participants'[u].is_muted = participants[u].is_muted
             /\ participants[u] = NoRow => participants'[u] = NoRow
  <2>1. participants[u] \in Row
    BY DEF TypeOK
  <2>2. ASSUME NEW on \in BOOLEAN, Flagged(u, on)
        PROVE  /\ participants'[u].status = participants[u].status
               /\ participants'[u].role = participants[u].role
               /\ participants'[u].left_at = participants[u].left_at
               /\ participants'[u].is_muted = participants[u].is_muted
    BY <2>1, <2>2 DEF Flagged, Row
  <2>3. Flagged(u, FALSE) /\ participants[u] = NoRow => participants'[u] = NoRow
    <3>1. participants[u] = NoRow => ~participants[u].is_screen_sharing
      BY DEF NoRow
    <3>2. ~participants[u].is_screen_sharing
            => [participants[u] EXCEPT !.is_screen_sharing = FALSE]
                 = participants[u]
      BY <2>1 DEF Row
    <3> QED
      BY <3>1, <3>2 DEF Flagged
  <2>4. HasRow(u) => participants[u] # NoRow
    BY DEF HasRow, NoRow
  <2> QED
    BY <2>2, <2>3, <2>4 DEF SharesOnly
<1>3. AdmissionInv'
  <2>1. \A u \in Users : RowAllowed(u)'
    BY <1>1, <1>2 DEF AdmissionInv, RowAllowed
  <2> QED
    BY <1>1, <2>1 DEF AdmissionInv, RequestAllowed, MediaAllowed
<1>4. Exists' = Exists
  BY <1>1 DEF Exists
<1>5. \A u \in Users : RowRight(u)'
  BY <1>1, <1>2, <1>4 DEF RowsInv, RowRight, HasRow
<1>6. HostRight'
  BY <1>2, <1>4, HostAssumption DEF RowsInv, HostRight, HasRow
<1>7. \A s \in Slots : RequestRight(req[s])'
  BY <1>1 DEF RowsInv, RequestRight
<1>8. ~Exists => shares' = {}
  BY DEF SharesOnly, RowsInv
<1> QED
  BY <1>2, <1>3, <1>4, <1>5, <1>6, <1>7, <1>8 DEF RowsInv

MeetingRight == AdmissionInv /\ RowsInv

LEMMA SharedInitial == ShareInit => MeetingRight
<1> SUFFICES ASSUME ShareInit PROVE MeetingRight
  OBVIOUS
<1>1. \A u \in Users :
        \/ u \in Inside \cup {Host}
             /\ participants[u] = [NoRow EXCEPT
                  !.role = IF u = Host THEN "host" ELSE "guest",
                  !.status = "admitted"]
        \/ u \notin Inside \cup {Host} /\ participants[u] = NoRow
  BY DEF ShareInit
<1>2. AdmissionInv
  <2>1. \A u \in Users : RowAllowed(u)
    BY <1>1 DEF ShareInit, RowAllowed, NoRow
  <2> QED
    BY <2>1, IdleAllowed DEF ShareInit, AdmissionInv, MediaAllowed
<1>3. Exists /\ HostRight /\ \A u \in Users : RowRight(u)
  BY <1>1, HostAssumption
     DEF ShareInit, Exists, HostRight, RowRight, HasRow, NoRow
<1> QED
  BY <1>2, <1>3 DEF ShareInit, MeetingRight, RowsInv, RequestRight, Idle, Call

LEMMA SharedNext ==
  ASSUME ShareTyped, MeetingRight, [ShareNext]_allVars
  PROVE  /\ MeetingRight'
         /\ TypeOK' => MemberStep
<1>1. ASSUME [Next]_vars
      PROVE  /\ MeetingRight'
             /\ TypeOK' => MemberStep
  BY <1>1, AdmissionNext, RowsNext, RowsStay
     DEF ShareTyped, MeetingRight, RowsKept
<1>2. CASE MeetingNext \/ UNCHANGED allVars
  <2>1. [Next]_vars
    BY <1>2 DEF MeetingNext, Next, allVars, meetingVars, vars, ghosts, livekit
  <2> QED
    BY <1>1, <2>1
<1>3. ASSUME NEW s \in Slots, ShareStart(s) \/ ShareContinue(s) \/ ShareAbort(s)
      PROVE  /\ MeetingRight'
             /\ UNCHANGED [u \in Users |-> participants[u].status]
  BY <1>3, SharesOnlyWrites, SharesKeepMeeting DEF ShareTyped, MeetingRight
<1> QED
  BY <1>2, <1>3 DEF ShareNext, MemberStep

\* Sharing screens costs the meeting none of its invariants: whatever start,
\* stop, approve and deny still write, nobody slips in, the host's row stays,
\* and a deleted meeting leaves no row and no share behind.
THEOREM MeetingStaysRight ==
  ShareSpec => [](/\ WaitingRoomRespected /\ CohostOnlyByHost
                  /\ HostKeepsMeeting /\ LeftAtConsistent
                  /\ MutedWereInside /\ DeletedLeavesNothing)
<1>1. MeetingRight => /\ WaitingRoomRespected /\ CohostOnlyByHost
                      /\ HostKeepsMeeting /\ LeftAtConsistent
                      /\ MutedWereInside /\ DeletedLeavesNothing
  BY DEF MeetingRight, AdmissionInv, RowAllowed, MediaAllowed, RowsInv,
         RowRight, HostRight, WaitingRoomRespected, CohostOnlyByHost,
         HostKeepsMeeting, LeftAtConsistent, MutedWereInside,
         DeletedLeavesNothing
<1> QED
  BY <1>1, ShareInitial, ShareInductive, SharedInitial, SharedNext, PTL
     DEF ShareSpec

\* Its rows come and go as Membership says, on which Polls, Recording and
\* Breakout rest, while screens are shared, too.
THEOREM MembershipKept ==
  ShareSpec => [][Members!MembershipNext]_([u \in Users |->
                                              participants[u].status])
<1>1. ShareTyped => TypeOK
  BY DEF ShareTyped
<1>2. MemberStep <=> [Members!MembershipNext]_([u \in Users |->
                                                 participants[u].status])
  BY DEF MemberStep
<1> QED
  BY <1>1, <1>2, ShareInitial, ShareInductive, SharedInitial, SharedNext, PTL
     DEF ShareSpec

-----------------------------------------------------------------------------
(* One sharer, as long as no requests have overlapped.                     *)

OneFlag == \A u, v \in Users : Flag(u) /\ Flag(v) => u = v
NoFlag == \A u \in Users : ~Flag(u)

\* No request is served while another is, and a slot serves one service.
Lone == /\ \A s, t \in Busy : s = t
        /\ \A s \in Slots : req[s] = Idle \/ sreq[s] = Quiet

\* startScreenShare clears every flag before it sets the sharer's.
SerialShares ==
  /\ Lone
  /\ OneFlag
  /\ \A s \in Slots : sreq[s].pc = "SetOwn" => NoFlag

\* Every slot but s rests, before the step and after.
Only(s) ==
  \A t \in Slots \ {s} : /\ req[t] = Idle /\ req'[t] = Idle
                         /\ sreq[t] = Quiet /\ sreq'[t] = Quiet

\* A step of slot s, which serves a request before it or after.
SlotStep(s) ==
  /\ \A t \in Slots \ {s} : req'[t] = req[t] /\ sreq'[t] = sreq[t]
  /\ s \in Busy \cup Busy'
  /\ \/ req[s] = Idle /\ req'[s] = Idle
     \/ sreq[s] = Quiet /\ sreq'[s] = Quiet

LEMMA StaysLone ==
  ASSUME Lone, NEW s \in Slots, SlotStep(s), ~(Cardinality(Busy') > 1)
  PROVE  Lone' /\ Only(s)
<1>1. IsFiniteSet(Busy')
  <2>1. Busy' \subseteq Busy \cup {s}
    BY DEF SlotStep, Busy
  <2>2. IsFiniteSet(Busy)
    <3>1. CASE Busy = {}
      BY <3>1, FS_EmptySet
    <3>2. ASSUME NEW t \in Busy
          PROVE  IsFiniteSet(Busy)
      <4>1. Busy = {t}
        BY <3>2 DEF Lone
      <4> QED
        BY <4>1, FS_Singleton
    <3> QED
      BY <3>1, <3>2
  <2>3. IsFiniteSet(Busy \cup {s})
    BY <2>2, FS_AddElement
  <2> QED
    BY <2>1, <2>3, FS_Subset
<1>2. ASSUME NEW a \in Busy', NEW b \in Busy', a # b
      PROVE  FALSE
  <2>1. {a, b} \subseteq Busy' /\ IsFiniteSet({a, b}) /\ Cardinality({a, b}) = 2
    <3>1. IsFiniteSet({a}) /\ Cardinality({a}) = 1 /\ b \notin {a}
      BY <1>2, FS_Singleton
    <3>2. {a, b} = {a} \cup {b}
      OBVIOUS
    <3> QED
      BY <3>1, <3>2, FS_AddElement
  <2>2. Cardinality({a, b}) <= Cardinality(Busy')
    BY <1>1, <2>1, FS_Subset
  <2>3. Cardinality(Busy') \in Nat
    BY <1>1, FS_CardinalityType
  <2> QED
    BY <2>1, <2>2, <2>3
<1>3. ASSUME NEW t \in Slots \ {s}
      PROVE  req[t] = Idle /\ sreq[t] = Quiet
  BY <1>2, <1>3 DEF SlotStep, Lone, Busy
<1> QED
  BY <1>2, <1>3 DEF SlotStep, Lone, Only
\* A step that no request of either service takes.
Still == UNCHANGED <<participants, shares, req, sreq>>

LEMMA BecomeMoves ==
  ASSUME TypeOK, NEW s \in Slots, NEW q, Become(s, q)
  PROVE  /\ \A t \in Slots \ {s} : req'[t] = req[t]
         /\ req'[s] = q
  BY DEF TypeOK, ReqType, Become

LEMMA ArriveMoves ==
  ASSUME TypeOK, NEW s \in Slots, NEW q, Arrive(s, q)
  PROVE  /\ \A t \in Slots \ {s} : req'[t] = req[t]
         /\ req'[s] = q /\ q # Idle
<1>1. "none" \notin Ops
  BY OpsAssumption DEF AllOps
<1>2. q # Idle
  BY <1>1 DEF Arrive, Idle, Call
<1> QED
  BY <1>2, BecomeMoves DEF Arrive

LEMMA ContinueMoves ==
  ASSUME TypeOK, NEW s \in Slots, Continue(s)
  PROVE  /\ \A t \in Slots \ {s} : req'[t] = req[t]
         /\ req[s] # Idle
<1> DEFINE Moves == \A t \in Slots \ {s} : req'[t] = req[t]
<1>1. ASSUME NEW q, Become(s, q)
      PROVE  Moves
  BY <1>1, BecomeMoves
<1> HIDE DEF Moves
<1>2. /\ \A pc : Goto(s, pc) => Moves
      /\ Finish(s) => Moves
      /\ Reject(s) => Moves
  BY <1>1 DEF Goto, Finish, Reject
<1>3. CASE \/ JoinCount(s) \/ JoinWrite(s)
           \/ GetLiveKitTokenRow(s) \/ EnsureRoomExists(s)
           \/ IssueParticipantToken(s) \/ MarkMeetingActive(s)
           \/ NormalizeShares(s) \/ NormalizeRow(s) \/ RemoveLiveKitParticipant(s)
  <2>1. Moves
    BY <1>1, <1>2, <1>3
       DEF JoinCount, JoinWrite, GetLiveKitTokenRow, EnsureRoomExists,
           IssueParticipantToken, MarkMeetingActive, NormalizeShares,
           NormalizeRow, RemoveLiveKitParticipant
  <2>2. req[s].pc # "idle"
    BY <1>3
       DEF JoinCount, JoinWrite, GetLiveKitTokenRow, EnsureRoomExists,
           IssueParticipantToken, MarkMeetingActive, NormalizeShares,
           NormalizeRow, RemoveLiveKitParticipant
  <2> QED
    BY <2>1, <2>2 DEF Idle, Call, Moves
<1>4. CASE \/ EnsureModerator(s) \/ AdmitCount(s) \/ AdmitParticipantFind(s)
           \/ AdmitWrite(s) \/ AdmitAllFind(s) \/ AdmitAllCount(s)
           \/ \E v \in Users : AdmitAllWrite(s, v)
           \/ DenyParticipantFind(s) \/ DenyShares(s) \/ DenyWrite(s)
  <2>1. Moves
    BY <1>1, <1>2, <1>4
       DEF EnsureModerator, AdmitCount, AdmitParticipantFind, AdmitWrite,
           AdmitAllFind, AdmitAllCount, AdmitAllWrite, DenyParticipantFind,
           DenyShares, DenyWrite
  <2>2. req[s].pc # "idle"
    BY <1>4
       DEF EnsureModerator, AdmitCount, AdmitParticipantFind, AdmitWrite,
           AdmitAllFind, AdmitAllCount, AdmitAllWrite, DenyParticipantFind,
           DenyShares, DenyWrite
  <2> QED
    BY <2>1, <2>2 DEF Idle, Call, Moves
<1>5. CASE \/ CloseShares(s) \/ CloseRows(s) \/ CloseMeeting(s)
           \/ DeleteLiveKitRoom(s) \/ CohostWrite(s)
           \/ MuteFind(s) \/ MuteWrite(s) \/ MuteAllFind(s) \/ MuteAllWrite(s)
           \/ HookStarted(s) \/ HookJoined(s) \/ HookLeft(s) \/ HookLeftShares(s)
  <2>1. Moves
    BY <1>1, <1>2, <1>5
       DEF CloseShares, CloseRows, CloseMeeting, DeleteLiveKitRoom, CohostWrite,
           MuteFind, MuteWrite, MuteAllFind, MuteAllWrite, HookStarted,
           HookJoined, HookLeft, HookLeftShares
  <2>2. req[s].pc # "idle"
    BY <1>5
       DEF CloseShares, CloseRows, CloseMeeting, DeleteLiveKitRoom, CohostWrite,
           MuteFind, MuteWrite, MuteAllFind, MuteAllWrite, HookStarted,
           HookJoined, HookLeft, HookLeftShares
  <2> QED
    BY <2>1, <2>2 DEF Idle, Call, Moves
<1> QED
  BY <1>3, <1>4, <1>5 DEF Continue

LEMMA StartMoves ==
  ASSUME TypeOK, NEW s \in Slots, Start(s)
  PROVE  \/ UNCHANGED <<participants, shares, req>>
         \/ /\ \A t \in Slots \ {s} : req'[t] = req[t]
            /\ req'[s] # Idle
<1> DEFINE Moves == /\ \A t \in Slots \ {s} : req'[t] = req[t]
                    /\ req'[s] # Idle
<1>1. ASSUME NEW q, Arrive(s, q)
      PROVE  Moves
  BY <1>1, ArriveMoves
<1> HIDE DEF Moves
<1>2. ASSUME NEW u \in Users,
             \/ JoinMeetingFind(s, u) \/ GetLiveKitTokenFind(s, u)
             \/ LeaveMeetingFind(s, u) \/ AdmitAll(s, u) \/ MuteAll(s, u)
             \/ EndMeetingFind(s, u) \/ DeleteMeeting(s, u)
      PROVE  Moves
  BY <1>1, <1>2
     DEF JoinMeetingFind, GetLiveKitTokenFind, LeaveMeetingFind, AdmitAll,
         MuteAll, EndMeetingFind, DeleteMeeting
<1>3. ASSUME NEW u \in Users, NEW v \in Users,
             \/ AdmitParticipant(s, u, v) \/ DenyFind(s, u, v)
             \/ KickParticipantFind(s, u, v) \/ AssignCohostFind(s, u, v)
             \/ MuteParticipant(s, u, v)
      PROVE  Moves
  BY <1>1, <1>3
     DEF AdmitParticipant, DenyFind, KickParticipantFind, AssignCohostFind,
         MuteParticipant
<1>4. ASSUME NEW h \in hooks, Deliver(s, h)
      PROVE  Moves
  BY <1>1, <1>4 DEF Deliver
<1>5. ASSUME NEW u \in Users, UpdateMeeting(s, u)
      PROVE  UNCHANGED <<participants, shares, req>>
  BY <1>5 DEF UpdateMeeting
<1> QED
  BY <1>2, <1>3, <1>4, <1>5 DEF Start, Moves

LEMMA StartsIdle ==
  ASSUME NEW s \in Slots, Start(s)
  PROVE  req[s] = Idle
  BY DEF Start, JoinMeetingFind, GetLiveKitTokenFind, LeaveMeetingFind, AdmitAll,
         MuteAll, EndMeetingFind, UpdateMeeting, DeleteMeeting,
         AdmitParticipant, DenyFind, KickParticipantFind, AssignCohostFind,
         MuteParticipant, Deliver, Arrive

LEMMA MeetingMovesSlot ==
  ASSUME ShareTyped, Lone, UNCHANGED shareVars, NEW s \in Slots,
         (Start(s) /\ sreq[s] = Quiet) \/ Continue(s) \/ Abort(s)
  PROVE  \/ Still
         \/ /\ SlotStep(s)
            /\ sreq[s] = Quiet /\ sreq'[s] = Quiet
            /\ Start(s) => req'[s] # Idle
<1>1. TypeOK /\ sreq' = sreq
  BY DEF ShareTyped, shareVars
<1>2. CASE Start(s) /\ sreq[s] = Quiet
  BY <1>1, <1>2, StartMoves DEF Still, SlotStep, Busy
<1>3. CASE Continue(s) \/ Abort(s)
  <2>1. (\A t \in Slots \ {s} : req'[t] = req[t]) /\ req[s] # Idle
    BY <1>1, <1>3, ContinueMoves, BecomeMoves DEF Abort, Reject, Finish
  <2> QED
    <3>1. s \in Busy /\ sreq[s] = Quiet
      BY <2>1 DEF Busy, Lone
    <3>2. ~Start(s)
      BY <2>1, StartsIdle
    <3> QED
      BY <1>1, <2>1, <3>1, <3>2 DEF SlotStep
<1> QED
  BY <1>2, <1>3

LEMMA ShareMovesSlot ==
  ASSUME ShareTyped, Lone, NEW s \in Slots,
         ShareStart(s) \/ ShareContinue(s) \/ ShareAbort(s)
  PROVE  \/ Still
         \/ SlotStep(s) /\ req[s] = Idle /\ req'[s] = Idle
<1> DEFINE Moves == \A t \in Slots \ {s} : sreq'[t] = sreq[t]
<1>1. ASSUME NEW q, Turn(s, q)
      PROVE  Moves /\ sreq'[s] = q
  BY <1>1 DEF Turn, ShareTyped, ShareTypes
<1> HIDE DEF Moves
<1>2. CASE ShareStart(s) /\ ~UpdatePolicy(s)
  <2>1. ASSUME NEW q, Enter(s, q), q.pc # "idle"
        PROVE  Moves /\ sreq'[s] # Quiet /\ req[s] = Idle
    BY <1>1, <2>1 DEF Enter, ShareCall, Quiet
  <2>2. Moves /\ sreq'[s] # Quiet /\ req[s] = Idle
    <3>1. ASSUME NEW u \in Users, NEW v \in Users, DenyScreenShare(s, u, v)
          PROVE  Moves /\ sreq'[s] # Quiet /\ req[s] = Idle
      <4> DEFINE q == [ShareCall("deny", v, policy.approval, "FindRequester")
                         EXCEPT !.other = u]
      <4>1. q.pc # "idle"
        BY DEF ShareCall
      <4>2. Enter(s, q)
        BY <3>1 DEF DenyScreenShare
      <4> HIDE DEF q
      <4> QED
        BY <2>1, <4>1, <4>2
    <3>2. ASSUME NEW u \in Users, NEW v \in Users,
                 \/ StartScreenShare(s, u) \/ StopScreenShare(s, u)
                 \/ ApproveScreenShare(s, u, v)
          PROVE  Moves /\ sreq'[s] # Quiet /\ req[s] = Idle
      BY <2>1, <3>2
         DEF StartScreenShare, StopScreenShare, ApproveScreenShare, ShareCall
    <3> QED
      BY <1>2, <3>1, <3>2 DEF ShareStart
  <2>3. req' = req
    BY <1>2
       DEF ShareStart, StartScreenShare, StopScreenShare, ApproveScreenShare,
           DenyScreenShare, KeepAll, Keep, meetingVars
  <2> QED
    <3>1. s \in Busy'
      BY <2>2 DEF Busy
    <3>2. \A t \in Slots \ {s} : req'[t] = req[t] /\ sreq'[t] = sreq[t]
      BY <2>2, <2>3 DEF Moves
    <3> QED
      BY <2>2, <2>3, <3>1, <3>2 DEF SlotStep
<1>3. CASE UpdatePolicy(s)
  BY <1>3 DEF UpdatePolicy, meetingVars, Still
<1>4. CASE ShareContinue(s) \/ ShareAbort(s)
  <2>1. Moves
    BY <1>1, <1>4
       DEF ShareContinue, ShareAbort, FindParticipant, FindSharing, FindShare,
           Proceed, FindRequest, Permit, UpsertShare, ClearAll, SetOwn,
           FindRequester, FindTarget, DeleteShare, ClearOwn, Step, Answer
  <2>2. req' = req
    BY <1>4
       DEF ShareContinue, ShareAbort, FindParticipant, FindSharing, FindShare,
           FindRequest, Permit, UpsertShare, ClearAll, SetOwn, FindRequester,
           FindTarget, DeleteShare, ClearOwn, KeepAll, Keep, KeepBut, meetingVars
  <2>3. ShareContinue(s) => sreq[s].pc # "idle"
    BY DEF ShareContinue, FindParticipant, FindSharing, FindShare, FindRequest,
           Permit, UpsertShare, ClearAll, SetOwn, FindRequester, FindTarget,
           DeleteShare, ClearOwn
  <2>4. sreq[s] # Quiet
    BY <1>4, <2>3 DEF ShareAbort, Quiet, ShareCall
  <2> QED
    <3>1. s \in Busy /\ req[s] = Idle
      BY <2>4 DEF Busy, Lone
    <3>2. \A t \in Slots \ {s} : req'[t] = req[t] /\ sreq'[t] = sreq[t]
      BY <2>1, <2>2 DEF Moves
    <3> QED
      BY <2>2, <3>1, <3>2 DEF SlotStep
<1> QED
  BY <1>2, <1>3, <1>4

\* The handlers of screenShare.service.ts, one request at a time.
LEMMA SerialShareStep ==
  ASSUME ShareTyped, SerialShares, NEW s \in Slots, Lone', Only(s),
         ShareStart(s) \/ ShareContinue(s) \/ ShareAbort(s)
  PROVE  SerialShares'
<1>1. PICK q \in Asked : q = sreq[s]
  BY DEF ShareTyped, ShareTypes
<1>2. participants \in [Users -> Row]
  BY DEF ShareTyped, TypeOK
<1>3. ASSUME sreq'[s].pc = "SetOwn" => NoFlag', OneFlag'
      PROVE  SerialShares'
  <2>1. \A t \in Slots \ {s} : sreq'[t].pc # "SetOwn"
    BY DEF Only, Quiet, ShareCall
  <2> QED
    BY <1>3, <2>1 DEF SerialShares
<1>4. FlagsFall => OneFlag'
  BY DEF SerialShares, FlagsFall, OneFlag
<1>5. ASSUME NEW r, Turn(s, r), r.pc # "SetOwn", FlagsFall
      PROVE  SerialShares'
  <2>1. sreq'[s] = r
    BY <1>5 DEF Turn, ShareTyped, ShareTypes
  <2> QED
    BY <1>3, <1>4, <1>5, <2>1
<1>6. Answer(s) /\ FlagsFall => SerialShares'
  BY <1>5 DEF Answer, Quiet, ShareCall
<1>7. ASSUME NEW pc, Step(s, pc), pc # "SetOwn", FlagsFall
      PROVE  SerialShares'
  <2>1. [q EXCEPT !.pc = pc].pc = pc
    BY <1>1 DEF Asked, ShareRequest
  <2>2. Turn(s, [q EXCEPT !.pc = pc])
    BY <1>1, <1>7 DEF Step
  <2> QED
    BY <1>5, <1>7, <2>1, <2>2
<1>8. UNCHANGED participants => FlagsFall
  BY DEF FlagsFall, Flag
<1>9. Keep \/ KeepAll => FlagsFall
  BY KeepFlags DEF KeepAll, Keep
<1>10. CASE ShareStart(s)
  <2>1. ASSUME NEW r, Enter(s, r), r.pc # "SetOwn", KeepAll
        PROVE  SerialShares'
    BY <1>5, <1>9, <2>1 DEF Enter
  <2>2. CASE UpdatePolicy(s)
    BY <1>3, <1>4, <2>2, KeepFlags
       DEF UpdatePolicy, SerialShares, NoFlag, FlagsFall
  <2>3. ASSUME NEW u \in Users, NEW v \in Users, DenyScreenShare(s, u, v)
        PROVE  SerialShares'
    <3> DEFINE r == [ShareCall("deny", v, policy.approval, "FindRequester")
                       EXCEPT !.other = u]
    <3>1. r.pc # "SetOwn"
      BY DEF ShareCall
    <3>2. Enter(s, r) /\ KeepAll
      BY <2>3 DEF DenyScreenShare
    <3> HIDE DEF r
    <3> QED
      BY <2>1, <3>1, <3>2
  <2>4. ASSUME NEW u \in Users, NEW v \in Users,
               \/ StartScreenShare(s, u) \/ StopScreenShare(s, u)
               \/ ApproveScreenShare(s, u, v)
        PROVE  SerialShares'
    BY <2>1, <2>4
       DEF StartScreenShare, StopScreenShare, ApproveScreenShare, ShareCall
  <2> QED
    BY <1>10, <2>2, <2>3, <2>4 DEF ShareStart
<1>11. CASE FindRequest(s) \/ Permit(s)
  BY <1>6, <1>7, <1>9, <1>11 DEF FindRequest, Permit
<1>12. CASE FindParticipant(s)
  <2>1. q.pc # "idle"
    BY <1>1, <1>12 DEF FindParticipant
  <2>2. Found(q).pc # "SetOwn"
    BY <2>1, FoundType
  <2> QED
    BY <1>1, <1>5, <1>6, <1>9, <1>12, <2>2 DEF FindParticipant
<1>13. CASE FindSharing(s) \/ FindShare(s)
  <2>1. q.pc # "idle" /\ FlagsFall
    BY <1>1, <1>9, <1>13 DEF FindSharing, FindShare
  <2>2. \A v : [q EXCEPT !.pc = "FindShare", !.other = v].pc = "FindShare"
    BY <1>1 DEF Asked, ShareRequest
  <2>3. Proceed(s) => SerialShares'
    <3>1. Unrivalled(q).pc # "SetOwn"
      BY <2>1, UnrivalledType
    <3> QED
      BY <1>1, <1>5, <2>1, <3>1 DEF Proceed
  <2>4. FindSharing(s) => SerialShares'
    BY <1>1, <1>5, <2>1, <2>2, <2>3 DEF FindSharing
  <2>5. FindShare(s) => SerialShares'
    BY <1>6, <2>1, <2>3 DEF FindShare
  <2> QED
    BY <1>13, <2>4, <2>5
<1>14. CASE UpsertShare(s) \/ DeleteShare(s)
  BY <1>6, <1>7, <1>8, <1>14 DEF UpsertShare, DeleteShare
<1>15. CASE ClearAll(s)
  <2>1. NoFlag'
    BY <1>2, <1>15 DEF ClearAll, NoFlag, Flag, Row
  <2> QED
    BY <1>3, <2>1 DEF NoFlag, OneFlag
<1>16. CASE SetOwn(s)
  <2>1. OneFlag'
    BY <1>2, <1>16 DEF SetOwn, SetFlag, SetRow, SerialShares, NoFlag, OneFlag, Flag, Row
  <2>2. sreq'[s].pc # "SetOwn"
    BY <1>16 DEF SetOwn, Answer, Turn, ShareTyped, ShareTypes, Quiet, ShareCall
  <2> QED
    BY <1>3, <2>1, <2>2
<1>17. CASE FindRequester(s) \/ FindTarget(s)
  <2>1. \A ask : [q EXCEPT !.pc = "DeleteShare", !.ask = ask].pc = "DeleteShare"
    BY <1>1 DEF Asked, ShareRequest
  <2>2. [q EXCEPT !.pc = "FindTarget", !.other = Nobody].pc = "FindTarget"
    BY <1>1 DEF Asked, ShareRequest
  <2>3. FindTarget(s) => SerialShares'
    BY <1>1, <1>5, <1>6, <1>9, <2>1 DEF FindTarget
  <2>4. FindRequester(s) => SerialShares'
    BY <1>1, <1>5, <1>6, <1>9, <2>2 DEF FindRequester
  <2> QED
    BY <1>17, <2>3, <2>4
<1>18. CASE ClearOwn(s)
  <2>1. FlagsFall
    BY <1>2, <1>18, SetRowFalls DEF ClearOwn, SetFlag, FlagsFall, Flag, Row, ShareTyped
  <2> QED
    BY <1>6, <1>18, <2>1 DEF ClearOwn
<1>19. CASE ShareAbort(s)
  BY <1>6, <1>9, <1>19 DEF ShareAbort
<1> QED
  BY <1>10, <1>11, <1>12, <1>13, <1>14, <1>15, <1>16, <1>17, <1>18, <1>19
     DEF ShareContinue

LEMMA SerialMeetingStep ==
  ASSUME SerialShares, Lone', FlagsFall, UNCHANGED sreq
  PROVE  SerialShares'
  BY DEF SerialShares, FlagsFall, OneFlag, NoFlag
-----------------------------------------------------------------------------
(* Shares end with participation, as long as none has overlapped or died.  *)

Leaving(q, u) == q.pc = "HookLeftShares" /\ q.of = u

\* What a request of meetings.service.ts has read or written still stands.
CalmRequest(q) ==
  /\ q.pc \in {"JoinCount", "JoinWrite"} => q.row = participants[q.by]
  /\ q.pc \in {"NormalizeRow", "DenyWrite"} => q.of \notin shares
  /\ q.pc = "CloseRows" => shares = {}

\* Whoever is about to share has been found admitted, and is still.
CalmShare(q) ==
  /\ q.pc \in {"FindSharing", "FindShare", "FindRequest", "UpsertShare",
               "ClearAll", "SetOwn"} => Admitted(q.of)
  /\ q.pc = "Permit" /\ q.op = "approve" => Admitted(q.of)

Calm ==
  /\ \A u \in Users : Flag(u) => Admitted(u)
  /\ \A u \in shares : Admitted(u) \/ \E s \in Slots : Leaving(req[s], u)
  /\ \A s \in Slots : CalmRequest(req[s]) /\ CalmShare(sreq[s])

LEMMA RestIsCalm ==
  /\ CalmRequest(Idle) /\ CalmShare(Quiet)
  /\ \A u : ~Leaving(Idle, u)
  BY DEF CalmRequest, CalmShare, Leaving, Idle, Call, Quiet, ShareCall

\* A step of meetings.service.ts to request q.
LEMMA CalmStep ==
  ASSUME ShareTyped, NEW s \in Slots, NEW q, Become(s, q), Only(s),
         sreq'[s] = Quiet,
         \A u \in Users : Flag(u)' => Admitted(u)',
         \A u \in shares' : Admitted(u)' \/ Leaving(q, u),
         CalmRequest(req[s])'
  PROVE  Calm'
<1>1. req'[s] = q
  BY DEF ShareTyped, TypeOK, ReqType, Become
<1>2. \A t \in Slots \ {s} : req'[t] = Idle /\ sreq'[t] = Quiet
  BY DEF Only
<1>3. \A t \in Slots : CalmRequest(req[t])' /\ CalmShare(sreq[t])'
  BY <1>2, RestIsCalm DEF CalmRequest, CalmShare, Idle, Call, Quiet, ShareCall
<1>4. \A u \in shares' : Admitted(u)' \/ \E t \in Slots : Leaving(req[t], u)'
  BY <1>1 DEF Leaving
<1> QED
  BY <1>3, <1>4 DEF Calm

\* Between the two writes of the participant_left webhook a share outlives
\* its participant; at any other time every share is an admitted user's.
LEMMA SharesAdmitted ==
  ASSUME Calm, NEW s \in Slots, Only(s), req[s].pc # "HookLeftShares"
  PROVE  \A u \in shares : Admitted(u)
<1>1. \A t \in Slots \ {s} : \A u : ~Leaving(req[t], u)
  BY RestIsCalm DEF Only
<1> QED
  BY <1>1 DEF Calm, Leaving

Watched == {"JoinCount", "JoinWrite", "NormalizeRow", "DenyWrite", "CloseRows"}

\* Nothing of the tables is written.
LEMMA CalmRead ==
  ASSUME ShareTyped, Calm, NEW s \in Slots, NEW q, Become(s, q), Only(s),
         sreq'[s] = Quiet, UNCHANGED <<participants, shares>>,
         req[s].pc # "HookLeftShares", q.pc \in Watched => CalmRequest(q)
  PROVE  Calm'
<1>1. req'[s] = q
  BY DEF ShareTyped, TypeOK, ReqType, Become
<1>2. CalmRequest(req[s])'
  BY <1>1 DEF CalmRequest, Watched
<1>3. \A u \in Users : Flag(u)' => Admitted(u)'
  BY DEF Calm, Flag, Admitted
<1>4. \A u \in shares' : Admitted(u)'
  BY SharesAdmitted DEF Admitted
<1> QED
  BY <1>2, <1>3, <1>4, CalmStep

\* One row is written: whoever shares or asks to stays admitted.
LEMMA CalmWrite ==
  ASSUME ShareTyped, Calm, NEW s \in Slots, NEW q, Become(s, q), Only(s),
         sreq'[s] = Quiet, req[s].pc # "HookLeftShares", q.pc \notin Watched,
         NEW v, NEW r, SetRow(v, r), shares' = shares,
         v \in Users /\ r.is_screen_sharing => r.status = "admitted",
         v \in shares => r.status = "admitted" \/ Leaving(q, v)
  PROVE  Calm'
<1>1. req'[s] = q
  BY DEF ShareTyped, TypeOK, ReqType, Become
<1>2. CalmRequest(req[s])'
  BY <1>1 DEF CalmRequest, Watched
<1>3. /\ shares \subseteq Users
      /\ \A u \in Users : participants'[u] = IF u = v THEN r ELSE participants[u]
  BY DEF ShareTyped, TypeOK, SetRow
<1>4. \A u \in Users : Flag(u)' => Admitted(u)'
  BY <1>3 DEF Calm, Flag, Admitted
<1>5. \A u \in shares' : Admitted(u)' \/ Leaving(q, u)
  BY <1>3, SharesAdmitted DEF Admitted
<1> QED
  BY <1>2, <1>4, <1>5, CalmStep

LEMMA CalmStart ==
  ASSUME ShareTyped, Calm, NEW s \in Slots, Start(s), Only(s),
         sreq'[s] = Quiet, req'[s] # Idle
  PROVE  Calm'
<1>1. req[s] = Idle => req[s].pc # "HookLeftShares"
  BY DEF Idle, Call
<1>2. ASSUME NEW q, Arrive(s, q), UNCHANGED <<participants, shares>>,
             q.pc \in Watched => CalmRequest(q)
      PROVE  Calm'
  BY <1>1, <1>2, CalmRead DEF Arrive
<1>3. ReadOnly => UNCHANGED <<participants, shares>>
  BY DEF ReadOnly, db
<1>4. ASSUME NEW u \in Users, JoinMeetingFind(s, u)
      PROVE  Calm'
  <2> DEFINE q == [Call("join", u, u, "JoinWrite") EXCEPT
                     !.row = participants[u], !.wr = meeting.waiting_room_on]
             c == [q EXCEPT !.pc = "JoinCount", !.max = meeting.max_participants]
  <2>1. CalmRequest(q) /\ CalmRequest(c)
    BY DEF CalmRequest, Call
  <2>2. Arrive(s, q) \/ Arrive(s, c)
    BY <1>4 DEF JoinMeetingFind
  <2> HIDE DEF q, c
  <2> QED
    BY <1>2, <1>3, <1>4, <2>1, <2>2 DEF JoinMeetingFind
<1>5. ASSUME NEW u \in Users,
             \/ GetLiveKitTokenFind(s, u) \/ LeaveMeetingFind(s, u)
             \/ MuteAll(s, u) \/ EndMeetingFind(s, u)
      PROVE  Calm'
  BY <1>2, <1>3, <1>5
     DEF GetLiveKitTokenFind, LeaveMeetingFind, MuteAll, EndMeetingFind, Call,
         Watched
<1>6. ASSUME NEW u \in Users, NEW v \in Users,
             \/ DenyFind(s, u, v) \/ KickParticipantFind(s, u, v)
             \/ AssignCohostFind(s, u, v) \/ MuteParticipant(s, u, v)
      PROVE  Calm'
  BY <1>2, <1>3, <1>6
     DEF DenyFind, KickParticipantFind, AssignCohostFind, MuteParticipant,
         Call, Watched
<1>7. ASSUME NEW u \in Users, NEW v, NEW op,
             Arrive(s, [Call(op, u, v, "EnsureModerator")
                          EXCEPT !.max = meeting.max_participants]),
             ReadOnly
      PROVE  Calm'
  <2>1. [Call(op, u, v, "EnsureModerator")
           EXCEPT !.max = meeting.max_participants].pc \notin Watched
    BY DEF Call, Watched
  <2> QED
    BY <1>2, <1>3, <1>7, <2>1
<1>8. ASSUME NEW u \in Users,
             AdmitAll(s, u) \/ \E v \in Users : AdmitParticipant(s, u, v)
      PROVE  Calm'
  BY <1>7, <1>8 DEF AdmitAll, AdmitParticipant
<1>9. ASSUME NEW u \in Users, DeleteMeeting(s, u)
      PROVE  Calm'
  <2> DEFINE q == Call("delete", u, Nobody, "DeleteLiveKitRoom")
  <2>1. Become(s, q) /\ q.pc = "DeleteLiveKitRoom"
    BY <1>9 DEF DeleteMeeting, Arrive, Call
  <2>2. req'[s] = q
    BY <2>1 DEF ShareTyped, TypeOK, ReqType, Become
  <2>3. CalmRequest(req[s])'
    BY <2>1, <2>2 DEF CalmRequest
  <2>4. (\A u_1 \in Users : ~Flag(u_1)') /\ shares' = {}
    BY <1>9 DEF DeleteMeeting, Flag, NoRow
  <2> HIDE DEF q
  <2> QED
    BY <2>1, <2>3, <2>4, CalmStep
<1>10. ASSUME NEW h \in hooks, Deliver(s, h)
       PROVE  Calm'
  <2>1. PICK pc \in {"HookStarted", "CloseShares", "HookJoined", "HookLeft"} :
          Arrive(s, Call("webhook", h.identity, h.identity, pc))
    <3>1. h.event \in {"room_started", "room_finished", "participant_joined",
                       "participant_left"}
      BY <1>10 DEF ShareTyped, TypeOK, LiveKitTypeOK, Hooks, RoomEvents, UserEvents
    <3> QED
      BY <1>10, <3>1 DEF Deliver
  <2> QED
    BY <1>2, <1>10, <2>1 DEF Deliver, db, Call, Watched
<1>11. \A u \in Users : ~UpdateMeeting(s, u)
  BY DEF UpdateMeeting
<1> QED
  BY <1>4, <1>5, <1>6, <1>8, <1>9, <1>10, <1>11 DEF Start
\* A request that reads on, or calls LiveKit, or writes the meeting's row.
LEMMA CalmReads ==
  ASSUME ShareTyped, Calm, NEW s \in Slots, Continue(s), Only(s),
         sreq'[s] = Quiet, UNCHANGED <<participants, shares>>,
         req[s].pc # "HookLeftShares"
  PROVE  Calm'
<1>1. PICK q \in Request : q = req[s] /\ CalmRequest(q)
  BY DEF ShareTyped, TypeOK, ReqType, Calm
<1>2. ASSUME NEW r, Become(s, r), r.pc \in Watched => CalmRequest(r)
      PROVE  Calm'
  BY <1>2, CalmRead
<1>3. Finish(s) => Calm'
  BY <1>2, RestIsCalm DEF Finish
<1>4. ASSUME NEW pc, Become(s, At(q, pc)), pc \notin Watched
      PROVE  Calm'
  BY <1>1, <1>2, <1>4 DEF At, Request
<1>5. ASSUME NEW pc, Become(s, Counted(q, pc)), pc \notin Watched
      PROVE  Calm'
  BY <1>1, <1>2, <1>5 DEF Counted, Request
<1>6. ASSUME NEW pc, NEW x, Become(s, [At(q, pc) EXCEPT !.todo = x]),
             pc \notin Watched
      PROVE  Calm'
  <2>1. [At(q, pc) EXCEPT !.todo = x].pc = pc
    BY <1>1 DEF At, Request
  <2> QED
    BY <1>2, <1>6, <2>1
<1>7. Reject(s) => Calm'
  BY <1>3 DEF Reject
<1>8. CASE JoinCount(s)
  <2>1. CalmRequest(Counted(q, "JoinWrite"))
    BY <1>1, <1>8 DEF JoinCount, CalmRequest, Counted, Request
  <2> QED
    BY <1>1, <1>2, <1>3, <1>8, <2>1 DEF JoinCount
<1>9. CASE JoinWrite(s)
  <2>1. [At(q, "EnsureRoomExists") EXCEPT !.row = NoRow, !.wr = FALSE].pc
          = "EnsureRoomExists"
    BY <1>1 DEF At, Request
  <2> QED
    BY <1>1, <1>2, <1>3, <1>7, <1>9, <2>1 DEF JoinWrite, Watched
<1>10. CASE \/ GetLiveKitTokenRow(s) \/ EnsureRoomExists(s)
            \/ IssueParticipantToken(s) \/ MarkMeetingActive(s)
            \/ RemoveLiveKitParticipant(s)
  BY <1>1, <1>3, <1>4, <1>7, <1>10
     DEF GetLiveKitTokenRow, EnsureRoomExists, IssueParticipantToken,
         MarkMeetingActive, RemoveLiveKitParticipant, Goto, Watched
<1>11. CASE NormalizeShares(s) \/ DenyShares(s)
  <2>1. PICK p \in {"NormalizeRow", "DenyWrite"} :
          Become(s, At(q, p)) /\ shares' = shares \ {q.of}
    BY <1>1, <1>11 DEF NormalizeShares, DenyShares, Goto
  <2>2. CalmRequest(At(q, p))
    BY <1>1, <2>1 DEF CalmRequest, At, Request
  <2> QED
    BY <1>2, <2>1, <2>2
<1>12. CASE CloseShares(s)
  <2>1. CalmRequest(At(q, "CloseRows"))
    BY <1>1, <1>12 DEF CloseShares, CalmRequest, At, Request
  <2> QED
    BY <1>1, <1>2, <1>12, <2>1 DEF CloseShares, Goto
<1>13. CASE \/ NormalizeRow(s) \/ CloseRows(s) \/ CloseMeeting(s)
            \/ DeleteLiveKitRoom(s)
  BY <1>1, <1>3, <1>4, <1>7, <1>13
     DEF NormalizeRow, CloseRows, CloseMeeting, DeleteLiveKitRoom, Goto, Watched
<1>14. CASE \/ EnsureModerator(s) \/ AdmitCount(s) \/ AdmitParticipantFind(s)
            \/ AdmitWrite(s) \/ DenyParticipantFind(s) \/ DenyWrite(s)
  BY <1>1, <1>3, <1>4, <1>5, <1>7, <1>14
     DEF EnsureModerator, AdmitCount, AdmitParticipantFind, AdmitWrite,
         DenyParticipantFind, DenyWrite, Goto, Watched
<1>15. CASE AdmitAllFind(s) \/ AdmitAllCount(s)
  BY <1>1, <1>3, <1>5, <1>6, <1>15 DEF AdmitAllFind, AdmitAllCount, Watched
<1>16. ASSUME NEW v \in Users, AdmitAllWrite(s, v)
       PROVE  Calm'
  <2>1. [q EXCEPT !.todo = q.todo \ {v}].pc \notin Watched
    BY <1>1, <1>16 DEF AdmitAllWrite, Request, Watched
  <2> QED
    BY <1>1, <1>2, <1>3, <1>16, <2>1 DEF AdmitAllWrite
<1>17. CASE \/ CohostWrite(s) \/ MuteFind(s) \/ MuteWrite(s) \/ MuteAllWrite(s)
            \/ HookStarted(s) \/ HookJoined(s) \/ HookLeft(s)
  BY <1>1, <1>3, <1>4, <1>7, <1>17
     DEF CohostWrite, MuteFind, MuteWrite, MuteAllWrite, HookStarted,
         HookJoined, HookLeft, Goto, Watched
<1>18. CASE MuteAllFind(s)
  BY <1>1, <1>6, <1>18 DEF MuteAllFind, Watched
<1>19. ~HookLeftShares(s)
  BY DEF HookLeftShares
<1> QED
  BY <1>8, <1>9, <1>10, <1>11, <1>12, <1>13, <1>14, <1>15, <1>16, <1>17,
     <1>18, <1>19 DEF Continue
\* A handler writes one row, and leaves the shares.
LEMMA CalmRowWrites ==
  ASSUME ShareTyped, Calm, NEW s \in Slots, Only(s), sreq'[s] = Quiet,
         \/ JoinWrite(s) \/ IssueParticipantToken(s) \/ NormalizeRow(s)
         \/ AdmitWrite(s) \/ \E v \in Users : AdmitAllWrite(s, v)
         \/ DenyWrite(s) \/ CohostWrite(s) \/ MuteWrite(s)
         \/ HookJoined(s) \/ HookLeft(s),
         participants' # participants
  PROVE  Calm'
<1>1. PICK q \in Request : q = req[s] /\ CalmRequest(q)
  BY DEF ShareTyped, TypeOK, ReqType, Calm
<1>2. /\ participants \in [Users -> Row]
      /\ \A u \in Users : Flag(u) => Admitted(u)
  BY DEF ShareTyped, TypeOK, Calm
<1>3. req[s].pc # "HookLeftShares" => \A u \in shares : Admitted(u)
  BY SharesAdmitted
<1>4. UNCHANGED participants => FALSE
  OBVIOUS
<1>5. ReadOnly => FALSE
  BY DEF ReadOnly, db
<1>6. ASSUME NEW p, Become(s, p), p.pc \notin Watched, q.pc # "HookLeftShares",
             NEW v, NEW r, SetRow(v, r), shares' = shares,
             v \in Users => (r.is_screen_sharing => r.status = "admitted"),
             v \in shares => r.status = "admitted" \/ Leaving(p, v)
      PROVE  Calm'
  BY <1>1, <1>6, CalmWrite
<1>7. Idle.pc \notin Watched
  BY DEF Idle, Call, Watched
<1>8. \A pc : At(q, pc).pc = pc /\ At(q, pc).of = q.of
  BY <1>1 DEF At, Request
<1>9. \A v \in Users : \A st :
        /\ LetIn(participants[v], st).status = st
        /\ LetIn(participants[v], st).is_screen_sharing = Flag(v)
        /\ PutOut(participants[v], st).status = st
        /\ ~PutOut(participants[v], st).is_screen_sharing
  BY <1>2 DEF LetIn, PutOut, Row, Flag
<1>10. CASE JoinWrite(s)
  <2>1. q.pc = "JoinWrite" /\ q.by \in Users
    BY <1>1, <1>10 DEF JoinWrite, ShareTyped, TypeOK, ReqType, RequestOK, CallerPCs
  <2>2. /\ JoinedRow(q).is_screen_sharing = Flag(q.by)
        /\ JoinedRow(q).status = NextStatus(q)
    <3> DEFINE role == IF q.by = Host THEN "host"
                       ELSE IF q.row = NoRow THEN "guest" ELSE q.row.role
               w == [participants[q.by] EXCEPT !.role = role]
    <3>1. w.is_screen_sharing = Flag(q.by)
      BY <1>2, <2>1 DEF Flag, Row
    <3>2. /\ LetIn(w, NextStatus(q)).is_screen_sharing = w.is_screen_sharing
          /\ LetIn(w, NextStatus(q)).status = NextStatus(q)
      <4>1. NextStatus(q) \in Statuses
        BY DEF NextStatus, Statuses
      <4>2. PICK r \in [role : {role}, status : Statuses, left_at : BOOLEAN,
                        is_screen_sharing : BOOLEAN, is_muted : BOOLEAN] : r = w
        BY <1>2, <2>1 DEF Row
      <4> HIDE DEF w, role
      <4> QED
        BY <4>1, <4>2 DEF LetIn
    <3> QED
      BY <3>1, <3>2 DEF JoinedRow
  <2>3. Admitted(q.by) => NextStatus(q) = "admitted"
    BY <1>1, <2>1 DEF CalmRequest, NextStatus, Admitted
  <2>4. [At(q, "EnsureRoomExists") EXCEPT !.row = NoRow, !.wr = FALSE].pc
          = "EnsureRoomExists"
    BY <1>1 DEF At, Request
  <2>5. /\ Flag(q.by) => NextStatus(q) = "admitted"
        /\ q.by \in shares => NextStatus(q) = "admitted"
    BY <1>1, <1>2, <1>3, <2>1, <2>3
  <2>6. /\ SetRow(q.by, JoinedRow(q)) /\ shares' = shares
        /\ \/ Become(s, [At(q, "EnsureRoomExists") EXCEPT !.row = NoRow, !.wr = FALSE])
           \/ Become(s, Idle)
    BY <1>1, <1>5, <1>10 DEF JoinWrite, Reject, Finish
  <2> QED
    BY <1>6, <1>7, <2>1, <2>2, <2>4, <2>5, <2>6 DEF Watched
<1>11. CASE IssueParticipantToken(s) \/ HookJoined(s)
  <2>1. PICK v : /\ SetRow(v, LetIn(participants[v], "admitted"))
                 /\ shares' = shares
                 /\ q.pc # "HookLeftShares"
                 /\ Become(s, At(q, "MarkMeetingActive")) \/ Become(s, Idle)
    BY <1>1, <1>4, <1>5, <1>11
       DEF IssueParticipantToken, HookJoined, Goto, Reject, Finish
  <2>2. v \in Users
    BY <1>2, <1>4, <2>1 DEF SetRow
  <2> QED
    BY <1>6, <1>7, <1>8, <1>9, <2>1, <2>2 DEF Watched
<1>12. CASE NormalizeRow(s) \/ DenyWrite(s) \/ HookLeft(s)
  <2> DEFINE Puts(st, pc) ==
        /\ SetRow(q.of, PutOut(participants[q.of], st))
        /\ shares' = shares
        /\ q.pc # "HookLeftShares"
        /\ q.of \in shares => pc = "HookLeftShares"
        /\ \/ pc # "idle" /\ Become(s, At(q, pc))
           \/ pc = "idle" /\ Become(s, Idle)
  <2>1. PICK st \in {"left", "denied"},
             pc \in {"RemoveLiveKitParticipant", "idle", "HookLeftShares"} :
          Puts(st, pc)
    <3>1. NormalizeRow(s) => Puts("left", "RemoveLiveKitParticipant")
      BY <1>1, <1>4, <1>5 DEF NormalizeRow, Goto, CalmRequest
    <3>2. DenyWrite(s) => Puts("denied", "idle")
      BY <1>1, <1>4, <1>5 DEF DenyWrite, Reject, Finish, CalmRequest
    <3>3. HookLeft(s) => Puts("left", "HookLeftShares")
      BY <1>1, <1>4, <1>5 DEF HookLeft, Goto
    <3> QED
      BY <1>12, <3>1, <3>2, <3>3
  <2>2. q.of \in Users
    BY <1>2, <1>4, <2>1 DEF SetRow
  <2>3. pc = "HookLeftShares" => Leaving(At(q, pc), q.of)
    BY <1>8 DEF Leaving
  <2> QED
    BY <1>6, <1>7, <1>8, <1>9, <2>1, <2>2, <2>3 DEF Watched
<1>13. CASE AdmitWrite(s) \/ \E v \in Users : AdmitAllWrite(s, v)
  <2>1. PICK v, p : /\ Admit(s, v) /\ Become(s, p) /\ q.pc # "HookLeftShares"
                    /\ p = Idle \/ p = [q EXCEPT !.todo = q.todo \ {v}]
    BY <1>1, <1>5, <1>13 DEF AdmitWrite, AdmitAllWrite, Reject, Finish
  <2>2. q.pc \in {"AdmitWrite", "AdmitAllWrite"}
    BY <1>1, <1>13 DEF AdmitWrite, AdmitAllWrite
  <2>3. p.pc \notin Watched
    BY <1>1, <1>7, <2>1, <2>2 DEF Request, Watched
  <2>4. SetRow(v, [LetIn(participants[v], "admitted") EXCEPT !.is_muted = FALSE])
        /\ shares' = shares
    BY <2>1 DEF Admit
  <2>5. v \in Users
    BY <1>2, <1>4, <2>4 DEF SetRow
  <2>6. [LetIn(participants[v], "admitted") EXCEPT !.is_muted = FALSE].status
          = "admitted"
    BY <1>2, <2>5 DEF LetIn, Row
  <2> QED
    BY <1>6, <2>1, <2>3, <2>4, <2>6
<1>14. CASE CohostWrite(s) \/ MuteWrite(s)
  <2>1. PICK r \in {[participants[q.of] EXCEPT !.is_muted = TRUE],
                    [participants[q.of] EXCEPT !.role = "cohost"]} :
          /\ SetRow(q.of, r) /\ shares' = shares /\ Become(s, Idle)
          /\ q.pc # "HookLeftShares"
    BY <1>1, <1>4, <1>5, <1>14 DEF CohostWrite, MuteWrite, Finish, Reject
  <2>2. q.of \in Users
    BY <1>2, <1>4, <2>1 DEF SetRow
  <2>3. r.is_screen_sharing = Flag(q.of) /\ r.status = participants[q.of].status
    BY <1>2, <2>1, <2>2 DEF Flag, Row
  <2> QED
    BY <1>1, <1>2, <1>3, <1>6, <1>7, <2>1, <2>2, <2>3 DEF Admitted
<1> QED
  BY <1>10, <1>11, <1>12, <1>13, <1>14
\* The one action of a request at that await.
LEMMA ContinueAt ==
  ASSUME NEW s \in Slots, Continue(s), req[s].pc = "HookLeftShares"
  PROVE  HookLeftShares(s)
  BY DEF Continue, JoinCount, JoinWrite, GetLiveKitTokenRow, EnsureRoomExists,
         IssueParticipantToken, MarkMeetingActive, NormalizeShares,
         NormalizeRow, RemoveLiveKitParticipant, EnsureModerator, AdmitCount,
         AdmitParticipantFind, AdmitWrite, AdmitAllFind, AdmitAllCount,
         AdmitAllWrite, DenyParticipantFind, DenyShares, DenyWrite, CloseShares,
         CloseRows, CloseMeeting, DeleteLiveKitRoom, CohostWrite, MuteFind,
         MuteWrite, MuteAllFind, MuteAllWrite, HookStarted, HookJoined, HookLeft

LEMMA CalmContinue ==
  ASSUME ShareTyped, Calm, NEW s \in Slots, Continue(s), Only(s),
         sreq'[s] = Quiet
  PROVE  Calm'
<1>1. PICK q \in Request : q = req[s] /\ CalmRequest(q)
  BY DEF ShareTyped, TypeOK, ReqType, Calm
<1>2. /\ participants \in [Users -> Row]
      /\ \A u \in Users : Flag(u) => Admitted(u)
  BY DEF ShareTyped, TypeOK, Calm
<1>3. ASSUME NEW p, Become(s, p), p.pc \notin Watched
      PROVE  CalmRequest(req[s])'
  BY <1>3 DEF ShareTyped, TypeOK, ReqType, Become, CalmRequest, Watched
<1>4. CASE HookLeftShares(s)
  <2>1. \A t \in Slots \ {s} : \A u : ~Leaving(req[t], u)
    BY RestIsCalm DEF Only
  <2>2. \A u \in shares' : Admitted(u)'
    BY <1>4, <2>1 DEF HookLeftShares, Calm, Leaving, Admitted
  <2>3. \A u \in Users : Flag(u)' => Admitted(u)'
    BY <1>2, <1>4 DEF HookLeftShares, Flag, Admitted
  <2>4. Become(s, Idle) /\ Idle.pc \notin Watched
    BY <1>4 DEF HookLeftShares, Finish, Idle, Call, Watched
  <2> QED
    BY <1>3, <2>2, <2>3, <2>4, CalmStep
<1>5. CASE NormalizeShares(s) \/ DenyShares(s) \/ CloseShares(s)
  <2>1. PICK pc : Become(s, At(q, pc))
                  /\ \/ /\ pc \in {"NormalizeRow", "DenyWrite"}
                        /\ shares' = shares \ {q.of}
                     \/ pc = "CloseRows" /\ shares' = {}
    BY <1>1, <1>5 DEF NormalizeShares, DenyShares, CloseShares, Goto
  <2>2. participants' = participants
    BY <1>5 DEF NormalizeShares, DenyShares, CloseShares
  <2>3. req'[s] = At(q, pc) /\ At(q, pc).pc = pc /\ At(q, pc).of = q.of
    BY <1>1, <2>1 DEF ShareTyped, TypeOK, ReqType, Become, At, Request
  <2>4. CalmRequest(req[s])'
    BY <2>1, <2>3 DEF CalmRequest
  <2>5. \A u \in Users : Flag(u)' => Admitted(u)'
    BY <1>2, <2>2 DEF Flag, Admitted
  <2>6. req[s].pc # "HookLeftShares"
    BY <1>5 DEF NormalizeShares, DenyShares, CloseShares
  <2>7. \A u \in shares' : Admitted(u)'
    BY <2>1, <2>2, <2>6, SharesAdmitted DEF Admitted
  <2> QED
    BY <2>1, <2>4, <2>5, <2>7, CalmStep
<1>6. CASE CloseRows(s)
  <2>1. shares' = {} /\ Become(s, At(q, "CloseMeeting"))
    BY <1>1, <1>6 DEF CloseRows, Goto, CalmRequest
  <2>2. \A u \in Users : ~Flag(u)'
    BY <1>2, <1>6, RowFalls DEF CloseRows, Flag, NoRow
  <2>3. At(q, "CloseMeeting").pc \notin Watched
    BY <1>1 DEF At, Request, Watched
  <2> QED
    BY <1>3, <2>1, <2>2, <2>3, CalmStep
<1>7. CASE MuteAllWrite(s)
  <2>1. \A u \in Users : Flag(u)' = Flag(u) /\ Admitted(u)' = Admitted(u)
    BY <1>2, <1>7 DEF MuteAllWrite, Flag, Admitted, Row
  <2>2. shares' = shares /\ shares \subseteq Users /\ Become(s, Idle)
    BY <1>7 DEF MuteAllWrite, Finish, ShareTyped, TypeOK
  <2>3. req[s].pc # "HookLeftShares" /\ Idle.pc \notin Watched
    BY <1>7 DEF MuteAllWrite, Idle, Call, Watched
  <2>4. (\A u \in Users : Flag(u)' => Admitted(u)') /\ \A u \in shares' : Admitted(u)'
    BY <1>2, <2>1, <2>2, <2>3, SharesAdmitted
  <2> QED
    BY <1>3, <2>2, <2>3, <2>4, CalmStep
<1>8. CASE UNCHANGED <<participants, shares>>
  <2>1. req[s].pc = "HookLeftShares" => HookLeftShares(s)
    BY ContinueAt
  <2> QED
    BY <1>4, <1>8, <2>1, CalmReads
<1>9. CASE \/ JoinCount(s) \/ GetLiveKitTokenRow(s) \/ EnsureRoomExists(s)
           \/ MarkMeetingActive(s) \/ RemoveLiveKitParticipant(s)
           \/ EnsureModerator(s) \/ AdmitCount(s) \/ AdmitParticipantFind(s)
           \/ AdmitAllFind(s) \/ AdmitAllCount(s) \/ DenyParticipantFind(s)
           \/ CloseMeeting(s) \/ DeleteLiveKitRoom(s) \/ MuteFind(s)
           \/ MuteAllFind(s) \/ HookStarted(s)
  <2>1. UNCHANGED <<participants, shares>>
    BY <1>9
       DEF JoinCount, GetLiveKitTokenRow, EnsureRoomExists, MarkMeetingActive,
           RemoveLiveKitParticipant, EnsureModerator, AdmitCount,
           AdmitParticipantFind, AdmitAllFind, AdmitAllCount,
           DenyParticipantFind, CloseMeeting, DeleteLiveKitRoom, MuteFind,
           MuteAllFind, HookStarted, Reject, ReadOnly, db
  <2> QED
    BY <1>8, <2>1
<1>10. CASE \/ JoinWrite(s) \/ IssueParticipantToken(s) \/ NormalizeRow(s)
            \/ AdmitWrite(s) \/ \E v \in Users : AdmitAllWrite(s, v)
            \/ DenyWrite(s) \/ CohostWrite(s) \/ MuteWrite(s)
            \/ HookJoined(s) \/ HookLeft(s)
  <2>1. shares' = shares
    BY <1>10
       DEF JoinWrite, IssueParticipantToken, NormalizeRow, AdmitWrite,
           AdmitAllWrite, Admit, DenyWrite, CohostWrite, MuteWrite, HookJoined,
           HookLeft, Reject, ReadOnly, db
  <2> QED
    BY <1>8, <1>10, <2>1, CalmRowWrites
<1> QED
  BY <1>4, <1>5, <1>6, <1>7, <1>9, <1>10 DEF Continue
\* A step of screenShare.service.ts: nobody's status changes.
LEMMA CalmTurn ==
  ASSUME ShareTyped, NEW s \in Slots, NEW r \in Asked, Turn(s, r), Only(s),
         req[s] = Idle, req'[s] = Idle,
         \A u \in Users : Admitted(u)' = Admitted(u),
         \A u \in Users : Flag(u)' => Admitted(u),
         shares' \subseteq Users,
         \A u \in shares' : Admitted(u),
         CalmShare(r)
  PROVE  Calm'
<1>1. sreq'[s] = r
  BY DEF Turn, ShareTyped, ShareTypes
<1>2. CalmShare(sreq[s])'
  BY <1>1 DEF CalmShare, Asked
<1>3. \A t \in Slots \ {s} : req'[t] = Idle /\ sreq'[t] = Quiet
  BY DEF Only
<1>4. \A t \in Slots \ {s} : CalmShare(sreq[t])'
  BY <1>3 DEF CalmShare, Quiet, ShareCall
<1>5. \A t \in Slots : CalmRequest(req[t])'
  BY <1>3 DEF CalmRequest, Idle, Call
<1>6. \A t \in Slots : CalmRequest(req[t])' /\ CalmShare(sreq[t])'
  BY <1>2, <1>4, <1>5
<1> QED
  BY <1>6 DEF Calm

LEMMA CalmShareStep ==
  ASSUME ShareTyped, PermitInv, Calm, NEW s \in Slots, Only(s),
         req[s] = Idle, req'[s] = Idle,
         (ShareStart(s) /\ ~UpdatePolicy(s)) \/ ShareContinue(s)
  PROVE  Calm'
<1>1. PICK q \in Asked : q = sreq[s]
  BY DEF ShareTyped, ShareTypes
<1>2. /\ CalmShare(q) /\ RequestPermitted(q, permitted)
      /\ participants \in [Users -> Row] /\ shares \subseteq Users
      /\ \A u \in Users : Flag(u) => Admitted(u)
  BY <1>1 DEF ShareTyped, TypeOK, Calm, PermitInv
<1>3. \A u \in shares : Admitted(u)
  BY SharesAdmitted DEF Idle, Call
<1>4. q.pc # "idle" => q.of \in Users
  BY DEF Asked
<1>5. KeepAll \/ Keep => UNCHANGED <<participants, shares>>
  BY DEF KeepAll, Keep, meetingVars
<1>6. ASSUME NEW r \in Asked, Turn(s, r), CalmShare(r),
             UNCHANGED <<participants, shares>>
      PROVE  Calm'
  BY <1>2, <1>3, <1>6, CalmTurn DEF Admitted, Flag
<1>7. ASSUME NEW r \in Asked, Enter(s, r), KeepAll,
             r.pc \in {"FindParticipant", "FindRequester"}
      PROVE  Calm'
  BY <1>5, <1>6, <1>7 DEF Enter, CalmShare
<1>8. CASE ShareStart(s) /\ ~UpdatePolicy(s)
  <2>1. policy.approval \in BOOLEAN
    BY DEF ShareTyped, ShareTypes
  <2>2. ASSUME NEW op, NEW v \in Users, NEW ask \in BOOLEAN,
               Enter(s, ShareCall(op, v, ask, "FindParticipant")), KeepAll
        PROVE  Calm'
    <3>1. ShareCall(op, v, ask, "FindParticipant") \in Asked
      BY <2>2, ShareCallType DEF Enter, ShareCall, SharePCs
    <3> QED
      BY <1>7, <2>2, <3>1 DEF ShareCall
  <2>3. ASSUME NEW u \in Users, NEW v \in Users,
               \/ StartScreenShare(s, u) \/ StopScreenShare(s, u)
               \/ ApproveScreenShare(s, u, v)
        PROVE  Calm'
    BY <2>1, <2>2, <2>3
       DEF StartScreenShare, StopScreenShare, ApproveScreenShare
  <2>4. ASSUME NEW u \in Users, NEW v \in Users, DenyScreenShare(s, u, v)
        PROVE  Calm'
    <3> DEFINE c == ShareCall("deny", v, policy.approval, "FindRequester")
               r == [c EXCEPT !.other = u]
    <3>1. Enter(s, r) /\ KeepAll
      BY <2>4 DEF DenyScreenShare
    <3>2. "deny" \in ShareOps
      BY <3>1 DEF Enter, ShareCall
    <3>3. c \in Asked /\ c.pc = "FindRequester"
      BY <2>1, <3>2, ShareCallType DEF SharePCs, ShareCall
    <3> HIDE DEF c
    <3>4. r \in Asked /\ r.pc = "FindRequester"
      BY <3>3 DEF Asked, ShareRequest
    <3> QED
      BY <1>7, <3>1, <3>4
  <2> QED
    BY <1>8, <2>3, <2>4 DEF ShareStart
<1>9. Answer(s) /\ UNCHANGED <<participants, shares>> => Calm'
  BY <1>6, QuietType, RestIsCalm DEF Answer
<1>10. ASSUME NEW pc \in SharePCs, q.pc # "idle"
       PROVE  /\ [q EXCEPT !.pc = pc] \in Asked
              /\ [q EXCEPT !.pc = pc].pc = pc
              /\ [q EXCEPT !.pc = pc].of = q.of
              /\ [q EXCEPT !.pc = pc].op = q.op
  BY <1>4, <1>10 DEF Asked, ShareRequest
<1>11. ASSUME NEW pc \in SharePCs, Step(s, pc), q.pc # "idle",
              UNCHANGED <<participants, shares>>,
              \/ Admitted(q.of)
              \/ pc \in {"ClearOwn", "DeleteShare"}
              \/ pc = "Permit" /\ q.op # "approve"
       PROVE  Calm'
  <2>1. CalmShare([q EXCEPT !.pc = pc])
    BY <1>10, <1>11 DEF CalmShare
  <2>2. Turn(s, [q EXCEPT !.pc = pc])
    BY <1>1, <1>11 DEF Step
  <2> QED
    BY <1>6, <1>10, <1>11, <2>1, <2>2
<1>12. q.pc \in {"FindSharing", "FindShare", "FindRequest", "UpsertShare",
                 "ClearAll", "SetOwn"} => Admitted(q.of)
  BY <1>2 DEF CalmShare
<1>13. CASE FindParticipant(s) \/ FindRequest(s)
  <2>1. FindRequest(s) => Calm'
    BY <1>1, <1>5, <1>9, <1>11, <1>12 DEF FindRequest, SharePCs
  <2>2. CASE FindParticipant(s)
    <3>1. q.pc # "idle" /\ UNCHANGED <<participants, shares>>
      BY <1>1, <1>5, <2>2 DEF FindParticipant
    <3>2. /\ Found(q) \in Asked
          /\ Admitted(q.of) => CalmShare(Found(q))
      BY <3>1, FoundType DEF CalmShare
    <3> QED
      BY <1>1, <1>6, <1>9, <2>2, <3>1, <3>2 DEF FindParticipant
  <2> QED
    BY <1>13, <2>1, <2>2
<1>14. ASSUME Proceed(s), q.pc \in {"FindSharing", "FindShare"},
              UNCHANGED <<participants, shares>>
       PROVE  Calm'
  <2>1. Unrivalled(q) \in Asked /\ CalmShare(Unrivalled(q))
    BY <1>12, <1>14, UnrivalledType DEF CalmShare
  <2> QED
    BY <1>1, <1>6, <1>14, <2>1 DEF Proceed
<1>15. CASE FindSharing(s) \/ FindShare(s)
  <2>1. /\ q.pc \in {"FindSharing", "FindShare"}
        /\ UNCHANGED <<participants, shares>>
    BY <1>1, <1>5, <1>15 DEF FindSharing, FindShare
  <2>2. ASSUME NEW v \in Users
        PROVE  /\ [q EXCEPT !.pc = "FindShare", !.other = v] \in Asked
               /\ CalmShare([q EXCEPT !.pc = "FindShare", !.other = v])
    BY <1>4, <1>12, <2>1 DEF Asked, ShareRequest, SharePCs, CalmShare
  <2>3. FindSharing(s) => Calm'
    BY <1>1, <1>6, <1>14, <2>1, <2>2 DEF FindSharing, Sharing
  <2>4. FindShare(s) => Calm'
    BY <1>9, <1>14, <2>1 DEF FindShare
  <2> QED
    BY <1>15, <2>3, <2>4
<1>16. CASE Permit(s)
  <2>1. q.pc = "Permit" /\ (q.op = "approve" => Admitted(q.of))
    BY <1>1, <1>2, <1>16 DEF Permit, CalmShare
  <2> QED
    BY <1>1, <1>5, <1>9, <1>11, <1>16, <2>1 DEF Permit, SharePCs
<1>17. ASSUME NEW pc \in SharePCs, Step(s, pc), q.pc # "idle", Admitted(q.of),
              shares' = shares \cup {q.of}, UNCHANGED participants
       PROVE  Calm'
  <2>1. CalmShare([q EXCEPT !.pc = pc])
    BY <1>10, <1>17 DEF CalmShare
  <2>2. Turn(s, [q EXCEPT !.pc = pc])
    BY <1>1, <1>17 DEF Step
  <2> QED
    BY <1>2, <1>3, <1>4, <1>10, <1>17, <2>1, <2>2, CalmTurn DEF Admitted, Flag
<1>18. CASE UpsertShare(s)
  <2>1. q.pc = "UpsertShare" /\ Admitted(q.of)
    BY <1>1, <1>12, <1>18 DEF UpsertShare
  <2> QED
    BY <1>1, <1>9, <1>17, <1>18, <2>1 DEF UpsertShare, SharePCs
<1>19. CASE ClearAll(s)
  <2>1. q.pc = "ClearAll" /\ Admitted(q.of)
    BY <1>1, <1>12, <1>19 DEF ClearAll
  <2>2. Turn(s, [q EXCEPT !.pc = "SetOwn"])
    BY <1>1, <1>19 DEF ClearAll, Step
  <2>3. \A u \in Users : ~Flag(u)' /\ Admitted(u)' = Admitted(u)
    BY <1>2, <1>19 DEF ClearAll, Flag, Admitted, Row
  <2>4. [q EXCEPT !.pc = "SetOwn"] \in Asked /\ CalmShare([q EXCEPT !.pc = "SetOwn"])
    BY <1>10, <2>1 DEF CalmShare, SharePCs
  <2>5. shares' = shares
    BY <1>19 DEF ClearAll
  <2> QED
    BY <1>2, <1>3, <2>2, <2>3, <2>4, <2>5, CalmTurn
<1>20. CASE SetOwn(s) \/ ClearOwn(s)
  <2>1. q.of \in Users /\ (SetOwn(s) => Admitted(q.of))
    BY <1>1, <1>4, <1>12, <1>20 DEF SetOwn, ClearOwn
  <2>2. PICK on \in BOOLEAN : /\ on => Admitted(q.of)
                              /\ SetFlag(q.of, on) \/ UNCHANGED participants
    BY <1>1, <1>20, <2>1 DEF SetOwn, ClearOwn
  <2>3. \A u \in Users : /\ Flag(u)' => Flag(u) \/ (u = q.of /\ on)
                         /\ Admitted(u)' = Admitted(u)
    BY <1>2, <2>1, <2>2 DEF SetFlag, SetRow, Flag, Admitted, Row
  <2>4. Turn(s, Quiet) /\ shares' = shares
    BY <1>20 DEF SetOwn, ClearOwn, Answer
  <2> QED
    BY <1>2, <1>3, <2>2, <2>3, <2>4, CalmTurn, QuietType, RestIsCalm
<1>21. CASE FindTarget(s)
  <2> DEFINE ask == q.ask /\ Guest(q.of)
             r == [q EXCEPT !.pc = "DeleteShare", !.ask = ask]
  <2>1. q.pc = "FindTarget" /\ ask \in BOOLEAN
    BY <1>1, <1>21 DEF FindTarget, Asked, ShareRequest
  <2>2. r \in Asked /\ CalmShare(r)
    <3> HIDE DEF ask
    <3> QED
      BY <1>4, <2>1 DEF Asked, ShareRequest, SharePCs, CalmShare
  <2>3. Turn(s, r) \/ Answer(s)
    BY <1>1, <1>21 DEF FindTarget
  <2>4. UNCHANGED <<participants, shares>>
    BY <1>5, <1>21 DEF FindTarget
  <2> HIDE DEF r
  <2> QED
    BY <1>6, <1>9, <2>2, <2>3, <2>4
<1>22. CASE FindRequester(s)
  <2>1. q.pc = "FindRequester" /\ UNCHANGED <<participants, shares>>
    BY <1>1, <1>5, <1>22 DEF FindRequester
  <2>2. /\ [q EXCEPT !.pc = "FindTarget", !.other = Nobody] \in Asked
        /\ CalmShare([q EXCEPT !.pc = "FindTarget", !.other = Nobody])
    BY <1>4, <2>1 DEF Asked, ShareRequest, SharePCs, CalmShare
  <2> QED
    BY <1>1, <1>6, <1>9, <1>22, <2>1, <2>2 DEF FindRequester
<1>23. CASE DeleteShare(s)
  <2>1. q.pc = "DeleteShare" /\ q.op # "approve"
    BY <1>1, <1>2, <1>23 DEF DeleteShare, RequestPermitted
  <2>2. PICK pc \in {"Permit", "ClearOwn"} : Turn(s, [q EXCEPT !.pc = pc])
    BY <1>1, <1>23 DEF DeleteShare, Step
  <2>3. [q EXCEPT !.pc = pc] \in Asked /\ CalmShare([q EXCEPT !.pc = pc])
    BY <1>10, <2>1 DEF CalmShare, SharePCs
  <2>4. shares' = shares \ {q.of} /\ UNCHANGED participants
    BY <1>1, <1>23 DEF DeleteShare
  <2> QED
    BY <1>2, <1>3, <2>2, <2>3, <2>4, CalmTurn DEF Admitted, Flag
<1> QED
  BY <1>8, <1>13, <1>15, <1>16, <1>18, <1>19, <1>20, <1>21, <1>23, <1>22
     DEF ShareContinue
-----------------------------------------------------------------------------
(* The induction over the history of module MCScreenShare.                 *)

HistoryInv ==
  /\ ShareTyped /\ PermitInv
  /\ history # "overlapped" => SerialShares
  /\ history = "calm" => Calm

LEMMA HistoryInitial == MCInit => HistoryInv
<1> SUFFICES ASSUME MCInit PROVE HistoryInv
  OBVIOUS
<1>1. ShareTyped /\ PermitInv
  BY ShareInitial DEF MCInit
<1>2. /\ \A s \in Slots : req[s] = Idle /\ sreq[s] = Quiet
      /\ NoFlag /\ shares = {}
  BY DEF MCInit, ShareInit, NoFlag, Flag, NoRow
<1>3. SerialShares
  BY <1>2 DEF SerialShares, Lone, Busy, OneFlag, NoFlag
<1>4. Calm
  BY <1>2, RestIsCalm DEF Calm, NoFlag
<1> QED
  BY <1>1, <1>3, <1>4 DEF HistoryInv

LEMMA StillKeeps ==
  ASSUME Still
  PROVE  (SerialShares => SerialShares') /\ (Calm => Calm')
<1>1. SerialShares => SerialShares'
  BY DEF Still, SerialShares, Lone, Busy, OneFlag, NoFlag, Flag
<1>2. Calm => Calm'
  BY DEF Still, Calm, CalmRequest, CalmShare, Leaving, Flag, Admitted
<1> QED
  BY <1>1, <1>2

\* A step of which no overlap comes.
LEMMA HistoryStep ==
  ASSUME ShareTyped, PermitInv, SerialShares, ShareNext,
         ~(Cardinality(Busy') > 1)
  PROVE  SerialShares' /\ (Calm => Dies \/ Calm')
<1>1. Lone
  BY DEF SerialShares
<1>2. ASSUME Still
      PROVE  SerialShares' /\ (Calm => Dies \/ Calm')
  BY <1>2, StillKeeps
<1>3. CASE MeetingNext
  <2>1. UNCHANGED shareVars /\ UNCHANGED sreq /\ FlagsFall
    BY <1>3, MeetingMoves DEF MeetingNext, shareVars
  <2>2. CASE Outside
    BY <1>2, <2>1, <2>2 DEF Outside, db, Still
  <2>3. ASSUME NEW s \in Slots, SlotStep(s), sreq[s] = Quiet, sreq'[s] = Quiet,
               Start(s) => req'[s] # Idle,
               Start(s) \/ Continue(s) \/ Abort(s)
        PROVE  SerialShares' /\ (Calm => Dies \/ Calm')
    <3>1. Lone' /\ Only(s)
      BY <1>1, <2>3, StaysLone
    <3>2. SerialShares'
      BY <2>1, <3>1, SerialMeetingStep
    <3>3. Abort(s) => Dies \/ Continue(s)
      BY DEF Dies
    <3>4. ASSUME Calm, Continue(s)
          PROVE  Calm'
      BY <2>3, <3>1, <3>4, CalmContinue
    <3>5. ASSUME Calm, Start(s)
          PROVE  Calm'
      BY <2>3, <3>1, <3>5, CalmStart
    <3> QED
      BY <2>3, <3>2, <3>3, <3>4, <3>5
  <2>4. ASSUME NEW s \in Slots,
               (Start(s) /\ sreq[s] = Quiet) \/ Continue(s) \/ Abort(s)
        PROVE  SerialShares' /\ (Calm => Dies \/ Calm')
    BY <1>1, <1>2, <2>1, <2>3, <2>4, MeetingMovesSlot
  <2> QED
    BY <1>3, <2>2, <2>4 DEF MeetingNext
<1>4. ASSUME NEW s \in Slots, SlotStep(s), req[s] = Idle, req'[s] = Idle,
             ShareStart(s) \/ ShareContinue(s) \/ ShareAbort(s)
      PROVE  SerialShares' /\ (Calm => Dies \/ Calm')
  <2>1. Lone' /\ Only(s)
    BY <1>1, <1>4, StaysLone
  <2>2. SerialShares'
    BY <1>4, <2>1, SerialShareStep
  <2>3. ShareAbort(s) => Dies \/ ShareContinue(s)
    BY DEF Dies
  <2>4. UpdatePolicy(s) => Still
    BY DEF UpdatePolicy, meetingVars, Still
  <2>5. ASSUME Calm, (ShareStart(s) /\ ~UpdatePolicy(s)) \/ ShareContinue(s)
        PROVE  Calm'
    BY <1>4, <2>1, <2>5, CalmShareStep
  <2> QED
    BY <1>2, <1>4, <2>2, <2>3, <2>4, <2>5
<1>5. ASSUME NEW s \in Slots, ShareStart(s) \/ ShareContinue(s) \/ ShareAbort(s)
      PROVE  SerialShares' /\ (Calm => Dies \/ Calm')
  BY <1>1, <1>2, <1>4, <1>5, ShareMovesSlot
<1> QED
  BY <1>3, <1>5 DEF ShareNext

LEMMA HistoryInductive ==
  HistoryInv /\ [MCNext]_<<allVars, history>> => HistoryInv'
<1> SUFFICES ASSUME HistoryInv, [MCNext]_<<allVars, history>>
             PROVE  HistoryInv'
  OBVIOUS
<1>1. ShareTyped' /\ PermitInv'
  BY ShareInductive DEF HistoryInv, MCNext
<1>2. CASE MCNext
  <2>1. history' # "overlapped" =>
          history # "overlapped" /\ ~(Cardinality(Busy') > 1)
    BY <1>2 DEF MCNext, Overlap
  <2>2. history' = "calm" => history = "calm" /\ ~Dies
    BY <1>2 DEF MCNext
  <2>3. history' # "overlapped" => SerialShares' /\ (Calm => Dies \/ Calm')
    BY <1>2, <2>1, HistoryStep DEF HistoryInv, MCNext
  <2> QED
    BY <1>1, <2>2, <2>3 DEF HistoryInv
<1>3. CASE UNCHANGED <<allVars, history>>
  <2>1. Still
    BY <1>3 DEF allVars, meetingVars, shareVars, Still
  <2> QED
    BY <1>1, <1>3, <2>1, StillKeeps DEF HistoryInv
<1> QED
  BY <1>2, <1>3

\* As long as no requests have overlapped at most one participant shares the
\* screen: startScreenShare and approveScreenShare clear every flag before
\* they set one, whatever requests die in between.
THEOREM OneShares == MCSpec => []OneSharerSerially
<1>1. HistoryInv => OneSharerSerially
  <2> SUFFICES ASSUME HistoryInv, history # "overlapped" PROVE OneSharer
    BY DEF OneSharerSerially
  <2>1. OneFlag
    BY DEF HistoryInv, SerialShares
  <2>2. CASE Sharing = {}
    BY <2>2, FS_EmptySet DEF OneSharer
  <2>3. ASSUME NEW u \in Sharing
        PROVE  OneSharer
    <3>1. Sharing = {u}
      BY <2>1, <2>3 DEF Sharing, OneFlag, Flag
    <3> QED
      BY <3>1, FS_Singleton DEF OneSharer
  <2> QED
    BY <2>2, <2>3
<1> QED
  BY <1>1, HistoryInitial, HistoryInductive, PTL DEF MCSpec

\* As long as no requests have overlapped or died only those in the meeting
\* share or ask to, in both tables, whenever all requests are answered:
\* leaveMeeting, kickParticipant, denyParticipant, endMeeting, deleteMeeting
\* and the webhooks end the share of everybody they send away.
THEOREM SharesEnd == MCSpec => []SharesEndWithParticipation
<1>1. HistoryInv => SharesEndWithParticipation
  <2> SUFFICES ASSUME HistoryInv, history = "calm", AllAnswered,
                      NEW u \in Users, u \in shares \/ Flag(u)
               PROVE  Admitted(u)
    BY DEF SharesEndWithParticipation, SharersParticipate, Flag
  <2>1. Calm
    BY DEF HistoryInv
  <2>2. \A s \in Slots : ~Leaving(req[s], u)
    BY RestIsCalm DEF AllAnswered
  <2> QED
    BY <2>1, <2>2 DEF Calm
<1> QED
  BY <1>1, HistoryInitial, HistoryInductive, PTL DEF MCSpec
=============================================================================
