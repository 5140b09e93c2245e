--------------------------- MODULE MeetingProofs ---------------------------
(***************************************************************************)
(* Proofs about Meeting, for any number of users and of requests in        *)
(* flight, any limits, any webhooks and any failures: first the types,     *)
(* then admission (the waiting room holds and cohosts are the host's       *)
(* choice), then the rows (the host's row, the columns that say who is     *)
(* inside, the marks of those muted, nothing left once the meeting is      *)
(* deleted).                                                               *)
(***************************************************************************)
EXTENDS Meeting, TLAPS

-----------------------------------------------------------------------------
(* Types of the values the actions are built from.                         *)

\* A row stays a row when a user is let in or put out.
LEMMA RowType ==
  ASSUME NEW r \in Row, NEW st \in Statuses
  PROVE  /\ LetIn(r, st) \in Row /\ PutOut(r, st) \in Row
         /\ \A on \in BOOLEAN : [r EXCEPT !.is_muted = on] \in Row
  BY DEF Row, LetIn, PutOut

LEMMA NoRowType == NoRow \in Row
  BY DEF NoRow, Row, Roles, Statuses

LEMMA IdleType == Idle \in Request /\ RequestOK(Idle)
  BY NoRowType DEF Idle, Call, Request, PCs, RequestOK, CallerPCs, TargetPCs

\* A call that has read nothing but its arguments is a request.
LEMMA CallType ==
  ASSUME NEW op \in AllOps, NEW pc \in PCs,
         NEW u \in Users \cup {Nobody}, pc \in CallerPCs => u \in Users,
         NEW v \in Users \cup {Nobody},
         pc \in TargetPCs \/ op = "admit" => v \in Users
  PROVE  RequestOK(Call(op, u, v, pc))
  BY NoRowType DEF Call, Request, RequestOK

\* A request that moves on, with what it has read added or dropped.
LEMMA RequestType ==
  ASSUME NEW q, RequestOK(q), NEW pc \in PCs,
         pc \in CallerPCs => q.by \in Users,
         pc \in TargetPCs => q.of \in Users
  PROVE  RequestOK(At(q, pc)) /\ RequestOK(Counted(q, pc))
<1>1. RequestOK(At(q, pc))
  BY DEF Request, RequestOK, At
<1>2. RequestOK(Counted(q, pc))
  BY DEF Request, RequestOK, Counted
<1> QED
  BY <1>1, <1>2

\* What a slot may do to req: become another request, move on, finish.
LEMMA SlotType ==
  ASSUME TypeOK, NEW s \in Slots
  PROVE  /\ \A q : Become(s, q) /\ RequestOK(q) => ReqType'
         /\ Finish(s) => ReqType'
         /\ \A pc \in PCs :
              /\ Goto(s, pc)
              /\ pc \in CallerPCs => req[s].by \in Users
              /\ pc \in TargetPCs => req[s].of \in Users
              => ReqType'
<1>1. ASSUME NEW q, Become(s, q), RequestOK(q)
      PROVE  ReqType'
  BY <1>1 DEF TypeOK, Become, ReqType, RequestOK
<1>2. ASSUME Finish(s) PROVE ReqType'
  BY <1>1, <1>2, IdleType DEF Finish
<1>3. ASSUME NEW pc \in PCs, Goto(s, pc), pc \in CallerPCs => req[s].by \in Users,
             pc \in TargetPCs => req[s].of \in Users
      PROVE  ReqType'
  <2>1. RequestOK(At(req[s], pc))
    BY <1>3, RequestType DEF TypeOK, ReqType
  <2> QED
    BY <1>1, <1>3, <2>1 DEF Goto
<1> QED
  BY <1>1, <1>2, <1>3

\* Every LiveKit call and everything LiveKit does on its own keeps its types.
LEMMA LiveKitType ==
  ASSUME LiveKitTypeOK, NEW u \in Users \cup {Nobody},
         \/ CreateRoom \/ RemoveParticipant(u) \/ DeleteRoom \/ LiveKitNext
         \/ UNCHANGED livekit
  PROVE  LiveKitTypeOK'
<1>1. ASSUME NEW E \in SUBSET Hooks, Raise(E)
      PROVE  hooks' \subseteq Hooks
  BY <1>1 DEF Raise, LiveKitTypeOK
<1>2. /\ \A v \in Users : \A e \in UserEvents : Hook(e, v) \in Hooks
      /\ \A e \in RoomEvents : Hook(e, Nobody) \in Hooks
  BY DEF Hook, Hooks
<1>3. CASE CreateRoom
  BY <1>1, <1>2, <1>3 DEF CreateRoom, LiveKitTypeOK, RoomEvents
<1>4. ASSUME NEW v \in Users \cup {Nobody}, RemoveParticipant(v)
      PROVE  LiveKitTypeOK'
  BY <1>1, <1>2, <1>4 DEF RemoveParticipant, LiveKitTypeOK, UserEvents
<1>5. ASSUME DeleteRoom
      PROVE  LiveKitTypeOK'
  BY <1>1, <1>2, <1>5 DEF DeleteRoom, LiveKitTypeOK, UserEvents, RoomEvents
<1>6. CASE LiveKitNext
  <2>1. ASSUME NEW v \in Users, Connect(v)
        PROVE  LiveKitTypeOK'
    BY <1>1, <1>2, <2>1 DEF Connect, LiveKitTypeOK, UserEvents, RoomEvents
  <2>2. ASSUME NEW v \in Users, TokenExpires(v)
        PROVE  LiveKitTypeOK'
    BY <2>2 DEF TokenExpires, LiveKitTypeOK
  <2> QED
    BY <1>4, <1>5, <1>6, <2>1, <2>2 DEF LiveKitNext, Disconnect, RoomTimesOut
<1>7. CASE UNCHANGED livekit
  BY <1>7 DEF livekit, LiveKitTypeOK
<1> QED
  BY <1>3, <1>4, <1>5, <1>6, <1>7

-----------------------------------------------------------------------------
(* Type correctness.                                                       *)

LEMMA TypeInit == Init => TypeOK
<1> SUFFICES ASSUME Init PROVE TypeOK
  OBVIOUS
<1>1. meeting \in MeetingRow
  BY DEF Init, MeetingRow
<1>2. participants \in [Users -> Row]
  BY NoRowType DEF Init, NoRow, Row, Roles, Statuses
<1>3. ReqType
  BY IdleType DEF Init, ReqType
<1>4. LiveKitTypeOK
  BY DEF Init, LiveKitInit, LiveKitTypeOK
<1> QED
  BY <1>1, <1>2, <1>3, <1>4, HostAssumption DEF Init, TypeOK

\* Reads and rejections change req only.
LEMMA TypeReadOnly ==
  ASSUME TypeOK, ReadOnly, ReqType'
  PROVE  TypeOK'
  BY DEF TypeOK, LiveKitTypeOK, ReadOnly, db, ghosts, livekit

LEMMA TypeStart ==
  ASSUME TypeOK, NEW s \in Slots, Start(s)
  PROVE  TypeOK'
<1> USE DEF AllOps, PCs, TargetPCs
<1>1. ASSUME NEW q, Arrive(s, q), RequestOK(q)
      PROVE  ReqType'
  BY <1>1, SlotType DEF Arrive
<1>2. ASSUME NEW u \in Users, JoinMeetingFind(s, u)
      PROVE  TypeOK'
  <2> DEFINE q == [Call("join", u, u, "JoinWrite") EXCEPT
                     !.row = participants[u], !.wr = meeting.waiting_room_on]
             c == [q EXCEPT !.pc = "JoinCount",
                            !.max = meeting.max_participants]
  <2>1. RequestOK(q)
    <3>1. Call("join", u, u, "JoinWrite") \in Request
      BY CallType DEF RequestOK
    <3>2. q \in Request
      BY <3>1 DEF TypeOK, Request, MeetingRow
    <3>3. q.by = u /\ q.of = u
      BY DEF Call
    <3> QED
      BY <3>2, <3>3 DEF RequestOK
  <2>2. RequestOK(c)
    <3>1. q.by = u /\ q.of = u
      BY DEF Call
    <3>2. q \in Request
      BY <2>1 DEF RequestOK
    <3> HIDE DEF q
    <3>3. c \in Request
      BY <3>2 DEF TypeOK, Request, MeetingRow
    <3>4. c.by = u /\ c.of = u
      BY <3>1
    <3> QED
      BY <3>3, <3>4 DEF RequestOK
  <2> QED
    BY <1>1, <1>2, <2>1, <2>2, TypeReadOnly DEF JoinMeetingFind
<1>3. ASSUME NEW u \in Users, NEW v \in Users,
             \/ GetLiveKitTokenFind(s, u) \/ LeaveMeetingFind(s, u)
             \/ EndMeetingFind(s, u) \/ DenyFind(s, u, v)
             \/ KickParticipantFind(s, u, v) \/ AssignCohostFind(s, u, v)
             \/ MuteParticipant(s, u, v) \/ MuteAll(s, u)
      PROVE  TypeOK'
  BY <1>1, <1>3, CallType, TypeReadOnly
     DEF GetLiveKitTokenFind, LeaveMeetingFind, EndMeetingFind, DenyFind,
         KickParticipantFind, AssignCohostFind, MuteParticipant, MuteAll
<1>4. ASSUME NEW u \in Users, NEW v \in Users,
             AdmitParticipant(s, u, v) \/ AdmitAll(s, u)
      PROVE  TypeOK'
  <2>1. meeting.max_participants \in Limits
    BY DEF TypeOK, MeetingRow
  <2>2. ASSUME NEW q, RequestOK(q)
        PROVE  RequestOK([q EXCEPT !.max = meeting.max_participants])
    BY <2>1, <2>2 DEF RequestOK, Request
  <2> QED
    BY <1>1, <1>4, <2>2, CallType, TypeReadOnly DEF AdmitParticipant, AdmitAll
<1>5. ASSUME NEW u \in Users, UpdateMeeting(s, u)
      PROVE  TypeOK'
  BY <1>5
     DEF UpdateMeeting, TypeOK, ReqType, MeetingRow, LiveKitTypeOK, livekit,
         ghosts
<1>6. ASSUME NEW u \in Users, DeleteMeeting(s, u)
      PROVE  TypeOK'
  <2>1. ReqType'
    BY <1>1, <1>6, CallType DEF DeleteMeeting
  <2>2. meeting' \in MeetingRow
    BY <1>6 DEF DeleteMeeting, TypeOK, MeetingRow
  <2> QED
    BY <1>6, <2>1, <2>2, NoRowType
       DEF DeleteMeeting, TypeOK, LiveKitTypeOK, livekit, ghosts
<1>7. ASSUME NEW h \in hooks, Deliver(s, h)
      PROVE  TypeOK'
  <2>1. /\ h.event \in RoomEvents \cup UserEvents
        /\ h.identity \in Users \cup {Nobody}
    BY DEF TypeOK, LiveKitTypeOK, Hooks
  <2>2. PICK pc \in PCs \ (TargetPCs \cup CallerPCs) :
          Arrive(s, Call("webhook", h.identity, h.identity, pc))
    BY <1>7, <2>1 DEF Deliver, RoomEvents, UserEvents, CallerPCs
  <2>3. ReqType'
    BY <1>1, <2>1, <2>2, CallType
  <2> QED
    BY <1>7, <2>3 DEF Deliver, TypeOK, LiveKitTypeOK, db, ghosts
<1> QED
  BY <1>2, <1>3, <1>4, <1>5, <1>6, <1>7 DEF Start

LEMMA TypeContinue ==
  ASSUME TypeOK, NEW s \in Slots, Continue(s)
  PROVE  TypeOK'
<1> DEFINE u == req[s].by
           v == req[s].of
<1>1. /\ RequestOK(req[s])
      /\ req[s].pc \in CallerPCs => u \in Users
      /\ req[s].pc \in TargetPCs \/ req[s].op = "admit" => v \in Users
      /\ v \in Users \cup {Nobody}
  BY DEF TypeOK, ReqType, RequestOK, Request
<1>2. ASSUME NEW w, NEW r, SetRow(w, r), w \in Users => r \in Row
      PROVE  participants' \in [Users -> Row]
  BY <1>2 DEF TypeOK, SetRow
<1>3. ASSUME NEW w \in Users, NEW st \in Statuses
      PROVE  /\ LetIn(participants[w], st) \in Row
             /\ PutOut(participants[w], st) \in Row
             /\ [participants[w] EXCEPT !.is_muted = TRUE] \in Row
             /\ [LetIn(participants[w], st) EXCEPT !.is_muted = FALSE] \in Row
  BY RowType DEF TypeOK
<1>4. CASE Reject(s)
  BY <1>4, SlotType, TypeReadOnly DEF Reject
<1> USE DEF PCs, CallerPCs, TargetPCs
<1>5. CASE \/ JoinCount(s) \/ GetLiveKitTokenRow(s) \/ EnsureModerator(s)
           \/ AdmitCount(s) \/ AdmitParticipantFind(s) \/ AdmitAllFind(s)
           \/ AdmitAllCount(s) \/ DenyParticipantFind(s)
           \/ MuteFind(s) \/ MuteAllFind(s)
  <2>1. ASSUME NEW T \in SUBSET Users, NEW pc \in {"AdmitAllCount", "MuteAllWrite"}
        PROVE  RequestOK([At(req[s], pc) EXCEPT !.todo = T])
    BY <1>1 DEF At, RequestOK, Request
  <2>2. CASE JoinCount(s)
    BY <1>1, <2>2, RequestType, SlotType, TypeReadOnly
       DEF JoinCount
  <2>3. CASE AdmitCount(s)
    BY <1>1, <2>3, RequestType, SlotType, TypeReadOnly
       DEF AdmitCount
  <2>4. CASE AdmitAllCount(s)
    BY <1>1, <2>4, RequestType, SlotType, TypeReadOnly
       DEF AdmitAllCount
  <2>5. CASE AdmitAllFind(s) \/ MuteAllFind(s)
    BY <2>1, <2>5, SlotType, TypeReadOnly
       DEF AdmitAllFind, MuteAllFind, Mutable
  <2>6. CASE GetLiveKitTokenRow(s) \/ EnsureModerator(s)
               \/ AdmitParticipantFind(s) \/ DenyParticipantFind(s)
               \/ MuteFind(s)
    BY <1>1, <2>6, SlotType, TypeReadOnly
       DEF GetLiveKitTokenRow, EnsureModerator, AdmitParticipantFind,
           DenyParticipantFind, MuteFind
  <2> QED
    BY <1>5, <2>2, <2>3, <2>4, <2>5, <2>6
<1>6. CASE JoinWrite(s) /\ ~Reject(s)
  <2>1. u \in Users
    BY <1>1, <1>6 DEF JoinWrite
  <2>2. RequestOK([At(req[s], "EnsureRoomExists") EXCEPT
                    !.row = NoRow, !.wr = FALSE])
    BY <1>1, <2>1, NoRowType DEF At, RequestOK, Request
  <2>3. ReqType'
    BY <1>6, <2>2, SlotType DEF JoinWrite
  <2>4. JoinedRow(req[s]) \in Row
    <3>1. /\ participants[u] \in Row /\ req[s].row \in Row
          /\ NextStatus(req[s]) \in Statuses
      BY <1>1, <2>1
         DEF TypeOK, RequestOK, Request, NextStatus, Statuses
    <3> QED
      BY <3>1 DEF JoinedRow, LetIn, Row, Roles
  <2>5. participants' \in [Users -> Row]
    BY <1>2, <1>6, <2>4 DEF JoinWrite
  <2> QED
    BY <1>6, <2>1, <2>3, <2>5
       DEF JoinWrite, TypeOK, LiveKitTypeOK, livekit
<1>7. CASE EnsureRoomExists(s)
  <2>1. ReqType'
    BY <1>1, <1>7, SlotType DEF EnsureRoomExists
  <2>2. LiveKitTypeOK'
    BY <1>7, LiveKitType DEF EnsureRoomExists, TypeOK
  <2> QED
    BY <1>7, <2>1, <2>2 DEF EnsureRoomExists, TypeOK, db, ghosts
<1>8. CASE RemoveLiveKitParticipant(s) \/ DeleteLiveKitRoom(s)
  <2>1. ReqType'
    BY <1>8, SlotType DEF RemoveLiveKitParticipant, DeleteLiveKitRoom
  <2>2. LiveKitTypeOK'
    BY <1>1, <1>8, LiveKitType
       DEF RemoveLiveKitParticipant, DeleteLiveKitRoom, TypeOK
  <2> QED
    BY <1>8, <2>1, <2>2
       DEF RemoveLiveKitParticipant, DeleteLiveKitRoom, TypeOK, db, ghosts
<1>9. CASE /\ MarkMeetingActive(s) \/ CloseMeeting(s) \/ HookStarted(s)
           /\ ~Reject(s)
  <2>1. ReqType'
    BY <1>9, SlotType DEF MarkMeetingActive, CloseMeeting, HookStarted
  <2>2. meeting' \in MeetingRow
    BY <1>9
       DEF MarkMeetingActive, CloseMeeting, HookStarted, TypeOK, MeetingRow
  <2> QED
    BY <1>1, <1>9, <2>1, <2>2
       DEF MarkMeetingActive, CloseMeeting, HookStarted, TypeOK,
           LiveKitTypeOK, ghosts, livekit
<1>10. CASE NormalizeShares(s) \/ DenyShares(s) \/ CloseShares(s)
             \/ HookLeftShares(s)
  <2>1. ReqType' /\ shares' \subseteq Users
    BY <1>10, SlotType
       DEF NormalizeShares, DenyShares, CloseShares, HookLeftShares, TypeOK
  <2> QED
    BY <1>10, <2>1
       DEF NormalizeShares, DenyShares, CloseShares, HookLeftShares, TypeOK,
           LiveKitTypeOK, livekit, ghosts
<1>11. CASE /\ \/ IssueParticipantToken(s) \/ NormalizeRow(s) \/ DenyWrite(s)
               \/ HookJoined(s) \/ HookLeft(s) \/ MuteWrite(s)
            /\ ~Reject(s)
  <2>1. ReqType'
    BY <1>1, <1>11, SlotType
       DEF IssueParticipantToken, NormalizeRow, DenyWrite, HookJoined,
           HookLeft, MuteWrite
  <2>2. participants' \in [Users -> Row]
    BY <1>2, <1>3, <1>11
       DEF IssueParticipantToken, NormalizeRow, DenyWrite, HookJoined,
           HookLeft, MuteWrite, Statuses, TypeOK
  <2> QED
    BY <1>11, <2>1, <2>2
       DEF IssueParticipantToken, NormalizeRow, DenyWrite, HookJoined,
           HookLeft, MuteWrite, TypeOK, LiveKitTypeOK, livekit, ghosts
<1>12. ASSUME NEW w \in Users, Admit(s, w), ReqType'
       PROVE  TypeOK'
  <2>1. participants' \in [Users -> Row]
    BY <1>2, <1>3, <1>12 DEF Admit, Statuses
  <2> QED
    BY <1>12, <2>1 DEF Admit, TypeOK, LiveKitTypeOK, livekit
<1>13. CASE AdmitWrite(s) /\ ~Reject(s)
  BY <1>1, <1>12, <1>13, SlotType DEF AdmitWrite
<1>14. ASSUME NEW w \in Users, AdmitAllWrite(s, w)
       PROVE  TypeOK'
  <2>1. RequestOK([req[s] EXCEPT !.todo = req[s].todo \ {w}])
    BY <1>1 DEF RequestOK, Request
  <2>2. ReqType'
    BY <1>14, <2>1, SlotType DEF AdmitAllWrite
  <2> QED
    BY <1>12, <1>14, <2>2, TypeReadOnly DEF AdmitAllWrite
<1>15. CASE CloseRows(s) \/ MuteAllWrite(s)
  <2>1. ReqType'
    BY <1>15, SlotType DEF CloseRows, MuteAllWrite
  <2>2. participants' \in [Users -> Row]
    BY <1>3, <1>15, NoRowType DEF CloseRows, MuteAllWrite, Statuses, TypeOK
  <2> QED
    BY <1>15, <2>1, <2>2
       DEF CloseRows, MuteAllWrite, TypeOK, LiveKitTypeOK, livekit, ghosts
<1>16. CASE CohostWrite(s)
  <2>1. ReqType'
    BY <1>16, SlotType DEF CohostWrite
  <2>2. CASE ReadOnly
    BY <2>1, <2>2, TypeReadOnly
  <2>3. CASE ~ReadOnly
    <3>1. v \in Users
      BY <1>1, <1>16 DEF CohostWrite
    <3>2. [participants[v] EXCEPT !.role = "cohost"] \in Row
      BY <3>1 DEF TypeOK, Row, Roles
    <3>3. participants' \in [Users -> Row]
      BY <1>2, <1>16, <2>3, <3>2 DEF CohostWrite
    <3> QED
      BY <1>16, <2>1, <2>3, <3>1, <3>3
         DEF CohostWrite, TypeOK, LiveKitTypeOK, livekit
  <2> QED
    BY <2>2, <2>3
<1> QED
  BY <1>4, <1>5, <1>6, <1>7, <1>8, <1>9, <1>10, <1>11, <1>13, <1>14, <1>15,
     <1>16 DEF Continue

LEMMA TypeNext == TypeOK /\ [Next]_vars => TypeOK'
<1> SUFFICES ASSUME TypeOK, [Next]_vars
             PROVE  TypeOK'
  OBVIOUS
<1>1. ASSUME NEW s \in Slots, Abort(s)
      PROVE  TypeOK'
  BY <1>1, SlotType, TypeReadOnly DEF Abort, Reject
<1>2. CASE Outside
  <2>1. LiveKitTypeOK'
    BY <1>2, LiveKitType DEF Outside, TypeOK
  <2> QED
    BY <1>2, <2>1 DEF Outside, TypeOK, ReqType, db, ghosts
<1>3. CASE UNCHANGED vars
  BY <1>3 DEF vars, TypeOK, ReqType, LiveKitTypeOK
<1> QED
  BY <1>1, <1>2, <1>3, TypeStart, TypeContinue DEF Next

\* Rows, requests and LiveKit's state have their types in every behaviour; in
\* particular whoever is admitted or gets a token is a user.
THEOREM TypeCorrect == Spec => []TypeOK
  BY TypeInit, TypeNext, PTL DEF Spec

-----------------------------------------------------------------------------
(* Admission: the three parts of its invariant, one at a time.             *)

\* What a user was once allowed stays allowed.
Grows == approved \subseteq approved' /\ granted \subseteq granted'

\* One slot becomes an allowed request; the others stay allowed.
LEMMA SlotAllowed ==
  ASSUME TypeOK, AdmissionInv, Grows, NEW s \in Slots,
         req' \in [Slots -> Request],
         \A t \in Slots \ {s} : req'[t] = req[t],
         RequestAllowed(req[s])'
  PROVE  \A t \in Slots : RequestAllowed(req[t])'
  BY DEF TypeOK, ReqType, AdmissionInv, Grows, RequestAllowed

\* A row that stays, goes, is put out, or is let in when its user is approved.
RowKept(u) ==
  \/ participants'[u] = participants[u]
  \/ participants'[u] = NoRow
  \/ participants'[u] = PutOut(participants[u], "left")
  \/ participants'[u] = PutOut(participants[u], "denied")
  \/ participants'[u] = [participants[u] EXCEPT !.is_muted = TRUE]
  \/ /\ u \in approved'
     /\ \/ participants'[u] = LetIn(participants[u], "admitted")
        \/ participants'[u] = [LetIn(participants[u], "admitted")
                                 EXCEPT !.is_muted = FALSE]

LEMMA RowsAllowed ==
  ASSUME TypeOK, AdmissionInv, Grows, NEW u \in Users, RowKept(u)
  PROVE  RowAllowed(u)'
<1>1. participants[u] \in Row /\ RowAllowed(u)
  BY DEF TypeOK, AdmissionInv
<1>2. /\ participants'[u].role \in {participants[u].role, "none"}
      /\ participants'[u].status = "admitted"
           => participants[u].status = "admitted" \/ u \in approved'
  <2>1. CASE participants'[u] = NoRow
    BY <2>1 DEF NoRow
  <2>2. CASE participants'[u] = PutOut(participants[u], "left")
    BY <1>1, <2>2 DEF Row, PutOut
  <2>3. CASE participants'[u] = PutOut(participants[u], "denied")
    BY <1>1, <2>3 DEF Row, PutOut
  <2>4. CASE /\ u \in approved'
             /\ \/ participants'[u] = LetIn(participants[u], "admitted")
                \/ participants'[u] = [LetIn(participants[u], "admitted")
                                         EXCEPT !.is_muted = FALSE]
    BY <1>1, <2>4 DEF Row, LetIn
  <2>5. CASE participants'[u] = [participants[u] EXCEPT !.is_muted = TRUE]
    BY <1>1, <2>5 DEF Row
  <2> QED
    BY <2>1, <2>2, <2>3, <2>4, <2>5 DEF RowKept
<1> QED
  BY <1>1, <1>2 DEF RowAllowed, Grows

\* A webhook says that somebody joined only if somebody could.
LEMMA RaiseAllowed ==
  ASSUME AdmissionInv, NEW E, Raise(E), approved \subseteq approved',
         \A h \in E : h.event = "participant_joined" => h.identity \in approved'
  PROVE  \A h \in hooks' :
           h.event = "participant_joined" => h.identity \in approved'
  BY DEF AdmissionInv, MediaAllowed, Raise

LEMMA MediaStepAllowed ==
  ASSUME AdmissionInv, approved \subseteq approved',
         NEW u \in Users \cup {Nobody},
         \/ CreateRoom \/ RemoveParticipant(u) \/ DeleteRoom \/ LiveKitNext
         \/ UNCHANGED livekit
  PROVE  MediaAllowed'
<1>1. CASE CreateRoom
  BY <1>1, RaiseAllowed DEF CreateRoom, AdmissionInv, MediaAllowed, Hook
<1>2. ASSUME NEW v \in Users \cup {Nobody}, RemoveParticipant(v)
      PROVE  MediaAllowed'
  BY <1>2, RaiseAllowed DEF RemoveParticipant, AdmissionInv, MediaAllowed, Hook
<1>3. ASSUME DeleteRoom
      PROVE  MediaAllowed'
  BY <1>3, RaiseAllowed DEF DeleteRoom, AdmissionInv, MediaAllowed, Hook
<1>4. CASE LiveKitNext
  <2>1. ASSUME NEW v \in Users, Connect(v)
        PROVE  MediaAllowed'
    BY <2>1, RaiseAllowed DEF Connect, AdmissionInv, MediaAllowed, Hook
  <2>2. ASSUME NEW v \in Users, TokenExpires(v)
        PROVE  MediaAllowed'
    BY <2>2 DEF TokenExpires, AdmissionInv, MediaAllowed
  <2> QED
    BY <1>2, <1>3, <1>4, <2>1, <2>2 DEF LiveKitNext, Disconnect, RoomTimesOut
<1>5. CASE UNCHANGED livekit
  BY <1>5 DEF livekit, AdmissionInv, MediaAllowed
<1> QED
  BY <1>1, <1>2, <1>3, <1>4, <1>5

-----------------------------------------------------------------------------
(* Reads, and what they let a request go on with.                          *)

LEMMA AdmissionReadOnly ==
  ASSUME TypeOK, AdmissionInv, ReadOnly, NEW s \in Slots,
         NEW q, Become(s, q), RequestAllowed(q)
  PROVE  AdmissionInv'
<1>1. Grows /\ MediaAllowed' /\ \A u \in Users : RowAllowed(u)'
  BY DEF ReadOnly, db, ghosts, livekit, Grows, AdmissionInv, MediaAllowed,
         RowAllowed
<1>2. /\ \A t \in Slots \ {s} : req'[t] = req[t]
      /\ req'[s] = q
  BY DEF Become, TypeOK, ReqType
<1>3. \A t \in Slots : RequestAllowed(req[t])'
  BY <1>1, <1>2
     DEF AdmissionInv, Grows, RequestAllowed, ReadOnly, ghosts
<1> QED
  BY <1>1, <1>3 DEF AdmissionInv, Grows

LEMMA IdleAllowed == RequestAllowed(Idle)
  BY DEF RequestAllowed, Idle, Call, NoRow

\* The first await of a call that has still to check its caller.
LEMMA CallAllowed ==
  ASSUME NEW op, NEW u, NEW v,
         NEW pc \in {"TokenRow", "NormalizeShares", "EnsureModerator",
                     "DenyParticipantFind", "CloseShares", "MuteFind",
                     "MuteAllFind",
                     "DeleteLiveKitRoom", "HookStarted", "HookLeft"}
  PROVE  RequestAllowed(Call(op, u, v, pc))
  BY DEF RequestAllowed, Call, NoRow

LEMMA AdmissionReject ==
  ASSUME TypeOK, AdmissionInv, NEW s \in Slots, Reject(s)
  PROVE  AdmissionInv'
  BY AdmissionReadOnly, IdleAllowed DEF Reject, Finish

\* A request that moves on to an await it is allowed at.
LEMMA AdmissionGoto ==
  ASSUME TypeOK, AdmissionInv, ReadOnly, NEW s \in Slots,
         NEW pc \in PCs, RequestAllowed([req[s] EXCEPT !.pc = pc]),
         Become(s, At(req[s], pc)) \/ Become(s, Counted(req[s], pc))
  PROVE  AdmissionInv'
<1>1. req[s] \in Request
  BY DEF TypeOK, ReqType
<1>2. RequestAllowed(At(req[s], pc)) /\ RequestAllowed(Counted(req[s], pc))
  BY <1>1 DEF RequestAllowed, At, Counted, Request
<1> QED
  BY <1>2, AdmissionReadOnly

-----------------------------------------------------------------------------
(* Steps that start a request.                                             *)

LEMMA AdmissionStart ==
  ASSUME TypeOK, AdmissionInv, NEW s \in Slots, Start(s)
  PROVE  AdmissionInv'
<1>1. ASSUME NEW u \in Users, JoinMeetingFind(s, u)
      PROVE  AdmissionInv'
  <2> DEFINE q == [Call("join", u, u, "JoinWrite") EXCEPT
                     !.row = participants[u], !.wr = meeting.waiting_room_on]
             c == [q EXCEPT !.pc = "JoinCount",
                            !.max = meeting.max_participants]
  <2>1. participants[u] \in Row /\ RowAllowed(u)
    BY DEF TypeOK, AdmissionInv
  <2>2. RequestAllowed(q)
    BY <2>1 DEF RowAllowed, RequestAllowed, Call
  <2>3. RequestAllowed(c)
    BY <2>1 DEF RowAllowed, RequestAllowed, Call
  <2> QED
    BY <1>1, <2>2, <2>3, AdmissionReadOnly DEF JoinMeetingFind, Arrive
<1>2. ASSUME NEW u \in Users, NEW v \in Users,
             \/ GetLiveKitTokenFind(s, u) \/ LeaveMeetingFind(s, u)
             \/ EndMeetingFind(s, u) \/ DenyFind(s, u, v)
             \/ KickParticipantFind(s, u, v) \/ MuteParticipant(s, u, v)
             \/ MuteAll(s, u)
      PROVE  AdmissionInv'
  BY <1>2, CallAllowed, AdmissionReadOnly
     DEF GetLiveKitTokenFind, LeaveMeetingFind, EndMeetingFind, DenyFind,
         KickParticipantFind, MuteParticipant, MuteAll, Arrive
<1>3. ASSUME NEW u \in Users, NEW v \in Users, AssignCohostFind(s, u, v)
      PROVE  AdmissionInv'
  <2>1. RequestAllowed(Call("cohost", u, v, "CohostWrite"))
    BY <1>3 DEF AssignCohostFind, RequestAllowed, Call, NoRow
  <2> QED
    BY <1>3, <2>1, AdmissionReadOnly DEF AssignCohostFind, Arrive
<1>4. ASSUME NEW u \in Users, NEW v \in Users,
             AdmitParticipant(s, u, v) \/ AdmitAll(s, u)
      PROVE  AdmissionInv'
  <2>1. ASSUME NEW op, NEW w
        PROVE  RequestAllowed([Call(op, u, w, "EnsureModerator")
                                 EXCEPT !.max = meeting.max_participants])
    BY DEF RequestAllowed, Call, NoRow
  <2> QED
    BY <1>4, <2>1, AdmissionReadOnly DEF AdmitParticipant, AdmitAll, Arrive
<1>5. ASSUME NEW u \in Users, UpdateMeeting(s, u)
      PROVE  AdmissionInv'
  BY <1>5
     DEF UpdateMeeting, AdmissionInv, RowAllowed, RequestAllowed,
         MediaAllowed, ghosts, livekit
<1>6. ASSUME NEW u \in Users, DeleteMeeting(s, u)
      PROVE  AdmissionInv'
  <2>1. Grows /\ MediaAllowed' /\ Host \in approved'
    BY <1>6 DEF DeleteMeeting, Grows, ghosts, livekit, AdmissionInv, MediaAllowed
  <2>2. \A t \in Slots : RequestAllowed(req[t])'
    <3> DEFINE q == Call("delete", u, Nobody, "DeleteLiveKitRoom")
    <3>1. RequestAllowed(q)
      BY CallAllowed
    <3>2. /\ req' \in [Slots -> Request]
          /\ req'[s] = q
          /\ \A t \in Slots \ {s} : req'[t] = req[t]
      BY <1>6, TypeStart DEF DeleteMeeting, Arrive, Become, TypeOK, ReqType, Start
    <3> QED
      BY <1>6, <3>1, <3>2
         DEF DeleteMeeting, ghosts, AdmissionInv, RequestAllowed
  <2>3. \A v \in Users : RowAllowed(v)'
    BY <1>6, <2>1, RowsAllowed DEF DeleteMeeting, RowKept
  <2> QED
    BY <2>1, <2>2, <2>3 DEF AdmissionInv
<1>7. ASSUME NEW h \in hooks, Deliver(s, h)
      PROVE  AdmissionInv'
  <2> DEFINE u == h.identity
  <2>1. PICK pc \in {"HookStarted", "CloseShares", "HookJoined", "HookLeft"} :
          /\ Arrive(s, Call("webhook", u, u, pc))
          /\ pc = "HookJoined" => h.event = "participant_joined"
    BY <1>7 DEF Deliver, TypeOK, LiveKitTypeOK, Hooks, RoomEvents, UserEvents
  <2>2. RequestAllowed(Call("webhook", u, u, pc))
    <3>1. CASE pc = "HookJoined"
      BY <2>1, <3>1
         DEF RequestAllowed, Call, NoRow, AdmissionInv, MediaAllowed
    <3> QED
      BY <2>1, <3>1, CallAllowed
  <2>3. \A t \in Slots : req'[t] = req[t] \/ RequestAllowed(req'[t])
    BY <2>1, <2>2 DEF Arrive, Become, TypeOK, ReqType
  <2> QED
    BY <1>7, <2>3
       DEF Deliver, AdmissionInv, RowAllowed, RequestAllowed, MediaAllowed,
           db, ghosts
<1> QED
  BY <1>1, <1>2, <1>3, <1>4, <1>5, <1>6, <1>7 DEF Start

-----------------------------------------------------------------------------
(* Steps that carry a request on.                                          *)

\* A step that changes rows as RowKept says, calls LiveKit at most, and
\* leaves its slot idle or at an await that asks for no permission.
LEMMA AdmissionStep ==
  ASSUME TypeOK, AdmissionInv, Grows, MediaAllowed', NEW s \in Slots,
         \A u \in Users : RowKept(u),
         \/ Finish(s)
         \/ \E pc \in {"NormalizeRow", "RemoveLiveKitParticipant",
                       "DenyShares", "DenyWrite", "CloseRows", "CloseMeeting", "DeleteLiveKitRoom",
                       "HookLeftShares"} : Goto(s, pc)
         \/ /\ req[s].pc \in {"EnsureRoomExists", "IssueParticipantToken"}
            /\ \E pc \in {"IssueParticipantToken", "MarkMeetingActive"} :
                 Goto(s, pc)
  PROVE  AdmissionInv'
<1>1. \A u \in Users : RowAllowed(u)'
  BY RowsAllowed
<1>2. RequestAllowed(req'[s]) /\ \A t \in Slots \ {s} : req'[t] = req[t]
  <2>1. req[s] \in Request /\ RequestAllowed(req[s])
    BY DEF TypeOK, ReqType, AdmissionInv
  <2>2. ASSUME NEW pc \in PCs,
               pc \in {"NormalizeRow", "RemoveLiveKitParticipant",
                       "DenyShares", "DenyWrite", "CloseRows",
                       "CloseMeeting", "DeleteLiveKitRoom", "HookLeftShares"}
               \/ /\ req[s].pc \in {"EnsureRoomExists", "IssueParticipantToken"}
                  /\ pc \in {"IssueParticipantToken", "MarkMeetingActive"}
        PROVE  RequestAllowed(At(req[s], pc))
    BY <2>1, <2>2 DEF RequestAllowed, At, Request
  <2>3. ASSUME NEW q, Become(s, q)
        PROVE  req'[s] = q /\ \A t \in Slots \ {s} : req'[t] = req[t]
    BY <2>3 DEF Become, TypeOK, ReqType
  <2> QED
    BY <2>2, <2>3, IdleAllowed DEF Goto, Finish, PCs
<1>3. \A t \in Slots : RequestAllowed(req[t])'
  BY <1>2 DEF AdmissionInv, RequestAllowed, Grows
<1> QED
  BY <1>1, <1>3 DEF AdmissionInv, Grows

LEMMA AdmissionReads ==
  ASSUME TypeOK, AdmissionInv, NEW s \in Slots,
         \/ JoinCount(s) \/ GetLiveKitTokenRow(s) \/ EnsureModerator(s)
         \/ AdmitCount(s) \/ AdmitParticipantFind(s) \/ AdmitAllFind(s)
         \/ AdmitAllCount(s) \/ DenyParticipantFind(s)
         \/ MuteFind(s) \/ MuteAllFind(s)
  PROVE  AdmissionInv'
<1> DEFINE q == req[s]
<1>1. /\ q \in Request /\ RequestAllowed(q)
      /\ q.pc \in CallerPCs => q.by \in Users
  BY DEF TypeOK, ReqType, RequestOK, AdmissionInv
<1>2. CASE Reject(s)
  BY <1>2, AdmissionReject
<1>3. CASE JoinCount(s) /\ ~Reject(s)
  <2>1. RequestAllowed([q EXCEPT !.pc = "JoinWrite"])
    BY <1>1 DEF RequestAllowed, Request
  <2> QED
    BY <1>3, <2>1, AdmissionGoto DEF JoinCount, Reject, PCs
<1>4. CASE GetLiveKitTokenRow(s) /\ ~Reject(s)
  <2>1. participants[q.by].status = "admitted" /\ q.by \in Users
    BY <1>1, <1>4 DEF GetLiveKitTokenRow, Reject, CallerPCs
  <2>2. RequestAllowed([q EXCEPT !.pc = "EnsureRoomExists"])
    BY <1>1, <2>1 DEF RequestAllowed, Request, AdmissionInv, RowAllowed
  <2> QED
    BY <1>4, <2>2, AdmissionGoto DEF GetLiveKitTokenRow, Reject, PCs, Goto
<1>5. CASE EnsureModerator(s) /\ ~Reject(s)
  <2>1. Moderator(q.by) /\ q.by \in Users
    BY <1>1, <1>5 DEF EnsureModerator, Reject, CallerPCs
  <2>2. ASSUME NEW pc \in {"AdmitCount", "AdmitAllFind"}
        PROVE  RequestAllowed([q EXCEPT !.pc = pc])
    BY <1>1, <2>1
       DEF RequestAllowed, Request, AdmissionInv, RowAllowed, Moderator
  <2> QED
    BY <1>5, <2>2, AdmissionGoto DEF EnsureModerator, Reject, PCs, Goto
<1>6. CASE (AdmitCount(s) \/ AdmitParticipantFind(s)) /\ ~Reject(s)
  <2>1. ASSUME NEW pc \in {"AdmitParticipantFind", "AdmitWrite"},
               q.pc \in {"AdmitCount", "AdmitParticipantFind"}
        PROVE  RequestAllowed([q EXCEPT !.pc = pc])
    BY <1>1, <2>1 DEF RequestAllowed, Request
  <2> QED
    BY <1>6, <2>1, AdmissionGoto
       DEF AdmitCount, AdmitParticipantFind, Reject, PCs, Goto
<1>7. CASE AdmitAllFind(s)
  <2>1. ASSUME NEW T
        PROVE  RequestAllowed([At(q, "AdmitAllCount") EXCEPT !.todo = T])
    BY <1>1, <1>7 DEF RequestAllowed, Request, At, AdmitAllFind
  <2> QED
    BY <1>7, <2>1, AdmissionReadOnly DEF AdmitAllFind
<1>8. CASE AdmitAllCount(s) /\ ~Reject(s)
  <2>1. RequestAllowed([q EXCEPT !.pc = "AdmitAllWrite"])
    BY <1>1, <1>8 DEF RequestAllowed, Request, AdmitAllCount
  <2> QED
    BY <1>8, <2>1, AdmissionGoto DEF AdmitAllCount, Reject, PCs
<1>9. CASE (DenyParticipantFind(s) \/ MuteFind(s)) /\ ~Reject(s)
  <2>1. /\ RequestAllowed([q EXCEPT !.pc = "DenyShares"])
        /\ RequestAllowed([q EXCEPT !.pc = "MuteWrite"])
    BY <1>1 DEF RequestAllowed, Request
  <2> QED
    BY <1>9, <2>1, AdmissionGoto
       DEF DenyParticipantFind, MuteFind, Reject, PCs, Goto
<1>10. CASE MuteAllFind(s)
  <2>1. RequestAllowed([At(q, "MuteAllWrite") EXCEPT !.todo = Mutable])
    BY <1>1 DEF RequestAllowed, Request, At
  <2> QED
    BY <1>10, <2>1, AdmissionReadOnly DEF MuteAllFind
<1> QED
  BY <1>2, <1>3, <1>4, <1>5, <1>6, <1>7, <1>8, <1>9, <1>10

\* Writes of the database and calls of LiveKit that let nobody in.
LEMMA AdmissionWrites ==
  ASSUME TypeOK, AdmissionInv, NEW s \in Slots,
         \/ EnsureRoomExists(s) \/ NormalizeShares(s) \/ NormalizeRow(s)
         \/ RemoveLiveKitParticipant(s) \/ DenyShares(s) \/ DenyWrite(s)
         \/ CloseShares(s) \/ CloseRows(s) \/ CloseMeeting(s)
         \/ DeleteLiveKitRoom(s) \/ HookStarted(s) \/ HookLeft(s)
         \/ HookLeftShares(s) \/ MuteWrite(s) \/ MuteAllWrite(s)
  PROVE  AdmissionInv'
<1> DEFINE v == req[s].of
<1>1. CASE Reject(s)
  BY <1>1, AdmissionReject
<1>2. v \in Users \cup {Nobody} /\ participants \in [Users -> Row]
  BY DEF TypeOK, ReqType, Request
<1>3. ASSUME UNCHANGED ghosts, UNCHANGED livekit,
             \A u \in Users : RowKept(u),
             \/ Finish(s)
             \/ \E pc \in {"NormalizeRow", "RemoveLiveKitParticipant",
                           "DenyWrite", "CloseRows", "CloseMeeting",
                           "DeleteLiveKitRoom", "HookLeftShares"} : Goto(s, pc)
      PROVE  AdmissionInv'
  BY <1>3, MediaStepAllowed, AdmissionStep DEF ghosts, Grows
<1>4. CASE NormalizeShares(s) \/ DenyShares(s) \/ CloseShares(s)
             \/ HookLeftShares(s)
  BY <1>3, <1>4
     DEF NormalizeShares, DenyShares, CloseShares, HookLeftShares, RowKept
<1>5. CASE (CloseMeeting(s) \/ HookStarted(s)) /\ ~Reject(s)
  BY <1>3, <1>5 DEF CloseMeeting, HookStarted, RowKept
<1>6. CASE /\ NormalizeRow(s) \/ DenyWrite(s) \/ HookLeft(s) \/ MuteWrite(s)
           /\ ~Reject(s)
  <2>1. \A u \in Users : RowKept(u)
    BY <1>2, <1>6
       DEF NormalizeRow, DenyWrite, HookLeft, MuteWrite, SetRow, RowKept
  <2> QED
    BY <1>3, <1>6, <2>1 DEF NormalizeRow, DenyWrite, HookLeft, MuteWrite
<1>7. CASE CloseRows(s) \/ MuteAllWrite(s)
  <2>1. \A u \in Users : RowKept(u)
    BY <1>7 DEF CloseRows, MuteAllWrite, RowKept
  <2> QED
    BY <1>3, <1>7, <2>1 DEF CloseRows, MuteAllWrite
<1>8. CASE EnsureRoomExists(s)
  <2>1. MediaAllowed' /\ Grows /\ \A u \in Users : RowKept(u)
    BY <1>8, MediaStepAllowed DEF EnsureRoomExists, ghosts, db, Grows, RowKept
  <2> QED
    BY <1>8, <2>1, AdmissionStep DEF EnsureRoomExists
<1>9. CASE RemoveLiveKitParticipant(s) \/ DeleteLiveKitRoom(s)
  <2>1. MediaAllowed' /\ Grows /\ \A u \in Users : RowKept(u)
    BY <1>2, <1>9, MediaStepAllowed
       DEF RemoveLiveKitParticipant, DeleteLiveKitRoom, ghosts, db, Grows,
           RowKept
  <2> QED
    BY <1>9, <2>1, AdmissionStep
       DEF RemoveLiveKitParticipant, DeleteLiveKitRoom
<1> QED
  BY <1>1, <1>4, <1>5, <1>6, <1>7, <1>8, <1>9

\* The writes that let somebody in, hand a token out or make a cohost.
LEMMA AdmissionGrants ==
  ASSUME TypeOK, AdmissionInv, NEW s \in Slots,
         \/ IssueParticipantToken(s) \/ MarkMeetingActive(s) \/ HookJoined(s)
         \/ JoinWrite(s) \/ AdmitWrite(s) \/ CohostWrite(s)
         \/ \E v \in Users : AdmitAllWrite(s, v)
  PROVE  AdmissionInv'
<1> DEFINE q == req[s]
<1>1. /\ q \in Request /\ RequestAllowed(q) /\ Host \in approved
      /\ participants \in [Users -> Row]
      /\ q.pc \in CallerPCs => q.by \in Users
      /\ q.pc \in TargetPCs => q.of \in Users
  BY DEF TypeOK, ReqType, RequestOK, AdmissionInv
<1>2. CASE Reject(s)
  BY <1>2, AdmissionReject
<1>3. CASE IssueParticipantToken(s) /\ ~Reject(s)
  <2>1. Grows /\ MediaAllowed'
    BY <1>3, MediaStepAllowed DEF IssueParticipantToken, ghosts, Grows
  <2>2. \A u \in Users : RowKept(u)
    BY <1>1, <1>3
       DEF IssueParticipantToken, SetRow, RowKept, RequestAllowed, ghosts
  <2> QED
    BY <1>3, <2>1, <2>2, AdmissionStep DEF IssueParticipantToken
<1>4. CASE MarkMeetingActive(s) /\ ~Reject(s)
  <2>1. Grows /\ \A u \in Users : RowKept(u)
    BY <1>4 DEF MarkMeetingActive, ghosts, Grows, RowKept
  <2>2. MediaAllowed'
    BY <1>1, <1>4
       DEF MarkMeetingActive, ghosts, RequestAllowed, AdmissionInv, MediaAllowed
  <2> QED
    BY <1>4, <2>1, <2>2, AdmissionStep DEF MarkMeetingActive
<1>5. CASE HookJoined(s)
  <2>1. Grows /\ MediaAllowed'
    BY <1>5, MediaStepAllowed DEF HookJoined, ghosts, Grows
  <2>2. \A u \in Users : RowKept(u)
    BY <1>1, <1>5 DEF HookJoined, SetRow, RowKept, RequestAllowed, ghosts
  <2> QED
    BY <1>5, <2>1, <2>2, AdmissionStep DEF HookJoined
<1>6. ASSUME UNCHANGED livekit, Grows, NEW p, Become(s, p),
             RequestAllowed(req[s])', \A u \in Users : RowAllowed(u)'
      PROVE  AdmissionInv'
  <2>1. \A t \in Slots \ {s} : req'[t] = req[t]
    BY <1>6 DEF Become, TypeOK, ReqType
  <2>2. \A t \in Slots : RequestAllowed(req[t])'
    BY <1>6, <2>1 DEF AdmissionInv, RequestAllowed, Grows
  <2>3. MediaAllowed'
    BY <1>6, MediaStepAllowed DEF Grows
  <2> QED
    BY <1>6, <2>2, <2>3 DEF AdmissionInv, Grows
<1>7. CASE JoinWrite(s) /\ ~Reject(s)
  <2>0. PICK u \in Users : u = q.by
    BY <1>1, <1>7 DEF JoinWrite, CallerPCs
  <2> DEFINE p == [At(q, "EnsureRoomExists") EXCEPT !.row = NoRow, !.wr = FALSE]
             r == JoinedRow(q)
  <2>1. q.by = u /\ Grows /\ UNCHANGED livekit
    BY <1>7, <2>0 DEF JoinWrite, Grows
  <2>2. NextStatus(q) = "admitted" => u \in approved'
    BY <1>1, <1>7, <2>1 DEF JoinWrite, NextStatus, RequestAllowed
  <2>3. /\ r.status = NextStatus(q)
        /\ u = Host => r.role = "host"
        /\ u # Host => r.role \in {"guest", q.row.role}
    BY <1>1, <2>1 DEF JoinedRow, LetIn, Row
  <2>4. participants' = [participants EXCEPT ![u] = r]
    BY <1>7, <2>1 DEF JoinWrite, SetRow
  <2>5. RowAllowed(u)'
    <3>1. participants'[u] = r
      BY <1>1, <2>0, <2>4
    <3>2. participants'[u].role = "host" => u = Host
      BY <1>1, <2>1, <2>3, <3>1 DEF RequestAllowed
    <3>3. participants'[u].role = "cohost" => u \in granted'
      BY <1>1, <2>1, <2>3, <3>1 DEF RequestAllowed, Grows
    <3> QED
      BY <2>2, <2>3, <3>1, <3>2, <3>3 DEF RowAllowed
  <2>6. ASSUME NEW w \in Users \ {u}
        PROVE  RowAllowed(w)'
    <3>1. participants'[w] = participants[w] /\ RowAllowed(w)
      BY <1>1, <2>4 DEF AdmissionInv
    <3> QED
      BY <2>1, <3>1 DEF RowAllowed, Grows
  <2>7. \E c : Become(s, c) /\ req'[s] = c /\ (c = Idle \/
               (c = p /\ NextStatus(q) = "admitted"))
    BY <1>7 DEF JoinWrite, Finish, Become, TypeOK, ReqType
  <2>8. RequestAllowed(req[s])'
    <3>1. CASE req'[s] = Idle
      BY <3>1 DEF RequestAllowed, Idle, Call, NoRow
    <3>2. CASE req'[s] = p /\ NextStatus(q) = "admitted"
      <4>1. p.by = u /\ p.pc = "EnsureRoomExists" /\ p.row = NoRow
        BY <1>1, <2>1 DEF At, Request
      <4> HIDE DEF p
      <4> QED
        BY <2>2, <3>2, <4>1 DEF RequestAllowed, NoRow
    <3> QED
      BY <2>7, <3>1, <3>2
  <2> QED
    BY <1>6, <2>1, <2>5, <2>6, <2>7, <2>8
<1>8. ASSUME NEW v \in Users, Admit(s, v),
             q.pc \in {"AdmitWrite", "AdmitAllWrite"}
      PROVE  /\ Grows /\ MediaAllowed' /\ Host \in approved'
             /\ \A u \in Users : RowKept(u)
  <2>1. Grows /\ UNCHANGED livekit /\ v \in approved'
    BY <1>1, <1>8 DEF Admit, Grows, RequestAllowed
  <2> QED
    BY <1>1, <1>8, <2>1, MediaStepAllowed DEF Admit, SetRow, RowKept, Grows
<1>9. CASE AdmitWrite(s) /\ ~Reject(s)
  <2>1. q.of \in Users
    BY <1>1, <1>9 DEF AdmitWrite, TargetPCs
  <2> QED
    BY <1>8, <1>9, <2>1, AdmissionStep DEF AdmitWrite
<1>10. ASSUME NEW v \in Users, AdmitAllWrite(s, v)
       PROVE  AdmissionInv'
  <2> DEFINE p == [q EXCEPT !.todo = q.todo \ {v}]
  <2>1. RequestAllowed(p)
    BY <1>1 DEF RequestAllowed, Request
  <2>2. CASE ReadOnly
    BY <1>10, <2>1, <2>2, AdmissionReadOnly, IdleAllowed
       DEF AdmitAllWrite, Finish
  <2>3. CASE Admit(s, v)
    <3>1. /\ Grows /\ UNCHANGED livekit
          /\ \A u \in Users : RowAllowed(u)'
      BY <1>8, <1>10, <2>3, RowsAllowed DEF AdmitAllWrite, Admit
    <3>2. PICK c \in {Idle, p} : Become(s, c)
      BY <1>10 DEF AdmitAllWrite, Finish
    <3>3. RequestAllowed(req'[s]) /\ RequestAllowed(req[s])'
      BY <1>1, <2>1, <3>1, <3>2, IdleAllowed
         DEF Become, TypeOK, ReqType, RequestAllowed, Grows
    <3> QED
      BY <1>6, <3>1, <3>2, <3>3
  <2> QED
    BY <1>10, <2>2, <2>3 DEF AdmitAllWrite
<1>11. CASE CohostWrite(s)
  <2>1. CASE ReadOnly
    BY <1>11, <2>1, AdmissionReadOnly, IdleAllowed DEF CohostWrite, Finish
  <2>2. CASE ~ReadOnly
    <3>1. PICK v \in Users : v = q.of
      BY <1>1, <1>11 DEF CohostWrite, TargetPCs
    <3>2. /\ participants' = [participants EXCEPT ![v] =
               [participants[v] EXCEPT !.role = "cohost"]]
          /\ HasRow(v) /\ v \in granted'
          /\ Grows /\ approved' = approved /\ UNCHANGED livekit
      BY <1>1, <1>11, <2>2, <3>1
         DEF CohostWrite, SetRow, RequestAllowed, Grows
    <3>3. ASSUME NEW u \in Users
          PROVE  RowAllowed(u)'
      <4>1. participants[u] \in Row /\ RowAllowed(u)
        BY DEF TypeOK, AdmissionInv
      <4>2. CASE u = v
        BY <1>1, <3>2, <4>1, <4>2 DEF RowAllowed, Row, Grows
      <4>3. CASE u # v
        BY <1>1, <3>2, <4>1, <4>3 DEF RowAllowed, Grows
      <4> QED
        BY <4>2, <4>3
    <3>4. Become(s, Idle) /\ RequestAllowed(req[s])'
      BY <1>11
         DEF CohostWrite, Finish, Become, TypeOK, ReqType, RequestAllowed,
             Idle, Call, NoRow
    <3> QED
      BY <1>6, <3>2, <3>3, <3>4
  <2> QED
    BY <2>1, <2>2
<1> QED
  BY <1>2, <1>3, <1>4, <1>5, <1>7, <1>9, <1>10, <1>11

-----------------------------------------------------------------------------
(* The theorems.                                                           *)
(* The theorems about admission.                                          *)
LEMMA AdmissionInit == Init => AdmissionInv
<1> SUFFICES ASSUME Init PROVE AdmissionInv
  OBVIOUS
<1>1. \A u \in Users : RowAllowed(u)
  BY DEF Init, RowAllowed, NoRow
<1>2. \A s \in Slots : RequestAllowed(req[s])
  BY IdleAllowed DEF Init
<1> QED
  BY <1>1, <1>2 DEF Init, AdmissionInv, MediaAllowed, LiveKitInit

LEMMA AdmissionNext == TypeOK /\ AdmissionInv /\ [Next]_vars => AdmissionInv'
<1> SUFFICES ASSUME TypeOK, AdmissionInv, [Next]_vars
             PROVE  AdmissionInv'
  OBVIOUS
<1>1. ASSUME NEW s \in Slots, Continue(s)
      PROVE  AdmissionInv'
  BY <1>1, AdmissionReads, AdmissionWrites, AdmissionGrants DEF Continue
<1>2. ASSUME NEW s \in Slots, Abort(s)
      PROVE  AdmissionInv'
  BY <1>2, AdmissionReject DEF Abort
<1>3. CASE Outside
  <2>1. MediaAllowed'
    BY <1>3, MediaStepAllowed DEF Outside, ghosts
  <2> QED
    BY <1>3, <2>1
       DEF Outside, db, ghosts, AdmissionInv, RowAllowed, RequestAllowed
<1>4. CASE UNCHANGED vars
  BY <1>4 DEF vars, AdmissionInv, RowAllowed, RequestAllowed, MediaAllowed
<1> QED
  BY <1>1, <1>2, <1>3, <1>4, AdmissionStart DEF Next

\* The invariant: what requests and webhooks in flight carry is allowed.
THEOREM AdmissionCorrect == Spec => []AdmissionInv
  BY TypeInit, TypeNext, AdmissionInit, AdmissionNext, PTL DEF Spec

\* Nobody is in the meeting whom nobody entitled has let in: admission checks
\* made on stale rows and switches still add up.
THEOREM WaitingRoomHolds == Spec => []WaitingRoomRespected
<1>1. AdmissionInv => WaitingRoomRespected
  BY DEF AdmissionInv, RowAllowed, MediaAllowed, WaitingRoomRespected
<1> QED
  BY <1>1, AdmissionCorrect, PTL

\* Nobody is cohost whom the host has not made one.
THEOREM CohostsAreGranted == Spec => []CohostOnlyByHost
<1>1. AdmissionInv => CohostOnlyByHost
  BY DEF AdmissionInv, RowAllowed, CohostOnlyByHost
<1> QED
  BY <1>1, AdmissionCorrect, PTL

-----------------------------------------------------------------------------
(* The rows.                                                               *)

\* Inductive, together with AdmissionInv: what the rows are, and what a
\* request in flight has found out about the row it will write.
RowRight(u) ==
  /\ HasRow(u) => (participants[u].left_at
                     <=> participants[u].status \in {"denied", "left"})
  /\ participants[u].is_muted => u \in approved \ {Host}
  /\ ~Exists => participants[u] = NoRow

HostRight ==
  /\ Exists => HasRow(Host)
  /\ HasRow(Host) => participants[Host].role = "host"
  /\ participants[Host].status # "waiting"

RequestRight(q) ==
  /\ q.pc = "CohostWrite" => q.of # Host
  /\ q.pc = "MuteWrite" => q.of \in approved \ {Host}

RowsInv ==
  /\ \A u \in Users : RowRight(u)
  /\ HostRight
  /\ \A s \in Slots : RequestRight(req[s])
  /\ ~Exists => shares = {}

-----------------------------------------------------------------------------
(* What a step does to a row, to the meeting and to the requests.          *)

RowStep(u) ==
  \/ participants'[u] = participants[u]
  \/ participants'[u] = NoRow /\ ~HasRow(u)
  \/ /\ HasRow(u)
     /\ \/ participants'[u] = PutOut(participants[u], "left")
        \/ participants'[u] = PutOut(participants[u], "denied")
        \/ participants'[u] = LetIn(participants[u], "admitted")
        \/ participants'[u] = [LetIn(participants[u], "admitted")
                                 EXCEPT !.is_muted = FALSE]
        \/ /\ u # Host
           /\ participants'[u] = [participants[u] EXCEPT !.role = "cohost"]
        \/ /\ u \in approved \ {Host}
           /\ participants'[u] = [participants[u] EXCEPT !.is_muted = TRUE]
  \/ /\ Exists
     /\ \E role \in Roles, st \in {"admitted", "waiting"} :
          /\ participants'[u] = LetIn([participants[u] EXCEPT !.role = role], st)
          /\ u = Host => role = "host" /\ st = "admitted"

\* The meeting stays or goes with all its rows.
MeetingStep ==
  \/ /\ Exists' = Exists
     /\ \A u \in Users : RowStep(u)
     /\ Exists \/ shares' \subseteq shares
  \/ /\ ~Exists'
     /\ shares' = {}
     /\ \A u \in Users : participants'[u] = NoRow

RequestsStep == \A s \in Slots : req'[s] = req[s] \/ RequestRight(req'[s])

LEMMA RowRightStep ==
  ASSUME TypeOK, RowsInv, approved \subseteq approved', Exists' = Exists,
         NEW u \in Users, RowStep(u)
  PROVE  /\ RowRight(u)'
         /\ u = Host => HostRight'
<1>1. /\ participants[u] \in Row
      /\ RowRight(u)
      /\ HostRight
  BY DEF TypeOK, RowsInv
<1>2. CASE participants'[u] = participants[u]
  BY <1>1, <1>2 DEF RowRight, HostRight, HasRow
<1>3. CASE participants'[u] = NoRow /\ ~HasRow(u)
  BY <1>1, <1>3 DEF RowRight, HostRight, HasRow, NoRow
<1>4. ASSUME HasRow(u), NEW st \in {"left", "denied"},
             participants'[u] = PutOut(participants[u], st)
      PROVE  RowRight(u)' /\ (u = Host => HostRight')
  <2>1. /\ participants'[u].status = st /\ participants'[u].left_at
        /\ participants'[u].role = participants[u].role
        /\ participants'[u].is_muted = participants[u].is_muted
    BY <1>1, <1>4 DEF Row, PutOut
  <2> QED
    BY <1>1, <1>4, <2>1 DEF RowRight, HostRight, HasRow, NoRow
<1>5. ASSUME HasRow(u),
             \/ participants'[u] = LetIn(participants[u], "admitted")
             \/ participants'[u] = [LetIn(participants[u], "admitted")
                                      EXCEPT !.is_muted = FALSE]
      PROVE  RowRight(u)' /\ (u = Host => HostRight')
  <2>1. /\ participants'[u].status = "admitted" /\ ~participants'[u].left_at
        /\ participants'[u].role = participants[u].role
        /\ participants'[u].is_muted => participants[u].is_muted
    BY <1>1, <1>5 DEF Row, LetIn
  <2> QED
    BY <1>1, <1>5, <2>1 DEF RowRight, HostRight, HasRow, NoRow
<1>6. CASE /\ HasRow(u) /\ u # Host
           /\ participants'[u] = [participants[u] EXCEPT !.role = "cohost"]
  BY <1>1, <1>6 DEF RowRight, HasRow, Row, NoRow
<1>7. CASE /\ HasRow(u) /\ u \in approved \ {Host}
           /\ participants'[u] = [participants[u] EXCEPT !.is_muted = TRUE]
  BY <1>1, <1>7 DEF RowRight, HasRow, Row, NoRow
<1>8. ASSUME Exists, NEW role \in Roles, NEW st \in {"admitted", "waiting"},
             participants'[u] = LetIn([participants[u] EXCEPT !.role = role], st),
             u = Host => role = "host" /\ st = "admitted"
      PROVE  RowRight(u)' /\ (u = Host => HostRight')
  BY <1>1, <1>8 DEF RowRight, HostRight, HasRow, Row, LetIn
<1> QED
  BY <1>2, <1>3, <1>4, <1>5, <1>6, <1>7, <1>8 DEF RowStep

\* The step changes rows only as it may, and keeps them right.
RowsKept == MeetingStep /\ RowsInv'

LEMMA RowsStep ==
  ASSUME TypeOK, RowsInv, approved \subseteq approved', MeetingStep, RequestsStep
  PROVE  RowsKept
<1>1. \A s \in Slots : RequestRight(req[s])'
  BY DEF RowsInv, RequestsStep, RequestRight
<1>2. CASE Exists' = Exists /\ \A u \in Users : RowStep(u)
  <2>1. \A u \in Users : RowRight(u)' /\ (u = Host => HostRight')
    BY <1>2, RowRightStep
  <2> QED
    BY <1>1, <1>2, <2>1, HostAssumption DEF MeetingStep, RowsInv, RowsKept
<1>3. CASE ~Exists' /\ shares' = {} /\ \A u \in Users : participants'[u] = NoRow
  BY <1>1, <1>3, HostAssumption
     DEF RowsInv, RowRight, HostRight, HasRow, NoRow, RowsKept
<1> QED
  BY <1>2, <1>3 DEF MeetingStep

\* Steps that leave the database alone.
LEMMA RowsReadOnly ==
  ASSUME TypeOK, RowsInv, ReadOnly, RequestsStep
  PROVE  RowsKept
  BY RowsStep DEF ReadOnly, db, ghosts, MeetingStep, RowStep, Exists

\* Only two awaits ask for anything.
LEMMA RequestsQuiet ==
  ASSUME TypeOK, NEW s \in Slots, NEW q, Become(s, q),
         q.pc \notin {"CohostWrite", "MuteWrite"} \/ RequestRight(q)
  PROVE  RequestsStep
  BY DEF TypeOK, ReqType, Become, RequestsStep, RequestRight

LEMMA RequestsGoto ==
  ASSUME TypeOK, NEW s \in Slots,
         \/ Finish(s)
         \/ \E pc \in PCs \ {"CohostWrite", "MuteWrite"} :
              \/ Goto(s, pc)
              \/ Become(s, Counted(req[s], pc))
              \/ \E T : Become(s, [At(req[s], pc) EXCEPT !.todo = T])
  PROVE  RequestsStep
<1>1. req[s] \in Request /\ Idle.pc = "idle"
  BY DEF TypeOK, ReqType, Idle, Call
<1>2. ASSUME NEW pc, NEW T
      PROVE  /\ At(req[s], pc).pc = pc /\ Counted(req[s], pc).pc = pc
             /\ [At(req[s], pc) EXCEPT !.todo = T].pc = pc
  BY <1>1 DEF Request, At, Counted
<1>3. CASE Finish(s)
  BY <1>1, <1>3, RequestsQuiet DEF Finish
<1>4. ASSUME NEW pc \in PCs \ {"CohostWrite", "MuteWrite"},
             Goto(s, pc) \/ Become(s, Counted(req[s], pc))
      PROVE  RequestsStep
  BY <1>2, <1>4, RequestsQuiet DEF Goto
<1>5. ASSUME NEW pc \in PCs \ {"CohostWrite", "MuteWrite"}, NEW T,
             Become(s, [At(req[s], pc) EXCEPT !.todo = T])
      PROVE  RequestsStep
  BY <1>2, <1>5, RequestsQuiet
<1> QED
  BY <1>3, <1>4, <1>5

-----------------------------------------------------------------------------
(* Steps that start a request.                                             *)

LEMMA RowsStart ==
  ASSUME TypeOK, AdmissionInv, RowsInv, NEW s \in Slots, Start(s)
  PROVE  RowsKept
<1>1. ASSUME NEW q, Arrive(s, q), ReadOnly,
             q.pc \notin {"CohostWrite", "MuteWrite"} \/ RequestRight(q)
      PROVE  RowsKept
  BY <1>1, RequestsQuiet, RowsReadOnly DEF Arrive
<1>2. ASSUME NEW op, NEW u, NEW v, NEW pc
      PROVE  Call(op, u, v, pc).pc = pc /\ Call(op, u, v, pc).of = v
  BY DEF Call
<1>3. ASSUME NEW u \in Users, NEW v \in Users,
             \/ GetLiveKitTokenFind(s, u) \/ LeaveMeetingFind(s, u)
             \/ EndMeetingFind(s, u) \/ DenyFind(s, u, v)
             \/ KickParticipantFind(s, u, v) \/ MuteParticipant(s, u, v)
             \/ MuteAll(s, u)
      PROVE  RowsKept
  BY <1>1, <1>2, <1>3
     DEF GetLiveKitTokenFind, LeaveMeetingFind, EndMeetingFind, DenyFind,
         KickParticipantFind, MuteParticipant, MuteAll
<1>4. ASSUME NEW u \in Users, JoinMeetingFind(s, u)
      PROVE  RowsKept
  <2> DEFINE q == [Call("join", u, u, "JoinWrite") EXCEPT
                     !.row = participants[u], !.wr = meeting.waiting_room_on]
             c == [q EXCEPT !.pc = "JoinCount",
                            !.max = meeting.max_participants]
  <2>1. q.pc = "JoinWrite" /\ c.pc = "JoinCount"
    BY DEF Call
  <2> QED
    BY <1>1, <1>4, <2>1 DEF JoinMeetingFind
<1>5. ASSUME NEW u \in Users, NEW v \in Users,
             AdmitParticipant(s, u, v) \/ AdmitAll(s, u)
      PROVE  RowsKept
  <2>1. ASSUME NEW op, NEW w
        PROVE  [Call(op, u, w, "EnsureModerator")
                  EXCEPT !.max = meeting.max_participants].pc
                 = "EnsureModerator"
    BY DEF Call
  <2> QED
    BY <1>1, <1>5, <2>1 DEF AdmitParticipant, AdmitAll
<1>6. ASSUME NEW u \in Users, NEW v \in Users, AssignCohostFind(s, u, v)
      PROVE  RowsKept
  <2>1. v # Host
    BY <1>6 DEF AssignCohostFind, RowsInv, HostRight
  <2>2. RequestRight(Call("cohost", u, v, "CohostWrite"))
    BY <1>2, <2>1 DEF RequestRight
  <2> QED
    BY <1>1, <1>6, <2>2 DEF AssignCohostFind
<1>7. ASSUME NEW u \in Users, UpdateMeeting(s, u)
      PROVE  RowsKept
  <2>1. Exists' /\ Exists
    BY <1>7 DEF UpdateMeeting, TypeOK, MeetingRow, Exists
  <2>2. MeetingStep /\ RequestsStep /\ approved \subseteq approved'
    BY <1>7, <2>1 DEF UpdateMeeting, MeetingStep, RowStep, RequestsStep, ghosts
  <2> QED
    BY <2>2, RowsStep
<1>8. ASSUME NEW u \in Users, DeleteMeeting(s, u)
      PROVE  RowsKept
  <2>1. RequestsStep
    BY <1>2, <1>8, RequestsQuiet DEF DeleteMeeting, Arrive
  <2>2. MeetingStep /\ approved \subseteq approved'
    BY <1>8
       DEF DeleteMeeting, MeetingStep, TypeOK, MeetingRow, Exists, ghosts
  <2> QED
    BY <2>1, <2>2, RowsStep
<1>9. ASSUME NEW h \in hooks, Deliver(s, h)
      PROVE  RowsKept
  <2>1. PICK pc \in {"HookStarted", "CloseShares", "HookJoined", "HookLeft"} :
          Arrive(s, Call("webhook", h.identity, h.identity, pc))
    BY <1>9 DEF Deliver, TypeOK, LiveKitTypeOK, Hooks, RoomEvents, UserEvents
  <2>2. RequestsStep
    BY <1>2, <2>1, RequestsQuiet DEF Arrive
  <2>3. MeetingStep /\ approved \subseteq approved'
    BY <1>9 DEF Deliver, MeetingStep, RowStep, Exists, db, ghosts
  <2> QED
    BY <2>2, <2>3, RowsStep
<1> QED
  BY <1>3, <1>4, <1>5, <1>6, <1>7, <1>8, <1>9 DEF Start
-----------------------------------------------------------------------------
(* Steps that carry a request on.                                          *)

LEMMA RowsReads ==
  ASSUME TypeOK, AdmissionInv, RowsInv, NEW s \in Slots,
         \/ JoinCount(s) \/ GetLiveKitTokenRow(s) \/ EnsureModerator(s)
         \/ AdmitCount(s) \/ AdmitParticipantFind(s) \/ AdmitAllFind(s)
         \/ AdmitAllCount(s) \/ DenyParticipantFind(s)
         \/ MuteFind(s) \/ MuteAllFind(s) \/ Abort(s)
  PROVE  RowsKept
<1> USE DEF PCs
<1>1. CASE JoinCount(s) \/ AdmitCount(s) \/ AdmitAllCount(s) \/ Abort(s)
  BY <1>1, RequestsGoto, RowsReadOnly
     DEF JoinCount, AdmitCount, AdmitAllCount, Abort, Reject
<1>2. CASE \/ GetLiveKitTokenRow(s) \/ EnsureModerator(s)
           \/ AdmitParticipantFind(s) \/ DenyParticipantFind(s)
  BY <1>2, RequestsGoto, RowsReadOnly
     DEF GetLiveKitTokenRow, EnsureModerator, AdmitParticipantFind,
         DenyParticipantFind
<1>3. CASE AdmitAllFind(s) \/ MuteAllFind(s)
  BY <1>3, RequestsGoto, RowsReadOnly DEF AdmitAllFind, MuteAllFind
<1>4. CASE MuteFind(s)
  <2>1. req[s].of \in Mutable => RequestRight(At(req[s], "MuteWrite"))
    <3> SUFFICES ASSUME req[s].of \in Mutable
                 PROVE  RequestRight(At(req[s], "MuteWrite"))
      OBVIOUS
    <3>1. req[s] \in Request
      BY DEF TypeOK, ReqType
    <3>2. req[s].of \in approved
      BY DEF Mutable, AdmissionInv, RowAllowed
    <3>3. req[s].of # Host
      BY DEF Mutable, RowsInv, HostRight, HasRow
    <3> QED
      BY <3>1, <3>2, <3>3 DEF RequestRight, At, Request
  <2> QED
    BY <1>4, <2>1, RequestsGoto, RequestsQuiet, RowsReadOnly DEF MuteFind, Goto
<1> QED
  BY <1>1, <1>2, <1>3, <1>4

\* A write of participants only, one row of which may change.
LEMMA RowsSet ==
  ASSUME TypeOK, RowsInv, RequestsStep, UNCHANGED <<meeting, shares>>,
         approved \subseteq approved',
         NEW v, NEW r, SetRow(v, r), v \in Users => RowStep(v)
  PROVE  RowsKept
<1>1. \A u \in Users : RowStep(u)
  BY DEF SetRow, TypeOK, RowStep
<1> QED
  BY <1>1, RowsStep DEF MeetingStep, Exists, RowsInv

LEMMA RowsWrites ==
  ASSUME TypeOK, AdmissionInv, RowsInv, NEW s \in Slots,
         \/ EnsureRoomExists(s) \/ NormalizeShares(s)
         \/ RemoveLiveKitParticipant(s) \/ DenyShares(s)
         \/ CloseShares(s) \/ CloseRows(s) \/ CloseMeeting(s)
         \/ DeleteLiveKitRoom(s) \/ HookStarted(s)
         \/ HookLeftShares(s) \/ MuteAllWrite(s) \/ MarkMeetingActive(s)
  PROVE  RowsKept
<1> USE DEF PCs
<1>1. RequestsStep /\ UNCHANGED ghosts
  BY RequestsGoto
     DEF EnsureRoomExists, NormalizeShares, RemoveLiveKitParticipant,
         DenyShares, CloseShares, CloseRows, CloseMeeting, DeleteLiveKitRoom,
         HookStarted, HookLeftShares, MuteAllWrite, MarkMeetingActive, Reject,
         ReadOnly
<1>2. ASSUME MeetingStep PROVE RowsKept
  BY <1>1, <1>2, RowsStep DEF ghosts
<1>3. CASE EnsureRoomExists(s) \/ RemoveLiveKitParticipant(s)
             \/ DeleteLiveKitRoom(s)
  BY <1>2, <1>3
     DEF EnsureRoomExists, RemoveLiveKitParticipant, DeleteLiveKitRoom, db,
         MeetingStep, RowStep, Exists
<1>4. CASE NormalizeShares(s) \/ DenyShares(s) \/ CloseShares(s)
             \/ HookLeftShares(s)
  BY <1>2, <1>4
     DEF NormalizeShares, DenyShares, CloseShares, HookLeftShares,
         MeetingStep, RowStep, Exists
<1>5. CASE CloseMeeting(s) \/ HookStarted(s) \/ MarkMeetingActive(s)
  <2>1. Exists' = Exists /\ UNCHANGED <<participants, shares>>
    BY <1>5
       DEF CloseMeeting, HookStarted, MarkMeetingActive, Reject, ReadOnly, db,
           Exists, TypeOK, MeetingRow
  <2> QED
    BY <1>2, <2>1 DEF MeetingStep, RowStep
<1>6. CASE CloseRows(s)
  <2>1. \A u \in Users : RowStep(u)
    BY <1>6 DEF CloseRows, RowStep
  <2> QED
    BY <1>2, <1>6, <2>1 DEF CloseRows, MeetingStep, Exists
<1>7. CASE MuteAllWrite(s)
  <2>1. ASSUME NEW u \in Mutable
        PROVE  HasRow(u) /\ u \in approved \ {Host}
    BY DEF Mutable, HasRow, AdmissionInv, RowAllowed, RowsInv, HostRight
  <2>2. \A u \in Users : RowStep(u)
    BY <1>7, <2>1 DEF MuteAllWrite, RowStep
  <2> QED
    BY <1>2, <1>7, <2>2 DEF MuteAllWrite, MeetingStep, Exists
<1> QED
  BY <1>3, <1>4, <1>5, <1>6, <1>7

\* The writes of one row, by handlers that found it some awaits before.
LEMMA RowsWriteRow ==
  ASSUME TypeOK, AdmissionInv, RowsInv, NEW s \in Slots,
         \/ NormalizeRow(s) \/ DenyWrite(s) \/ HookLeft(s) \/ HookJoined(s)
         \/ IssueParticipantToken(s) \/ MuteWrite(s) \/ CohostWrite(s)
         \/ AdmitWrite(s) \/ (\E v \in Users : AdmitAllWrite(s, v))
         \/ JoinWrite(s)
  PROVE  RowsKept
<1> USE DEF PCs
<1> DEFINE q == req[s]
<1>1. q \in Request /\ RequestOK(q) /\ RequestRight(q)
  BY DEF TypeOK, ReqType, RowsInv
<1>2. CASE Reject(s)
  BY <1>2, RequestsGoto, RowsReadOnly DEF Reject
<1>3. CASE \/ NormalizeRow(s) \/ HookLeft(s) \/ HookJoined(s)
  <2>1. /\ RequestsStep /\ approved \subseteq approved'
        /\ UNCHANGED <<meeting, shares>>
    BY <1>3, RequestsGoto DEF NormalizeRow, HookLeft, HookJoined, ghosts
  <2>2. CASE UNCHANGED participants
    BY <2>1, <2>2, RowsStep DEF MeetingStep, RowStep, Exists
  <2>3. ASSUME HasRow(q.of),
               NEW r \in {PutOut(participants[q.of], "left"),
                          LetIn(participants[q.of], "admitted")},
               SetRow(q.of, r)
        PROVE  RowsKept
    <3>1. q.of \in Users => participants'[q.of] = r
      BY <2>3 DEF SetRow, TypeOK
    <3>2. q.of \in Users => RowStep(q.of)
      BY <2>3, <3>1 DEF RowStep
    <3> QED
      BY <2>1, <2>3, <3>2, RowsSet
  <2> QED
    BY <1>3, <2>2, <2>3 DEF NormalizeRow, HookLeft, HookJoined
<1>4. CASE /\ DenyWrite(s) \/ MuteWrite(s) \/ IssueParticipantToken(s)
           /\ ~Reject(s)
  <2>1. /\ RequestsStep /\ approved \subseteq approved'
        /\ UNCHANGED <<meeting, shares>>
    BY <1>4, RequestsGoto DEF DenyWrite, MuteWrite, IssueParticipantToken, ghosts
  <2>2. PICK v \in {q.of, q.by} :
          /\ HasRow(v)
          /\ \/ SetRow(v, PutOut(participants[v], "denied"))
             \/ SetRow(v, LetIn(participants[v], "admitted"))
             \/ /\ v \in approved \ {Host}
                /\ SetRow(v, [participants[v] EXCEPT !.is_muted = TRUE])
    BY <1>1, <1>4
       DEF DenyWrite, MuteWrite, IssueParticipantToken, RequestRight
  <2>3. v \in Users => RowStep(v)
    BY <2>2 DEF SetRow, RowStep, TypeOK
  <2> QED
    BY <2>1, <2>2, <2>3, RowsSet
<1>5. CASE CohostWrite(s) /\ ~Reject(s)
  <2>1. q.of # Host /\ HasRow(q.of)
    BY <1>1, <1>5 DEF CohostWrite, RequestRight, Reject
  <2>2. /\ RequestsStep /\ approved \subseteq approved'
        /\ UNCHANGED <<meeting, shares>>
        /\ SetRow(q.of, [participants[q.of] EXCEPT !.role = "cohost"])
    BY <1>5, <2>1, RequestsGoto DEF CohostWrite, Reject
  <2>3. q.of \in Users => RowStep(q.of)
    BY <2>1, <2>2 DEF SetRow, RowStep, TypeOK
  <2> QED
    BY <2>2, <2>3, RowsSet
<1>6. ASSUME NEW v, HasRow(v), Admit(s, v), RequestsStep
      PROVE  RowsKept
  <2>1. v \in Users => RowStep(v)
    BY <1>6 DEF Admit, SetRow, RowStep, TypeOK
  <2> QED
    BY <1>6, <2>1, RowsSet DEF Admit
<1>7. CASE AdmitWrite(s) /\ ~Reject(s)
  BY <1>6, <1>7, RequestsGoto DEF AdmitWrite
<1>8. ASSUME NEW v \in Users, AdmitAllWrite(s, v)
      PROVE  RowsKept
  <2>1. [q EXCEPT !.todo = q.todo \ {v}].pc = "AdmitAllWrite"
    BY <1>1, <1>8 DEF AdmitAllWrite, Request
  <2>2. RequestsStep
    BY <1>8, <2>1, RequestsGoto, RequestsQuiet DEF AdmitAllWrite
  <2> QED
    BY <1>6, <1>8, <2>2, RowsReadOnly DEF AdmitAllWrite
<1>9. CASE JoinWrite(s) /\ ~Reject(s)
  <2>1. q.by \in Users /\ participants[q.by] \in Row /\ q.row \in Row
    BY <1>1, <1>9 DEF JoinWrite, RequestOK, CallerPCs, TypeOK, Request
  <2>2. [At(q, "EnsureRoomExists") EXCEPT !.row = NoRow, !.wr = FALSE].pc
          = "EnsureRoomExists"
    BY <1>1 DEF At, Request
  <2>3. RequestsStep
    BY <1>9, <2>2, RequestsGoto, RequestsQuiet DEF JoinWrite
  <2>4. RowStep(q.by)
    <3> DEFINE role == IF q.by = Host THEN "host"
                       ELSE IF q.row = NoRow THEN "guest" ELSE q.row.role
    <3>1. role \in Roles
      BY <2>1 DEF Roles, Row
    <3>2. NextStatus(q) \in {"admitted", "waiting"}
      BY DEF NextStatus
    <3>3. q.by = Host => role = "host" /\ NextStatus(q) = "admitted"
      BY DEF NextStatus
    <3>4. Exists /\ participants'[q.by]
            = LetIn([participants[q.by] EXCEPT !.role = role], NextStatus(q))
      BY <1>9, <2>1 DEF JoinWrite, SetRow, JoinedRow, TypeOK
    <3> HIDE DEF role
    <3> QED
      BY <3>1, <3>2, <3>3, <3>4 DEF RowStep
  <2> QED
    BY <1>9, <2>3, <2>4, RowsSet DEF JoinWrite
<1> QED
  BY <1>2, <1>3, <1>4, <1>5, <1>7, <1>8, <1>9

-----------------------------------------------------------------------------
(* The theorems about the rows.                                            *)

LEMMA RowsInit == Init => RowsInv
<1> SUFFICES ASSUME Init PROVE RowsInv
  OBVIOUS
<1>1. Exists /\ HostRight /\ \A u \in Users : RowRight(u)
  BY HostAssumption
     DEF Init, Exists, HostRight, RowRight, HasRow, NoRow
<1> QED
  BY <1>1 DEF Init, RowsInv, RequestRight, Idle, Call

LEMMA RowsNext == TypeOK /\ AdmissionInv /\ RowsInv /\ [Next]_vars => RowsKept
<1> SUFFICES ASSUME TypeOK, AdmissionInv, RowsInv, [Next]_vars
             PROVE  RowsKept
  OBVIOUS
<1>1. ASSUME NEW s \in Slots, Continue(s)
      PROVE  RowsKept
  BY <1>1, RowsReads, RowsWrites, RowsWriteRow DEF Continue
<1>2. CASE Outside \/ UNCHANGED vars
  BY <1>2, RowsStep
     DEF Outside, vars, db, ghosts, MeetingStep, RowStep, RequestsStep, Exists
<1> QED
  BY <1>1, <1>2, RowsStart, RowsReads DEF Next

\* The invariant: every row, and every write of a row under way, is right.
THEOREM RowsCorrect == Spec => [](AdmissionInv /\ RowsInv)
<1>1. TypeOK /\ AdmissionInv /\ RowsInv /\ [Next]_vars
        => TypeOK' /\ AdmissionInv' /\ RowsInv'
  BY TypeNext, AdmissionNext, RowsNext DEF RowsKept
<1>2. Init => TypeOK /\ AdmissionInv /\ RowsInv
  BY TypeInit, AdmissionInit, RowsInit
<1> QED
  BY <1>1, <1>2, PTL DEF Spec

\* The host stays the only host of an existing meeting and is never kept
\* waiting, whatever joins, admissions, promotions and webhooks overlap.
THEOREM HostStays == Spec => []HostKeepsMeeting
<1>1. AdmissionInv /\ RowsInv => HostKeepsMeeting
  BY DEF AdmissionInv, RowAllowed, RowsInv, HostRight, HostKeepsMeeting
<1> QED
  BY <1>1, RowsCorrect, PTL

\* left_at agrees with the status in every row, whichever of the handlers
\* that write the two was the last.
THEOREM LeftAtAgrees == Spec => []LeftAtConsistent
<1>1. RowsInv => LeftAtConsistent
  BY DEF RowsInv, RowRight, LeftAtConsistent
<1> QED
  BY <1>1, RowsCorrect, PTL

\* Requests and webhooks that read the meeting before it was deleted bring no
\* row and no share of it back.
THEOREM NothingLeft == Spec => []DeletedLeavesNothing
<1>1. RowsInv => DeletedLeavesNothing
  BY DEF RowsInv, RowRight, DeletedLeavesNothing
<1> QED
  BY <1>1, RowsCorrect, PTL

\* Only those let in are ever marked muted, and never the host.
THEOREM OnlyInsidersMuted == Spec => []MutedWereInside
<1>1. RowsInv => MutedWereInside
  BY DEF RowsInv, RowRight, MutedWereInside
<1> QED
  BY <1>1, RowsCorrect, PTL

-----------------------------------------------------------------------------
(* What the other components rest on.                                      *)

LEMMA RowTypes ==
  ASSUME NEW r \in Row
  PROVE  r.status \in Members!Stages
  BY DEF Row, Statuses, Members!Stages

MemberStep ==
  Members!MembershipNext \/ UNCHANGED [u \in Users |-> participants[u].status]

\* Of an existing meeting no row goes; without a meeting there are no rows.
LEMMA RowsStay ==
  ASSUME TypeOK, TypeOK', RowsInv, MeetingStep
  PROVE  MemberStep
<1> DEFINE status == [u \in Users |-> participants[u].status]
<1>1. CASE \A u \in Users : participants'[u] = NoRow
  BY <1>1 DEF MemberStep, Members!MembershipNext, Members!Erase, NoRow
<1>2. CASE Exists /\ \A u \in Users : RowStep(u)
  <2>1. HasRow(Host)
    BY <1>2 DEF RowsInv, HostRight
  <2>2. Members!Present # {}
    BY <2>1, HostAssumption DEF Members!Present, HasRow, NoRow
  <2>3. status' \in [Users -> Members!Stages]
    BY RowTypes DEF TypeOK
  <2>4. ASSUME NEW u \in Users, participants[u].status # "none"
        PROVE  participants'[u].status # "none"
    <3>1. participants[u] \in Row /\ HasRow(u)
      BY <2>4 DEF TypeOK, HasRow, NoRow
    <3> QED
      BY <1>2, <2>4, <3>1 DEF RowStep, LetIn, PutOut, Row
  <2>5. Members!Present \subseteq Members!Present'
    BY <2>4 DEF Members!Present
  <2> QED
    BY <2>2, <2>3, <2>5
       DEF MemberStep, Members!MembershipNext, Members!Change
<1>3. CASE ~Exists /\ \A u \in Users : RowStep(u)
  <2>1. \A u \in Users : participants[u] = NoRow
    BY <1>3 DEF RowsInv, RowRight
  <2>2. \A u \in Users : participants'[u] = NoRow
    <3>1. \A u \in Users : ~HasRow(u)
      BY <2>1 DEF HasRow, NoRow
    <3> QED
      BY <1>3, <2>1, <3>1 DEF RowStep
  <2> QED
    BY <1>1, <2>2
<1> QED
  BY <1>1, <1>2, <1>3 DEF MeetingStep

\* The meeting service implements Membership, on which Polls, Recording and
\* Breakout rest: under every interleaving of requests and webhooks, and with
\* any failures, a row stays until deleteMeeting, and none comes back.
THEOREM MembershipImplemented == Spec => ImplementsMembership
<1>1. Init => Members!MembershipInit
  BY HostAssumption DEF Init, Members!MembershipInit, Members!Founded, NoRow
<1>2. TypeOK /\ TypeOK' /\ AdmissionInv /\ RowsInv /\ [Next]_vars
        => [Members!MembershipNext]_([u \in Users |-> participants[u].status])
  BY RowsNext, RowsStay DEF RowsKept, MemberStep
<1> QED
  BY <1>1, <1>2, TypeCorrect, RowsCorrect, PTL
     DEF Spec, ImplementsMembership, Members!MembershipSpec
=============================================================================
