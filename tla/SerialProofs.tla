---------------------------- MODULE SerialProofs ----------------------------
(***************************************************************************)
(* What Meeting promises when requests do not overlap and no webhook is    *)
(* delivered, for any users, limits, requests and failures: it implements  *)
(* Lifecycle, admits within its capacity, and writes only rows that are    *)
(* still what they were read to be.                                        *)
(***************************************************************************)
EXTENDS MeetingProofs, FiniteSetTheorems

\* One request at a time. The theorems rest on this and on nothing else about
\* the constants: every operation but the webhooks may be called, and requests
\* may die and LiveKit's calls fail.
OneAtATime == "webhook" \notin Ops /\ \A s, t \in Slots : s = t

-----------------------------------------------------------------------------
(* The inductive invariant: what a request has read is still so.           *)

Open == meeting.status \in {"waiting", "active"}
Waiting == {u \in Users : participants[u].status = "waiting"}
Out == \A u \in Users : participants[u].status \notin {"waiting", "admitted"}
Places(n) == Cardinality(Active) + n <= meeting.max_participants

HookPCs == {"HookStarted", "HookJoined", "HookLeft", "HookLeftShares"}

ReadRight(q) ==
  /\ q.pc \in {"JoinCount", "JoinWrite"} =>
       Open /\ q.row = participants[q.by] /\ q.row.status # "denied"
  /\ q.pc = "JoinWrite" /\ q.row = NoRow => Places(1)
  /\ q.pc = "TokenRow" => Open
  /\ q.pc \in {"EnsureRoomExists", "IssueParticipantToken",
               "MarkMeetingActive"}
       => Open /\ participants[q.by].status = "admitted"
  /\ q.pc \in {"JoinCount", "EnsureModerator", "AdmitCount", "AdmitAllFind",
               "AdmitAllCount"} => q.max = meeting.max_participants
  /\ q.pc \in {"AdmitParticipantFind", "AdmitWrite"} => Places(1)
  /\ q.pc = "AdmitWrite" => q.of \in Waiting
  /\ q.pc \in {"AdmitAllCount", "AdmitAllWrite"} => q.todo \subseteq Waiting
  /\ q.pc = "AdmitAllWrite" => Places(Cardinality(q.todo))
  /\ q.pc = "MuteWrite" => q.of \in Mutable
  /\ q.pc = "MuteAllWrite" => q.todo = Mutable
  /\ q.pc \in {"CloseRows", "CloseMeeting"} => shares = {}
  /\ q.pc = "CloseMeeting" => Out
  /\ q.pc \notin HookPCs

SerialInv == EndedMeansEmpty /\ \A s \in Slots : ReadRight(req[s])

\* All that holds between two steps.
Before == TypeOK /\ AdmissionInv /\ RowsInv /\ SerialInv

-----------------------------------------------------------------------------
(* What a step of the only slot has to do.                                 *)

CohostStays(u) ==
  participants[u].role = "cohost" => participants'[u].role \in {"cohost", "none"}

MuteAsked(s, u) ==
  ~participants[u].is_muted /\ participants'[u].is_muted
    => u \in req[s].todo \cup {req[s].of}

PlaceFound(s) ==
  /\ req[s].pc \in {"AdmitWrite", "AdmitAllWrite", "JoinWrite"}
  /\ req[s].row = NoRow
  /\ req'[s] # req[s]
  => Cardinality(Active') <= meeting.max_participants

LifecycleStep == Promise!LifecycleNext \/ UNCHANGED Promise!lifecycleVars

RowsPromised(s) ==
  /\ LifecycleStep
  /\ \A u \in Users : CohostStays(u) /\ MuteAsked(s, u)

After(s) == SerialInv' /\ RowsPromised(s) /\ PlaceFound(s)

-----------------------------------------------------------------------------
(* Numbers of participants.                                                *)

LEMMA ActiveFinite ==
  ASSUME TypeOK
  PROVE  /\ Cardinality(Active) \in Nat
         /\ meeting.max_participants \in Nat
         /\ IsFiniteSet(Active)
         /\ \A u : Cardinality(Active \cup {u}) <= Cardinality(Active) + 1
<1>1. IsFiniteSet(Active)
  BY FS_Subset, UsersAssumption DEF Active
<1>2. meeting.max_participants \in Nat
  BY LimitsAssumption DEF TypeOK, MeetingRow
<1>3. Cardinality(Active) \in Nat
  BY <1>1, FS_CardinalityType
<1>4. ASSUME NEW u
      PROVE  Cardinality(Active \cup {u}) <= Cardinality(Active) + 1
  <2>1. Cardinality(Active \cup {u})
          = IF u \in Active THEN Cardinality(Active) ELSE Cardinality(Active) + 1
    BY <1>1, FS_AddElement
  <2> QED
    BY <1>3, <2>1
<1> QED
  BY <1>1, <1>2, <1>3, <1>4

\* At most one more is inside, who had a place.
LEMMA OneMore ==
  ASSUME TypeOK, NEW u \in Users, Active' \subseteq Active \cup {u}
  PROVE  /\ Cardinality(Active') \in Nat
         /\ Cardinality(Active') <= Cardinality(Active) + 1
<1>1. IsFiniteSet(Active \cup {u})
  BY ActiveFinite, FS_AddElement
<1>2. Cardinality(Active') <= Cardinality(Active \cup {u})
  BY <1>1, FS_Subset
<1>3. Cardinality(Active') \in Nat
  BY <1>1, FS_Subset, FS_CardinalityType
<1>4. Cardinality(Active \cup {u}) \in Nat
  BY <1>1, FS_CardinalityType
<1> QED
  BY <1>2, <1>3, <1>4, ActiveFinite

-----------------------------------------------------------------------------
(* Steps that leave the rows and the meeting alone.                        *)

\* What is true of the rows stays true while they do not change.
LEMMA SameRows ==
  ASSUME UNCHANGED <<meeting, participants>>
  PROVE  /\ Open' = Open /\ Out' = Out /\ Waiting' = Waiting
         /\ Active' = Active /\ Mutable' = Mutable
         /\ \A n : Places(n)' = Places(n)
         /\ UNCHANGED Promise!lifecycleVars
  BY DEF Open, Out, Waiting, Active, Mutable, Places, Promise!lifecycleVars

LEMMA Alone ==
  ASSUME OneAtATime, TypeOK, NEW s \in Slots, NEW q, Become(s, q)
  PROVE  req'[s] = q /\ \A t \in Slots : t = s
  BY DEF OneAtATime, TypeOK, ReqType, Become

LEMMA ReadsKept ==
  ASSUME OneAtATime, TypeOK, SerialInv, NEW s \in Slots, NEW q, Become(s, q),
         ReadRight(q), UNCHANGED <<meeting, participants>>,
         shares' \subseteq shares
  PROVE  SerialInv'
<1>1. req'[s] = q /\ \A t \in Slots : t = s
  BY Alone
<1>2. ReadRight(req[s])'
  BY <1>1, SameRows DEF ReadRight
<1>3. EndedMeansEmpty'
  BY DEF SerialInv, EndedMeansEmpty
<1> QED
  BY <1>1, <1>2, <1>3 DEF SerialInv

\* A request about to admit somebody has a place for one.
LEMMA HasPlace ==
  ASSUME TypeOK, SerialInv, NEW s \in Slots,
         req[s].pc \in {"AdmitWrite", "AdmitAllWrite", "JoinWrite"},
         req[s].row = NoRow
  PROVE  Cardinality(Active) <= meeting.max_participants
<1>1. ReadRight(req[s]) /\ req[s].todo \subseteq Users
  BY DEF SerialInv, TypeOK, ReqType, Request
<1>2. Cardinality(req[s].todo) \in Nat
  BY <1>1, FS_Subset, FS_CardinalityType, UsersAssumption
<1> QED
  BY <1>1, <1>2, ActiveFinite DEF ReadRight, Places

LEMMA Quiet ==
  ASSUME OneAtATime, Before, NEW s \in Slots, NEW q, Become(s, q),
         ReadRight(q), UNCHANGED <<meeting, participants>>,
         shares' \subseteq shares
  PROVE  After(s)
<1>1. SerialInv'
  BY ReadsKept DEF Before
<1>2. PlaceFound(s)
  BY HasPlace, SameRows DEF Before, PlaceFound
<1>3. RowsPromised(s)
  BY SameRows
     DEF RowsPromised, LifecycleStep, CohostStays, MuteAsked, Before, TypeOK, Row
<1> QED
  BY <1>1, <1>2, <1>3 DEF After

LEMMA IdleRight == ReadRight(Idle)
  BY DEF ReadRight, Idle, Call, HookPCs

LEMMA SerialReject ==
  ASSUME OneAtATime, Before, NEW s \in Slots, Reject(s)
  PROVE  After(s)
  BY IdleRight, Quiet DEF Reject, Finish, ReadOnly, db

-----------------------------------------------------------------------------
(* Requests that arrive.                                                   *)

LEMMA SerialArrive ==
  ASSUME OneAtATime, Before, NEW s \in Slots, NEW u \in Users, NEW v \in Users,
         \/ JoinMeetingFind(s, u) \/ GetLiveKitTokenFind(s, u)
         \/ LeaveMeetingFind(s, u) \/ AdmitAll(s, u) \/ MuteAll(s, u)
         \/ EndMeetingFind(s, u) \/ AdmitParticipant(s, u, v)
         \/ DenyFind(s, u, v) \/ KickParticipantFind(s, u, v)
         \/ AssignCohostFind(s, u, v) \/ MuteParticipant(s, u, v)
  PROVE  After(s)
<1>1. /\ meeting.status \in {"waiting", "active", "ended", "deleted"}
      /\ participants[u] \in Row
  BY DEF Before, TypeOK, MeetingRow
<1>2. ASSUME NEW q, Arrive(s, q), ReadRight(q), ReadOnly
      PROVE  After(s)
  BY <1>2, Quiet DEF Arrive, ReadOnly, db
<1>3. CASE JoinMeetingFind(s, u)
  <2> DEFINE q == [Call("join", u, u, "JoinWrite") EXCEPT
                     !.row = participants[u], !.wr = meeting.waiting_room_on]
             c == [q EXCEPT !.pc = "JoinCount",
                            !.max = meeting.max_participants]
  <2>1. Open /\ participants[u].status # "denied"
    BY <1>1, <1>3 DEF JoinMeetingFind, Exists, Open
  <2>2. q.pc = "JoinWrite" /\ q.row = participants[u] /\ q.by = u
    BY DEF Call
  <2>3. /\ c.pc = "JoinCount" /\ c.row = participants[u] /\ c.by = u
        /\ c.max = meeting.max_participants
    BY DEF Call
  <2>4. HasRow(u) => participants[u] # NoRow
    BY DEF HasRow, NoRow
  <2>5. Arrive(s, IF HasRow(u) THEN q ELSE c) /\ ReadOnly
    BY <1>3 DEF JoinMeetingFind
  <2> HIDE DEF q, c
  <2>6. CASE HasRow(u)
    <3>1. ReadRight(q)
      BY <2>1, <2>2, <2>4, <2>6 DEF ReadRight, HookPCs
    <3> QED
      BY <1>2, <2>5, <2>6, <3>1
  <2>7. CASE ~HasRow(u)
    <3>1. ReadRight(c)
      BY <2>1, <2>3 DEF ReadRight, HookPCs
    <3> QED
      BY <1>2, <2>5, <2>7, <3>1
  <2> QED
    BY <2>6, <2>7
<1>4. CASE GetLiveKitTokenFind(s, u)
  <2>1. ReadRight(Call("token", u, u, "TokenRow"))
    BY <1>1, <1>4
       DEF GetLiveKitTokenFind, Exists, Open, ReadRight, Call, HookPCs
  <2> QED
    BY <1>2, <1>4, <2>1 DEF GetLiveKitTokenFind
<1>5. ASSUME NEW op, NEW w,
             Arrive(s, [Call(op, u, w, "EnsureModerator")
                          EXCEPT !.max = meeting.max_participants]), ReadOnly
      PROVE  After(s)
  <2>1. ReadRight([Call(op, u, w, "EnsureModerator")
                     EXCEPT !.max = meeting.max_participants])
    BY DEF ReadRight, Call, HookPCs
  <2> QED
    BY <1>2, <1>5, <2>1
<1>6. CASE AdmitAll(s, u) \/ AdmitParticipant(s, u, v)
  BY <1>5, <1>6 DEF AdmitAll, AdmitParticipant
<1>7. ASSUME NEW op, NEW w,
             NEW pc \in {"NormalizeShares", "MuteAllFind", "CloseShares",
                         "DenyParticipantFind", "CohostWrite", "MuteFind"},
             Arrive(s, Call(op, u, w, pc)), ReadOnly
      PROVE  After(s)
  <2>1. ReadRight(Call(op, u, w, pc))
    BY DEF ReadRight, Call, HookPCs
  <2> QED
    BY <1>2, <1>7, <2>1
<1>8. CASE \/ LeaveMeetingFind(s, u) \/ MuteAll(s, u) \/ EndMeetingFind(s, u)
           \/ DenyFind(s, u, v) \/ KickParticipantFind(s, u, v)
           \/ AssignCohostFind(s, u, v) \/ MuteParticipant(s, u, v)
  BY <1>7, <1>8
     DEF LeaveMeetingFind, MuteAll, EndMeetingFind, DenyFind,
         KickParticipantFind, AssignCohostFind, MuteParticipant
<1> QED
  BY <1>3, <1>4, <1>6, <1>8

\* The limits change, and the meeting is deleted, between requests.
LEMMA SerialStart ==
  ASSUME OneAtATime, Before, NEW s \in Slots, Start(s)
  PROVE  After(s)
<1>1. ASSUME NEW u \in Users, UpdateMeeting(s, u)
      PROVE  After(s)
  <2>1. /\ participants' = participants /\ shares' = shares /\ req' = req
        /\ meeting'.status = meeting.status
        /\ req[s] = Idle /\ \A t \in Slots : t = s
    BY <1>1 DEF UpdateMeeting, OneAtATime, Before, TypeOK, MeetingRow
  <2>2. SerialInv'
    <3>1. ReadRight(req[s])'
      BY <2>1 DEF ReadRight, Idle, Call, HookPCs
    <3> QED
      BY <2>1, <3>1 DEF Before, SerialInv, EndedMeansEmpty
  <2>3. RowsPromised(s)
    BY <2>1
       DEF RowsPromised, LifecycleStep, Promise!lifecycleVars, CohostStays,
           MuteAsked
  <2> QED
    BY <2>1, <2>2, <2>3 DEF After, PlaceFound
<1>2. ASSUME NEW u \in Users, DeleteMeeting(s, u)
      PROVE  After(s)
  <2> DEFINE q == Call("delete", u, Nobody, "DeleteLiveKitRoom")
  <2>1. /\ meeting'.status = "deleted"
        /\ participants' = [v \in Users |-> NoRow]
        /\ req[s] = Idle /\ Become(s, q)
    BY <1>2 DEF DeleteMeeting, Arrive, Before, TypeOK, MeetingRow
  <2>2. SerialInv'
    <3>1. req'[s] = q /\ \A t \in Slots : t = s
      BY <2>1, Alone DEF Before
    <3>2. ReadRight(req[s])'
      BY <3>1 DEF ReadRight, Call, HookPCs
    <3> QED
      BY <2>1, <3>1, <3>2 DEF SerialInv, EndedMeansEmpty
  <2>3. LifecycleStep
    BY <2>1
       DEF LifecycleStep, Promise!LifecycleNext, Promise!Erase, NoRow
  <2>4. \A v \in Users : CohostStays(v) /\ MuteAsked(s, v)
    BY <2>1 DEF CohostStays, MuteAsked, NoRow
  <2>5. PlaceFound(s)
    BY <2>1 DEF PlaceFound, Idle, Call
  <2> QED
    BY <2>2, <2>3, <2>4, <2>5 DEF After, RowsPromised
<1>3. ASSUME NEW h \in hooks, Deliver(s, h)
      PROVE  After(s)
  BY <1>3 DEF Deliver, Arrive, Call, OneAtATime
<1> QED
  BY <1>1, <1>2, <1>3, SerialArrive DEF Start

-----------------------------------------------------------------------------
(* Reads, and calls of LiveKit.                                            *)

LEMMA SerialReads ==
  ASSUME OneAtATime, Before, NEW s \in Slots,
         \/ JoinCount(s) \/ GetLiveKitTokenRow(s) \/ EnsureRoomExists(s)
         \/ RemoveLiveKitParticipant(s) \/ EnsureModerator(s)
         \/ AdmitCount(s) \/ AdmitParticipantFind(s) \/ AdmitAllFind(s)
         \/ AdmitAllCount(s) \/ DenyParticipantFind(s)
         \/ DeleteLiveKitRoom(s) \/ MuteFind(s) \/ MuteAllFind(s)
         \/ Abort(s)
  PROVE  After(s)
<1>1. PICK q \in Request : q = req[s]
  BY DEF Before, TypeOK, ReqType
<1>2. ReadRight(q) /\ (q.pc \in CallerPCs => q.by \in Users)
  BY <1>1 DEF Before, SerialInv, TypeOK, ReqType, RequestOK
<1>3. UNCHANGED <<meeting, participants, shares>>
  BY DEF JoinCount, GetLiveKitTokenRow, EnsureRoomExists,
         RemoveLiveKitParticipant, EnsureModerator, AdmitCount,
         AdmitParticipantFind, AdmitAllFind, AdmitAllCount,
         DenyParticipantFind, DeleteLiveKitRoom, MuteFind, MuteAllFind,
         Abort, Reject, ReadOnly, db
<1>4. ASSUME NEW r, Become(s, r), ReadRight(r)
      PROVE  After(s)
  BY <1>3, <1>4, Quiet
<1>5. Finish(s) => After(s)
  BY <1>4, IdleRight DEF Finish
<1>6. ASSUME NEW pc \in {"IssueParticipantToken", "EnsureRoomExists",
                         "AdmitCount", "AdmitAllFind", "AdmitWrite",
                         "DenyShares", "MuteWrite"}
      PROVE  /\ At(q, pc).pc = pc /\ At(q, pc).by = q.by
             /\ At(q, pc).of = q.of /\ At(q, pc).max = q.max
  BY <1>1 DEF At, Request
<1>7. CASE JoinCount(s)
  <2>1. ASSUME q.pc = "JoinCount", Cardinality(Active) < q.max
        PROVE  ReadRight(Counted(q, "JoinWrite"))
    <3> DEFINE r == Counted(q, "JoinWrite")
    <3>1. r.pc = "JoinWrite" /\ r.row = q.row /\ r.by = q.by
      BY <1>1 DEF Counted, Request
    <3>2. Places(1)
      BY <1>2, <2>1, ActiveFinite DEF ReadRight, Places, Before
    <3> HIDE DEF r
    <3>3. ReadRight(r)
      BY <1>2, <2>1, <3>1, <3>2 DEF ReadRight, HookPCs
    <3> QED
      BY <3>3 DEF r
  <2> QED
    BY <1>1, <1>4, <1>5, <1>7, <2>1 DEF JoinCount
<1>8. CASE GetLiveKitTokenRow(s)
  <2>1. ASSUME q.pc = "TokenRow", participants[q.by].status = "admitted"
        PROVE  ReadRight(At(q, "EnsureRoomExists"))
    BY <1>2, <1>6, <2>1 DEF ReadRight, HookPCs
  <2> QED
    BY <1>1, <1>4, <1>5, <1>8, <2>1 DEF GetLiveKitTokenRow, Goto
<1>9. CASE EnsureRoomExists(s)
  <2>1. ASSUME q.pc = "EnsureRoomExists"
        PROVE  ReadRight(At(q, "IssueParticipantToken"))
    BY <1>2, <1>6, <2>1 DEF ReadRight, HookPCs
  <2> QED
    BY <1>1, <1>4, <1>5, <1>9, <2>1 DEF EnsureRoomExists, Goto
<1>10. CASE EnsureModerator(s)
  <2>1. ASSUME q.pc = "EnsureModerator", NEW pc \in {"AdmitCount", "AdmitAllFind"}
        PROVE  ReadRight(At(q, pc))
    BY <1>2, <1>6, <2>1 DEF ReadRight, HookPCs
  <2> QED
    BY <1>1, <1>4, <1>5, <1>10, <2>1 DEF EnsureModerator, Goto
<1>11. CASE AdmitCount(s)
  <2>1. ASSUME q.pc = "AdmitCount", Cardinality(Active) < q.max
        PROVE  ReadRight(Counted(q, "AdmitParticipantFind"))
    <3> DEFINE r == Counted(q, "AdmitParticipantFind")
    <3>1. r.pc = "AdmitParticipantFind"
      BY <1>1 DEF Counted, Request
    <3>2. Places(1)
      BY <1>2, <2>1, ActiveFinite DEF ReadRight, Places, Before
    <3> HIDE DEF r
    <3>3. ReadRight(r)
      BY <3>1, <3>2 DEF ReadRight, HookPCs
    <3> QED
      BY <3>3 DEF r
  <2> QED
    BY <1>1, <1>4, <1>5, <1>11, <2>1 DEF AdmitCount
<1>12. CASE AdmitParticipantFind(s)
  <2>1. ASSUME q.pc = "AdmitParticipantFind",
               participants[q.of].status = "waiting"
        PROVE  ReadRight(At(q, "AdmitWrite"))
    <3>1. q.of \in Users
      BY <1>1, <2>1 DEF Before, TypeOK, ReqType, RequestOK, TargetPCs
    <3> QED
      BY <1>2, <1>6, <2>1, <3>1 DEF ReadRight, Waiting, HookPCs
  <2> QED
    BY <1>1, <1>4, <1>5, <1>12, <2>1 DEF AdmitParticipantFind, Goto
<1>13. CASE AdmitAllFind(s)
  <2> DEFINE r == [At(q, "AdmitAllCount") EXCEPT !.todo = Waiting]
  <2>1. r.pc = "AdmitAllCount" /\ r.todo = Waiting /\ r.max = q.max
    BY <1>1 DEF At, Request
  <2>2. Become(s, r) /\ q.pc = "AdmitAllFind"
    BY <1>1, <1>13 DEF AdmitAllFind, Waiting
  <2> HIDE DEF r
  <2>3. ReadRight(r)
    BY <1>2, <2>1, <2>2 DEF ReadRight, HookPCs
  <2> QED
    BY <1>4, <2>2, <2>3
<1>14. CASE AdmitAllCount(s)
  <2>1. ASSUME q.pc = "AdmitAllCount",
               Cardinality(Active) + Cardinality(q.todo) <= q.max
        PROVE  ReadRight(Counted(q, "AdmitAllWrite"))
    <3> DEFINE r == Counted(q, "AdmitAllWrite")
    <3>1. r.pc = "AdmitAllWrite" /\ r.todo = q.todo
      BY <1>1 DEF Counted, Request
    <3> HIDE DEF r
    <3>2. ReadRight(r)
      BY <1>2, <2>1, <3>1 DEF ReadRight, Places, HookPCs
    <3> QED
      BY <3>2 DEF r
  <2> QED
    BY <1>1, <1>4, <1>5, <1>14, <2>1 DEF AdmitAllCount
<1>15. CASE DenyParticipantFind(s)
  <2>1. ReadRight(At(q, "DenyShares"))
    BY <1>6 DEF ReadRight, HookPCs
  <2> QED
    BY <1>1, <1>4, <1>5, <1>15, <2>1 DEF DenyParticipantFind, Goto
<1>16. CASE MuteFind(s)
  <2>1. ASSUME q.of \in Mutable
        PROVE  ReadRight(At(q, "MuteWrite"))
    BY <1>6, <2>1 DEF ReadRight, HookPCs
  <2> QED
    BY <1>1, <1>4, <1>5, <1>16, <2>1 DEF MuteFind, Goto
<1>17. CASE MuteAllFind(s)
  <2> DEFINE r == [At(q, "MuteAllWrite") EXCEPT !.todo = Mutable]
  <2>1. r.pc = "MuteAllWrite" /\ r.todo = Mutable
    BY <1>1 DEF At, Request
  <2>2. Become(s, r)
    BY <1>1, <1>17 DEF MuteAllFind
  <2> HIDE DEF r
  <2>3. ReadRight(r)
    BY <2>1 DEF ReadRight, HookPCs
  <2> QED
    BY <1>4, <2>2, <2>3
<1> QED
  BY <1>5, <1>7, <1>8, <1>9, <1>10, <1>11, <1>12, <1>13, <1>14, <1>15, <1>16,
     <1>17 DEF RemoveLiveKitParticipant, DeleteLiveKitRoom, Abort, Reject

-----------------------------------------------------------------------------
(* Writes of one row.                                                      *)

\* Where a row's user may go, from how far they have come.
MayMove(old, new) ==
  \/ old = new
  \/ old # "none" /\ new \in {"denied", "left"}
  \/ Open /\ old \in {"none", "left", "waiting"} /\ new = "admitted"
  \/ Open /\ old \in {"none", "left"} /\ new = "waiting"

\* A row that moves as it may, without losing a cohost or muting the unasked,
\* keeps all that is promised of rows.
LEMMA RowPromised ==
  ASSUME OneAtATime, Before, NEW s \in Slots, NEW v \in Users, NEW r \in Row,
         SetRow(v, r), UNCHANGED <<meeting, shares>>,
         MayMove(participants[v].status, r.status),
         participants[v].role = "cohost" => r.role = "cohost",
         r.is_muted => participants[v].is_muted \/ v = req[s].of
                         \/ v \in req[s].todo
  PROVE  /\ RowsPromised(s)
         /\ EndedMeansEmpty'
         /\ Active' \subseteq Active \cup {v}
<1>1. /\ participants \in [Users -> Row]
      /\ participants' = [participants EXCEPT ![v] = r]
      /\ participants' \in [Users -> Row]
  BY DEF Before, TypeOK, SetRow
<1>2. participants'[v] = r /\ \A u \in Users \ {v} : participants'[u] = participants[u]
  BY <1>1
<1>3. [u \in Users |-> participants'[u].status]
        = [[u \in Users |-> participants[u].status] EXCEPT ![v] = r.status]
  BY <1>1, <1>2
<1>4. LifecycleStep
  <2>1. Promise!Move(v, r.status)
    BY <1>3 DEF Promise!Move
  <2>2. UNCHANGED meeting
    OBVIOUS
  <2>3. CASE participants[v].status = r.status
    <3>1. \A u \in Users : participants'[u].status = participants[u].status
      BY <1>2, <2>3
    <3> QED
      BY <2>2, <3>1 DEF LifecycleStep, Promise!lifecycleVars
  <2>4. CASE participants[v].status # "none" /\ r.status = "denied"
    BY <2>1, <2>2, <2>4
       DEF LifecycleStep, Promise!LifecycleNext, Promise!Moves, Promise!Deny,
           Promise!Present
  <2>5. CASE participants[v].status # "none" /\ r.status = "left"
    BY <2>1, <2>2, <2>5
       DEF LifecycleStep, Promise!LifecycleNext, Promise!Moves, Promise!Leave,
           Promise!Present
  <2>6. CASE /\ Open /\ participants[v].status \in {"none", "left", "waiting"}
             /\ r.status = "admitted"
    BY <2>1, <2>2, <2>6
       DEF LifecycleStep, Promise!LifecycleNext, Promise!Moves, Promise!Admit,
           Open
  <2>7. CASE /\ Open /\ participants[v].status \in {"none", "left"}
             /\ r.status = "waiting"
    BY <2>1, <2>2, <2>7
       DEF LifecycleStep, Promise!LifecycleNext, Promise!Moves, Promise!Wait,
           Open
  <2> QED
    BY <2>3, <2>4, <2>5, <2>6, <2>7 DEF MayMove
<1>5. \A u \in Users : CohostStays(u) /\ MuteAsked(s, u)
  BY <1>1, <1>2 DEF CohostStays, MuteAsked, Row
<1>6. EndedMeansEmpty'
  <2>1. SUFFICES ASSUME meeting.status = "ended"
                 PROVE  /\ shares = {}
                        /\ \A u \in Users :
                             participants'[u].status \notin {"waiting", "admitted"}
    BY DEF EndedMeansEmpty
  <2> QED
    BY <1>2, <2>1 DEF Before, SerialInv, EndedMeansEmpty, MayMove, Open
<1>7. Active' \subseteq Active \cup {v}
  BY <1>2 DEF Active
<1> QED
  BY <1>4, <1>5, <1>6, <1>7 DEF RowsPromised

\* A write of one row, after which the slot holds q.
LEMMA RowWritten ==
  ASSUME OneAtATime, Before, NEW s \in Slots, NEW v \in Users, NEW r \in Row,
         SetRow(v, r), UNCHANGED <<meeting, shares>>,
         MayMove(participants[v].status, r.status),
         participants[v].role = "cohost" => r.role = "cohost",
         r.is_muted => participants[v].is_muted \/ v = req[s].of
                         \/ v \in req[s].todo,
         NEW q, Become(s, q), ReadRight(req[s])',
         \/ req[s].pc \notin {"AdmitWrite", "AdmitAllWrite", "JoinWrite"}
         \/ req[s].row # NoRow
         \/ Cardinality(Active) + 1 <= meeting.max_participants
  PROVE  After(s)
<1>1. /\ RowsPromised(s)
      /\ EndedMeansEmpty'
      /\ Active' \subseteq Active \cup {v}
  BY RowPromised
<1>2. SerialInv'
  BY <1>1, Alone DEF SerialInv, Before
<1>3. PlaceFound(s)
  BY <1>1, OneMore, ActiveFinite DEF PlaceFound, Before
<1> QED
  BY <1>1, <1>2, <1>3 DEF After

LEMMA SerialJoin ==
  ASSUME OneAtATime, Before, NEW s \in Slots, JoinWrite(s)
  PROVE  After(s)
<1>1. CASE Reject(s)
  BY <1>1, SerialReject
<1>2. CASE ~Reject(s)
  <2>1. PICK q \in Request : q = req[s]
    BY DEF Before, TypeOK, ReqType
  <2>2. /\ ReadRight(q) /\ q.pc = "JoinWrite" /\ q.by \in Users
    BY <1>2, <2>1
       DEF JoinWrite, Before, SerialInv, TypeOK, ReqType, RequestOK, CallerPCs
  <2>3. PICK u \in Users : u = q.by
    BY <2>2
  <2>4. /\ SetRow(u, JoinedRow(q)) /\ UNCHANGED <<meeting, shares>>
        /\ Open /\ q.row = participants[u] /\ participants[u].status # "denied"
        /\ participants[u] \in Row
    BY <1>2, <2>1, <2>2, <2>3 DEF JoinWrite, ReadRight, Before, TypeOK
  <2>5. /\ NextStatus(q) \in {"admitted", "waiting"}
        /\ MayMove(participants[u].status, NextStatus(q))
    BY <2>4 DEF NextStatus, MayMove, Row, Statuses
  <2>6. /\ JoinedRow(q) \in Row
        /\ JoinedRow(q).status = NextStatus(q)
        /\ JoinedRow(q).is_muted = participants[u].is_muted
        /\ participants[u].role = "cohost" => JoinedRow(q).role = "cohost"
    <3>1. u = Host => participants[u].role # "cohost"
      BY <2>3, HostAssumption
         DEF Before, AdmissionInv, RowsInv, RowRight, HostRight, HasRow, NoRow
    <3>2. participants[u].role = "cohost" => q.row # NoRow
      BY <2>4 DEF NoRow
    <3> QED
      BY <2>3, <2>4, <2>5, <3>1, <3>2
         DEF JoinedRow, LetIn, Row, Roles, Statuses
  <2>7. PICK r \in Row : r = JoinedRow(q)
    BY <2>6
  <2>8. ReadRight(req[s])'
    <3>1. CASE /\ NextStatus(q) = "admitted"
               /\ Become(s, [At(q, "EnsureRoomExists") EXCEPT
                               !.row = NoRow, !.wr = FALSE])
      <4> DEFINE n == [At(q, "EnsureRoomExists") EXCEPT
                         !.row = NoRow, !.wr = FALSE]
      <4>1. n.pc = "EnsureRoomExists" /\ n.by = u
        BY <2>1, <2>3 DEF At, Request
      <4>2. req'[s] = n
        BY <3>1, Alone DEF Before
      <4> HIDE DEF n
      <4>3. participants'[u] = r
        BY <2>4, <2>7 DEF SetRow, Before, TypeOK
      <4>4. Open' /\ participants'[u].status = "admitted"
        BY <2>4, <2>6, <2>7, <3>1, <4>3 DEF Open
      <4> QED
        BY <4>1, <4>2, <4>4 DEF ReadRight, HookPCs
    <3>2. CASE Finish(s)
      <4>1. req'[s] = Idle
        BY <3>2, Alone DEF Finish, Before
      <4> QED
        BY <4>1 DEF ReadRight, Idle, Call, HookPCs
    <3> QED
      BY <1>2, <2>1, <3>1, <3>2 DEF JoinWrite
  <2>9. \E n : Become(s, n)
    BY <1>2 DEF JoinWrite, Finish
  <2>10. q.row # NoRow \/ Cardinality(Active) + 1 <= meeting.max_participants
    BY <2>2 DEF ReadRight, Places
  <2> QED
    BY <2>1, <2>4, <2>5, <2>6, <2>7, <2>8, <2>9, <2>10, RowWritten
<1> QED
  BY <1>1, <1>2

LEMMA SerialAdmit ==
  ASSUME OneAtATime, Before, NEW s \in Slots,
         AdmitWrite(s) \/ \E v \in Users : AdmitAllWrite(s, v)
  PROVE  After(s)
<1>1. PICK q \in Request : q = req[s]
  BY DEF Before, TypeOK, ReqType
<1>2. ReadRight(q) /\ q.todo \subseteq Users
  BY <1>1 DEF Before, SerialInv, Request
<1>3. ASSUME NEW v \in Waiting
      PROVE  HasRow(v) /\ Open
  <2>1. meeting.status # "deleted"
    BY <1>3 DEF Waiting, Before, RowsInv, RowRight, NoRow, Exists
  <2>2. meeting.status # "ended"
    BY <1>3 DEF Waiting, Before, SerialInv, EndedMeansEmpty
  <2> QED
    BY <1>3, <2>1, <2>2 DEF Open, Waiting, HasRow, Before, TypeOK, MeetingRow
<1>4. ASSUME NEW v \in Waiting, Admit(s, v), NEW n, Become(s, n),
             ReadRight(req[s])', Places(1)
      PROVE  After(s)
  <2>1. v \in Users /\ participants[v].status = "waiting"
        /\ participants[v] \in Row
    BY <1>4 DEF Waiting, Before, TypeOK
  <2>2. PICK r \in Row :
          r = [LetIn(participants[v], "admitted") EXCEPT !.is_muted = FALSE]
    BY <2>1 DEF LetIn, Row, Statuses
  <2>3. /\ r.status = "admitted" /\ ~r.is_muted
        /\ r.role = participants[v].role
    BY <2>1, <2>2 DEF LetIn, Row
  <2>4. SetRow(v, r) /\ UNCHANGED <<meeting, shares>>
    BY <1>4, <2>2 DEF Admit
  <2>5. MayMove(participants[v].status, r.status)
    BY <1>3, <2>1, <2>3 DEF MayMove
  <2>6. Cardinality(Active) + 1 <= meeting.max_participants
    BY <1>4 DEF Places
  <2> QED
    BY <1>4, <2>1, <2>3, <2>4, <2>5, <2>6, RowWritten
<1>5. CASE AdmitWrite(s)
  <2>1. q.of \in Waiting /\ Places(1)
    BY <1>1, <1>2, <1>5 DEF AdmitWrite, ReadRight
  <2>2. Admit(s, q.of) /\ Finish(s)
    BY <1>1, <1>3, <1>5, <2>1 DEF AdmitWrite
  <2>3. ReadRight(req[s])'
    <3>1. req'[s] = Idle
      BY <2>2, Alone DEF Finish, Before
    <3> QED
      BY <3>1 DEF ReadRight, Idle, Call, HookPCs
  <2> QED
    BY <1>4, <2>1, <2>2, <2>3 DEF Finish
<1>6. ASSUME NEW v \in Users, AdmitAllWrite(s, v)
      PROVE  After(s)
  <2>1. /\ q.pc = "AdmitAllWrite" /\ v \in q.todo /\ q.todo \subseteq Waiting
        /\ Places(Cardinality(q.todo))
    BY <1>1, <1>2, <1>6 DEF AdmitAllWrite, ReadRight
  <2>2. Admit(s, v)
    BY <1>3, <1>6, <2>1 DEF AdmitAllWrite
  <2>3. /\ Cardinality(q.todo \ {v}) = Cardinality(q.todo) - 1
        /\ Cardinality(q.todo) \in Nat /\ Cardinality(q.todo \ {v}) \in Nat
    BY <1>2, <2>1, UsersAssumption, FS_Subset, FS_RemoveElement,
       FS_CardinalityType
  <2>4. Places(1)
    BY <2>1, <2>3, ActiveFinite DEF Places, Before
  <2>5. CASE Finish(s)
    <3>1. req'[s] = Idle
      BY <2>5, Alone DEF Finish, Before
    <3>2. ReadRight(req[s])'
      BY <3>1 DEF ReadRight, Idle, Call, HookPCs
    <3> QED
      BY <1>4, <2>1, <2>2, <2>4, <2>5, <3>2 DEF Finish
  <2>6. CASE Become(s, [q EXCEPT !.todo = q.todo \ {v}])
    <3> DEFINE n == [q EXCEPT !.todo = q.todo \ {v}]
    <3>1. n.pc = "AdmitAllWrite" /\ n.todo = q.todo \ {v}
      BY <1>1, <2>1 DEF Request
    <3>2. req'[s] = n
      BY <2>6, Alone DEF Before
    <3> HIDE DEF n
    <3>3. /\ SetRow(v, [LetIn(participants[v], "admitted")
                          EXCEPT !.is_muted = FALSE])
          /\ UNCHANGED meeting
      BY <2>2 DEF Admit
    <3>4. /\ \A u \in Users \ {v} : participants'[u] = participants[u]
          /\ UNCHANGED meeting
      BY <3>3 DEF SetRow, Before, TypeOK
    <3>5. n.todo \subseteq Waiting'
      BY <2>1, <3>1, <3>4 DEF Waiting
    <3>6. Active' \subseteq Active \cup {v}
      BY <3>4 DEF Active
    <3>7. Places(Cardinality(n.todo))'
      <4>1. /\ Cardinality(Active') \in Nat
            /\ Cardinality(Active') <= Cardinality(Active) + 1
        BY <3>6, OneMore DEF Before
      <4> QED
        BY <2>1, <2>3, <3>1, <3>4, <4>1, ActiveFinite DEF Places, Before
    <3>8. ReadRight(req[s])'
      BY <3>1, <3>2, <3>5, <3>7 DEF ReadRight, HookPCs
    <3> QED
      BY <1>4, <2>1, <2>2, <2>4, <2>6, <3>8
  <2> QED
    BY <1>1, <1>6, <2>5, <2>6 DEF AdmitAllWrite
<1> QED
  BY <1>5, <1>6

LEMMA SerialRowWrites ==
  ASSUME OneAtATime, Before, NEW s \in Slots,
         \/ IssueParticipantToken(s) \/ NormalizeRow(s) \/ DenyWrite(s)
         \/ MuteWrite(s) \/ CohostWrite(s)
  PROVE  After(s)
<1>1. PICK q \in Request : q = req[s]
  BY DEF Before, TypeOK, ReqType
<1>2. /\ ReadRight(q)
      /\ q.pc \in CallerPCs => q.by \in Users
      /\ q.pc \in TargetPCs => q.of \in Users
      /\ participants \in [Users -> Row]
  BY <1>1 DEF Before, SerialInv, TypeOK, ReqType, RequestOK
<1>3. CASE Reject(s)
  BY <1>3, SerialReject
<1>4. ASSUME Finish(s)
      PROVE  ReadRight(req[s])'
  <2>1. req'[s] = Idle
    BY <1>4, Alone DEF Finish, Before
  <2> QED
    BY <2>1 DEF ReadRight, Idle, Call, HookPCs
<1>5. CASE IssueParticipantToken(s) /\ ~Reject(s)
  <2>1. PICK u \in Users : u = q.by
    BY <1>1, <1>2, <1>5 DEF IssueParticipantToken, CallerPCs
  <2>2. /\ SetRow(u, LetIn(participants[u], "admitted"))
        /\ UNCHANGED <<meeting, shares>>
        /\ Become(s, At(q, "MarkMeetingActive"))
        /\ Open /\ participants[u].status = "admitted"
        /\ q.pc = "IssueParticipantToken"
    BY <1>1, <1>2, <1>5, <2>1 DEF IssueParticipantToken, Goto, ReadRight
  <2>3. PICK r \in Row : r = LetIn(participants[u], "admitted")
    BY <1>2 DEF LetIn, Row, Statuses
  <2>4. /\ r.status = "admitted" /\ r.role = participants[u].role
        /\ r.is_muted = participants[u].is_muted
    BY <1>2, <2>3 DEF LetIn, Row
  <2>5. ReadRight(req[s])'
    <3>1. req'[s] = At(q, "MarkMeetingActive")
      BY <2>2, Alone DEF Before
    <3>2. req'[s].pc = "MarkMeetingActive" /\ req'[s].by = u
      BY <1>1, <2>1, <3>1 DEF At, Request
    <3>3. Open' /\ participants'[u].status = "admitted"
      BY <1>2, <2>2, <2>3, <2>4 DEF Open, SetRow
    <3> QED
      BY <3>2, <3>3 DEF ReadRight, HookPCs
  <2> QED
    BY <1>1, <2>2, <2>3, <2>4, <2>5, RowWritten DEF MayMove
<1>6. CASE NormalizeRow(s)
  <2>1. /\ Become(s, At(q, "RemoveLiveKitParticipant"))
        /\ UNCHANGED <<meeting, shares>>
        /\ q.pc = "NormalizeRow"
    BY <1>1, <1>6 DEF NormalizeRow, Goto
  <2>2. At(q, "RemoveLiveKitParticipant").pc = "RemoveLiveKitParticipant"
    BY <1>1 DEF At, Request
  <2>3. ReadRight(At(q, "RemoveLiveKitParticipant"))
    BY <2>2 DEF ReadRight, HookPCs
  <2>4. CASE UNCHANGED participants
    BY <2>1, <2>3, <2>4, Quiet
  <2>5. CASE q.of \in Users /\ HasRow(q.of)
    <3>1. SetRow(q.of, PutOut(participants[q.of], "left"))
      BY <1>1, <1>6, <2>5 DEF NormalizeRow
    <3>2. PICK r \in Row : r = PutOut(participants[q.of], "left")
      BY <1>2, <2>5 DEF PutOut, Row, Statuses
    <3>3. /\ r.status = "left" /\ r.role = participants[q.of].role
          /\ r.is_muted = participants[q.of].is_muted
      BY <1>2, <2>5, <3>2 DEF PutOut, Row
    <3>4. ReadRight(req[s])'
      <4>1. req'[s] = At(q, "RemoveLiveKitParticipant")
        BY <2>1, Alone DEF Before
      <4> QED
        BY <2>2, <4>1 DEF ReadRight, HookPCs
    <3>5. MayMove(participants[q.of].status, r.status)
      BY <2>5, <3>3 DEF MayMove, HasRow
    <3> QED
      BY <1>1, <2>1, <2>5, <3>1, <3>2, <3>3, <3>4, <3>5, RowWritten
  <2>6. q.of \notin Users => UNCHANGED participants
    BY <1>1, <1>2, <1>6 DEF NormalizeRow, SetRow
  <2>7. ~HasRow(q.of) => UNCHANGED participants
    BY <1>1, <1>6 DEF NormalizeRow
  <2> QED
    BY <2>4, <2>5, <2>6, <2>7
<1>7. CASE DenyWrite(s) /\ ~Reject(s)
  <2>1. /\ HasRow(q.of) /\ SetRow(q.of, PutOut(participants[q.of], "denied"))
        /\ Finish(s) /\ UNCHANGED <<meeting, shares>> /\ q.pc = "DenyWrite"
    BY <1>1, <1>7 DEF DenyWrite
  <2>2. CASE q.of \in Users
    <3>1. PICK r \in Row : r = PutOut(participants[q.of], "denied")
      BY <1>2, <2>2 DEF PutOut, Row, Statuses
    <3>2. /\ r.status = "denied" /\ r.role = participants[q.of].role
          /\ r.is_muted = participants[q.of].is_muted
      BY <1>2, <2>2, <3>1 DEF PutOut, Row
    <3>3. MayMove(participants[q.of].status, r.status)
      BY <2>1, <3>2 DEF MayMove, HasRow
    <3> QED
      BY <1>1, <1>4, <2>1, <2>2, <3>1, <3>2, <3>3, RowWritten DEF Finish
  <2>3. CASE q.of \notin Users
    <3>1. UNCHANGED participants
      BY <1>2, <2>1, <2>3 DEF SetRow
    <3> QED
      BY <2>1, <3>1, IdleRight, Quiet DEF Finish
  <2> QED
    BY <2>2, <2>3
<1>8. CASE MuteWrite(s) /\ ~Reject(s)
  <2>1. /\ SetRow(q.of, [participants[q.of] EXCEPT !.is_muted = TRUE])
        /\ Finish(s) /\ UNCHANGED <<meeting, shares>> /\ q.pc = "MuteWrite"
        /\ q.of \in Users
    BY <1>1, <1>2, <1>8 DEF MuteWrite, ReadRight, Mutable
  <2>2. PICK r \in Row : r = [participants[q.of] EXCEPT !.is_muted = TRUE]
    BY <1>2, <2>1 DEF Row
  <2>3. r.status = participants[q.of].status /\ r.role = participants[q.of].role
    BY <1>2, <2>1, <2>2 DEF Row
  <2>4. MayMove(participants[q.of].status, r.status)
    BY <2>3 DEF MayMove
  <2> QED
    BY <1>1, <1>4, <2>1, <2>2, <2>3, <2>4, RowWritten DEF Finish
<1>9. CASE CohostWrite(s)
  <2>1. Finish(s) /\ q.of \in Users /\ q.pc = "CohostWrite"
    BY <1>1, <1>2, <1>9 DEF CohostWrite, TargetPCs
  <2>2. CASE ReadOnly
    BY <2>1, <2>2, SerialReject DEF Reject
  <2>3. CASE ~ReadOnly
    <3>1. /\ SetRow(q.of, [participants[q.of] EXCEPT !.role = "cohost"])
          /\ UNCHANGED <<meeting, shares>>
      BY <1>1, <1>9, <2>3 DEF CohostWrite
    <3>2. PICK r \in Row : r = [participants[q.of] EXCEPT !.role = "cohost"]
      BY <1>2, <2>1 DEF Row, Roles
    <3>3. /\ r.status = participants[q.of].status /\ r.role = "cohost"
          /\ r.is_muted = participants[q.of].is_muted
      BY <1>2, <2>1, <3>2 DEF Row
    <3>4. MayMove(participants[q.of].status, r.status)
      BY <3>3 DEF MayMove
    <3> QED
      BY <1>1, <1>4, <2>1, <3>1, <3>2, <3>3, <3>4, RowWritten DEF Finish
  <2> QED
    BY <2>2, <2>3
<1> QED
  BY <1>3, <1>5, <1>6, <1>7, <1>8, <1>9

-----------------------------------------------------------------------------
(* Writes of the meeting, of its screen shares and of all its rows.        *)

LEMMA SerialMeetingWrites ==
  ASSUME OneAtATime, Before, NEW s \in Slots,
         \/ MarkMeetingActive(s) \/ NormalizeShares(s) \/ DenyShares(s)
         \/ CloseShares(s) \/ CloseRows(s) \/ CloseMeeting(s)
         \/ MuteAllWrite(s)
  PROVE  After(s)
<1>1. PICK q \in Request : q = req[s]
  BY DEF Before, TypeOK, ReqType
<1>2. /\ ReadRight(q)
      /\ participants \in [Users -> Row]
      /\ meeting \in MeetingRow
      /\ \A t \in Slots : t = s
  BY <1>1 DEF Before, SerialInv, TypeOK, OneAtATime
<1>3. CASE Reject(s)
  BY <1>3, SerialReject
<1>4. ASSUME Finish(s)
      PROVE  ReadRight(req[s])'
  <2>1. req'[s] = Idle
    BY <1>4, Alone DEF Finish, Before
  <2> QED
    BY <2>1 DEF ReadRight, Idle, Call, HookPCs
<1>5. ASSUME NEW pc, Goto(s, pc)
      PROVE  req'[s].pc = pc
  <2>1. req'[s] = At(q, pc)
    BY <1>1, <1>5, Alone DEF Goto, Before
  <2> QED
    BY <1>1, <2>1 DEF At, Request
<1>6. ASSUME q.pc \notin {"AdmitWrite", "AdmitAllWrite", "JoinWrite"}
      PROVE  PlaceFound(s)
  BY <1>1, <1>6 DEF PlaceFound
<1>7. ASSUME UNCHANGED participants
      PROVE  \A u \in Users : CohostStays(u) /\ MuteAsked(s, u)
  BY <1>2, <1>7 DEF CohostStays, MuteAsked, Row
<1>8. CASE MarkMeetingActive(s) /\ ~Reject(s)
  <2>1. /\ meeting.status \in {"waiting", "active"}
        /\ meeting'.status = "active"
        /\ Finish(s) /\ UNCHANGED participants
        /\ q.pc = "MarkMeetingActive"
    BY <1>1, <1>2, <1>8 DEF MarkMeetingActive, ReadRight, Open, MeetingRow
  <2>2. LifecycleStep
    BY <2>1 DEF LifecycleStep, Promise!lifecycleVars
  <2>3. SerialInv'
    BY <1>2, <1>4, <2>1 DEF SerialInv, EndedMeansEmpty
  <2> QED
    BY <1>6, <1>7, <2>1, <2>2, <2>3 DEF After, RowsPromised
<1>9. CASE NormalizeShares(s) \/ DenyShares(s)
  <2>1. PICK pc \in {"NormalizeRow", "DenyWrite"} : Become(s, At(q, pc))
    BY <1>1, <1>9 DEF NormalizeShares, DenyShares, Goto
  <2>2. At(q, pc).pc = pc
    BY <1>1 DEF At, Request
  <2>3. ReadRight(At(q, pc))
    BY <2>2 DEF ReadRight, HookPCs
  <2>4. UNCHANGED <<meeting, participants>> /\ shares' \subseteq shares
    BY <1>9 DEF NormalizeShares, DenyShares
  <2> QED
    BY <2>1, <2>3, <2>4, Quiet
<1>10. CASE CloseShares(s)
  <2>1. /\ shares' = {} /\ Goto(s, "CloseRows")
        /\ UNCHANGED <<meeting, participants>> /\ q.pc = "CloseShares"
    BY <1>1, <1>10 DEF CloseShares
  <2>2. ReadRight(req[s])'
    BY <1>5, <2>1 DEF ReadRight, HookPCs
  <2>3. SerialInv'
    BY <1>2, <2>1, <2>2 DEF Before, SerialInv, EndedMeansEmpty
  <2>4. LifecycleStep
    BY <2>1, SameRows DEF LifecycleStep
  <2> QED
    BY <1>6, <1>7, <2>1, <2>3, <2>4 DEF After, RowsPromised
<1>11. CASE CloseRows(s)
  <2>1. /\ participants' = [u \in Users |->
             IF HasRow(u) THEN PutOut(participants[u], "left") ELSE NoRow]
        /\ Goto(s, "CloseMeeting")
        /\ UNCHANGED <<meeting, shares>>
        /\ q.pc = "CloseRows" /\ shares = {}
    BY <1>1, <1>2, <1>11 DEF CloseRows, ReadRight
  <2>2. ASSUME NEW u \in Users
        PROVE  /\ participants'[u].status
                    = IF participants[u].status # "none" THEN "left" ELSE "none"
               /\ participants'[u].role \in {participants[u].role, "none"}
               /\ participants'[u].is_muted => participants[u].is_muted
    <3>1. CASE HasRow(u)
      BY <1>2, <2>1, <3>1 DEF PutOut, HasRow, Row
    <3>2. CASE ~HasRow(u)
      BY <1>2, <2>1, <3>2 DEF NoRow, HasRow, Row
    <3> QED
      BY <3>1, <3>2
  <2>3. LifecycleStep
    <3>1. [u \in Users |-> participants'[u].status]
            = [u \in Users |->
                 IF participants[u].status # "none" THEN "left" ELSE "none"]
      BY <2>2
    <3> QED
      BY <2>1, <3>1
         DEF LifecycleStep, Promise!LifecycleNext, Promise!Moves,
             Promise!Evacuate, Promise!Present
  <2>4. ReadRight(req[s])'
    BY <1>5, <2>1, <2>2 DEF ReadRight, Out, HookPCs
  <2>5. SerialInv'
    BY <1>2, <2>1, <2>2, <2>4 DEF SerialInv, EndedMeansEmpty
  <2>6. \A u \in Users : CohostStays(u) /\ MuteAsked(s, u)
    BY <1>2, <2>2 DEF CohostStays, MuteAsked
  <2> QED
    BY <1>6, <2>1, <2>3, <2>5, <2>6 DEF After, RowsPromised
<1>12. CASE CloseMeeting(s) /\ ~Reject(s)
  <2>1. /\ meeting'.status = "ended"
        /\ UNCHANGED <<participants, shares>>
        /\ Finish(s) \/ Goto(s, "DeleteLiveKitRoom")
        /\ q.pc = "CloseMeeting" /\ shares = {}
        /\ \A u \in Users :
             participants[u].status \notin {"waiting", "admitted"}
    BY <1>1, <1>2, <1>12 DEF CloseMeeting, ReadRight, Out, MeetingRow
  <2>2. LifecycleStep
    BY <2>1
       DEF LifecycleStep, Promise!LifecycleNext, Promise!Moves, Promise!Close
  <2>3. ReadRight(req[s])'
    <3>1. CASE Goto(s, "DeleteLiveKitRoom")
      BY <1>5, <3>1 DEF ReadRight, HookPCs
    <3> QED
      BY <1>4, <2>1, <3>1
  <2>4. SerialInv'
    BY <1>2, <2>1, <2>3 DEF SerialInv, EndedMeansEmpty
  <2> QED
    BY <1>6, <1>7, <2>1, <2>2, <2>4 DEF After, RowsPromised
<1>13. CASE MuteAllWrite(s)
  <2>1. /\ participants' = [u \in Users |->
             IF u \in Mutable THEN [participants[u] EXCEPT !.is_muted = TRUE]
                              ELSE participants[u]]
        /\ Finish(s)
        /\ UNCHANGED <<meeting, shares>>
        /\ q.pc = "MuteAllWrite" /\ q.todo = Mutable
    BY <1>1, <1>2, <1>13 DEF MuteAllWrite, ReadRight
  <2>2. ASSUME NEW u \in Users
        PROVE  /\ participants'[u].status = participants[u].status
               /\ participants'[u].role = participants[u].role
               /\ participants'[u].is_muted
                    => participants[u].is_muted \/ u \in q.todo
    BY <1>2, <2>1 DEF Row
  <2>3. LifecycleStep
    BY <2>1, <2>2 DEF LifecycleStep, Promise!lifecycleVars
  <2>4. SerialInv'
    BY <1>2, <1>4, <2>1, <2>2 DEF Before, SerialInv, EndedMeansEmpty
  <2>5. \A u \in Users : CohostStays(u) /\ MuteAsked(s, u)
    BY <1>1, <2>2 DEF CohostStays, MuteAsked
  <2> QED
    BY <1>6, <2>1, <2>3, <2>4, <2>5 DEF After, RowsPromised
<1> QED
  BY <1>3, <1>8, <1>9, <1>10, <1>11, <1>12, <1>13

-----------------------------------------------------------------------------
(* Every step, and the theorems.                                           *)

LEMMA SerialStep ==
  ASSUME OneAtATime, Before, NEW s \in Slots, Start(s) \/ Continue(s) \/ Abort(s)
  PROVE  After(s)
<1>1. req[s].pc \notin HookPCs
  BY DEF Before, SerialInv, ReadRight
<1>2. ~(HookStarted(s) \/ HookJoined(s) \/ HookLeft(s) \/ HookLeftShares(s))
  BY <1>1 DEF HookStarted, HookJoined, HookLeft, HookLeftShares, HookPCs
<1>3. CASE Continue(s)
  BY <1>2, <1>3, SerialReads, SerialJoin, SerialAdmit, SerialRowWrites,
     SerialMeetingWrites DEF Continue
<1> QED
  BY <1>3, SerialStart, SerialReads

LEMMA SerialNext ==
  ASSUME OneAtATime, Before, Next
  PROVE  /\ SerialInv'
         /\ LifecycleStep
         /\ \A u \in Users : CohostStays(u)
         /\ \A u \in Users : \/ \E s \in Slots : MuteAsked(s, u)
                             \/ participants'[u].is_muted => participants[u].is_muted
         /\ \A s \in Slots : PlaceFound(s)
<1>1. ASSUME NEW s \in Slots, Start(s) \/ Continue(s) \/ Abort(s)
      PROVE  After(s) /\ \A t \in Slots : t = s
  BY <1>1, SerialStep DEF OneAtATime
<1>2. CASE Outside
  <2>1. UNCHANGED <<meeting, participants, shares, req>>
    BY <1>2 DEF Outside, db
  <2>2. SerialInv'
    <3>1. ASSUME NEW s \in Slots
          PROVE  ReadRight(req[s])'
      BY <2>1, SameRows DEF Before, SerialInv, ReadRight
    <3> QED
      BY <2>1, <3>1 DEF Before, SerialInv, EndedMeansEmpty
  <2> QED
    BY <2>1, <2>2, SameRows
       DEF LifecycleStep, CohostStays, PlaceFound, Before, TypeOK, Row
<1> QED
  BY <1>1, <1>2 DEF Next, After, RowsPromised

LEMMA SerialInit == Init => SerialInv
<1> SUFFICES ASSUME Init PROVE SerialInv
  OBVIOUS
<1>1. meeting.status = "waiting" /\ req = [s \in Slots |-> Idle]
  BY DEF Init
<1> QED
  BY <1>1, IdleRight DEF SerialInv, EndedMeansEmpty

LEMMA BeforeInit == Init => Before
  BY TypeInit, AdmissionInit, RowsInit, SerialInit DEF Before

LEMMA BeforeNext ==
  ASSUME OneAtATime
  PROVE  Before /\ [Next]_vars => Before'
<1> SUFFICES ASSUME Before, [Next]_vars
             PROVE  Before'
  OBVIOUS
<1>1. TypeOK' /\ AdmissionInv' /\ RowsInv'
  BY TypeNext, AdmissionNext, RowsNext DEF Before, RowsKept
<1>2. CASE Next
  BY <1>1, <1>2, SerialNext DEF Before
<1>3. CASE UNCHANGED vars
  <2>1. UNCHANGED <<meeting, participants, shares, req>>
    BY <1>3 DEF vars
  <2>2. SerialInv'
    <3>1. ASSUME NEW s \in Slots
          PROVE  ReadRight(req[s])'
      BY <2>1, SameRows DEF Before, SerialInv, ReadRight
    <3> QED
      BY <2>1, <3>1 DEF Before, SerialInv, EndedMeansEmpty
  <2> QED
    BY <1>1, <2>2 DEF Before
<1> QED
  BY <1>2, <1>3

\* The inductive invariant: while requests do not overlap, what a request has
\* read of the rows, the meeting and its limit is so until it is answered.
THEOREM SerialCorrect ==
  ASSUME OneAtATime
  PROVE  Spec => []Before
  BY BeforeInit, BeforeNext, PTL DEF Spec

\* A meeting that has ended is empty: nobody is let into it afterwards, because
\* joinMeeting and getLiveKitToken read its status before they write.
THEOREM EndedIsEmpty ==
  ASSUME OneAtATime
  PROVE  Spec => []EndedMeansEmpty
<1>1. Before => EndedMeansEmpty
  BY DEF Before, SerialInv
<1> QED
  BY <1>1, SerialCorrect, PTL

\* The meeting service implements Lifecycle: every step of every handler is a
\* step of the promise or changes neither a status nor whether the meeting is
\* open.
THEOREM LifecycleImplemented ==
  ASSUME OneAtATime
  PROVE  Spec => ImplementsLifecycle
<1>1. Init => Promise!LifecycleInit
  <2> SUFFICES ASSUME Init PROVE Promise!LifecycleInit
    OBVIOUS
  <2>1. meeting.status \in {"waiting", "active"}
    BY DEF Init
  <2>2. [u \in Users |-> participants[u].status]
          = [u \in Users |-> IF u = Host THEN "admitted" ELSE "none"]
    BY DEF Init, NoRow
  <2> QED
    BY <2>1, <2>2, HostAssumption
       DEF Promise!LifecycleInit, Promise!MembershipInit, Promise!Founded
<1>2. Before /\ [Next]_vars
        => [Promise!LifecycleNext]_(Promise!lifecycleVars)
  <2> SUFFICES ASSUME Before, [Next]_vars
               PROVE  LifecycleStep
    BY DEF LifecycleStep
  <2>1. CASE UNCHANGED vars
    BY <2>1 DEF vars, LifecycleStep, Promise!lifecycleVars
  <2> QED
    BY <2>1, SerialNext
<1> QED
  BY <1>1, <1>2, SerialCorrect, PTL
     DEF Spec, ImplementsLifecycle, Promise!LifecycleSpec

\* A token is generated only for a user whose row says admitted just then:
\* issueParticipantToken writes the status without looking, but nobody can have
\* put the user out since getLiveKitToken or joinMeeting did.
THEOREM TokensToAdmitted ==
  ASSUME OneAtATime
  PROVE  Spec => TokenOnlyToAdmitted
<1> DEFINE A == \A s \in Slots :
                  /\ req[s].pc = "IssueParticipantToken"
                  /\ req'[s].pc = "MarkMeetingActive"
                  => participants[req[s].by].status = "admitted"
<1>1. Before /\ [Next]_vars => [A]_vars
  BY DEF Before, SerialInv, ReadRight
<1> QED
  BY <1>1, SerialCorrect, PTL DEF Spec, TokenOnlyToAdmitted

\* A cohost stays cohost: joinMeeting writes back the role it has read, and no
\* other handler but assignCohost writes roles.
THEOREM CohostsStay ==
  ASSUME OneAtATime
  PROVE  Spec => CohostKept
<1> DEFINE A == \A u \in Users : participants[u].role = "cohost"
                  => participants'[u].role \in {"cohost", "none"}
<1>1. Before /\ [Next]_vars => [A]_vars
  BY SerialNext DEF CohostStays
<1> QED
  BY <1>1, SerialCorrect, PTL DEF Spec, CohostKept

\* Whom a mute marks as muted LiveKit has been asked to mute: the filter of
\* muteAll's updateMany finds those its findMany has found.
THEOREM MutedWereAsked ==
  ASSUME OneAtATime
  PROVE  Spec => MutedAreAsked
<1> DEFINE A == \A u \in Users :
                  ~participants[u].is_muted /\ participants'[u].is_muted
                  => \E s \in Slots : u \in req[s].todo \cup {req[s].of}
<1>1. Before /\ [Next]_vars => [A]_vars
  BY SerialNext DEF MuteAsked
<1> QED
  BY <1>1, SerialCorrect, PTL DEF Spec, MutedAreAsked

\* Whom a moderator admits, or who joins for the first time, finds a place,
\* whatever the limits and however often the host changes them: a count that
\* found a place is still right when the row is written.
THEOREM AdmittedFindPlaces ==
  ASSUME OneAtATime
  PROVE  Spec => AdmissionWithinCapacity
<1> DEFINE A == \A s \in Slots :
                  /\ req[s].pc \in {"AdmitWrite", "AdmitAllWrite", "JoinWrite"}
                  /\ req[s].row = NoRow
                  /\ req'[s] # req[s]
                  => Cardinality(Active') <= meeting.max_participants
<1>1. Before /\ [Next]_vars => [A]_vars
  BY SerialNext DEF PlaceFound
<1> QED
  BY <1>1, SerialCorrect, PTL DEF Spec, AdmissionWithinCapacity
=============================================================================
