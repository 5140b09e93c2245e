------------------------------ MODULE Meeting ------------------------------
(***************************************************************************)
(* The life of one meeting: who joins, waits, is admitted, denied, kicked  *)
(* or leaves, how the meeting becomes active and ends, and how the rows of *)
(* the database, the LiveKit room and LiveKit's webhooks keep up with each *)
(* other (Meetings/meetings.service.ts, meetings.media.ts).                *)
(*                                                                         *)
(* The service is one event loop: code between two awaits is atomic, and   *)
(* any other request may run at an await.  A request or webhook in flight  *)
(* occupies a slot; its pc names the await it is about to make, and the    *)
(* other fields are the values it has read and still uses.  One step of a  *)
(* slot is one Prisma or LiveKit call.  The first read of a request is     *)
(* merged with its arrival, and a read of what never changes (host_id, the *)
(* existence of a meeting) with the read after it.  A rejected request     *)
(* changes nothing, so only its way back to an idle slot is modelled.      *)
(***************************************************************************)
EXTENDS LiveKit

CONSTANTS
  Host,    \* the user who created the meeting
  Slots,   \* bound: requests and webhooks in flight at a time
  Ops,     \* the operations that are called
  Limits,  \* values of max_participants
  Faults   \* "crash": a request may die at an await; "livekit": a call may fail

AllOps == {"join", "token", "leave", "admit", "admitAll", "deny", "kick",
           "end", "cohost", "mute", "muteAll", "update", "delete", "webhook"}

ASSUME HostAssumption == Host \in Users
ASSUME OpsAssumption == Ops \subseteq AllOps
ASSUME LimitsAssumption == Limits \subseteq Nat \ {0, 1} /\ Limits # {}

VARIABLES
  meeting,      \* row of the meetings table
  participants, \* row of meeting_participants per user
  shares,       \* users with a row in screenShare
  req,          \* what each slot is working on
  approved,     \* ghost: users somebody entitled to has let in
  granted       \* ghost: users the host has made cohost

db == <<meeting, participants, shares>>
ghosts == <<approved, granted>>
vars == <<meeting, participants, shares, req, approved, granted,
          room, connected, tokens, hooks>>

-----------------------------------------------------------------------------
(* Rows and requests.                                                      *)

Roles == {"none", "guest", "cohost", "host"}
Statuses == {"none", "waiting", "admitted", "denied", "left"}

\* left_at and is_screen_sharing: whether the column is set.
Row == [role : Roles, status : Statuses, left_at : BOOLEAN,
        is_screen_sharing : BOOLEAN, is_muted : BOOLEAN]

NoRow == [role |-> "none", status |-> "none", left_at |-> FALSE,
          is_screen_sharing |-> FALSE, is_muted |-> FALSE]

MeetingRow == [status : {"waiting", "active", "ended", "deleted"},
               waiting_room_on : BOOLEAN, max_participants : Limits]

PCs == {"idle", "JoinCount", "JoinWrite", "TokenRow", "EnsureRoomExists",
        "IssueParticipantToken", "MarkMeetingActive", "NormalizeShares",
        "NormalizeRow", "RemoveLiveKitParticipant", "EnsureModerator",
        "AdmitCount", "AdmitParticipantFind", "AdmitWrite", "AdmitAllFind",
        "AdmitAllCount", "AdmitAllWrite", "DenyParticipantFind", "DenyShares",
        "DenyWrite", "CloseShares", "CloseRows", "CloseMeeting",
        "DeleteLiveKitRoom", "CohostWrite", "MuteFind", "MuteWrite",
        "MuteAllFind", "MuteAllWrite", "HookStarted", "HookJoined",
        "HookLeft", "HookLeftShares"}

\* by: the caller; of: the user acted on; row, wr, max, todo: values read.
Request == [pc : PCs, op : AllOps \cup {"none"},
            by : Users \cup {Nobody}, of : Users \cup {Nobody},
            row : Row, wr : BOOLEAN, max : Limits \cup {0},
            todo : SUBSET Users]

\* A call that has read nothing yet, and a slot without one.
Call(op, u, v, pc) ==
  [pc |-> pc, op |-> op, by |-> u, of |-> v,
   row |-> NoRow, wr |-> FALSE, max |-> 0, todo |-> {}]

Idle == Call("none", Nobody, Nobody, "idle")

\* Whoever joins, gets a token or is asked to be a moderator is a user, and so
\* is whoever is admitted or made cohost.
CallerPCs == {"JoinCount", "JoinWrite", "TokenRow", "EnsureRoomExists",
              "IssueParticipantToken", "MarkMeetingActive", "EnsureModerator"}
TargetPCs == {"AdmitCount", "AdmitParticipantFind", "AdmitWrite",
              "CohostWrite"}

RequestOK(q) ==
  /\ q \in Request
  /\ q.pc \in CallerPCs => q.by \in Users
  /\ q.pc \in TargetPCs \/ q.op = "admit" => q.of \in Users

ReqType == req \in [Slots -> Request] /\ \A s \in Slots : RequestOK(req[s])

TypeOK ==
  /\ meeting \in MeetingRow
  /\ participants \in [Users -> Row]
  /\ shares \subseteq Users
  /\ ReqType
  /\ approved \subseteq Users
  /\ granted \subseteq Users
  /\ LiveKitTypeOK

\* The state in which the transaction of createMeetings leaves the meeting.
Init ==
  /\ meeting \in [status : {"waiting"}, waiting_room_on : BOOLEAN,
                  max_participants : Limits]
  /\ participants = [u \in Users |->
       IF u = Host THEN [NoRow EXCEPT !.role = "host", !.status = "admitted"]
       ELSE NoRow]
  /\ shares = {}
  /\ req = [s \in Slots |-> Idle]
  /\ approved = {Host}
  /\ granted = {}
  /\ LiveKitInit

Exists == meeting.status # "deleted"
HasRow(u) == participants[u].status # "none"
ModeratorIsAnybodyInside(u) == HasRow(u)

Moderator(u) == participants[u].role \in {"host", "cohost"}

\* countActiveParticipants
Active == {u \in Users : participants[u].status = "admitted"
                           /\ ~participants[u].left_at}

\* A request at another await, still using all it has read, or done with the
\* limit it has compared with.
At(q, pc) == [q EXCEPT !.pc = pc]
Counted(q, pc) == [q EXCEPT !.pc = pc, !.max = 0]

\* How a slot moves: to request q, from idle, on to another await, to idle.
Become(s, q) == req' = [req EXCEPT ![s] = q]
Arrive(s, q) == q.op \in Ops /\ req[s] = Idle /\ Become(s, q)

Goto(s, pc) == Become(s, At(req[s], pc))
Finish(s) == Become(s, Idle)

\* A read that lets the request go on, and an error that ends it: an abort,
\* a check that fails, or a row updated by id that is gone.
ReadOnly == UNCHANGED <<db, ghosts, livekit>>
Reject(s) == Finish(s) /\ ReadOnly

LetInKeepsLeftAt(r, st) == [r EXCEPT !.status = st]
PutOutStillSharing(r, st) == [r EXCEPT !.status = st, !.left_at = TRUE]

\* What the writes that let a user in, or send one away, do to a row.
LetIn(r, st) == [r EXCEPT !.status = st, !.left_at = FALSE]
PutOut(r, st) == [r EXCEPT !.status = st, !.left_at = TRUE,
                           !.is_screen_sharing = FALSE]
SetRow(u, r) == participants' = [participants EXCEPT ![u] = r]

-----------------------------------------------------------------------------
(* joinMeeting                                                             *)

JoinMeetingFind(s, u) ==
  /\ Exists
  /\ meeting.status # "ended"
  /\ participants[u].status # "denied"
  /\ LET q == [Call("join", u, u, "JoinWrite") EXCEPT
                 !.row = participants[u], !.wr = meeting.waiting_room_on]
     IN  Arrive(s, IF HasRow(u) THEN q
                   ELSE [q EXCEPT !.pc = "JoinCount",
                                  !.max = meeting.max_participants])
  /\ ReadOnly

JoinCount(s) ==
  /\ req[s].pc = "JoinCount"
  /\ \/ /\ Cardinality(Active) < req[s].max
        /\ Become(s, Counted(req[s], "JoinWrite"))
     \/ /\ Cardinality(Active) >= req[s].max
        /\ Finish(s)
  /\ ReadOnly

NextStatusHostWaits(q) ==
  IF ~q.wr \/ q.row.status = "admitted" THEN "admitted" ELSE "waiting"

\* Decided by the row and the waiting-room switch as they were read.
NextStatus(q) ==
  IF q.by = Host \/ ~q.wr \/ q.row.status = "admitted"
  THEN "admitted" ELSE "waiting"

JoinedRowAsGuest(q) ==
  LetIn([participants[q.by] EXCEPT
           !.role = IF q.by = Host THEN "host" ELSE "guest"],
        NextStatus(q))

JoinedRow(q) ==
  LetIn([participants[q.by] EXCEPT
           !.role = IF q.by = Host THEN "host"
                    ELSE IF q.row = NoRow THEN "guest" ELSE q.row.role],
        NextStatus(q))

\* Updates the row that was found, or creates one: the unique constraint and
\* the foreign key refuse a second row and a row of a deleted meeting.
JoinWrite(s) ==
  LET q == req[s]
      writable == Exists /\ (HasRow(q.by) <=> q.row # NoRow)
  IN
  /\ q.pc = "JoinWrite"
  /\ \/ /\ writable
        /\ SetRow(q.by, JoinedRow(q))
        /\ approved' = IF q.by = Host \/ ~q.wr
                       THEN approved \cup {q.by} ELSE approved
        /\ IF NextStatus(q) = "admitted"
           THEN Become(s, [At(q, "EnsureRoomExists") EXCEPT
                               !.row = NoRow, !.wr = FALSE])
           ELSE Finish(s)
        /\ UNCHANGED <<meeting, shares, granted, livekit>>
     \/ ~writable /\ Reject(s)

-----------------------------------------------------------------------------
(* getLiveKitToken, and the end of joinMeeting: the room is provisioned,   *)
(* the token generated and the row updated, the meeting marked active.     *)

GetLiveKitTokenFind(s, u) ==
  /\ Exists
  /\ meeting.status # "ended"
  /\ Arrive(s, Call("token", u, u, "TokenRow"))
  /\ ReadOnly

GetLiveKitTokenRowUnchecked(s) ==
  /\ req[s].pc = "TokenRow"
  /\ IF HasRow(req[s].by) THEN Goto(s, "EnsureRoomExists") ELSE Finish(s)
  /\ ReadOnly

GetLiveKitTokenRowPatient(s) ==
  /\ req[s].pc = "TokenRow"
  /\ participants[req[s].by].status = "admitted"
  /\ Goto(s, "EnsureRoomExists")
  /\ ReadOnly

GetLiveKitTokenRow(s) ==
  /\ req[s].pc = "TokenRow"
  /\ IF participants[req[s].by].status = "admitted"
     THEN Goto(s, "EnsureRoomExists") ELSE Finish(s)
  /\ ReadOnly

\* A failed call may have taken effect; the caller then gets no token.
EnsureRoomExists(s) ==
  /\ req[s].pc = "EnsureRoomExists"
  /\ \/ CreateRoom /\ Goto(s, "IssueParticipantToken")
     \/ /\ "livekit" \in Faults
        /\ CreateRoom \/ UNCHANGED livekit
        /\ Finish(s)
  /\ UNCHANGED <<db, ghosts>>

IssueParticipantTokenUpsert(s) ==
  LET u == req[s].by IN
  /\ req[s].pc = "IssueParticipantToken"
  /\ SetRow(u, LetIn(participants[u], "admitted"))
  /\ Goto(s, "MarkMeetingActive")
  /\ UNCHANGED <<meeting, shares, ghosts, livekit>>

IssueParticipantToken(s) ==
  LET u == req[s].by IN
  /\ req[s].pc = "IssueParticipantToken"
  /\ \/ /\ HasRow(u)
        /\ SetRow(u, LetIn(participants[u], "admitted"))
        /\ Goto(s, "MarkMeetingActive")
        /\ UNCHANGED <<meeting, shares, ghosts, livekit>>
     \/ ~HasRow(u) /\ Reject(s)

\* The token leaves the server with the response.
MarkMeetingActive(s) ==
  /\ req[s].pc = "MarkMeetingActive"
  /\ \/ /\ Exists
        /\ meeting' = [meeting EXCEPT !.status = "active"]
        /\ tokens' = tokens \cup {req[s].by}
        /\ Finish(s)
        /\ UNCHANGED <<participants, shares, ghosts, room, connected, hooks>>
     \/ ~Exists /\ Reject(s)

-----------------------------------------------------------------------------
(* leaveMeeting and kickParticipant: normalizeParticipantState with status *)
(* left, then the participant is removed from the LiveKit room.            *)

LeaveMeetingFind(s, u) ==
  /\ HasRow(u)
  /\ Arrive(s, Call("leave", u, u, "NormalizeShares"))
  /\ ReadOnly

KickParticipantFind(s, u, v) ==
  /\ Moderator(u)
  /\ v # Host
  /\ Arrive(s, Call("kick", u, v, "NormalizeShares"))
  /\ ReadOnly

NormalizeShares(s) ==
  /\ req[s].pc = "NormalizeShares"
  /\ shares' = shares \ {req[s].of}
  /\ Goto(s, "NormalizeRow")
  /\ UNCHANGED <<meeting, participants, ghosts, livekit>>

\* updateMany: a missing row is no error.
NormalizeRow(s) ==
  LET u == req[s].of IN
  /\ req[s].pc = "NormalizeRow"
  /\ IF HasRow(u) THEN SetRow(u, PutOut(participants[u], "left"))
                  ELSE UNCHANGED participants
  /\ Goto(s, "RemoveLiveKitParticipant")
  /\ UNCHANGED <<meeting, shares, ghosts, livekit>>

\* An error of LiveKit is logged and swallowed.
RemoveLiveKitParticipant(s) ==
  /\ req[s].pc = "RemoveLiveKitParticipant"
  /\ \/ RemoveParticipant(req[s].of)
     \/ "livekit" \in Faults /\ UNCHANGED livekit
  /\ Finish(s)
  /\ UNCHANGED <<db, ghosts>>

-----------------------------------------------------------------------------
(* admitParticipant and admitAll                                           *)

AdmitParticipant(s, u, v) ==
  /\ Exists
  /\ Arrive(s, [Call("admit", u, v, "EnsureModerator")
                  EXCEPT !.max = meeting.max_participants])
  /\ ReadOnly

AdmitAll(s, u) ==
  /\ Exists
  /\ Arrive(s, [Call("admitAll", u, Nobody, "EnsureModerator")
                  EXCEPT !.max = meeting.max_participants])
  /\ ReadOnly

EnsureModerator(s) ==
  LET q == req[s] IN
  /\ q.pc = "EnsureModerator"
  /\ IF Moderator(q.by)
     THEN Goto(s, IF q.op = "admit" THEN "AdmitCount" ELSE "AdmitAllFind")
     ELSE Finish(s)
  /\ ReadOnly

AdmitCount(s) ==
  /\ req[s].pc = "AdmitCount"
  /\ \/ /\ Cardinality(Active) < req[s].max
        /\ Become(s, Counted(req[s], "AdmitParticipantFind"))
     \/ /\ Cardinality(Active) >= req[s].max
        /\ Finish(s)
  /\ ReadOnly

AdmitParticipantFindAnyRow(s) ==
  /\ req[s].pc = "AdmitParticipantFind"
  /\ IF HasRow(req[s].of) THEN Goto(s, "AdmitWrite") ELSE Finish(s)
  /\ ReadOnly

AdmitParticipantFind(s) ==
  /\ req[s].pc = "AdmitParticipantFind"
  /\ IF participants[req[s].of].status = "waiting"
     THEN Goto(s, "AdmitWrite") ELSE Finish(s)
  /\ ReadOnly

\* The row is found by its id: whatever its status has become, it is admitted.
Admit(s, v) ==
  /\ SetRow(v, [LetIn(participants[v], "admitted") EXCEPT !.is_muted = FALSE])
  /\ approved' = IF req[s].by \in {Host} \cup granted
                 THEN approved \cup {v} ELSE approved
  /\ UNCHANGED <<meeting, shares, granted, livekit>>

AdmitWrite(s) ==
  LET v == req[s].of IN
  /\ req[s].pc = "AdmitWrite"
  /\ \/ HasRow(v) /\ Admit(s, v) /\ Finish(s)
     \/ ~HasRow(v) /\ Reject(s)

AdmitAllFind(s) ==
  /\ req[s].pc = "AdmitAllFind"
  /\ Become(s, [At(req[s], "AdmitAllCount") EXCEPT
       !.todo = {v \in Users : participants[v].status = "waiting"}])
  /\ ReadOnly

AdmitAllCountOne(s) ==
  /\ req[s].pc = "AdmitAllCount"
  /\ IF Cardinality(Active) < req[s].max /\ req[s].todo # {}
     THEN Become(s, Counted(req[s], "AdmitAllWrite"))
     ELSE Finish(s)
  /\ ReadOnly

AdmitAllCount(s) ==
  LET q == req[s]
      wanted == Cardinality(Active) + Cardinality(q.todo)
  IN
  /\ q.pc = "AdmitAllCount"
  /\ IF wanted <= q.max /\ q.todo # {}
     THEN Become(s, Counted(req[s], "AdmitAllWrite"))
     ELSE Finish(s)
  /\ ReadOnly

\* The updates run side by side (Promise.all), in any order.
AdmitAllWrite(s, v) ==
  LET q == req[s] IN
  /\ q.pc = "AdmitAllWrite"
  /\ v \in q.todo
  /\ IF q.todo = {v} THEN Finish(s)
     ELSE Become(s, [q EXCEPT !.todo = q.todo \ {v}])
  /\ \/ HasRow(v) /\ Admit(s, v)
     \/ ~HasRow(v) /\ ReadOnly

-----------------------------------------------------------------------------
(* denyParticipant. LiveKit is not told.                                   *)

DenyFind(s, u, v) ==
  /\ Moderator(u)
  /\ Arrive(s, Call("deny", u, v, "DenyParticipantFind"))
  /\ ReadOnly

DenyParticipantFind(s) ==
  /\ req[s].pc = "DenyParticipantFind"
  /\ IF HasRow(req[s].of) THEN Goto(s, "DenyShares") ELSE Finish(s)
  /\ ReadOnly

DenyShares(s) ==
  /\ req[s].pc = "DenyShares"
  /\ shares' = shares \ {req[s].of}
  /\ Goto(s, "DenyWrite")
  /\ UNCHANGED <<meeting, participants, ghosts, livekit>>

DenyWrite(s) ==
  LET v == req[s].of IN
  /\ req[s].pc = "DenyWrite"
  /\ \/ /\ HasRow(v)
        /\ SetRow(v, PutOut(participants[v], "denied"))
        /\ Finish(s)
        /\ UNCHANGED <<meeting, shares, ghosts, livekit>>
     \/ ~HasRow(v) /\ Reject(s)

-----------------------------------------------------------------------------
(* endMeeting, and the room_finished webhook, which makes the same writes. *)

EndMeetingFind(s, u) ==
  /\ Exists
  /\ u = Host
  /\ Arrive(s, Call("end", u, Nobody, "CloseShares"))
  /\ ReadOnly

CloseShares(s) ==
  /\ req[s].pc = "CloseShares"
  /\ shares' = {}
  /\ Goto(s, "CloseRows")
  /\ UNCHANGED <<meeting, participants, ghosts, livekit>>

CloseRowsOfAdmitted(s) ==
  /\ req[s].pc = "CloseRows"
  /\ participants' = [u \in Users |->
       IF u \in Active THEN PutOut(participants[u], "left")
                       ELSE participants[u]]
  /\ Goto(s, "CloseMeeting")
  /\ UNCHANGED <<meeting, shares, ghosts, livekit>>

CloseRowsOnly(s) ==
  /\ req[s].pc = "CloseRows"
  /\ participants' = [u \in Users |->
       IF HasRow(u) THEN PutOut(participants[u], "left") ELSE NoRow]
  /\ Goto(s, "DeleteLiveKitRoom")
  /\ UNCHANGED <<meeting, shares, ghosts, livekit>>

CloseRows(s) ==
  /\ req[s].pc = "CloseRows"
  /\ participants' = [u \in Users |->
       IF HasRow(u) THEN PutOut(participants[u], "left") ELSE NoRow]
  /\ Goto(s, "CloseMeeting")
  /\ UNCHANGED <<meeting, shares, ghosts, livekit>>

CloseMeeting(s) ==
  /\ req[s].pc = "CloseMeeting"
  /\ \/ /\ Exists
        /\ meeting' = [meeting EXCEPT !.status = "ended"]
        /\ IF req[s].op = "end" THEN Goto(s, "DeleteLiveKitRoom")
                                ELSE Finish(s)
        /\ UNCHANGED <<participants, shares, ghosts, livekit>>
     \/ ~Exists /\ Reject(s)

\* deleteMeeting: one transaction.
DeleteMeeting(s, u) ==
  /\ Exists
  /\ u = Host
  /\ Arrive(s, Call("delete", u, Nobody, "DeleteLiveKitRoom"))
  /\ meeting' = [meeting EXCEPT !.status = "deleted"]
  /\ participants' = [v \in Users |-> NoRow]
  /\ shares' = {}
  /\ UNCHANGED <<ghosts, livekit>>

DeleteLiveKitRoom(s) ==
  /\ req[s].pc = "DeleteLiveKitRoom"
  /\ \/ DeleteRoom
     \/ "livekit" \in Faults /\ UNCHANGED livekit
  /\ Finish(s)
  /\ UNCHANGED <<db, ghosts>>

-----------------------------------------------------------------------------
(* muteParticipant and muteAll. LiveKit is asked to mute the microphones   *)
(* of the participants found before the rows are marked; its errors are    *)
(* swallowed, and what it does with microphones is not tracked.            *)

MuteParticipant(s, u, v) ==
  /\ Moderator(u)
  /\ Arrive(s, Call("mute", u, v, "MuteFind"))
  /\ ReadOnly

MuteAll(s, u) ==
  /\ Moderator(u)
  /\ Arrive(s, Call("muteAll", u, Nobody, "MuteAllFind"))
  /\ ReadOnly

Mutable == {v \in Users : participants[v].status = "admitted"
                             /\ participants[v].role # "host"}

MuteFindAnybody(s) ==
  /\ req[s].pc = "MuteFind"
  /\ IF HasRow(req[s].of) THEN Goto(s, "MuteWrite") ELSE Finish(s)
  /\ ReadOnly

MuteFind(s) ==
  /\ req[s].pc = "MuteFind"
  /\ IF req[s].of \in Mutable THEN Goto(s, "MuteWrite") ELSE Finish(s)
  /\ ReadOnly

\* By its id, whatever has become of the participant.
MuteWrite(s) ==
  LET v == req[s].of IN
  /\ req[s].pc = "MuteWrite"
  /\ \/ /\ HasRow(v)
        /\ SetRow(v, [participants[v] EXCEPT !.is_muted = TRUE])
        /\ Finish(s)
        /\ UNCHANGED <<meeting, shares, ghosts, livekit>>
     \/ ~HasRow(v) /\ Reject(s)

MuteAllFindGuests(s) ==
  /\ req[s].pc = "MuteAllFind"
  /\ Become(s, [At(req[s], "MuteAllWrite") EXCEPT
       !.todo = {v \in Mutable : participants[v].role = "guest"}])
  /\ ReadOnly

MuteAllFind(s) ==
  /\ req[s].pc = "MuteAllFind"
  /\ Become(s, [At(req[s], "MuteAllWrite") EXCEPT !.todo = Mutable])
  /\ ReadOnly

\* updateMany: not those found, but those admitted by now.
MuteAllWrite(s) ==
  /\ req[s].pc = "MuteAllWrite"
  /\ participants' = [u \in Users |->
       IF u \in Mutable THEN [participants[u] EXCEPT !.is_muted = TRUE]
                        ELSE participants[u]]
  /\ Finish(s)
  /\ UNCHANGED <<meeting, shares, ghosts, livekit>>

-----------------------------------------------------------------------------
(* assignCohost and updateMeeting                                          *)

AssignCohostFindByAnybody(s, u, v) ==
  /\ HasRow(v)
  /\ participants[v].role # "host"
  /\ Arrive(s, Call("cohost", u, v, "CohostWrite"))
  /\ ReadOnly

AssignCohostFind(s, u, v) ==
  /\ u = Host
  /\ HasRow(v)
  /\ participants[v].role # "host"
  /\ Arrive(s, Call("cohost", u, v, "CohostWrite"))
  /\ ReadOnly

CohostWrite(s) ==
  LET v == req[s].of IN
  /\ req[s].pc = "CohostWrite"
  /\ Finish(s)
  /\ \/ /\ HasRow(v)
        /\ SetRow(v, [participants[v] EXCEPT !.role = "cohost"])
        /\ granted' = IF req[s].by = Host THEN granted \cup {v} ELSE granted
        /\ UNCHANGED <<meeting, shares, approved, livekit>>
     \/ ~HasRow(v) /\ ReadOnly

\* Reads host_id, then updates: one step, at a time the server is free.
UpdateMeeting(s, u) ==
  /\ "update" \in Ops
  /\ req[s] = Idle
  /\ Exists
  /\ u = Host
  /\ \E on \in BOOLEAN, max \in Limits :
       meeting' = [meeting EXCEPT !.waiting_room_on = on,
                                  !.max_participants = max]
  /\ UNCHANGED <<participants, shares, req, ghosts, livekit>>

-----------------------------------------------------------------------------
(* handleWebhookEvent. A webhook handled may be delivered once more; one   *)
(* for a deleted meeting is ignored.                                       *)

Deliver(s, h) ==
  LET pc == CASE h.event = "room_started"       -> "HookStarted"
              [] h.event = "room_finished"      -> "CloseShares"
              [] h.event = "participant_joined" -> "HookJoined"
              [] h.event = "participant_left"   -> "HookLeft"
      u == h.identity
  IN
  /\ h \in hooks
  /\ hooks' \in {hooks, hooks \ {h}}
  /\ Exists
  /\ Arrive(s, Call("webhook", u, u, pc))
  /\ UNCHANGED <<db, ghosts, room, connected, tokens>>

HookStarted(s) ==
  /\ req[s].pc = "HookStarted"
  /\ \/ /\ Exists
        /\ meeting' = [meeting EXCEPT !.status = "active"]
        /\ Finish(s)
        /\ UNCHANGED <<participants, shares, ghosts, livekit>>
     \/ ~Exists /\ Reject(s)

HookJoined(s) ==
  LET u == req[s].of IN
  /\ req[s].pc = "HookJoined"
  /\ IF HasRow(u) THEN SetRow(u, LetIn(participants[u], "admitted"))
                  ELSE UNCHANGED participants
  /\ Finish(s)
  /\ UNCHANGED <<meeting, shares, ghosts, livekit>>

HookLeftDeletes(s) ==
  LET u == req[s].of IN
  /\ req[s].pc = "HookLeft"
  /\ IF HasRow(u) THEN SetRow(u, NoRow) ELSE UNCHANGED participants
  /\ Goto(s, "HookLeftShares")
  /\ UNCHANGED <<meeting, shares, ghosts, livekit>>

HookLeft(s) ==
  LET u == req[s].of IN
  /\ req[s].pc = "HookLeft"
  /\ IF HasRow(u) THEN SetRow(u, PutOut(participants[u], "left"))
                  ELSE UNCHANGED participants
  /\ Goto(s, "HookLeftShares")
  /\ UNCHANGED <<meeting, shares, ghosts, livekit>>

HookLeftShares(s) ==
  /\ req[s].pc = "HookLeftShares"
  /\ shares' = shares \ {req[s].of}
  /\ Finish(s)
  /\ UNCHANGED <<meeting, participants, ghosts, livekit>>

-----------------------------------------------------------------------------

\* A failed database call, or the death of the process, at any await.
Abort(s) ==
  /\ "crash" \in Faults
  /\ req[s] # Idle
  /\ Reject(s)

Start(s) ==
  \/ \E u \in Users :
       \/ JoinMeetingFind(s, u)
       \/ GetLiveKitTokenFind(s, u)
       \/ LeaveMeetingFind(s, u)
       \/ AdmitAll(s, u)
       \/ MuteAll(s, u)
       \/ EndMeetingFind(s, u)
       \/ UpdateMeeting(s, u)
       \/ DeleteMeeting(s, u)
       \/ \E v \in Users :
            \/ AdmitParticipant(s, u, v)
            \/ DenyFind(s, u, v)
            \/ KickParticipantFind(s, u, v)
            \/ AssignCohostFind(s, u, v)
            \/ MuteParticipant(s, u, v)
  \/ \E h \in hooks : Deliver(s, h)

Continue(s) ==
  \/ JoinCount(s) \/ JoinWrite(s)
  \/ GetLiveKitTokenRow(s) \/ EnsureRoomExists(s)
  \/ IssueParticipantToken(s) \/ MarkMeetingActive(s)
  \/ NormalizeShares(s) \/ NormalizeRow(s) \/ RemoveLiveKitParticipant(s)
  \/ EnsureModerator(s)
  \/ AdmitCount(s) \/ AdmitParticipantFind(s) \/ AdmitWrite(s)
  \/ AdmitAllFind(s) \/ AdmitAllCount(s)
  \/ \E v \in Users : AdmitAllWrite(s, v)
  \/ DenyParticipantFind(s) \/ DenyShares(s) \/ DenyWrite(s)
  \/ CloseShares(s) \/ CloseRows(s) \/ CloseMeeting(s)
  \/ DeleteLiveKitRoom(s)
  \/ CohostWrite(s)
  \/ MuteFind(s) \/ MuteWrite(s) \/ MuteAllFind(s) \/ MuteAllWrite(s)
  \/ HookStarted(s) \/ HookJoined(s) \/ HookLeft(s) \/ HookLeftShares(s)

Outside == LiveKitNext /\ UNCHANGED <<db, req, ghosts>>

Next ==
  \/ \E s \in Slots : Start(s) \/ Continue(s) \/ Abort(s)
  \/ Outside

Spec == Init /\ [][Next]_vars

\* Node runs a request on whenever the call it waits for has returned.
FairSpec == Spec /\ \A s \in Slots : WF_vars(Continue(s))

-----------------------------------------------------------------------------
(* Whatever requests, webhooks and failures are interleaved.               *)

\* While the meeting exists its host has the one host row, and is never kept
\* in the waiting room, where nobody could be left to admit anybody
\* (joinMeeting, assignCohost, admission, kick and the webhooks).
HostKeepsMeeting ==
  /\ Exists => participants[Host].role = "host"
  /\ participants[Host].status # "waiting"
  /\ \A u \in Users \ {Host} : participants[u].role # "host"

\* Nobody is cohost whom the host has not made one: no read of an old row
\* carries the role to somebody else (joinMeeting writes back the role read).
CohostOnlyByHost ==
  \A u \in Users : participants[u].role = "cohost" => u \in granted

\* A user whom neither the host, nor one of the host's cohosts, nor an open
\* waiting room has ever let in is not admitted, holds no join token and is
\* not in the LiveKit room, whatever rows and switches were read when.
WaitingRoomRespected ==
  \A u \in Users \ approved :
    /\ participants[u].status # "admitted"
    /\ u \notin tokens \cup connected

\* Only somebody who has been let in is marked muted, and never the host,
\* although mute and mute-all mark rows they have read before LiveKit was asked
\* and joining, leaving and the webhooks keep the mark.
MutedWereInside ==
  \A u \in Users : participants[u].is_muted => u \in approved \ {Host}

\* Why the three hold, and inductive: everything a request or a webhook in
\* flight will write, and everything a client of LiveKit can do, has been
\* allowed already, when the values it carries were read.
RowAllowed(u) ==
  /\ participants[u].status = "admitted" => u \in approved
  /\ participants[u].role = "cohost" => u \in granted
  /\ participants[u].role = "host" => u = Host

RequestAllowed(q) ==
  /\ q.row.status = "admitted" => q.by \in approved
  /\ q.row.role = "cohost" => q.by \in granted
  /\ q.row.role = "host" => q.by = Host
  /\ q.pc \in {"EnsureRoomExists", "IssueParticipantToken",
               "MarkMeetingActive"} => q.by \in approved
  /\ q.pc \in {"AdmitCount", "AdmitParticipantFind", "AdmitWrite",
               "AdmitAllFind", "AdmitAllCount", "AdmitAllWrite"}
       => q.by \in {Host} \cup granted
  /\ q.pc = "CohostWrite" => q.by = Host
  /\ q.pc = "HookJoined" => q.of \in approved

MediaAllowed ==
  /\ tokens \cup connected \subseteq approved
  /\ \A h \in hooks : h.event = "participant_joined" => h.identity \in approved

AdmissionInv ==
  /\ Host \in approved
  /\ \A u \in Users : RowAllowed(u)
  /\ \A s \in Slots : RequestAllowed(req[s])
  /\ MediaAllowed

\* left_at is null exactly for those waiting or admitted, although eight
\* handlers write the two columns: countActiveParticipants filters on both.
LeftAtConsistent ==
  \A u \in Users : HasRow(u) =>
    (participants[u].left_at <=> participants[u].status \in {"denied", "left"})

\* deleteMeeting leaves no participant and no screen share behind, and no
\* request that read the meeting before brings one back.
DeletedLeavesNothing ==
  ~Exists => shares = {} /\ \A u \in Users : participants[u] = NoRow

\* Every request and every webhook is worked off.
RequestsAnswered == \A s \in Slots : req[s] # Idle ~> req[s] = Idle

\* A host who ends the meeting sees it ended, whoever joins meanwhile and
\* whatever LiveKit answers, unless the request dies.
EndTakesEffect ==
  \A s \in Slots :
    req[s].op = "end" /\ req[s].pc # "DeleteLiveKitRoom"
      ~> meeting.status \in {"ended", "deleted"}

-----------------------------------------------------------------------------
(* What holds when requests do not overlap and no webhook comes late.      *)

\* A meeting that has ended has nobody waiting, admitted or sharing.
EndedMeansEmpty ==
  meeting.status = "ended" =>
    /\ shares = {}
    /\ \A u \in Users : participants[u].status \notin {"waiting", "admitted"}

\* A token is generated only for a user whose row says admitted just then
\* (issueParticipantToken writes the status itself and checks nothing).
TokenOnlyToAdmitted ==
  [][\A s \in Slots :
       /\ req[s].pc = "IssueParticipantToken"
       /\ req'[s].pc = "MarkMeetingActive"
       => participants[req[s].by].status = "admitted"]_vars

\* Whom a mute marks as muted, LiveKit has been asked to mute: mute-all marks
\* the same participants it has found (two filters, two LiveKit calls apart).
MutedAreAsked ==
  [][\A u \in Users :
       ~participants[u].is_muted /\ participants'[u].is_muted
       => \E s \in Slots : u \in req[s].todo \cup {req[s].of}]_vars

\* A cohost stays cohost: joining again does not write an older role back.
CohostKept ==
  [][\A u \in Users : participants[u].role = "cohost"
                        => participants'[u].role \in {"cohost", "none"}]_vars

\* Whom a moderator admits, or who joins for the first time, finds a place.
AdmissionWithinCapacity ==
  [][\A s \in Slots :
       /\ req[s].pc \in {"AdmitWrite", "AdmitAllWrite", "JoinWrite"}
       /\ req[s].row = NoRow
       /\ req'[s] # req[s]
       => Cardinality(Active') <= meeting.max_participants]_vars

\* The promise of Lifecycle.
Promise == INSTANCE Lifecycle WITH
  stage <- [u \in Users |-> participants[u].status],
  open <- meeting.status \in {"waiting", "active"}

ImplementsLifecycle == Promise!LifecycleSpec

-----------------------------------------------------------------------------
(* What Polls, Recording and Breakout rest on, under every interleaving.   *)

\* The promise of Membership: a row stays until the meeting is deleted, when
\* all go, and none comes back, whatever the requests in flight still write.
Members == INSTANCE Membership WITH
  stage <- [u \in Users |-> participants[u].status]

ImplementsMembership == Members!MembershipSpec
=============================================================================
