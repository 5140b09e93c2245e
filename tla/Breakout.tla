------------------------------ MODULE Breakout ------------------------------
(***************************************************************************)
(* Breakout rooms: the host splits the admitted participants into rooms    *)
(* and ends all rooms again (Breakout/breakout.service.ts).                *)
(*                                                                         *)
(* The participants around it are Membership, which the meeting service    *)
(* implements.  A request in flight occupies a slot and makes one database *)
(* call per step; the calls of one Promise.all come in any order.  Reads   *)
(* of what never changes are merged with the call after them, and          *)
(* joinBreakoutRoom, which only reads and answers, is left out.            *)
(***************************************************************************)
EXTENDS Membership, Naturals, FiniteSets, SequencesExt

CONSTANTS
  Host,
  RoomIds,  \* bound: rooms ever created
  NoRoom,   \* the null of breakout_room_id
  Lists,    \* what the host may ask for: a list of users for each room
  Slots,    \* bound: requests in flight at a time
  Faults    \* whether a request may stop between two calls: "crash"

ASSUME BreakoutAssumption ==
  /\ Host \in Users
  /\ IsFiniteSet(Users)
  /\ NoRoom \notin RoomIds
  /\ Lists \subseteq Seq(SUBSET Users) \ {<<>>}

VARIABLES
  room,      \* row of breakout_rooms: none, open or closed
  assigned,  \* breakout_room_id of each user's row
  req        \* requests in flight

breakoutVars == <<room, assigned, req>>
vars == <<stage, room, assigned, req>>

RoomStates == {"none", "open", "closed"}

\* Without rooms in the request there are two, with nobody listed.
TwoRooms == <<{}, {}>>
Asked == Lists \cup {TwoRooms}

Assignments == [Users -> RoomIds \cup {NoRoom}]

\* rooms[i] is the id that the room for lists[i] gets; todo are the creates or
\* updates of the current Promise.all that have not come back.
Requests ==
  [pc : {"Rooms"}, lists : Asked, pool : SUBSET Users, rooms : Seq(RoomIds),
   todo : SUBSET RoomIds]
    \cup
  [pc : {"Assign"}, lists : Asked, pool : SUBSET Users, rooms : Seq(RoomIds),
   todo : SUBSET (Users \X RoomIds)]
    \cup [pc : {"Unassign"}]
Idle == [pc |-> "idle"]

TypeOK ==
  /\ stage \in [Users -> Stages]
  /\ room \in [RoomIds -> RoomStates]
  /\ assigned \in Assignments
  /\ req \in [Slots -> Requests \cup {Idle}]

Nowhere == [u \in Users |-> NoRoom]

Init ==
  /\ Founded(Host)
  /\ room = [r \in RoomIds |-> "none"]
  /\ assigned = Nowhere
  /\ req = [s \in Slots |-> Idle]

\* The host's row lives as long as the meeting.
Exists == Host \in Present

Become(s, q) == req' = [req EXCEPT ![s] = q]
ReadOnly == UNCHANGED <<stage, room, assigned>>

-----------------------------------------------------------------------------
(* createBreakoutRooms                                                     *)

\* The participants found at the start; nobody looks at them again.
Pool == {u \in Users : stage[u] = "admitted" /\ u # Host}

Promised ==
  UNION {Range(req[s].rooms) : s \in {t \in Slots : "rooms" \in DOMAIN req[t]}}

FreshIds(n) ==
  {ids \in [1..n -> {r \in RoomIds \ Promised : room[r] = "none"}] :
     IsInjective(ids)}

CreateBreakoutRooms(s, lists) ==
  /\ req[s] = Idle
  /\ Exists
  /\ Pool # {}
  /\ \E ids \in FreshIds(Len(lists)) :
       Become(s, [pc |-> "Rooms", lists |-> lists, pool |-> Pool,
                  rooms |-> ids, todo |-> Range(ids)])
  /\ ReadOnly

ListedInAll(q) ==
  {ur \in q.pool \X Range(q.rooms) :
     \E i \in DOMAIN q.rooms :
       ur[2] = q.rooms[i] /\ ur[1] \in UNION Range(q.lists)}

\* A user on several lists is assigned several times.
Listed(q) ==
  {ur \in q.pool \X Range(q.rooms) :
     \E i \in DOMAIN q.rooms : ur[2] = q.rooms[i] /\ ur[1] \in q.lists[i]}

Unlisted(q) == q.pool \ UNION Range(q.lists)

AllInFirst(order, rooms) ==
  {<<order[k], rooms[1]>> : k \in DOMAIN order}

RoundRobin(order, rooms) ==
  {<<order[k], rooms[((k - 1) % Len(rooms)) + 1]>> : k \in DOMAIN order}

\* findMany returns the participants in any order.
Plans(q) ==
  {Listed(q) \cup RoundRobin(order, q.rooms) :
     order \in SetToSeqs(Unlisted(q))}

CreateRoom(s, r) ==
  LET q == req[s]
      left == q.todo \ {r}
  IN
  /\ q.pc = "Rooms"
  /\ r \in q.todo
  /\ Exists
  /\ room' = [room EXCEPT ![r] = "open"]
  /\ IF left # {} THEN Become(s, [q EXCEPT !.todo = left])
     ELSE \E plan \in Plans(q) :
            Become(s, [q EXCEPT !.pc = "Assign", !.todo = plan])
  /\ UNCHANGED <<stage, assigned>>

\* The foreign key refuses the rooms of a deleted meeting.
RoomsRefused(s) ==
  /\ req[s].pc = "Rooms"
  /\ ~Exists
  /\ Become(s, Idle)
  /\ ReadOnly

AssignAnyway(s, u, r) ==
  LET q == req[s]
      left == q.todo \ {<<u, r>>}
  IN
  /\ q.pc = "Assign"
  /\ <<u, r>> \in q.todo
  /\ assigned' = [assigned EXCEPT ![u] = r]
  /\ Become(s, IF left = {} THEN Idle ELSE [q EXCEPT !.todo = left])
  /\ UNCHANGED <<stage, room>>

\* An update fails if the user's row or the room has been deleted.
AssignRoom(s, u, r) ==
  LET q == req[s]
      left == q.todo \ {<<u, r>>}
  IN
  /\ q.pc = "Assign"
  /\ <<u, r>> \in q.todo
  /\ assigned' = IF u \in Present /\ room[r] # "none"
                 THEN [assigned EXCEPT ![u] = r] ELSE assigned
  /\ Become(s, IF left = {} THEN Idle ELSE [q EXCEPT !.todo = left])
  /\ UNCHANGED <<stage, room>>

-----------------------------------------------------------------------------
(* endAllBreakoutRooms                                                     *)

EndAllBreakoutRooms(s) ==
  /\ req[s] = Idle
  /\ Exists
  /\ room' = [r \in RoomIds |->
                IF room[r] = "none" THEN "none" ELSE "closed"]
  /\ Become(s, [pc |-> "Unassign"])
  /\ UNCHANGED <<stage, assigned>>

UnassignAdmitted(s) ==
  /\ req[s].pc = "Unassign"
  /\ assigned' = [u \in Users |-> IF stage[u] = "admitted" THEN NoRoom
                                  ELSE assigned[u]]
  /\ Become(s, Idle)
  /\ UNCHANGED <<stage, room>>

Unassign(s) ==
  /\ req[s].pc = "Unassign"
  /\ assigned' = Nowhere
  /\ Become(s, Idle)
  /\ UNCHANGED <<stage, room>>

-----------------------------------------------------------------------------
(* The meeting around the rooms.                                           *)

\* A call fails, or the process dies; of a Promise.all, those calls that are
\* not done then.
Abort(s) ==
  /\ "crash" \in Faults
  /\ req[s] # Idle
  /\ Become(s, Idle)
  /\ ReadOnly

\* deleteMeeting deletes the rooms after taking everybody out of them.
DeleteMeeting(s) ==
  /\ req[s] = Idle
  /\ Exists
  /\ Erase
  /\ room' = [r \in RoomIds |-> "none"]
  /\ assigned' = Nowhere
  /\ UNCHANGED req

Continue(s) ==
  \/ \E r \in RoomIds : CreateRoom(s, r)
  \/ RoomsRefused(s)
  \/ \E u \in Users, r \in RoomIds : AssignRoom(s, u, r)
  \/ Unassign(s)

Next ==
  \/ \E s \in Slots :
       \/ \E lists \in Asked : CreateBreakoutRooms(s, lists)
       \/ EndAllBreakoutRooms(s)
       \/ DeleteMeeting(s)
       \/ Continue(s)
       \/ Abort(s)
  \/ Change /\ UNCHANGED breakoutVars

Spec == Init /\ [][Next]_vars

-----------------------------------------------------------------------------

\* Nobody is assigned to a room that is gone, although the rooms being created
\* and the users being assigned were read before the meeting was deleted.
AssignmentsHaveRooms ==
  \A u \in Users :
    assigned[u] # NoRoom => u \in Present /\ room[assigned[u]] # "none"

LeadIntoOpenRooms ==
  (\A s \in Slots : req[s] = Idle) =>
    \A u \in Users : assigned[u] # NoRoom => room[assigned[u]] = "open"

\* Request s has just assigned the last user.
AssignsLast(s) == req[s].pc = "Assign" /\ Cardinality(req[s].todo) = 1
                    /\ req'[s] = Idle

PlacesEverybody ==
  \A s \in Slots :
    AssignsLast(s) =>
      \A u \in req[s].pool :
        \E i \in DOMAIN req[s].rooms :
          /\ assigned'[u] = req[s].rooms[i]
          /\ u \in UNION Range(req[s].lists) => u \in req[s].lists[i]

SpreadsEvenly ==
  \A s \in Slots :
    AssignsLast(s) =>
      LET got(r) == Cardinality({u \in Unlisted(req[s]) : assigned'[u] = r})
      IN \A r1, r2 \in Range(req[s].rooms) : got(r1) <= got(r2) + 1
=============================================================================
