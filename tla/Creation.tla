------------------------------ MODULE Creation ------------------------------
(***************************************************************************)
(* Meetings come and go: a creation draws a join code, looks whether a     *)
(* meeting has it, and later inserts the meeting together with its host's  *)
(* row; a deletion frees the code again (Meetings/meetings.service.ts).    *)
(*                                                                         *)
(* A creation in flight occupies a slot; one step is one database call or  *)
(* one transaction.  Who takes part in a meeting, and in which breakout    *)
(* room, changes by whole requests: their steps are the subject of Meeting *)
(* and Breakout.                                                           *)
(***************************************************************************)
EXTENDS Naturals, FiniteSets

CONSTANTS
  Users,
  Meetings,    \* bound: meetings at a time; an id stands for one after another
  Codes,       \* join codes
  Breakouts,   \* breakout rooms
  MaxAttempts, \* codes drawn before a creation gives up; 5 in the code
  None,
  Slots        \* bound: creations in flight at a time

ASSUME CreationAssumption ==
  /\ MaxAttempts \in Nat \ {0}
  /\ None \notin Users \cup Meetings \cup Codes \cup Breakouts
  /\ Codes \cap Breakouts = {}

VARIABLES
  code,     \* join code of each meeting, None if there is no such meeting
  host,     \* and its host
  status,   \* status of each participant row, if any
  breakout, \* and its breakout_room_id
  req       \* creations in flight

rowVars == <<status, breakout>>
dbVars == <<code, host, status, breakout>>
creationVars == <<code, host, status, breakout, req>>

RowStates == {"none", "outside", "admitted"}

Request ==
  [pc : {"DrawCode", "CreateMeeting"}, by : Users, code : Codes \cup {None},
   left : 1..MaxAttempts]
Idle == [pc |-> "idle"]

CreationTypeOK ==
  /\ code \in [Meetings -> Codes \cup {None}]
  /\ host \in [Meetings -> Users \cup {None}]
  /\ status \in [Meetings -> [Users -> RowStates]]
  /\ breakout \in [Meetings -> [Users -> Breakouts \cup {None}]]
  /\ req \in [Slots -> Request \cup {Idle}]
  /\ \A s \in Slots : req[s].pc = "CreateMeeting" => req[s].code \in Codes

CreationInit ==
  /\ code = [m \in Meetings |-> None]
  /\ host = [m \in Meetings |-> None]
  /\ status = [m \in Meetings |-> [u \in Users |-> "none"]]
  /\ breakout = [m \in Meetings |-> [u \in Users |-> None]]
  /\ req = [s \in Slots |-> Idle]

Exists(m) == code[m] # None
Taken(c) == \E m \in Meetings : code[m] = c

Become(s, q) == req' = [req EXCEPT ![s] = q]
Refuse(s) == Become(s, Idle) /\ UNCHANGED dbVars

-----------------------------------------------------------------------------
(* createMeetings                                                          *)

CreateMeetings(s, u) ==
  /\ req[s] = Idle
  /\ Become(s, [pc |-> "DrawCode", by |-> u, code |-> None,
                left |-> MaxAttempts])
  /\ UNCHANGED dbVars

DrawCodeForever(s) ==
  /\ req[s].pc = "DrawCode"
  /\ \E c \in Codes :
       IF Taken(c) THEN UNCHANGED req
       ELSE Become(s, [req[s] EXCEPT !.pc = "CreateMeeting", !.code = c])
  /\ UNCHANGED dbVars

\* createUniqueJoinCode draws again when the code is taken.
DrawCode(s) ==
  LET q == req[s] IN
  /\ q.pc = "DrawCode"
  /\ \E c \in Codes :
       \/ /\ ~Taken(c)
          /\ Become(s, [q EXCEPT !.pc = "CreateMeeting", !.code = c])
       \/ /\ Taken(c)
          /\ Become(s, IF q.left = 1 THEN Idle
                       ELSE [q EXCEPT !.left = q.left - 1])
  /\ UNCHANGED dbVars

InsertMeeting(m, u, c) ==
  /\ ~Exists(m)
  /\ code' = [code EXCEPT ![m] = c]
  /\ host' = [host EXCEPT ![m] = u]

InsertHost(m, u) == status' = [status EXCEPT ![m][u] = "admitted"]

CreateMeetingAnyCode(s) ==
  LET q == req[s] IN
  /\ q.pc = "CreateMeeting"
  /\ \E m \in Meetings : InsertMeeting(m, q.by, q.code) /\ InsertHost(m, q.by)
  /\ Become(s, Idle)
  /\ UNCHANGED breakout

CreateMeetingInTwo(s) ==
  LET q == req[s] IN
  /\ q.pc = "CreateMeeting"
  /\ \/ /\ ~Taken(q.code)
        /\ \E m \in Meetings :
             /\ InsertMeeting(m, q.by, q.code)
             /\ InsertHost(m, q.by) \/ UNCHANGED status
        /\ Become(s, Idle)
        /\ UNCHANGED breakout
     \/ Taken(q.code) /\ Refuse(s)

\* One transaction; the unique constraint refuses a code taken meanwhile.
CreateMeeting(s) ==
  LET q == req[s] IN
  /\ q.pc = "CreateMeeting"
  /\ \/ /\ ~Taken(q.code)
        /\ \E m \in Meetings :
             InsertMeeting(m, q.by, q.code) /\ InsertHost(m, q.by)
        /\ Become(s, Idle)
        /\ UNCHANGED breakout
     \/ Taken(q.code) /\ Refuse(s)

\* A database call that fails, the transaction with it.
Abort(s) == req[s] # Idle /\ Refuse(s)

Continue(s) == DrawCode(s) \/ CreateMeeting(s)

-----------------------------------------------------------------------------
(* The other requests, one step each.                                      *)

\* Joining, admission, denial, leaving and kicking; rows are never deleted.
Participate(m, u) ==
  /\ Exists(m)
  /\ \E st \in RowStates \ {"none"} : status' = [status EXCEPT ![m][u] = st]
  /\ UNCHANGED <<code, host, breakout, req>>

\* A breakout room belongs to one meeting.
AssignBreakout(m, u, b) ==
  /\ status[m][u] # "none"
  /\ \A n \in Meetings \ {m}, v \in Users : breakout[n][v] # b
  /\ breakout' = [breakout EXCEPT ![m][u] = b]
  /\ UNCHANGED <<code, host, status, req>>

EndBreakouts(m) ==
  /\ Exists(m)
  /\ breakout' = [breakout EXCEPT ![m] = [u \in Users |-> None]]
  /\ UNCHANGED <<code, host, status, req>>

\* One transaction.
DeleteMeeting(m) ==
  /\ Exists(m)
  /\ code' = [code EXCEPT ![m] = None]
  /\ host' = [host EXCEPT ![m] = None]
  /\ status' = [status EXCEPT ![m] = [u \in Users |-> "none"]]
  /\ breakout' = [breakout EXCEPT ![m] = [u \in Users |-> None]]
  /\ UNCHANGED req

OneStepRequest ==
  \E m \in Meetings :
    \/ DeleteMeeting(m) \/ EndBreakouts(m)
    \/ \E u \in Users : \/ Participate(m, u)
                        \/ \E b \in Breakouts : AssignBreakout(m, u, b)

-----------------------------------------------------------------------------

\* A join code leads to one meeting, although creations that overlap may all
\* have found the code free (createUniqueJoinCode).
OneMeetingPerCode ==
  \A m, n \in Meetings : Exists(m) /\ code[m] = code[n] => m = n

\* A meeting has its host among its participants from the start, and rows have
\* a meeting, wherever a creation or deletion stops ("Database changes spanning
\* multiple related records use Prisma transactions", ARCHITECTURE.md).
MeetingsHaveHosts ==
  \A m \in Meetings :
    /\ Exists(m) => host[m] \in Users /\ status[m][host[m]] # "none"
    /\ ~Exists(m) => \A u \in Users : status[m][u] = "none"
=============================================================================
