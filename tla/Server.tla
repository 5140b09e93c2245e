------------------------------- MODULE Server -------------------------------
(***************************************************************************)
(* The server process around the requests of Creation: start, shutdown and *)
(* sudden death (server.ts), and the Socket.IO sessions whose rooms it     *)
(* keeps in memory (sockets/index.ts).                                     *)
(*                                                                         *)
(* An access token is verified when a socket connects, and not again: a    *)
(* session dropped by the network is recovered within two minutes with its *)
(* user and its rooms.  A socket's request to enter a room finds a row and *)
(* enters the room a step later.                                           *)
(*                                                                         *)
(* A slot is a connection, which has one request in flight at a time: a    *)
(* creation, whose handler goes on when its client has hung up, or one of  *)
(* the requests of a single step.                                          *)
(***************************************************************************)
EXTENDS Creation

CONSTANT Sessions \* bound: socket sessions at a time

VARIABLES
  phase,   \* how far the process is with its work
  exit,    \* why the process is going or gone
  conn,    \* connections whose client is there
  session, \* state of each session
  user,    \* whose token it has shown
  rooms,   \* rooms the session is in
  asks,    \* room it has been let into but not entered yet
  been     \* ghost: <<u, r>>: user u was at some time allowed into room r

processVars == <<phase, exit, conn>>
socketVars == <<session, user, rooms, asks>>
vars == <<dbVars, req, processVars, socketVars, been>>

Rooms == Codes \cup Breakouts

TypeOK ==
  /\ CreationTypeOK
  /\ phase \in {"up", "closing", "disconnecting", "down"}
  /\ exit \in {"none", "ok", "error", "killed"}
  /\ conn \subseteq Slots
  /\ session \in [Sessions -> {"none", "live", "dropped"}]
  /\ user \in [Sessions -> Users \cup {None}]
  /\ rooms \in [Sessions -> SUBSET Rooms]
  /\ asks \in [Sessions -> Rooms \cup {None}]
  /\ been \subseteq Users \X Rooms

\* "meeting:<code>" for the admitted, "breakout:<id>" for those assigned too.
MayEnter(u, r) ==
  \E m \in Meetings : status[m][u] = "admitted" /\ r \in {code[m], breakout[m][u]}

Allowed == {ur \in Users \X Rooms : MayEnter(ur[1], ur[2])}

Init ==
  /\ CreationInit
  /\ phase = "down" /\ exit = "none"
  /\ conn = {}
  /\ session = [k \in Sessions |-> "none"]
  /\ user = [k \in Sessions |-> None]
  /\ rooms = [k \in Sessions |-> {}]
  /\ asks = [k \in Sessions |-> None]
  /\ been = {}

ForgetSessions ==
  /\ session' = [k \in Sessions |-> "none"]
  /\ user' = [k \in Sessions |-> None]
  /\ rooms' = [k \in Sessions |-> {}]
  /\ asks' = [k \in Sessions |-> None]

-----------------------------------------------------------------------------
(* The process.                                                            *)

\* A port that is in use is an uncaught exception.
Start ==
  /\ phase = "down"
  /\ \/ phase' = "up" /\ exit' = "none"
     \/ phase' = "closing" /\ exit' = "error"
  /\ UNCHANGED <<dbVars, req, conn, socketVars>>

\* Of several signals and exceptions the first counts. io.close disconnects
\* the sockets, takes no more connections and drops those that are idle. What
\* a socket still asks for is not waited for and reaches nobody.
Shutdown ==
  /\ phase = "up"
  /\ phase' = "closing"
  /\ exit' \in {"ok", "error"}
  /\ conn' = {s \in conn : req[s] # Idle}
  /\ ForgetSessions
  /\ UNCHANGED <<dbVars, req>>

\* The client goes, with or without its answer; its request does not notice.
HangUp(s) ==
  /\ s \in conn
  /\ conn' = conn \ {s}
  /\ UNCHANGED <<dbVars, req, phase, exit, socketVars>>

\* io.close calls back when no connection is left, which says nothing about the
\* handlers whose clients have hung up.
Close ==
  /\ phase = "closing"
  /\ conn = {}
  /\ phase' = "disconnecting"
  /\ UNCHANGED <<dbVars, req, exit, conn, socketVars>>

\* prisma.$disconnect may fail; the process ends in any case, and cuts off what
\* is in flight.
Disconnect ==
  /\ phase = "disconnecting"
  /\ phase' = "down"
  /\ exit' \in {exit, "error"}
  /\ req' = [s \in Slots |-> Idle]
  /\ UNCHANGED <<dbVars, conn, socketVars>>

\* Only the database survives.
Kill ==
  /\ phase # "down"
  /\ phase' = "down" /\ exit' = "killed"
  /\ req' = [s \in Slots |-> Idle]
  /\ conn' = {}
  /\ ForgetSessions
  /\ UNCHANGED dbVars

-----------------------------------------------------------------------------
(* The sockets of a process that is up.                                    *)

Connect(k, u) ==
  /\ session[k] = "none"
  /\ session' = [session EXCEPT ![k] = "live"]
  /\ user' = [user EXCEPT ![k] = u]
  /\ UNCHANGED <<rooms, asks>>

FindAnyRow(k, r) ==
  /\ session[k] = "live" /\ asks[k] = None
  /\ \E m \in Meetings : /\ status[m][user[k]] # "none"
                         /\ r \in {code[m], breakout[m][user[k]]}
  /\ asks' = [asks EXCEPT ![k] = r]
  /\ UNCHANGED <<session, user, rooms>>

\* meeting:join and breakout:join; without an admitted row access is denied.
FindParticipant(k, r) ==
  /\ session[k] = "live" /\ asks[k] = None
  /\ MayEnter(user[k], r)
  /\ asks' = [asks EXCEPT ![k] = r]
  /\ UNCHANGED <<session, user, rooms>>

\* The session may have been dropped, and even recovered, meanwhile.
EnterRoom(k) ==
  /\ asks[k] # None
  /\ rooms' = [rooms EXCEPT ![k] = @ \cup {asks[k]}]
  /\ asks' = [asks EXCEPT ![k] = None]
  /\ UNCHANGED <<session, user>>

Drop(k) ==
  /\ session[k] = "live"
  /\ session' = [session EXCEPT ![k] = "dropped"]
  /\ UNCHANGED <<user, rooms, asks>>

\* Without asking for a token.
Recover(k) ==
  /\ session[k] = "dropped"
  /\ session' = [session EXCEPT ![k] = "live"]
  /\ UNCHANGED <<user, rooms, asks>>

\* The client disconnects, or has not come back in two minutes.
Forget(k) ==
  /\ session[k] # "none"
  /\ session' = [session EXCEPT ![k] = "none"]
  /\ user' = [user EXCEPT ![k] = None]
  /\ rooms' = [rooms EXCEPT ![k] = {}]
  /\ asks' = [asks EXCEPT ![k] = None]

SocketStep ==
  \E k \in Sessions :
    \/ \E u \in Users : Connect(k, u)
    \/ \E r \in Rooms : FindParticipant(k, r)
    \/ EnterRoom(k) \/ Drop(k) \/ Recover(k) \/ Forget(k)

-----------------------------------------------------------------------------

\* Clients connect while the process is up; after that only those that are
\* connected and have their answer ask again.
Free(s) ==
  /\ req[s] = Idle
  /\ \/ phase = "up"
     \/ phase = "closing" /\ s \in conn

Receive ==
  \/ \E s \in Slots, u \in Users :
       Free(s) /\ CreateMeetings(s, u) /\ conn' = conn \cup {s}
  \/ (\E s \in Slots : Free(s)) /\ OneStepRequest /\ UNCHANGED conn

Serve ==
  \/ Receive /\ UNCHANGED <<phase, exit, socketVars>>
  \/ /\ phase # "down"
     /\ \E s \in Slots : Continue(s) \/ Abort(s)
     /\ UNCHANGED <<processVars, socketVars>>
  \/ phase = "up" /\ SocketStep /\ UNCHANGED <<dbVars, req, processVars>>

Next ==
  /\ \/ Serve \/ Start \/ Shutdown \/ Close \/ Disconnect \/ Kill
     \/ \E s \in Slots : HangUp(s)
  /\ been' = been \cup Allowed'

Spec == Init /\ [][Next]_vars

Going(A) == A /\ been' = been \cup Allowed'

\* Every database call comes back, with an answer or an error, and Node then
\* runs what waits for it.
Fairness ==
  /\ \A s \in Slots :
       WF_vars(/\ phase # "down"
               /\ Going(Continue(s) /\ UNCHANGED <<processVars, socketVars>>))
  /\ WF_vars(Going(Close))
  /\ WF_vars(Going(Disconnect))

\* Nothing in the server makes a client go. None is taken to ask for ever: one
\* that has its answer time and again hangs up, or idles until Node drops it.
ClientsGo == \A s \in Slots : SF_vars(req[s] = Idle /\ Going(HangUp(s)))

FairSpec == Spec /\ Fairness /\ ClientsGo

-----------------------------------------------------------------------------

\* A session is in a room only if its user was allowed into it at some time: an
\* admitted participant of a meeting with that code, or assigned to that
\* breakout room (sockets/index.ts). Rows may change while the session asks,
\* and nothing takes it out of its rooms when its user is kicked.
RoomsEarned ==
  \A k \in Sessions :
    \A r \in rooms[k] : <<user[k], r>> \in been

\* A shutdown comes to its end, whatever is in flight, although clients that are
\* still connected go on asking and more signals arrive.
ShutdownCompletes == phase = "closing" ~> phase = "down"
=============================================================================
