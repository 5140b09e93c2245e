---------------------------- MODULE ServerProofs ----------------------------
(***************************************************************************)
(* Proofs about Creation and Server, for any users, codes, creations in    *)
(* flight and sessions: a code leads to one meeting, meetings have hosts   *)
(* although a process may exit under the requests it handles, and rooms    *)
(* are earned.                                                             *)
(***************************************************************************)
EXTENDS Server, TLAPS

DbInv == CreationTypeOK /\ OneMeetingPerCode /\ MeetingsHaveHosts

LEMMA IdleIsNoRequest == Idle.pc = "idle" /\ Idle \notin Request
  BY DEF Idle, Request

LEMMA NoneIsNothing ==
  None \notin Users /\ None \notin Codes /\ None \notin Breakouts
  BY CreationAssumption

\* A creation that ends, or goes on as another request.
LEMMA BecomeType ==
  ASSUME CreationTypeOK, NEW s \in Slots, NEW q \in Request \cup {Idle},
         q.pc = "CreateMeeting" => q.code \in Codes,
         Become(s, q)
  PROVE  /\ req' \in [Slots -> Request \cup {Idle}]
         /\ \A t \in Slots : req'[t].pc = "CreateMeeting" => req'[t].code \in Codes
  BY DEF CreationTypeOK, Become

LEMMA ReadsOnly ==
  ASSUME DbInv, NEW s \in Slots, NEW q \in Request \cup {Idle},
         q.pc = "CreateMeeting" => q.code \in Codes,
         Become(s, q), UNCHANGED dbVars
  PROVE  DbInv'
<1>1. UNCHANGED <<code, host, status, breakout>>
  BY DEF dbVars
<1> QED
  BY <1>1, BecomeType
     DEF DbInv, CreationTypeOK, OneMeetingPerCode, MeetingsHaveHosts, Exists

LEMMA RefuseInv ==
  ASSUME DbInv, NEW s \in Slots, Refuse(s)
  PROVE  DbInv'
  BY ReadsOnly, IdleIsNoRequest DEF Refuse

-----------------------------------------------------------------------------
(* Creations.                                                              *)

LEMMA DrawCodeInv ==
  ASSUME DbInv, NEW s \in Slots, DrawCode(s)
  PROVE  DbInv'
<1> DEFINE q == req[s]
<1>1. q \in Request /\ q.pc = "DrawCode" /\ UNCHANGED dbVars
  BY IdleIsNoRequest DEF DrawCode, DbInv, CreationTypeOK
<1>2. ASSUME NEW c \in Codes,
             Become(s, [q EXCEPT !.pc = "CreateMeeting", !.code = c])
      PROVE  DbInv'
  <2>1. /\ [q EXCEPT !.pc = "CreateMeeting", !.code = c] \in Request
        /\ [q EXCEPT !.pc = "CreateMeeting", !.code = c].code = c
    BY <1>1 DEF Request
  <2> QED
    BY <1>1, <1>2, <2>1, ReadsOnly
<1>3. ASSUME q.left # 1, Become(s, [q EXCEPT !.left = q.left - 1])
      PROVE  DbInv'
  <2>1. q.left \in 1..MaxAttempts
    BY <1>1 DEF Request
  <2>2. /\ [q EXCEPT !.left = q.left - 1] \in Request
        /\ [q EXCEPT !.left = q.left - 1].pc = "DrawCode"
    BY <1>1, <1>3, <2>1, CreationAssumption DEF Request
  <2> QED
    BY <1>1, <1>3, <2>2, ReadsOnly
<1>4. ASSUME Become(s, Idle)
      PROVE  DbInv'
  BY <1>1, <1>4, RefuseInv DEF Refuse
<1> QED
  BY <1>2, <1>3, <1>4 DEF DrawCode

LEMMA CreateMeetingInv ==
  ASSUME DbInv, NEW s \in Slots, CreateMeeting(s)
  PROVE  DbInv'
<1> DEFINE c == req[s].code
           u == req[s].by
<1>1. CASE Refuse(s)
  BY <1>1, RefuseInv
<1>2. CASE ~Refuse(s)
  <2>1. c \in Codes /\ u \in Users
    BY <1>2, IdleIsNoRequest DEF CreateMeeting, DbInv, CreationTypeOK, Request
  <2>2. PICK m \in Meetings : InsertMeeting(m, u, c) /\ InsertHost(m, u)
    BY <1>2 DEF CreateMeeting
  <2>3. /\ ~Taken(c) /\ Become(s, Idle) /\ breakout' = breakout
        /\ code[m] = None
        /\ code' = [code EXCEPT ![m] = c]
        /\ host' = [host EXCEPT ![m] = u]
        /\ status' = [status EXCEPT ![m][u] = "admitted"]
    BY <1>2, <2>2 DEF CreateMeeting, InsertMeeting, InsertHost, Exists
  <2>4. CreationTypeOK'
    BY <2>1, <2>3, BecomeType, IdleIsNoRequest
       DEF DbInv, CreationTypeOK, RowStates
  <2>5. OneMeetingPerCode'
    BY <2>1, <2>3, NoneIsNothing
       DEF DbInv, CreationTypeOK, OneMeetingPerCode, Exists, Taken
  <2>6. ASSUME NEW n \in Meetings
        PROVE  /\ Exists(n)' => host'[n] \in Users /\ status'[n][host'[n]] # "none"
               /\ ~Exists(n)' => \A v \in Users : status'[n][v] = "none"
    <3>1. CASE n = m
      BY <2>1, <2>3, <3>1, NoneIsNothing DEF DbInv, CreationTypeOK, Exists
    <3>2. CASE n # m
      BY <2>3, <3>2 DEF DbInv, CreationTypeOK, MeetingsHaveHosts, Exists
    <3> QED
      BY <3>1, <3>2
  <2> QED
    BY <2>4, <2>5, <2>6 DEF DbInv, MeetingsHaveHosts
<1> QED
  BY <1>1, <1>2

-----------------------------------------------------------------------------
(* What the other requests do.                                             *)

LEMMA CreateMeetingsInv ==
  ASSUME DbInv, NEW s \in Slots, NEW u \in Users, CreateMeetings(s, u)
  PROVE  DbInv'
<1>1. [pc |-> "DrawCode", by |-> u, code |-> None, left |-> MaxAttempts]
        \in Request
  BY CreationAssumption DEF Request
<1> QED
  BY <1>1, ReadsOnly DEF CreateMeetings

LEMMA OneStepInv ==
  ASSUME DbInv, OneStepRequest
  PROVE  DbInv'
<1>1. ASSUME NEW m \in Meetings, DeleteMeeting(m)
      PROVE  DbInv'
  <2>1. /\ code' = [code EXCEPT ![m] = None]
        /\ host' = [host EXCEPT ![m] = None]
        /\ status' = [status EXCEPT ![m] = [u \in Users |-> "none"]]
        /\ breakout' = [breakout EXCEPT ![m] = [u \in Users |-> None]]
        /\ req' = req
    BY <1>1 DEF DeleteMeeting
  <2>2. CreationTypeOK'
    BY <2>1 DEF DbInv, CreationTypeOK, RowStates
  <2>3. OneMeetingPerCode'
    BY <2>1 DEF DbInv, CreationTypeOK, OneMeetingPerCode, Exists
  <2>4. MeetingsHaveHosts'
    BY <2>1 DEF DbInv, CreationTypeOK, MeetingsHaveHosts, Exists
  <2> QED
    BY <2>2, <2>3, <2>4 DEF DbInv
<1>2. ASSUME NEW m \in Meetings, EndBreakouts(m)
      PROVE  DbInv'
  BY <1>2
     DEF EndBreakouts, DbInv, CreationTypeOK, OneMeetingPerCode,
         MeetingsHaveHosts, Exists
<1>3. ASSUME NEW m \in Meetings, NEW u \in Users, Participate(m, u)
      PROVE  DbInv'
  <2>1. PICK st \in RowStates \ {"none"} :
          status' = [status EXCEPT ![m][u] = st]
    BY <1>3 DEF Participate
  <2>2. code[m] # None /\ UNCHANGED <<code, host, breakout, req>>
    BY <1>3 DEF Participate, Exists
  <2>3. CreationTypeOK'
    BY <2>1, <2>2 DEF DbInv, CreationTypeOK
  <2>4. MeetingsHaveHosts'
    BY <2>1, <2>2 DEF DbInv, CreationTypeOK, MeetingsHaveHosts, Exists
  <2> QED
    BY <2>2, <2>3, <2>4 DEF DbInv, OneMeetingPerCode, Exists
<1>4. ASSUME NEW m \in Meetings, NEW u \in Users, NEW b \in Breakouts,
             AssignBreakout(m, u, b)
      PROVE  DbInv'
  BY <1>4
     DEF AssignBreakout, DbInv, CreationTypeOK, OneMeetingPerCode,
         MeetingsHaveHosts, Exists
<1> QED
  BY <1>1, <1>2, <1>3, <1>4 DEF OneStepRequest

-----------------------------------------------------------------------------
(* The process and its sessions.                                           *)

\* Inductive: a session has its rooms, and the one it asks for, from rows its
\* user had; a session that is none has neither.
SessionRight(k) ==
  /\ session[k] # "none" => user[k] \in Users
  /\ session[k] = "none" => rooms[k] = {} /\ asks[k] = None
  /\ \A r \in rooms[k] : <<user[k], r>> \in been
  /\ asks[k] # None => <<user[k], asks[k]>> \in been

ServerInv ==
  /\ TypeOK
  /\ OneMeetingPerCode
  /\ MeetingsHaveHosts
  /\ \A k \in Sessions : SessionRight(k)
  /\ Allowed \subseteq been

SocketType ==
  /\ session \in [Sessions -> {"none", "live", "dropped"}]
  /\ user \in [Sessions -> Users \cup {None}]
  /\ rooms \in [Sessions -> SUBSET Rooms]
  /\ asks \in [Sessions -> Rooms \cup {None}]

LEMMA BeenGrows ==
  ASSUME TypeOK, been' = been \cup Allowed'
  PROVE  /\ been \subseteq been'
         /\ been' \subseteq Users \X Rooms
         /\ (Allowed \subseteq been)'
  BY DEF TypeOK, Allowed

\* What users were allowed stays in been.
LEMMA SessionsUnchanged ==
  ASSUME TypeOK, \A k \in Sessions : SessionRight(k),
         been \subseteq been', UNCHANGED socketVars
  PROVE  SocketType' /\ \A k \in Sessions : SessionRight(k)'
  BY DEF TypeOK, SocketType, SessionRight, socketVars

LEMMA SessionsForgotten ==
  ASSUME ForgetSessions
  PROVE  SocketType' /\ \A k \in Sessions : SessionRight(k)'
  BY DEF ForgetSessions, SocketType, SessionRight

LEMMA SocketStepInv ==
  ASSUME TypeOK, \A k \in Sessions : SessionRight(k), Allowed \subseteq been,
         been \subseteq been', SocketStep
  PROVE  SocketType' /\ \A k \in Sessions : SessionRight(k)'
<1>1. ASSUME NEW k \in Sessions, NEW u \in Users, Connect(k, u)
      PROVE  SocketType' /\ \A l \in Sessions : SessionRight(l)'
  BY <1>1 DEF Connect, TypeOK, SocketType, SessionRight
<1>2. ASSUME NEW k \in Sessions, NEW r \in Rooms, FindParticipant(k, r)
      PROVE  SocketType' /\ \A l \in Sessions : SessionRight(l)'
  <2>1. <<user[k], r>> \in been
    BY <1>2 DEF FindParticipant, SessionRight, Allowed
  <2> QED
    BY <1>2, <2>1 DEF FindParticipant, TypeOK, SocketType, SessionRight
<1>3. ASSUME NEW k \in Sessions, EnterRoom(k)
      PROVE  SocketType' /\ \A l \in Sessions : SessionRight(l)'
  BY <1>3 DEF EnterRoom, TypeOK, SocketType, SessionRight
<1>4. ASSUME NEW k \in Sessions, Drop(k) \/ Recover(k) \/ Forget(k)
      PROVE  SocketType' /\ \A l \in Sessions : SessionRight(l)'
  BY <1>4 DEF Drop, Recover, Forget, TypeOK, SocketType, SessionRight
<1> QED
  BY <1>1, <1>2, <1>3, <1>4 DEF SocketStep

\* All requests of a process end with it.
LEMMA ProcessEnds ==
  ASSUME DbInv, UNCHANGED dbVars, req' = [s \in Slots |-> Idle]
  PROVE  DbInv' /\ \A s \in Slots : req'[s] = Idle
<1>1. UNCHANGED <<code, host, status, breakout>>
  BY DEF dbVars
<1> QED
  BY <1>1, IdleIsNoRequest
     DEF DbInv, CreationTypeOK, OneMeetingPerCode, MeetingsHaveHosts, Exists

LEMMA DbUnchanged ==
  ASSUME DbInv, UNCHANGED <<dbVars, req>>
  PROVE  DbInv'
  BY DEF dbVars, DbInv, CreationTypeOK, OneMeetingPerCode, MeetingsHaveHosts,
         Exists

LEMMA ServerInit == Init => ServerInv
<1> SUFFICES ASSUME Init PROVE ServerInv
  OBVIOUS
<1>1. TypeOK
  BY IdleIsNoRequest
     DEF Init, CreationInit, TypeOK, CreationTypeOK, RowStates
<1>2. Allowed = {}
  BY DEF Init, CreationInit, Allowed, MayEnter
<1> QED
  BY <1>1, <1>2
     DEF Init, CreationInit, ServerInv, OneMeetingPerCode, MeetingsHaveHosts,
         Exists, SessionRight

LEMMA ServerNext == ServerInv /\ [Next]_vars => ServerInv'
<1> SUFFICES ASSUME ServerInv, [Next]_vars PROVE ServerInv'
  OBVIOUS
<1>1. DbInv
  BY DEF ServerInv, DbInv, TypeOK
<1>2. CASE UNCHANGED vars
  BY <1>2
     DEF vars, dbVars, processVars, socketVars, ServerInv, TypeOK,
         CreationTypeOK, OneMeetingPerCode, MeetingsHaveHosts, Exists,
         SessionRight, Allowed, MayEnter
<1>3. CASE Next
  <2>1. /\ been \subseteq been' /\ been' \subseteq Users \X Rooms
        /\ (Allowed \subseteq been)'
    BY <1>3, BeenGrows DEF Next, ServerInv
  <2>2. SUFFICES /\ DbInv'
                 /\ SocketType' /\ \A k \in Sessions : SessionRight(k)'
                 /\ phase' \in {"up", "closing", "disconnecting", "down"}
                 /\ exit' \in {"none", "ok", "error", "killed"}
                 /\ conn' \subseteq Slots
    BY <2>1 DEF ServerInv, TypeOK, SocketType, DbInv
  <2>3. CASE Serve
    <3>1. CASE Receive /\ UNCHANGED <<phase, exit, socketVars>>
      <4>1. conn' \subseteq Slots
        BY <3>1 DEF Receive, ServerInv, TypeOK
      <4>2. DbInv'
        BY <1>1, <3>1, CreateMeetingsInv, OneStepInv DEF Receive
      <4> QED
        BY <2>1, <3>1, <4>1, <4>2, SessionsUnchanged DEF ServerInv, TypeOK
    <3>2. ASSUME NEW s \in Slots,
                 Continue(s) \/ Abort(s), UNCHANGED <<processVars, socketVars>>
          PROVE  /\ DbInv'
                 /\ SocketType' /\ \A k \in Sessions : SessionRight(k)'
                 /\ UNCHANGED <<phase, exit, conn>>
      BY <1>1, <2>1, <3>2, DrawCodeInv, CreateMeetingInv, RefuseInv,
         SessionsUnchanged
         DEF Continue, Abort, ServerInv, processVars
    <3>3. CASE phase = "up" /\ SocketStep
               /\ UNCHANGED <<dbVars, req, processVars>>
      BY <1>1, <2>1, <3>3, DbUnchanged, SocketStepInv
         DEF ServerInv, TypeOK, processVars
    <3> QED
      BY <2>3, <3>1, <3>2, <3>3 DEF Serve, ServerInv, TypeOK
  <2>4. CASE Start
    BY <1>1, <2>1, <2>4, DbUnchanged, SessionsUnchanged
       DEF Start, ServerInv, TypeOK
  <2>5. CASE Shutdown
    BY <1>1, <2>5, DbUnchanged, SessionsForgotten DEF Shutdown, ServerInv, TypeOK
  <2>6. CASE Close
    BY <1>1, <2>1, <2>6, DbUnchanged, SessionsUnchanged
       DEF Close, ServerInv, TypeOK
  <2>7. CASE Disconnect
    BY <1>1, <2>1, <2>7, ProcessEnds, SessionsUnchanged
       DEF Disconnect, ServerInv, TypeOK
  <2>8. CASE Kill
    BY <1>1, <2>8, ProcessEnds, SessionsForgotten DEF Kill
  <2>9. ASSUME NEW s \in Slots, HangUp(s)
        PROVE  /\ DbInv'
               /\ SocketType' /\ \A k \in Sessions : SessionRight(k)'
               /\ UNCHANGED <<phase, exit>> /\ conn' \subseteq Slots
    BY <1>1, <2>1, <2>9, DbUnchanged, SessionsUnchanged
       DEF HangUp, ServerInv, TypeOK
  <2> QED
    BY <1>3, <2>3, <2>4, <2>5, <2>6, <2>7, <2>8, <2>9
       DEF Next, ServerInv, TypeOK
<1> QED
  BY <1>2, <1>3

-----------------------------------------------------------------------------
(* The theorems.                                                           *)

\* The inductive invariant, types included.
THEOREM ServerCorrect == Spec => []ServerInv
  BY ServerInit, ServerNext, PTL DEF Spec

\* A join code leads to one meeting, whatever creations have found free.
THEOREM CodesAreUnique == Spec => []OneMeetingPerCode
<1>1. ServerInv => OneMeetingPerCode
  BY DEF ServerInv
<1> QED
  BY <1>1, ServerCorrect, PTL

\* Meetings have their hosts and rows their meetings, in spite of crashes.
THEOREM HostsCreated == Spec => []MeetingsHaveHosts
<1>1. ServerInv => MeetingsHaveHosts
  BY DEF ServerInv
<1> QED
  BY <1>1, ServerCorrect, PTL

\* Sessions are in rooms only that their users were allowed into.
THEOREM RoomsAreEarned == Spec => []RoomsEarned
<1>1. ServerInv => RoomsEarned
  BY DEF ServerInv, SessionRight, RoomsEarned
<1> QED
  BY <1>1, ServerCorrect, PTL
=============================================================================
