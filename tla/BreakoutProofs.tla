--------------------------- MODULE BreakoutProofs ---------------------------
(***************************************************************************)
(* Proofs about Breakout, for any users, rooms, requested lists and        *)
(* requests in flight: types, and assignments lead to rooms that are; and  *)
(* about the history of module MCBreakout: as long as no requests have     *)
(* overlapped or died assignments lead into open rooms, everybody found is *)
(* placed, and those on no list are spread evenly.                         *)
(***************************************************************************)
EXTENDS MCBreakout, FiniteSetTheorems, TLAPS

\* A request for rooms has rooms.
HasRooms(q) == q.pc \in {"Rooms", "Assign"} => Len(q.rooms) > 0

Inv ==
  /\ TypeOK
  /\ AssignmentsHaveRooms
  /\ \A s \in Slots : HasRooms(req[s])

LEMMA IdleIsNoRequest == Idle.pc = "idle" /\ Idle \notin Requests
  BY DEF Idle, Requests

\* A request goes on to q, the rows as typed; Present and rooms stay.
LEMMA StepInv ==
  ASSUME Inv, NEW s \in Slots, NEW q \in Requests \cup {Idle}, HasRooms(q),
         Become(s, q), UNCHANGED stage,
         room' \in [RoomIds -> RoomStates],
         \A r \in RoomIds : room[r] # "none" => room'[r] # "none",
         assigned' \in Assignments,
         \A u \in Users :
           \/ assigned'[u] \in {assigned[u], NoRoom}
           \/ u \in Present /\ room[assigned'[u]] # "none"
  PROVE  Inv'
<1>1. /\ req' \in [Slots -> Requests \cup {Idle}]
      /\ \A t \in Slots : req'[t] \in {req[t], q}
  BY DEF Inv, TypeOK, Become
<1>2. TypeOK'
  BY <1>1 DEF Inv, TypeOK
<1>3. Present' = Present
  BY DEF Present
<1>4. ASSUME NEW u \in Users, assigned'[u] # NoRoom
      PROVE  u \in Present /\ room'[assigned'[u]] # "none"
  BY <1>4 DEF Inv, TypeOK, AssignmentsHaveRooms, Assignments
<1>5. \A t \in Slots : HasRooms(req[t])'
  BY <1>1 DEF Inv, HasRooms
<1> QED
  BY <1>2, <1>3, <1>4, <1>5 DEF Inv, AssignmentsHaveRooms

LEMMA ReadInv ==
  ASSUME Inv, NEW s \in Slots, NEW q \in Requests \cup {Idle}, HasRooms(q),
         Become(s, q), ReadOnly
  PROVE  Inv'
<1>1. UNCHANGED <<stage, room, assigned>>
  BY DEF ReadOnly
<1> QED
  BY <1>1, StepInv DEF Inv, TypeOK

LEMMA IdleHasRooms == HasRooms(Idle)
  BY IdleIsNoRequest DEF HasRooms

-----------------------------------------------------------------------------
(* createBreakoutRooms                                                     *)

LEMMA AskedLists == Asked \subseteq Seq(SUBSET Users) \ {<<>>}
<1>1. {} \in SUBSET Users
  OBVIOUS
<1>2. TwoRooms \in Seq(SUBSET Users) /\ Len(TwoRooms) = 2
  BY <1>1 DEF TwoRooms
<1>3. TwoRooms # <<>>
  BY <1>2
<1> QED
  BY <1>2, <1>3, BreakoutAssumption DEF Asked

LEMMA CreateInv ==
  ASSUME Inv, NEW s \in Slots, NEW lists \in Asked,
         CreateBreakoutRooms(s, lists)
  PROVE  Inv'
<1>1. Len(lists) \in Nat /\ Len(lists) > 0
  BY AskedLists
<1>2. PICK ids \in FreshIds(Len(lists)) :
        Become(s, [pc |-> "Rooms", lists |-> lists, pool |-> Pool,
                   rooms |-> ids, todo |-> Range(ids)])
  BY DEF CreateBreakoutRooms
<1> DEFINE q == [pc |-> "Rooms", lists |-> lists, pool |-> Pool,
                 rooms |-> ids, todo |-> Range(ids)]
<1>3. ids \in [1..Len(lists) -> RoomIds]
  BY DEF FreshIds
<1>4. ids \in Seq(RoomIds) /\ Len(ids) > 0 /\ Range(ids) \subseteq RoomIds
  BY <1>1, <1>3 DEF Range
<1>5. Pool \in SUBSET Users
  BY DEF Pool
<1>6. q \in Requests /\ HasRooms(q)
  BY <1>4, <1>5 DEF Requests, HasRooms
<1> QED
  BY <1>2, <1>6, ReadInv DEF CreateBreakoutRooms

\* Whatever order the participants are found in, each is planned into one of
\* the rooms.
LEMMA PlansType ==
  ASSUME NEW q \in Requests, q.pc = "Rooms", HasRooms(q), NEW plan \in Plans(q)
  PROVE  plan \subseteq Users \X RoomIds
<1>1. /\ q.rooms \in Seq(RoomIds) /\ Len(q.rooms) \in Nat /\ Len(q.rooms) > 0
      /\ q.pool \subseteq Users
  BY DEF Requests, HasRooms
<1>2. Range(q.rooms) \subseteq RoomIds
  BY <1>1 DEF Range
<1>3. PICK order \in SetToSeqs(Unlisted(q)) :
        plan = Listed(q) \cup RoundRobin(order, q.rooms)
  BY DEF Plans
<1>4. Listed(q) \subseteq Users \X RoomIds
  BY <1>1, <1>2 DEF Listed
<1>5. /\ DOMAIN order = 1..Cardinality(Unlisted(q))
      /\ \A k \in DOMAIN order : order[k] \in Users
  BY <1>1, <1>3 DEF SetToSeqs, Unlisted
<1>6. ASSUME NEW k \in DOMAIN order
      PROVE  q.rooms[((k - 1) % Len(q.rooms)) + 1] \in RoomIds
  <2>1. k \in Int
    BY <1>5
  <2>2. ((k - 1) % Len(q.rooms)) \in 0..(Len(q.rooms) - 1)
    BY <1>1, <2>1
  <2>3. ((k - 1) % Len(q.rooms)) + 1 \in 1..Len(q.rooms)
    BY <1>1, <2>2
  <2> QED
    BY <1>1, <2>3
<1>7. RoundRobin(order, q.rooms) \subseteq Users \X RoomIds
  BY <1>5, <1>6 DEF RoundRobin
<1> QED
  BY <1>3, <1>4, <1>7

LEMMA CreateRoomInv ==
  ASSUME Inv, NEW s \in Slots, NEW r \in RoomIds, CreateRoom(s, r)
  PROVE  Inv'
<1> PICK q \in Requests : q = req[s]
  BY IdleIsNoRequest DEF CreateRoom, Inv, TypeOK
<1> DEFINE left == q.todo \ {r}
<1>1. /\ q.pc = "Rooms" /\ HasRooms(q) /\ q.todo \subseteq RoomIds
      /\ UNCHANGED <<stage, assigned>>
      /\ room' = [room EXCEPT ![r] = "open"]
  BY DEF CreateRoom, Inv, Requests
<1>2. /\ room' \in [RoomIds -> RoomStates]
      /\ \A p \in RoomIds : room[p] # "none" => room'[p] # "none"
  BY <1>1 DEF Inv, TypeOK, RoomStates
<1>3. ASSUME NEW next \in Requests \cup {Idle}, HasRooms(next), Become(s, next)
      PROVE  Inv'
  BY <1>1, <1>2, <1>3, StepInv DEF Inv, TypeOK
<1>4. CASE Become(s, [q EXCEPT !.todo = left])
  <2>1. [q EXCEPT !.todo = left] \in Requests /\ HasRooms([q EXCEPT !.todo = left])
    BY <1>1 DEF Requests, HasRooms
  <2> QED
    BY <1>3, <1>4, <2>1
<1>5. ASSUME NEW plan \in Plans(q),
             Become(s, [q EXCEPT !.pc = "Assign", !.todo = plan])
      PROVE  Inv'
  <2>1. plan \subseteq Users \X RoomIds
    BY <1>1, PlansType
  <2>2. /\ [q EXCEPT !.pc = "Assign", !.todo = plan] \in Requests
        /\ HasRooms([q EXCEPT !.pc = "Assign", !.todo = plan])
    BY <1>1, <2>1 DEF Requests, HasRooms
  <2> QED
    BY <1>3, <1>5, <2>2
<1> QED
  BY <1>4, <1>5 DEF CreateRoom

LEMMA AssignRoomInv ==
  ASSUME Inv, NEW s \in Slots, NEW u \in Users, NEW r \in RoomIds,
         AssignRoom(s, u, r)
  PROVE  Inv'
<1> PICK q \in Requests : q = req[s]
  BY IdleIsNoRequest DEF AssignRoom, Inv, TypeOK
<1> DEFINE left == q.todo \ {<<u, r>>}
<1>1. /\ q.pc = "Assign" /\ HasRooms(q) /\ q.todo \subseteq Users \X RoomIds
      /\ UNCHANGED <<stage, room>>
  BY DEF AssignRoom, Inv, Requests
<1>2. /\ assigned' \in Assignments
      /\ \A v \in Users :
           \/ assigned'[v] = assigned[v]
           \/ v \in Present /\ room[assigned'[v]] # "none"
  BY DEF AssignRoom, Inv, TypeOK, Assignments
<1>3. PICK next \in {Idle, [q EXCEPT !.todo = left]} : Become(s, next)
  BY DEF AssignRoom
<1>4. next \in Requests \cup {Idle} /\ HasRooms(next)
  BY <1>1, <1>3, IdleHasRooms DEF Requests, HasRooms
<1> QED
  BY <1>1, <1>2, <1>3, <1>4, StepInv DEF Inv, TypeOK

-----------------------------------------------------------------------------
(* The other requests, and the meeting.                                    *)

LEMMA EndInv ==
  ASSUME Inv, NEW s \in Slots, EndAllBreakoutRooms(s) \/ Unassign(s)
  PROVE  Inv'
<1>1. CASE EndAllBreakoutRooms(s)
  <2>1. /\ [pc |-> "Unassign"] \in Requests /\ HasRooms([pc |-> "Unassign"])
    BY DEF Requests, HasRooms
  <2>2. /\ Become(s, [pc |-> "Unassign"])
        /\ UNCHANGED <<stage, assigned>>
        /\ room' \in [RoomIds -> RoomStates]
        /\ \A r \in RoomIds : room[r] # "none" => room'[r] # "none"
    BY <1>1 DEF EndAllBreakoutRooms, RoomStates
  <2> QED
    BY <2>1, <2>2, StepInv DEF Inv, TypeOK
<1>2. CASE Unassign(s)
  <2>1. /\ Become(s, Idle) /\ UNCHANGED <<stage, room>>
        /\ assigned' \in Assignments
        /\ \A u \in Users : assigned'[u] = NoRoom
    BY <1>2 DEF Unassign, Nowhere, Assignments
  <2> QED
    BY <2>1, IdleHasRooms, StepInv DEF Inv, TypeOK
<1> QED
  BY <1>1, <1>2

LEMMA StopInv ==
  ASSUME Inv, NEW s \in Slots,
         RoomsRefused(s) \/ Abort(s)
  PROVE  Inv'
  BY IdleHasRooms, ReadInv DEF RoomsRefused, Abort

LEMMA MeetingInv ==
  ASSUME Inv, \/ Change /\ UNCHANGED breakoutVars
              \/ \E s \in Slots : DeleteMeeting(s)
  PROVE  Inv'
<1>1. CASE Change /\ UNCHANGED breakoutVars
  BY <1>1 DEF Change, breakoutVars, Inv, TypeOK, AssignmentsHaveRooms, HasRooms
<1>2. ASSUME NEW s \in Slots, DeleteMeeting(s)
      PROVE  Inv'
  <2>1. /\ stage' = [u \in Users |-> "none"]
        /\ room' = [r \in RoomIds |-> "none"]
        /\ assigned' = [u \in Users |-> NoRoom]
        /\ UNCHANGED req
    BY <1>2 DEF DeleteMeeting, Erase, Nowhere
  <2> QED
    BY <2>1
       DEF Inv, TypeOK, Stages, RoomStates, Assignments, AssignmentsHaveRooms,
           HasRooms
<1> QED
  BY <1>1, <1>2

-----------------------------------------------------------------------------
(* The theorems.                                                           *)

LEMMA BreakoutInit == Init => Inv
  BY BreakoutAssumption, IdleHasRooms
     DEF Init, Founded, Nowhere, Inv, TypeOK, Stages, RoomStates, Assignments,
         AssignmentsHaveRooms

LEMMA BreakoutNext == Inv /\ [Next]_vars => Inv'
<1> SUFFICES ASSUME Inv, [Next]_vars PROVE Inv'
  OBVIOUS
<1>1. ASSUME NEW s \in Slots, Continue(s) PROVE Inv'
  BY <1>1, CreateRoomInv, AssignRoomInv, EndInv, StopInv DEF Continue
<1>2. CASE UNCHANGED vars
  BY <1>2 DEF vars, Inv, TypeOK, AssignmentsHaveRooms, HasRooms, Present
<1> QED
  BY <1>1, <1>2, CreateInv, EndInv, StopInv, MeetingInv DEF Next

\* Types, assignments and the rooms of requests in flight.
THEOREM BreakoutCorrect == Spec => []Inv
  BY BreakoutInit, BreakoutNext, PTL DEF Spec

\* Nobody is assigned to a room that is gone, whatever a request still assigns
\* when the meeting is deleted.
THEOREM RoomsStay == Spec => []AssignmentsHaveRooms
<1>1. Inv => AssignmentsHaveRooms
  BY DEF Inv
<1> QED
  BY <1>1, BreakoutCorrect, PTL
-----------------------------------------------------------------------------
(* Taking turns: RoundRobin, whatever order the participants come in.      *)

\* Who is taken k-th goes to room Turn(k, n) of n.
Turn(k, n) == ((k - 1) % n) + 1

LEMMA Remainder ==
  ASSUME NEW n \in Nat \ {0}, NEW d \in Nat, NEW r \in 0..(n - 1)
  PROVE  (n * d + r) % n = r
  OBVIOUS

LEMMA TurnType ==
  ASSUME NEW n \in Nat \ {0}, NEW k \in Nat \ {0}
  PROVE  Turn(k, n) \in 1..n
  BY DEF Turn

\* Of m turns over n rooms, room i gets at most one more than room j: each of
\* its turns after the first follows a turn of j in the round before.
LEMMA TurnsEven ==
  ASSUME NEW n \in Nat \ {0}, NEW m \in Nat, NEW i \in 1..n, NEW j \in 1..n
  PROVE  Cardinality({k \in 1..m : Turn(k, n) = i})
           <= Cardinality({k \in 1..m : Turn(k, n) = j}) + 1
<1> DEFINE A == {k \in 1..m : Turn(k, n) = i}
           B == {k \in 1..m : Turn(k, n) = j}
           f == [k \in A \ {i} |-> (k - n) + (j - i)]
<1>1. IsFiniteSet(A) /\ IsFiniteSet(B)
  <2>1. IsFiniteSet(1..m) /\ A \in SUBSET (1..m) /\ B \in SUBSET (1..m)
    BY FS_Interval
  <2> HIDE DEF A, B
  <2> QED
    BY <2>1, FS_Subset
<1>2. ASSUME NEW k \in A \ {i}
      PROVE  f[k] \in B
  <2> DEFINE d == (k - 1) \div n
             e == d - 1
  <2>1. /\ k \in 1..m /\ k - 1 \in Nat /\ d \in Nat
        /\ k - 1 = n * d + (i - 1)
    BY DEF Turn
  <2>2. CASE d = 0
    BY <2>1, <2>2
  <2>3. CASE d # 0
    <3>1. e \in Nat /\ n * d = n * e + n
      BY <2>1, <2>3
    <3>2. n * e \in Nat
      BY <3>1
    <3>3. f[k] = n * e + (j - 1) + 1
      BY <2>1, <3>1, <3>2
    <3>4. f[k] \in 1..m
      BY <2>1, <3>1, <3>2, <3>3
    <3>5. (n * e + (j - 1)) % n = j - 1
      <4>1. j - 1 \in 0..(n - 1)
        OBVIOUS
      <4> QED
        BY <3>1, <4>1, Remainder
    <3>6. f[k] - 1 = n * e + (j - 1)
      BY <3>2, <3>3
    <3> QED
      BY <3>4, <3>5, <3>6 DEF Turn
  <2> QED
    BY <2>2, <2>3
<1>3. f \in Injection(A \ {i}, B)
  <2>1. f \in [A \ {i} -> B]
    BY <1>2
  <2>2. \A a, b \in A \ {i} : f[a] = f[b] => a = b
    OBVIOUS
  <2> HIDE DEF f
  <2>3. DOMAIN f = A \ {i}
    BY <2>1
  <2> HIDE DEF A, B
  <2> QED
    BY <2>1, <2>2, <2>3 DEF Injection, IsInjective
<1>4. Cardinality(A \ {i}) <= Cardinality(B)
  <2> HIDE DEF A, B, f
  <2> QED
    BY <1>1, <1>3, FS_Injection
<1>5. Cardinality(A) <= Cardinality(B) + 1
  <2> HIDE DEF A, B
  <2>1. Cardinality(A) \in Nat /\ Cardinality(B) \in Nat
    BY <1>1, FS_CardinalityType
  <2>2. Cardinality(A \ {i}) \in {Cardinality(A) - 1, Cardinality(A)}
    BY <1>1, FS_RemoveElement
  <2> QED
    BY <1>4, <2>1, <2>2
<1> QED
  BY <1>5

\* An order of a finite set takes each of its elements once.
LEMMA OrderOf ==
  ASSUME NEW S, IsFiniteSet(S), NEW order \in SetToSeqs(S)
  PROVE  /\ Cardinality(S) \in Nat
         /\ order \in [1..Cardinality(S) -> S]
         /\ \A k, l \in 1..Cardinality(S) : order[k] = order[l] => k = l
         /\ \A x \in S : \E k \in 1..Cardinality(S) : order[k] = x
<1>1. Cardinality(S) \in Nat
  BY FS_CardinalityType
<1>2. /\ order \in [1..Cardinality(S) -> S]
      /\ \A k, l \in 1..Cardinality(S) : order[k] = order[l] => k = l
  BY DEF SetToSeqs
<1>3. order \in Injection(1..Cardinality(S), S)
  BY <1>2 DEF Injection, IsInjective
<1>4. Cardinality(1..Cardinality(S)) = Cardinality(S)
  BY <1>1, FS_Interval
<1>5. order \in Surjection(1..Cardinality(S), S)
  BY <1>3, <1>4, FS_Injection
<1> QED
  BY <1>1, <1>2, <1>5 DEF Surjection

\* As many are taken as the turns that take them.
LEMMA TakenOnce ==
  ASSUME NEW S, IsFiniteSet(S), NEW order \in SetToSeqs(S),
         NEW K \in SUBSET (1..Cardinality(S))
  PROVE  Cardinality({order[k] : k \in K}) = Cardinality(K)
<1> DEFINE T == {order[k] : k \in K}
           f == [k \in K |-> order[k]]
<1>1. \A k, l \in K : order[k] = order[l] => k = l
  BY OrderOf
<1>2. f \in [K -> T] /\ \A k \in K : f[k] = order[k]
  OBVIOUS
<1>3. IsFiniteSet(K)
  <2>1. IsFiniteSet(1..Cardinality(S))
    BY OrderOf, FS_Interval
  <2> QED
    BY <2>1, FS_Subset
<1>4. f \in Bijection(K, T)
  <2>1. \A x \in T : \E k \in K : f[k] = x
    OBVIOUS
  <2>2. \A a, b \in K : f[a] = f[b] => a = b
    BY <1>1, <1>2
  <2> HIDE DEF f, T
  <2> QED
    BY <1>2, <2>1, <2>2 DEF Bijection, Injection, Surjection, IsInjective
<1> QED
  BY <1>3, <1>4, FS_Bijection DEF ExistsBijection

-----------------------------------------------------------------------------
(* What createBreakoutRooms plans, for everybody that it has found.        *)

Plan(q, order) == Listed(q) \cup RoundRobin(order, q.rooms)

HasLists(q) ==
  /\ q.lists \in Seq(SUBSET Users) /\ q.pool \in SUBSET Users
  /\ q.rooms \in Seq(RoomIds) /\ Len(q.rooms) \in Nat \ {0}
  /\ DOMAIN q.rooms = DOMAIN q.lists
  /\ IsInjective(q.rooms)

LEMMA UnlistedFinite ==
  ASSUME NEW q, HasLists(q)
  PROVE  Unlisted(q) \subseteq Users /\ IsFiniteSet(Unlisted(q))
<1>1. Unlisted(q) \in SUBSET Users
  BY DEF Unlisted, HasLists
<1> QED
  BY <1>1, BreakoutAssumption, FS_Subset

\* Everybody found is planned into a room, one on whose list the user is if
\* there is any, else the one whose turn it is.
LEMMA PlanPlaces ==
  ASSUME NEW q, HasLists(q), NEW order \in SetToSeqs(Unlisted(q))
  PROVE  /\ \A u \in q.pool : \E r \in RoomIds : <<u, r>> \in Plan(q, order)
         /\ \A u, r : <<u, r>> \in Plan(q, order) =>
              /\ u \in q.pool
              /\ \E i \in DOMAIN q.rooms :
                   /\ r = q.rooms[i]
                   /\ u \in UNION Range(q.lists) => u \in q.lists[i]
         /\ \A k \in 1..Cardinality(Unlisted(q)) : \A r :
              <<order[k], r>> \in Plan(q, order)
                => r = q.rooms[Turn(k, Len(q.rooms))]
<1> DEFINE U == Unlisted(q)
           n == Len(q.rooms)
<1>1. /\ Cardinality(U) \in Nat
      /\ order \in [1..Cardinality(U) -> U]
      /\ \A k, l \in 1..Cardinality(U) : order[k] = order[l] => k = l
      /\ \A x \in U : \E k \in 1..Cardinality(U) : order[k] = x
  BY UnlistedFinite, OrderOf
<1>2. /\ DOMAIN q.rooms = 1..n /\ n \in Nat \ {0}
      /\ \A i \in 1..n : q.rooms[i] \in RoomIds /\ q.lists[i] \in SUBSET Users
      /\ DOMAIN q.lists = 1..n
  BY DEF HasLists
<1>3. \A u, r : <<u, r>> \in RoundRobin(order, q.rooms) <=>
        \E k \in 1..Cardinality(U) : u = order[k] /\ r = q.rooms[Turn(k, n)]
  BY <1>1 DEF RoundRobin, Turn
<1>4. \A u, r : <<u, r>> \in Listed(q) <=>
        /\ u \in q.pool
        /\ \E i \in 1..n : r = q.rooms[i] /\ u \in q.lists[i]
  BY <1>2 DEF Listed, Range
<1>5. ASSUME NEW k \in 1..Cardinality(U)
      PROVE  Turn(k, n) \in 1..n
  <2>1. k \in Nat \ {0} /\ n \in Nat \ {0}
    BY <1>1, <1>2
  <2> QED
    BY <2>1, TurnType
<1>6. \A u : u \in UNION Range(q.lists) <=> \E i \in 1..n : u \in q.lists[i]
  BY <1>2 DEF Range
<1>7. \A u : u \in U <=> u \in q.pool /\ u \notin UNION Range(q.lists)
  BY DEF Unlisted
<1> HIDE DEF U, n
<1>8. ASSUME NEW u \in q.pool
      PROVE  \E r \in RoomIds : <<u, r>> \in Plan(q, order)
  <2>1. CASE u \in U
    <3>1. PICK k \in 1..Cardinality(U) : order[k] = u
      BY <1>1, <2>1
    <3>2. q.rooms[Turn(k, n)] \in RoomIds
      BY <1>2, <1>5
    <3> QED
      BY <1>3, <3>1, <3>2 DEF Plan
  <2>2. CASE u \notin U
    BY <1>2, <1>4, <1>6, <1>7, <2>2 DEF Plan
  <2> QED
    BY <2>1, <2>2
<1>9. ASSUME NEW u, NEW r, <<u, r>> \in Plan(q, order)
      PROVE  /\ u \in q.pool
             /\ \E i \in DOMAIN q.rooms :
                  /\ r = q.rooms[i]
                  /\ u \in UNION Range(q.lists) => u \in q.lists[i]
  <2>1. CASE <<u, r>> \in Listed(q)
    BY <1>2, <1>4, <2>1
  <2>2. CASE <<u, r>> \in RoundRobin(order, q.rooms)
    <3>1. PICK k \in 1..Cardinality(U) : u = order[k] /\ r = q.rooms[Turn(k, n)]
      BY <1>3, <2>2
    <3>2. u \in U /\ Turn(k, n) \in 1..n
      BY <1>1, <1>5, <3>1
    <3> QED
      BY <1>2, <1>7, <3>1, <3>2
  <2> QED
    BY <1>9, <2>1, <2>2 DEF Plan
<1>10. ASSUME NEW k \in 1..Cardinality(U), NEW r,
              <<order[k], r>> \in Plan(q, order)
       PROVE  r = q.rooms[Turn(k, n)]
  <2>1. order[k] \in U
    BY <1>1
  <2>2. <<order[k], r>> \notin Listed(q)
    BY <1>4, <1>6, <1>7, <2>1
  <2>3. PICK l \in 1..Cardinality(U) :
          order[k] = order[l] /\ r = q.rooms[Turn(l, n)]
    BY <1>3, <1>10, <2>2 DEF Plan
  <2> QED
    BY <1>1, <2>3
<1> QED
  BY <1>8, <1>9, <1>10 DEF U, n

Given(q, placed, r) == {u \in Unlisted(q) : placed[u] = r}

\* Whoever is on no list is placed as evenly as the turns are.
LEMMA EvenPlan ==
  ASSUME NEW q, HasLists(q), NEW order \in SetToSeqs(Unlisted(q)),
         NEW placed, \A u \in q.pool : <<u, placed[u]>> \in Plan(q, order),
         NEW r \in Range(q.rooms), NEW t \in Range(q.rooms)
  PROVE  Cardinality(Given(q, placed, r))
           <= Cardinality(Given(q, placed, t)) + 1
<1> DEFINE U == Unlisted(q)
           n == Len(q.rooms)
           m == Cardinality(U)
           K(i) == {k \in 1..m : Turn(k, n) = i}
<1>1. /\ m \in Nat
      /\ order \in [1..m -> U]
      /\ \A x \in U : \E k \in 1..m : order[k] = x
  BY UnlistedFinite, OrderOf
<1>2. DOMAIN q.rooms = 1..n /\ n \in Nat \ {0}
  BY DEF HasLists
<1>3. ASSUME NEW k \in 1..m
      PROVE  Turn(k, n) \in 1..n /\ placed[order[k]] = q.rooms[Turn(k, n)]
  <2>1. <<order[k], placed[order[k]]>> \in Plan(q, order)
    BY <1>1 DEF Unlisted
  <2>2. k \in Nat \ {0} /\ n \in Nat \ {0}
    BY <1>1, <1>2
  <2> QED
    BY <2>1, <2>2, PlanPlaces, TurnType
<1>4. ASSUME NEW i \in 1..n
      PROVE  Cardinality({u \in U : placed[u] = q.rooms[i]}) = Cardinality(K(i))
  <2>1. {u \in U : placed[u] = q.rooms[i]} = {order[k] : k \in K(i)}
    <3>1. \A k \in 1..m : placed[order[k]] = q.rooms[i] <=> k \in K(i)
      BY <1>2, <1>3 DEF HasLists, IsInjective
    <3> QED
      BY <1>1, <3>1
  <2>2. K(i) \in SUBSET (1..m)
    OBVIOUS
  <2>3. Cardinality({order[k] : k \in K(i)}) = Cardinality(K(i))
    <3> HIDE DEF K
    <3> QED
      BY <2>2, UnlistedFinite, TakenOnce
  <2> QED
    BY <2>1, <2>3
<1>5. PICK i \in 1..n, j \in 1..n : r = q.rooms[i] /\ t = q.rooms[j]
  BY <1>2 DEF Range
<1>6. Cardinality(K(i)) <= Cardinality(K(j)) + 1
  BY <1>1, <1>2, TurnsEven
<1> HIDE DEF U, n, m, K
<1>7. /\ Cardinality({u \in U : placed[u] = r}) = Cardinality(K(i))
      /\ Cardinality({u \in U : placed[u] = t}) = Cardinality(K(j))
  BY <1>4, <1>5
<1> QED
  BY <1>6, <1>7 DEF U, Given

-----------------------------------------------------------------------------
(* One request at a time, and none that dies.                              *)

OneRequest == \A s, t \in Slots : s # t => req[s] = Idle \/ req[t] = Idle

Settled == \A u \in Users : assigned[u] # NoRoom => room[assigned[u]] = "open"

\* Everybody is where the plan says, or about to be.
Carried(q, order) ==
  /\ q.todo \subseteq Plan(q, order)
  /\ \A u \in q.pool :
       \/ \E r \in RoomIds : <<u, r>> \in q.todo
       \/ <<u, assigned[u]>> \in Plan(q, order)

RequestRight(q) ==
  /\ q.pc \in {"Rooms", "Assign"} =>
       HasLists(q) /\ (Exists => q.pool \subseteq Present)
  /\ q.pc = "Rooms" => \A r \in Range(q.rooms) \ q.todo : room[r] = "open"
  /\ q.pc = "Assign" =>
       /\ Exists
       /\ \A r \in Range(q.rooms) : room[r] = "open"
       /\ \E order \in SetToSeqs(Unlisted(q)) : Carried(q, order)

Undisturbed ==
  /\ OneRequest
  /\ (\A s \in Slots : req[s].pc # "Unassign") => Settled
  /\ \A s \in Slots : RequestRight(req[s])

\* A deleted meeting has no participants.
DeletedIsEmpty == ~Exists => Present = {}

LEMMA SameLists ==
  ASSUME NEW q, NEW p, p.pool = q.pool, p.rooms = q.rooms, p.lists = q.lists
  PROVE  /\ HasLists(p) <=> HasLists(q)
         /\ Unlisted(p) = Unlisted(q)
  BY DEF HasLists, Unlisted

\* The only request at work goes on to q.
LEMMA OnlyOne ==
  ASSUME TypeOK, OneRequest, OneRequest', NEW s \in Slots, NEW q,
         Become(s, q), req[s] # Idle \/ q # Idle,
         RequestRight(q)', q.pc # "Unassign" => Settled'
  PROVE  Undisturbed'
<1>1. req'[s] = q /\ \A t \in Slots \ {s} : req'[t] = req[t]
  BY DEF Become, TypeOK
<1>2. \A t \in Slots \ {s} : req'[t] = Idle
  BY <1>1 DEF OneRequest
<1>3. RequestRight(Idle)'
  BY IdleIsNoRequest DEF RequestRight
<1>4. \A t \in Slots : RequestRight(req[t])'
  BY <1>1, <1>2, <1>3 DEF RequestRight
<1> QED
  BY <1>1, <1>4 DEF Undisturbed

\* A request finds the others idle, and the rows as they leave them.
LEMMA OthersIdle ==
  ASSUME Undisturbed, OneRequest', TypeOK, NEW s \in Slots, NEW q, Become(s, q),
         req[s] # Idle \/ q # Idle, req[s].pc # "Unassign"
  PROVE  Settled
<1>1. \A t \in Slots \ {s} : req[t] = Idle
  BY DEF Become, TypeOK, Undisturbed, OneRequest
<1> QED
  BY <1>1, IdleIsNoRequest DEF Undisturbed

LEMMA CreateSettles ==
  ASSUME Inv, Undisturbed, OneRequest', NEW s \in Slots, NEW lists \in Asked,
         CreateBreakoutRooms(s, lists)
  PROVE  Undisturbed'
<1> DEFINE n == Len(lists)
<1>1. lists \in Seq(SUBSET Users) /\ n \in Nat /\ n > 0
  BY AskedLists
<1>2. PICK ids \in FreshIds(n) :
        Become(s, [pc |-> "Rooms", lists |-> lists, pool |-> Pool,
                   rooms |-> ids, todo |-> Range(ids)])
  BY DEF CreateBreakoutRooms
<1> PICK pool : pool = Pool
  OBVIOUS
<1> DEFINE q == [pc |-> "Rooms", lists |-> lists, pool |-> pool,
                 rooms |-> ids, todo |-> Range(ids)]
<1>3. /\ req[s] = Idle /\ Become(s, q)
      /\ UNCHANGED <<stage, room, assigned>>
  BY <1>2 DEF CreateBreakoutRooms, ReadOnly
<1>4. ids \in [1..n -> RoomIds] /\ IsInjective(ids)
  BY DEF FreshIds
<1>5. HasLists(q)
  <2>1. ids \in Seq(RoomIds) /\ Len(ids) = n /\ DOMAIN ids = DOMAIN lists
    BY <1>1, <1>4
  <2>2. pool \in SUBSET Users
    BY DEF Pool
  <2> QED
    BY <1>1, <1>4, <2>1, <2>2 DEF HasLists
<1>6. RequestRight(q)'
  <2>1. pool \subseteq Present'
    BY <1>3 DEF Pool, Present
  <2> QED
    BY <1>5, <2>1 DEF RequestRight
<1>7. q # Idle /\ q.pc # "Unassign" /\ req[s].pc # "Unassign"
  BY <1>3 DEF Idle
<1> HIDE DEF q
<1>8. Settled
  BY <1>3, <1>7, OthersIdle DEF Inv
<1>9. Settled'
  BY <1>3, <1>8 DEF Settled
<1> QED
  BY <1>3, <1>6, <1>7, <1>9, OnlyOne DEF Inv, Undisturbed

LEMMA CreateRoomSettles ==
  ASSUME Inv, Undisturbed, OneRequest', NEW s \in Slots, NEW r \in RoomIds,
         CreateRoom(s, r)
  PROVE  Undisturbed'
<1> PICK q \in Requests : q = req[s]
  BY IdleIsNoRequest DEF CreateRoom, Inv, TypeOK
<1> DEFINE left == q.todo \ {r}
<1>1. /\ q.pc = "Rooms" /\ q # Idle /\ q.todo \subseteq RoomIds
      /\ UNCHANGED <<stage, assigned>>
      /\ room' = [room EXCEPT ![r] = "open"]
      /\ Exists /\ Exists' /\ Present' = Present
  BY IdleIsNoRequest DEF CreateRoom, Requests, Exists, Present
<1>2. /\ HasLists(q) /\ q.pool \subseteq Present
      /\ \A p \in Range(q.rooms) \ q.todo : room[p] = "open"
  BY <1>1 DEF Undisturbed, RequestRight
<1>3. Range(q.rooms) \subseteq RoomIds
  BY <1>2 DEF HasLists, Range
<1>4. \A p \in Range(q.rooms) \ left : room'[p] = "open"
  BY <1>1, <1>2, <1>3 DEF Inv, TypeOK
<1>5. ASSUME NEW next, Become(s, next), next.pc # "Unassign"
      PROVE  Settled'
  <2>1. Settled
    BY <1>1, <1>5, OthersIdle DEF Inv
  <2> QED
    BY <1>1, <2>1 DEF Settled, Inv, TypeOK, Assignments
<1>6. CASE Become(s, [q EXCEPT !.todo = left])
  <2> PICK next : next = [q EXCEPT !.todo = left]
    OBVIOUS
  <2>1. /\ next.pc = "Rooms" /\ next.pool = q.pool /\ next.rooms = q.rooms
        /\ next.lists = q.lists /\ next.todo = left
    BY <1>1 DEF Requests
  <2>2. RequestRight(next)'
    BY <1>1, <1>2, <1>4, <2>1, SameLists DEF RequestRight
  <2> QED
    BY <1>1, <1>5, <1>6, <2>1, <2>2, OnlyOne DEF Inv, Undisturbed
<1>7. ASSUME left = {}, NEW plan \in Plans(q),
             Become(s, [q EXCEPT !.pc = "Assign", !.todo = plan])
      PROVE  Undisturbed'
  <2> PICK next : next = [q EXCEPT !.pc = "Assign", !.todo = plan]
    OBVIOUS
  <2>1. /\ next.pc = "Assign" /\ next.pool = q.pool /\ next.rooms = q.rooms
        /\ next.lists = q.lists /\ next.todo = plan
    BY <1>1 DEF Requests
  <2>2. PICK order \in SetToSeqs(Unlisted(q)) : plan = Plan(q, order)
    BY DEF Plans, Plan
  <2>3. Carried(next, order)'
    <3>1. Plan(next, order) = Plan(q, order)
      BY <2>1 DEF Plan, Listed
    <3>2. \A u \in q.pool : \E p \in RoomIds : <<u, p>> \in plan
      BY <1>2, <2>2, PlanPlaces
    <3> QED
      BY <2>1, <2>2, <3>1, <3>2 DEF Carried
  <2>4. Unlisted(next) = Unlisted(q)
    BY <2>1, SameLists
  <2>5. RequestRight(next)'
    BY <1>1, <1>2, <1>4, <1>7, <2>1, <2>3, <2>4, SameLists DEF RequestRight
  <2> QED
    BY <1>1, <1>5, <1>7, <2>1, <2>5, OnlyOne DEF Inv, Undisturbed
<1> QED
  BY <1>6, <1>7 DEF CreateRoom

\* An update brings its user to the room that the plan says.
LEMMA AssignCarries ==
  ASSUME Inv, Undisturbed, NEW s \in Slots, NEW u \in Users, NEW r \in RoomIds,
         AssignRoom(s, u, r)
  PROVE  /\ HasLists(req[s])
         /\ \A p \in Range(req[s].rooms) : room[p] = "open"
         /\ r \in Range(req[s].rooms)
         /\ assigned' = [assigned EXCEPT ![u] = r]
         /\ \E order \in SetToSeqs(Unlisted(req[s])) :
              /\ req[s].todo \subseteq Plan(req[s], order)
              /\ \A v \in req[s].pool :
                   \/ \E p \in RoomIds : <<v, p>> \in req[s].todo \ {<<u, r>>}
                   \/ <<v, assigned'[v]>> \in Plan(req[s], order)
<1> PICK q \in Requests : q = req[s]
  BY IdleIsNoRequest DEF AssignRoom, Inv, TypeOK
<1>1. /\ q.pc = "Assign" /\ <<u, r>> \in q.todo
      /\ UNCHANGED <<stage, room>>
  BY DEF AssignRoom
<1>2. /\ Exists /\ HasLists(q) /\ q.pool \subseteq Present
      /\ \A p \in Range(q.rooms) : room[p] = "open"
  BY <1>1 DEF Undisturbed, RequestRight
<1>3. PICK order \in SetToSeqs(Unlisted(q)) : Carried(q, order)
  BY <1>1 DEF Undisturbed, RequestRight
<1>4. /\ <<u, r>> \in Plan(q, order) /\ q.todo \subseteq Plan(q, order)
      /\ u \in q.pool /\ r \in Range(q.rooms)
  BY <1>1, <1>2, <1>3, PlanPlaces DEF Carried, Range
<1>5. assigned' = [assigned EXCEPT ![u] = r]
  BY <1>2, <1>4 DEF AssignRoom
<1>6. \A v \in q.pool :
        \/ \E p \in RoomIds : <<v, p>> \in q.todo \ {<<u, r>>}
        \/ <<v, assigned'[v]>> \in Plan(q, order)
  <2> SUFFICES ASSUME NEW v \in q.pool
               PROVE  \/ \E p \in RoomIds : <<v, p>> \in q.todo \ {<<u, r>>}
                      \/ <<v, assigned'[v]>> \in Plan(q, order)
    OBVIOUS
  <2>1. v \in Users
    BY <1>2 DEF HasLists
  <2>2. assigned'[u] = r /\ (v # u => assigned'[v] = assigned[v])
    BY <1>5, <2>1 DEF Inv, TypeOK, Assignments
  <2> QED
    BY <1>3, <1>4, <2>2 DEF Carried
<1> QED
  BY <1>2, <1>3, <1>4, <1>5, <1>6

LEMMA AssignSettles ==
  ASSUME Inv, Undisturbed, OneRequest', NEW s \in Slots, NEW u \in Users,
         NEW r \in RoomIds, AssignRoom(s, u, r)
  PROVE  Undisturbed'
<1> PICK q \in Requests : q = req[s]
  BY IdleIsNoRequest DEF AssignRoom, Inv, TypeOK
<1> DEFINE left == q.todo \ {<<u, r>>}
<1>1. /\ q.pc = "Assign" /\ q # Idle
      /\ UNCHANGED <<stage, room>>
      /\ Exists /\ Exists' /\ Present' = Present
      /\ q.pool \subseteq Present
  BY IdleIsNoRequest
     DEF AssignRoom, Undisturbed, RequestRight, Exists, Present
<1>2. /\ HasLists(q)
      /\ \A p \in Range(q.rooms) : room[p] = "open"
      /\ r \in Range(q.rooms)
      /\ assigned' = [assigned EXCEPT ![u] = r]
  BY AssignCarries
<1>3. PICK order \in SetToSeqs(Unlisted(q)) :
        /\ q.todo \subseteq Plan(q, order)
        /\ \A v \in q.pool :
             \/ \E p \in RoomIds : <<v, p>> \in left
             \/ <<v, assigned'[v]>> \in Plan(q, order)
  BY AssignCarries
<1>4. ASSUME NEW next, Become(s, next)
      PROVE  Settled'
  <2>1. Settled
    BY <1>1, <1>4, OthersIdle DEF Inv
  <2> QED
    BY <1>1, <1>2, <2>1 DEF Settled, Inv, TypeOK, Assignments
<1>5. CASE Become(s, Idle)
  <2>1. RequestRight(Idle)'
    BY IdleIsNoRequest DEF RequestRight
  <2> QED
    BY <1>1, <1>4, <1>5, <2>1, OnlyOne DEF Inv, Undisturbed
<1>6. CASE Become(s, [q EXCEPT !.todo = left])
  <2> PICK next : next = [q EXCEPT !.todo = left]
    OBVIOUS
  <2>1. /\ next.pc = "Assign" /\ next.pool = q.pool /\ next.rooms = q.rooms
        /\ next.lists = q.lists /\ next.todo = left
    BY <1>1 DEF Requests
  <2>2. Carried(next, order)'
    <3>1. Plan(next, order) = Plan(q, order)
      BY <2>1 DEF Plan, Listed
    <3> QED
      BY <1>3, <2>1, <3>1 DEF Carried
  <2>3. Unlisted(next) = Unlisted(q)
    BY <2>1, SameLists
  <2>4. RequestRight(next)'
    BY <1>1, <1>2, <2>1, <2>2, <2>3, SameLists DEF RequestRight
  <2> QED
    BY <1>1, <1>4, <1>6, <2>1, <2>4, OnlyOne DEF Inv, Undisturbed
<1> QED
  BY <1>5, <1>6 DEF AssignRoom

LEMMA EndSettles ==
  ASSUME Inv, Undisturbed, OneRequest', NEW s \in Slots,
         EndAllBreakoutRooms(s) \/ Unassign(s) \/ RoomsRefused(s)
  PROVE  Undisturbed'
<1>1. RequestRight(Idle)' /\ Idle.pc # "Unassign"
  BY IdleIsNoRequest DEF RequestRight
<1>2. CASE EndAllBreakoutRooms(s)
  <2> DEFINE q == [pc |-> "Unassign"]
  <2>1. Become(s, q) /\ q # Idle /\ q.pc = "Unassign"
    BY <1>2 DEF EndAllBreakoutRooms, Idle
  <2>2. RequestRight(q)'
    BY DEF RequestRight
  <2> HIDE DEF q
  <2> QED
    BY <2>1, <2>2, OnlyOne DEF Inv, Undisturbed
<1>3. CASE Unassign(s)
  <2>1. Become(s, Idle) /\ req[s] # Idle /\ Settled'
    BY <1>3, IdleIsNoRequest DEF Unassign, Nowhere, Settled
  <2> QED
    BY <1>1, <2>1, OnlyOne DEF Inv, Undisturbed
<1>4. CASE RoomsRefused(s)
  <2>1. /\ Become(s, Idle) /\ req[s] # Idle /\ req[s].pc # "Unassign"
        /\ UNCHANGED <<room, assigned>>
    BY <1>4, IdleIsNoRequest DEF RoomsRefused, ReadOnly
  <2>2. Settled'
    BY <2>1, OthersIdle DEF Inv, Settled
  <2> QED
    BY <1>1, <2>1, <2>2, OnlyOne DEF Inv, Undisturbed
<1> QED
  BY <1>2, <1>3, <1>4

\* The meeting is deleted at a moment that leaves no living request with rooms.
LEMMA MeetingSettles ==
  ASSUME Inv, DeletedIsEmpty, Undisturbed, OneRequest', ~Disturbs,
         \/ Change /\ UNCHANGED breakoutVars
         \/ \E s \in Slots : DeleteMeeting(s)
  PROVE  Undisturbed'
<1>1. CASE Change /\ UNCHANGED breakoutVars
  <2>1. UNCHANGED <<room, assigned, req>> /\ Present \subseteq Present'
    BY <1>1 DEF Change, breakoutVars
  <2>2. Exists /\ Exists'
    BY <1>1, <2>1 DEF Change, DeletedIsEmpty, Exists
  <2>3. ASSUME NEW s \in Slots
        PROVE  RequestRight(req[s])'
    <3>1. RequestRight(req[s])
      BY DEF Undisturbed
    <3> QED
      BY <2>1, <2>2, <3>1 DEF RequestRight, Carried
  <2> QED
    BY <2>1, <2>3 DEF Undisturbed, Settled
<1>2. ASSUME NEW s \in Slots, DeleteMeeting(s)
      PROVE  Undisturbed'
  <2>1. /\ assigned' = [u \in Users |-> NoRoom] /\ req' = req
        /\ Present' = {} /\ room' = [r \in RoomIds |-> "none"]
    BY <1>2 DEF DeleteMeeting, Erase, Nowhere, Present
  <2>2. ASSUME NEW t \in Slots
        PROVE  RequestRight(req[t])'
    <3>1. CASE req[t] = Idle
      BY <2>1, <3>1, IdleIsNoRequest DEF RequestRight
    <3>2. CASE req[t] # Idle
      <4>1. room' = room /\ \A r \in RoomIds : room[r] = "none"
        BY <2>1, <3>2 DEF Disturbs
      <4>2. RequestRight(req[t])
        BY DEF Undisturbed
      <4>3. req[t].pc # "Assign"
        <5> SUFFICES ASSUME req[t].pc = "Assign" PROVE FALSE
          OBVIOUS
        <5>1. /\ HasLists(req[t])
              /\ \A r \in Range(req[t].rooms) : room[r] = "open"
          BY <4>2 DEF RequestRight
        <5>2. req[t].rooms[1] \in RoomIds /\ req[t].rooms[1] \in Range(req[t].rooms)
          BY <5>1 DEF HasLists, Range
        <5> QED
          BY <4>1, <5>1, <5>2
      <4>4. ~Exists'
        BY <2>1 DEF Exists
      <4> QED
        BY <2>1, <4>1, <4>2, <4>3, <4>4 DEF RequestRight
    <3> QED
      BY <3>1, <3>2
  <2> QED
    BY <2>1, <2>2 DEF Undisturbed, Settled
<1> QED
  BY <1>1, <1>2

LEMMA EmptyNext ==
  ASSUME Inv, DeletedIsEmpty, Next
  PROVE  DeletedIsEmpty'
<1>1. CASE Change
  BY <1>1 DEF Change, DeletedIsEmpty, Exists
<1>2. CASE Erase \/ UNCHANGED stage
  BY <1>2 DEF Erase, DeletedIsEmpty, Exists, Present
<1> QED
  BY <1>1, <1>2
     DEF Next, Continue, CreateBreakoutRooms, EndAllBreakoutRooms, DeleteMeeting,
         Abort, CreateRoom, RoomsRefused, AssignRoom, Unassign, ReadOnly

LEMMA SerialNext ==
  ASSUME Inv, DeletedIsEmpty, Undisturbed, ~Disturbs, Next
  PROVE  Undisturbed'
<1>1. OneRequest'
  BY DEF Disturbs, OneRequest
<1>2. ASSUME NEW s \in Slots, Continue(s)
      PROVE  Undisturbed'
  BY <1>1, <1>2, CreateRoomSettles, AssignSettles, EndSettles DEF Continue
<1>3. ASSUME NEW s \in Slots, Abort(s)
      PROVE  Undisturbed'
  BY <1>2, <1>3 DEF Disturbs
<1> QED
  BY <1>1, <1>2, <1>3, CreateSettles, EndSettles, MeetingSettles DEF Next

-----------------------------------------------------------------------------
(* The last update of createBreakoutRooms.                                 *)

LEMMA LastUpdate ==
  ASSUME Inv, Undisturbed, ~Disturbs, Next, NEW s \in Slots, AssignsLast(s)
  PROVE  /\ HasLists(req[s])
         /\ \E order \in SetToSeqs(Unlisted(req[s])) :
              \A u \in req[s].pool : <<u, assigned'[u]>> \in Plan(req[s], order)
<1> PICK q \in Requests : q = req[s]
  BY IdleIsNoRequest DEF AssignsLast, Inv, TypeOK
<1>1. q.pc = "Assign" /\ q # Idle /\ req'[s] = Idle
  BY IdleIsNoRequest DEF AssignsLast
<1>2. ASSUME NEW t \in Slots, NEW p, Become(t, p)
      PROVE  t = s
  BY <1>1, <1>2 DEF Become, Inv, TypeOK
<1>3. Continue(s)
  <2>1. ~(\E lists \in Asked, t \in Slots : CreateBreakoutRooms(t, lists))
    BY <1>1, <1>2 DEF CreateBreakoutRooms
  <2>2. ~(\E t \in Slots : EndAllBreakoutRooms(t))
    BY <1>1, <1>2 DEF EndAllBreakoutRooms
  <2>3. ~((\E t \in Slots : DeleteMeeting(t)) \/ (Change /\ UNCHANGED breakoutVars))
    BY <1>1 DEF DeleteMeeting, breakoutVars
  <2>4. ASSUME NEW t \in Slots, Abort(t) \/ Continue(t)
        PROVE  Continue(s)
    <3>1. Continue(t)
      BY <2>4 DEF Disturbs
    <3>2. \E p : Become(t, p)
      BY <3>1
         DEF Continue, CreateRoom, RoomsRefused, AssignRoom, Unassign
    <3> QED
      BY <1>2, <3>1, <3>2
  <2> QED
    BY <2>1, <2>2, <2>3, <2>4 DEF Next
<1>4. PICK u \in Users, r \in RoomIds : AssignRoom(s, u, r)
  BY <1>1, <1>3 DEF Continue, CreateRoom, RoomsRefused, Unassign
<1>5. q.todo \ {<<u, r>>} = {}
  <2> DEFINE left == q.todo \ {<<u, r>>}
  <2> SUFFICES ASSUME left # {} PROVE FALSE
    OBVIOUS
  <2>1. req'[s] = [q EXCEPT !.todo = left]
    BY <1>4 DEF AssignRoom, Become, Inv, TypeOK
  <2>2. [q EXCEPT !.todo = left].pc = "Assign"
    BY <1>1 DEF Requests
  <2> QED
    BY <1>1, <2>1, <2>2, IdleIsNoRequest
<1> QED
  BY <1>4, <1>5, AssignCarries

LEMMA SerialPlaces ==
  ASSUME Inv, Undisturbed, ~Disturbs, Next
  PROVE  PlacesEverybody /\ SpreadsEvenly
<1> SUFFICES ASSUME NEW s \in Slots, AssignsLast(s)
             PROVE  /\ \A u \in req[s].pool :
                         \E i \in DOMAIN req[s].rooms :
                           /\ assigned'[u] = req[s].rooms[i]
                           /\ u \in UNION Range(req[s].lists)
                                => u \in req[s].lists[i]
                    /\ \A r, t \in Range(req[s].rooms) :
                         Cardinality({u \in Unlisted(req[s]) : assigned'[u] = r})
                           <= Cardinality({u \in Unlisted(req[s]) :
                                             assigned'[u] = t}) + 1
  BY DEF PlacesEverybody, SpreadsEvenly
<1> PICK q, placed : q = req[s] /\ placed = assigned'
  OBVIOUS
<1>1. HasLists(q)
  BY LastUpdate
<1>2. PICK order \in SetToSeqs(Unlisted(q)) :
        \A u \in q.pool : <<u, placed[u]>> \in Plan(q, order)
  BY LastUpdate
<1>3. ASSUME NEW u \in q.pool
      PROVE  \E i \in DOMAIN q.rooms :
               /\ placed[u] = q.rooms[i]
               /\ u \in UNION Range(q.lists) => u \in q.lists[i]
  <2> PICK r : r = placed[u]
    OBVIOUS
  <2>1. <<u, r>> \in Plan(q, order)
    BY <1>2
  <2> QED
    BY <1>1, <2>1, PlanPlaces
<1>4. ASSUME NEW r \in Range(q.rooms), NEW t \in Range(q.rooms)
      PROVE  Cardinality(Given(q, placed, r))
               <= Cardinality(Given(q, placed, t)) + 1
  BY <1>1, <1>2, EvenPlan
<1> QED
  BY <1>3, <1>4 DEF Given

-----------------------------------------------------------------------------
(* The induction over the history of module MCBreakout.                    *)

HistoryInv == Inv /\ DeletedIsEmpty /\ (~disturbed => Undisturbed)

LEMMA HistoryInit == MCInit => HistoryInv
<1> SUFFICES ASSUME MCInit PROVE HistoryInv
  OBVIOUS
<1>1. Inv
  BY BreakoutInit DEF MCInit
<1>2. DeletedIsEmpty
  BY BreakoutAssumption
     DEF MCInit, Init, Founded, DeletedIsEmpty, Exists, Present
<1>3. Undisturbed
  BY IdleIsNoRequest
     DEF MCInit, Init, Nowhere, Undisturbed, OneRequest, Settled, RequestRight
<1> QED
  BY <1>1, <1>2, <1>3 DEF HistoryInv

LEMMA HistoryNext ==
  ASSUME HistoryInv, [MCNext]_<<vars, disturbed>>
  PROVE  /\ HistoryInv'
         /\ [disturbed' \/ PlacesEverybody]_vars
         /\ [disturbed' \/ SpreadsEvenly]_vars
<1>1. CASE MCNext
  BY <1>1, BreakoutNext, EmptyNext, SerialNext, SerialPlaces
     DEF HistoryInv, MCNext
<1>2. CASE UNCHANGED <<vars, disturbed>>
  <2>1. Inv'
    BY <1>2, BreakoutNext DEF HistoryInv
  <2>2. DeletedIsEmpty'
    BY <1>2 DEF HistoryInv, vars, DeletedIsEmpty, Exists, Present
  <2>3. Undisturbed => Undisturbed'
    BY <1>2
       DEF vars, Undisturbed, OneRequest, Settled, RequestRight, Carried, Exists,
           Present
  <2> QED
    BY <1>2, <2>1, <2>2, <2>3 DEF HistoryInv
<1> QED
  BY <1>1, <1>2

\* As long as no requests have overlapped or died every assignment leads into
\* an open room while no request is at work: createBreakoutRooms assigns to the
\* rooms it has created, and endAllBreakoutRooms empties those it has closed of
\* everybody, in the meeting or not.
THEOREM AssignedToOpen == MCSpec => []AssignedRoomsOpen
<1>1. HistoryInv => AssignedRoomsOpen
  BY IdleIsNoRequest
     DEF HistoryInv, AssignedRoomsOpen, LeadIntoOpenRooms, Undisturbed, Settled
<1> QED
  BY <1>1, HistoryInit, HistoryNext, PTL DEF MCSpec

\* As long as no requests have overlapped or died createBreakoutRooms leaves
\* everybody it found at its start in a room of its own, one on whose list the
\* user is if there is any, in whatever order its updates come.
THEOREM AllArePlaced == MCSpec => EverybodyPlaced
<1>1. HistoryInv /\ [MCNext]_<<vars, disturbed>>
        => [disturbed' \/ PlacesEverybody]_vars
  BY HistoryNext
<1> QED
  BY <1>1, HistoryInit, HistoryNext, PTL DEF MCSpec, EverybodyPlaced

\* And no room gets two more than another of those on no list, for any number
\* of rooms and participants.
THEOREM RoundRobinIsEven == MCSpec => EvenlySpread
<1>1. HistoryInv /\ [MCNext]_<<vars, disturbed>>
        => [disturbed' \/ SpreadsEvenly]_vars
  BY HistoryNext
<1> QED
  BY <1>1, HistoryInit, HistoryNext, PTL DEF MCSpec, EvenlySpread
=============================================================================
