----------------------------- MODULE AuthProofs -----------------------------
(***************************************************************************)
(* Proofs about Auth, for any clients, addresses, passwords and requests   *)
(* in flight: accounts are registered once, sessions are earned, passwords *)
(* are chosen by their owners; and about the history of module MCAuth: as   *)
(* long as no requests have overlapped, a login has compared the current   *)
(* password, and no refresh brings a session back after a logout.          *)
(***************************************************************************)
EXTENDS MCAuth, FiniteSetTheorems, TLAPS

\* Inductive: what an account is, and what a request has made sure of when it
\* arrived and relies on when it writes.
AccountRight(a) ==
  /\ owners[a] = {} \/ \E c \in Clients : owners[a] = {c}
  /\ (password[a] = None) <=> (owners[a] = {})
  /\ password[a] # None =>
       setBy[a] \in owners[a] \cup {c \in Clients : <<c, a>> \in Reads}
  /\ a \in mails => password[a] # None

RequestRight(q) ==
  /\ q.pc = "RefreshFind" => <<q.by, q.of>> \in proved
  /\ q.pc \in {"SendEmail", "UpdatePassword"} => password[q.of] # None
  /\ q.pc = "UpdatePassword" => <<q.by, q.of>> \in Reads

AuthInv ==
  /\ \A a \in Addresses : AccountRight(a)
  /\ SessionsEarned
  /\ \A s \in Slots : RequestRight(req[s])

-----------------------------------------------------------------------------
(* Requests arrive and finish.                                             *)

LEMMA IdleType == Idle \in Request /\ Idle.pc = "idle"
  BY DEF Idle, Request, PCs, Token

LEMMA NoneIsNobody == None \notin Addresses \cup Passwords \cup Clients
  BY AuthAssumption

LEMMA ArriveInv ==
  ASSUME TypeOK, AuthInv, NEW s \in Slots, NEW pc \in PCs \ {"idle"},
         NEW c \in Clients, NEW a \in Addresses,
         NEW new \in Passwords \cup {None}, NEW read \in Passwords \cup {None},
         pc \in {"CreateUser", "UpdatePassword"} => new \in Passwords,
         pc = "RefreshFind" => <<c, a>> \in proved,
         pc \in {"SendEmail", "UpdatePassword"} => password[a] # None,
         pc = "UpdatePassword" => <<c, a>> \in Reads,
         Arrive(s, pc, c, a, new, read)
  PROVE  TypeOK' /\ AuthInv'
<1> DEFINE q == [pc |-> pc, by |-> c, of |-> a, new |-> new, read |-> read]
<1>1. q \in Request /\ RequestRight(q)
  BY DEF Request, RequestRight, Token
<1>2. /\ UNCHANGED <<password, mails, access, cookie, owners, setBy, proved>>
      /\ req' = [req EXCEPT ![s] = q]
  BY DEF Arrive, tokens, ghosts
<1>3. req' \in [Slots -> Request] /\ \A t \in Slots : req'[t] \in {req[t], q}
  BY <1>1, <1>2 DEF TypeOK
<1>4. TypeOK'
  BY <1>2, <1>3 DEF TypeOK
<1>5. \A t \in Slots : RequestRight(req[t])'
  BY <1>1, <1>2, <1>3 DEF AuthInv, RequestRight
<1> QED
  BY <1>2, <1>4, <1>5 DEF AuthInv, AccountRight, SessionsEarned

\* A request that ends has written what it has to; the others still rely on
\* accounts that exist and sessions that were proved.
LEMMA FinishInv ==
  ASSUME TypeOK, AuthInv, NEW s \in Slots, Finish(s),
         \A a \in Addresses : password[a] # None => password'[a] # None,
         proved \subseteq proved'
  PROVE  /\ req' \in [Slots -> Request]
         /\ \A t \in Slots : req'[t] \in {req[t], Idle}
         /\ \A t \in Slots : RequestRight(req[t])'
<1>1. /\ req' \in [Slots -> Request]
      /\ \A t \in Slots : req'[t] \in {req[t], Idle}
  BY IdleType DEF TypeOK, Finish
<1>2. RequestRight(Idle)'
  BY IdleType DEF RequestRight, Idle
<1>3. ASSUME NEW t \in Slots, req'[t] = req[t], req[t] # Idle
      PROVE  RequestRight(req[t])'
  BY <1>3 DEF TypeOK, AuthInv, RequestRight
<1> QED
  BY <1>1, <1>2, <1>3

LEMMA RefuseInv ==
  ASSUME TypeOK, AuthInv, NEW s \in Slots, Refuse(s)
  PROVE  TypeOK' /\ AuthInv'
  BY FinishInv
     DEF Refuse, tokens, ghosts, TypeOK, AuthInv, AccountRight, SessionsEarned

\* An answer with tokens goes to a client that has proved itself.
LEMMA SessionInv ==
  ASSUME TypeOK, SessionsEarned, NEW c \in Clients, NEW a \in Addresses,
         StartSession(c, a), proved \subseteq proved', <<c, a>> \in proved'
  PROVE  /\ access' \in [Clients -> Token] /\ cookie' \in [Clients -> Token]
         /\ mails' = mails
         /\ SessionsEarned'
<1>1. /\ access' \in [Clients -> Token] /\ cookie' \in [Clients -> Token]
      /\ mails' = mails
      /\ \A d \in Clients : /\ access'[d] \in {access[d]} \cup IF d = c THEN {a} ELSE {}
                            /\ cookie'[d] \in {cookie[d]} \cup IF d = c THEN {a} ELSE {}
  BY DEF StartSession, TypeOK, Token
<1> QED
  BY <1>1 DEF SessionsEarned

-----------------------------------------------------------------------------
(* The steps.                                                              *)

LEMMA CreateUserInv ==
  ASSUME TypeOK, AuthInv, NEW s \in Slots, CreateUser(s)
  PROVE  TypeOK' /\ AuthInv'
<1> DEFINE q == req[s]
           c == q.by
           a == q.of
<1>1. CASE Refuse(s)
  BY <1>1, RefuseInv
<1>2. CASE ~Refuse(s)
  <2>1. /\ password[a] = None
        /\ password' = [password EXCEPT ![a] = q.new]
        /\ StartSession(c, a)
        /\ owners' = [owners EXCEPT ![a] = @ \cup {c}]
        /\ setBy' = [setBy EXCEPT ![a] = c]
        /\ proved' = proved \cup {<<c, a>>}
        /\ Finish(s)
    BY <1>2 DEF CreateUser
  <2>2. c \in Clients /\ a \in Addresses /\ q.new \in Passwords
    BY <1>2, IdleType DEF CreateUser, TypeOK
  <2>3. /\ access' \in [Clients -> Token] /\ cookie' \in [Clients -> Token]
        /\ mails' = mails /\ SessionsEarned'
    BY <2>1, <2>2, SessionInv DEF AuthInv
  <2>4. /\ req' \in [Slots -> Request]
        /\ \A t \in Slots : req'[t] \in {req[t], Idle}
        /\ \A t \in Slots : RequestRight(req[t])'
    BY <2>1, <2>2, FinishInv, NoneIsNobody DEF TypeOK
  <2>5. TypeOK'
    BY <2>1, <2>2, <2>3, <2>4 DEF TypeOK
  <2>6. ASSUME NEW b \in Addresses
        PROVE  AccountRight(b)'
    <3>1. CASE b = a
      <4>1. owners[a] = {}
        BY <2>1, <2>2 DEF AuthInv, AccountRight
      <4>2. /\ owners'[a] = {c} /\ password'[a] = q.new /\ setBy'[a] = c
        BY <2>1, <2>2, <4>1 DEF TypeOK
      <4> QED
        BY <2>2, <3>1, <4>2, NoneIsNobody DEF AccountRight
    <3>2. CASE b # a
      BY <2>1, <2>2, <2>3, <3>2 DEF AuthInv, AccountRight, TypeOK
    <3> QED
      BY <3>1, <3>2
  <2> QED
    BY <2>3, <2>4, <2>5, <2>6 DEF AuthInv
<1> QED
  BY <1>1, <1>2

LEMMA AnswerInv ==
  ASSUME TypeOK, AuthInv, NEW s \in Slots,
         ComparePassword(s) \/ RefreshFind(s)
  PROVE  TypeOK' /\ AuthInv'
<1> DEFINE q == req[s]
<1>1. CASE Refuse(s)
  BY <1>1, RefuseInv
<1>2. CASE ~Refuse(s)
  <2>1. q.by \in Clients /\ q.of \in Addresses
    BY <1>2, IdleType DEF ComparePassword, RefreshFind, TypeOK
  <2>2. /\ StartSession(q.by, q.of) /\ Finish(s)
        /\ UNCHANGED <<password, owners, setBy>>
        /\ proved \subseteq proved' /\ proved' \subseteq Clients \X Addresses
        /\ <<q.by, q.of>> \in proved'
    BY <1>2, <2>1
       DEF ComparePassword, RefreshFind, ghosts, AuthInv, RequestRight, TypeOK
  <2>3. /\ access' \in [Clients -> Token] /\ cookie' \in [Clients -> Token]
        /\ mails' = mails /\ SessionsEarned'
    BY <2>1, <2>2, SessionInv DEF AuthInv
  <2>4. /\ req' \in [Slots -> Request]
        /\ \A t \in Slots : req'[t] \in {req[t], Idle}
        /\ \A t \in Slots : RequestRight(req[t])'
    BY <2>2, FinishInv
  <2> QED
    BY <2>2, <2>3, <2>4 DEF TypeOK, AuthInv, AccountRight
<1> QED
  BY <1>1, <1>2

LEMMA MailInv ==
  ASSUME TypeOK, AuthInv, NEW s \in Slots, SendEmail(s) \/ UpdatePassword(s)
  PROVE  TypeOK' /\ AuthInv'
<1> DEFINE q == req[s]
<1>1. CASE Refuse(s)
  BY <1>1, RefuseInv
<1>2. q.pc # "idle" => q.by \in Clients /\ q.of \in Addresses
  BY IdleType DEF TypeOK
<1>3. CASE SendEmail(s) /\ ~Refuse(s)
  <2>1. /\ mails' = mails \cup {q.of} /\ Finish(s) /\ q.of \in Addresses
        /\ UNCHANGED <<access, cookie, password, owners, setBy, proved>>
        /\ password[q.of] # None
    BY <1>2, <1>3 DEF SendEmail, ghosts, AuthInv, RequestRight
  <2>2. /\ req' \in [Slots -> Request]
        /\ \A t \in Slots : req'[t] \in {req[t], Idle}
        /\ \A t \in Slots : RequestRight(req[t])'
    BY <2>1, FinishInv
  <2> QED
    BY <2>1, <2>2 DEF TypeOK, AuthInv, AccountRight, SessionsEarned
<1>4. CASE UpdatePassword(s)
  <2>1. /\ password' = [password EXCEPT ![q.of] = q.new]
        /\ setBy' = [setBy EXCEPT ![q.of] = q.by]
        /\ Finish(s)
        /\ UNCHANGED <<mails, access, cookie, owners, proved>>
        /\ q.by \in Clients /\ q.of \in Addresses /\ q.new \in Passwords
        /\ password[q.of] # None /\ <<q.by, q.of>> \in Reads
    BY <1>2, <1>4, IdleType
       DEF UpdatePassword, tokens, AuthInv, RequestRight, TypeOK
  <2>2. /\ req' \in [Slots -> Request]
        /\ \A t \in Slots : req'[t] \in {req[t], Idle}
        /\ \A t \in Slots : RequestRight(req[t])'
    BY <2>1, FinishInv, NoneIsNobody DEF TypeOK
  <2>3. TypeOK'
    BY <2>1, <2>2 DEF TypeOK
  <2>4. ASSUME NEW b \in Addresses
        PROVE  AccountRight(b)'
    <3>1. CASE b = q.of
      BY <2>1, <3>1, NoneIsNobody DEF AuthInv, AccountRight, TypeOK
    <3>2. CASE b # q.of
      BY <2>1, <3>2 DEF AuthInv, AccountRight, TypeOK
    <3> QED
      BY <3>1, <3>2
  <2> QED
    BY <2>1, <2>2, <2>3, <2>4 DEF AuthInv, SessionsEarned
<1> QED
  BY <1>1, <1>3, <1>4

LEMMA LoseTokens ==
  ASSUME TypeOK, AuthInv, UNCHANGED <<password, req, ghosts>>,
         mails' \subseteq mails,
         NEW c \in Clients,
         access' \in {access, [access EXCEPT ![c] = None]},
         cookie' \in {cookie, [cookie EXCEPT ![c] = None]}
  PROVE  TypeOK' /\ AuthInv'
<1>1. /\ access' \in [Clients -> Token] /\ cookie' \in [Clients -> Token]
      /\ \A d \in Clients : access'[d] \in {access[d], None}
                              /\ cookie'[d] \in {cookie[d], None}
  BY DEF TypeOK, Token
<1>2. UNCHANGED <<password, req, owners, setBy, proved>>
  BY DEF ghosts
<1>3. TypeOK'
  BY <1>1, <1>2 DEF TypeOK
<1>4. SessionsEarned'
  <2>1. ASSUME NEW d \in Clients, NEW t \in {access'[d], cookie'[d]}
        PROVE  t \in {None} \cup {a \in Addresses : <<d, a>> \in proved}
    <3>1. t \in {access[d], cookie[d], None}
      BY <1>1, <2>1
    <3> QED
      BY <3>1 DEF AuthInv, SessionsEarned
  <2> QED
    BY <1>2, <2>1 DEF SessionsEarned
<1>5. ASSUME NEW a \in Addresses
      PROVE  AccountRight(a)'
  BY <1>2 DEF AuthInv, AccountRight
<1> QED
  BY <1>2, <1>3, <1>4, <1>5 DEF AuthInv, RequestRight

-----------------------------------------------------------------------------
(* The theorems.                                                           *)

LEMMA AuthInit == Init => TypeOK /\ AuthInv
<1> SUFFICES ASSUME Init PROVE TypeOK /\ AuthInv
  OBVIOUS
<1>1. TypeOK
  BY IdleType DEF Init, TypeOK, Token
<1> QED
  BY <1>1, IdleType
     DEF Init, AuthInv, AccountRight, SessionsEarned, RequestRight, Idle

LEMMA AuthNext == TypeOK /\ AuthInv /\ [Next]_vars => TypeOK' /\ AuthInv'
<1> SUFFICES ASSUME TypeOK, AuthInv, [Next]_vars
             PROVE  TypeOK' /\ AuthInv'
  OBVIOUS
<1>1. ASSUME NEW s \in Slots, NEW c \in Clients, RefreshToken(s, c)
      PROVE  TypeOK' /\ AuthInv'
  <2>1. cookie[c] \in Addresses /\ <<c, cookie[c]>> \in proved
    BY <1>1 DEF RefreshToken, TypeOK, Token, AuthInv, SessionsEarned
  <2> QED
    BY <1>1, <2>1, ArriveInv DEF RefreshToken, PCs
<1>2. ASSUME NEW s \in Slots, NEW c \in Clients, Logout(s, c)
      PROVE  TypeOK' /\ AuthInv'
  BY <1>2, LoseTokens DEF Logout
<1>3. ASSUME NEW s \in Slots, NEW c \in Clients, NEW a \in Addresses,
             ForgotPasswordUser(s, c, a)
      PROVE  TypeOK' /\ AuthInv'
  BY <1>3, ArriveInv DEF ForgotPasswordUser, PCs
<1>4. ASSUME NEW s \in Slots, NEW c \in Clients, NEW a \in Addresses,
             NEW p \in Passwords,
             RegisterUser(s, c, a, p) \/ LoginUser(s, c, a, p)
      PROVE  TypeOK' /\ AuthInv'
  <2>1. password[a] \in Passwords \cup {None}
    BY DEF TypeOK
  <2> QED
    BY <1>4, <2>1, ArriveInv DEF RegisterUser, LoginUser, PCs
<1>5. ASSUME NEW s \in Slots, NEW c \in Clients, NEW a \in Addresses,
             NEW p \in Passwords, ResetPassword(s, c, a, p)
      PROVE  TypeOK' /\ AuthInv'
  <2>1. password[a] # None /\ <<c, a>> \in Reads
    BY <1>5 DEF ResetPassword, AuthInv, AccountRight
  <2> QED
    BY <1>5, <2>1, ArriveInv DEF ResetPassword, PCs
<1>6. CASE TokenExpires
  <2>1. CASE \E a \in mails : mails' = mails \ {a} /\ UNCHANGED <<access, cookie>>
    <3>1. /\ mails' \subseteq mails
          /\ UNCHANGED <<access, cookie, password, req, owners, setBy, proved>>
      BY <1>6, <2>1 DEF TokenExpires, ghosts
    <3> QED
      BY <3>1 DEF TypeOK, AuthInv, AccountRight, SessionsEarned, RequestRight
  <2>2. ASSUME NEW c \in Clients,
               \/ access' = [access EXCEPT ![c] = None] /\ cookie' = cookie
               \/ cookie' = [cookie EXCEPT ![c] = None] /\ access' = access,
               mails' = mails
        PROVE  TypeOK' /\ AuthInv'
    BY <1>6, <2>2, LoseTokens DEF TokenExpires
  <2> QED
    BY <1>6, <2>1, <2>2 DEF TokenExpires
<1>7. ASSUME NEW s \in Slots, Abort(s)
      PROVE  TypeOK' /\ AuthInv'
  BY <1>7, RefuseInv DEF Abort
<1>8. CASE UNCHANGED vars
  BY <1>8
     DEF vars, tokens, ghosts, TypeOK, AuthInv, AccountRight, SessionsEarned,
         RequestRight
<1> QED
  BY <1>1, <1>2, <1>3, <1>4, <1>5, <1>6, <1>7, <1>8, CreateUserInv, AnswerInv,
     MailInv DEF Next

\* Types, and what accounts, sessions and requests in flight are right about.
THEOREM AuthCorrect == Spec => [](TypeOK /\ AuthInv)
  BY AuthInit, AuthNext, PTL DEF Spec

\* However many clients register an address at the same time, one has it.
THEOREM OneRegistration == Spec => []RegisteredOnce
<1>1. ASSUME AuthInv, NEW a \in Addresses
      PROVE  Cardinality(owners[a]) <= 1
  <2>1. CASE owners[a] = {}
    BY <2>1, FS_EmptySet
  <2>2. ASSUME NEW c \in Clients, owners[a] = {c}
        PROVE  Cardinality(owners[a]) <= 1
    <3>1. Cardinality({c}) = 1
      BY FS_Singleton
    <3> QED
      BY <2>2, <3>1
  <2> QED
    BY <1>1, <2>1, <2>2 DEF AuthInv, AccountRight
<1>2. AuthInv => RegisteredOnce
  BY <1>1 DEF AuthInv, AccountRight, RegisteredOnce
<1> QED
  BY <1>2, AuthCorrect, PTL

\* Every token a client keeps is for an account it has proved to be its own.
THEOREM SessionsAreEarned == Spec => []SessionsEarned
<1>1. AuthInv => SessionsEarned
  BY DEF AuthInv
<1> QED
  BY <1>1, AuthCorrect, PTL

\* Only whoever registered an account or reads its mail chooses its password.
THEOREM OwnersChoose == Spec => []PasswordByOwner
<1>1. AuthInv => PasswordByOwner
  BY DEF AuthInv, AccountRight, PasswordByOwner
<1> QED
  BY <1>1, AuthCorrect, PTL
-----------------------------------------------------------------------------
(* One request at a time: what a request has read is current when it is    *)
(* answered.                                                               *)

OneRequest == \A s, t \in Slots : s # t => req[s] = Idle \/ req[t] = Idle

ReadCurrent(q) ==
  /\ q.pc = "ComparePassword" => q.read = password[q.of]
  /\ q.pc = "RefreshFind" => cookie[q.by] = q.of

SerialInv == OneRequest /\ \A s \in Slots : ReadCurrent(req[s])

\* Logging out, and a token that expires.
LosesTokens ==
  /\ \A c \in Clients : cookie'[c] \in {cookie[c], None}
  /\ UNCHANGED <<password, req>>

\* What a step of slot s is, as far as other requests see it.
Arrives(s) ==
  /\ UNCHANGED <<password, tokens>>
  /\ req[s] = Idle
  /\ \E q \in Request : req' = [req EXCEPT ![s] = q] /\ ReadCurrent(q)

Ends(s) ==
  /\ Finish(s) /\ req[s] # Idle
  /\ \/ UNCHANGED <<access, cookie>>
     \/ req[s].pc = "CreateUser"
     \/ req[s].pc = "ComparePassword" /\ req[s].new = req[s].read
     \/ req[s].pc = "RefreshFind" /\ StartSession(req[s].by, req[s].of)

LEMMA StepsSeen ==
  ASSUME TypeOK, Next
  PROVE  LosesTokens \/ \E s \in Slots : Arrives(s) \/ Ends(s)
<1>1. ASSUME NEW s \in Slots, NEW pc \in PCs, NEW c \in Clients,
             NEW a \in Addresses, NEW new \in Passwords \cup {None},
             NEW read \in Passwords \cup {None}, Arrive(s, pc, c, a, new, read),
             pc = "ComparePassword" => read = password[a],
             pc = "RefreshFind" => cookie[c] = a
      PROVE  Arrives(s)
  <2> DEFINE q == [pc |-> pc, by |-> c, of |-> a, new |-> new, read |-> read]
  <2>1. q \in Request /\ ReadCurrent(q)
    BY <1>1 DEF Request, Token, ReadCurrent
  <2> QED
    BY <1>1, <2>1 DEF Arrive, Arrives
<1>2. ASSUME NEW s \in Slots, NEW c \in Clients, RefreshToken(s, c)
      PROVE  Arrives(s)
  <2>1. cookie[c] \in Addresses
    BY <1>2 DEF RefreshToken, TypeOK, Token
  <2> QED
    BY <1>1, <1>2, <2>1 DEF RefreshToken, PCs
<1>3. ASSUME NEW s \in Slots, NEW c \in Clients, NEW a \in Addresses,
             \/ ForgotPasswordUser(s, c, a)
             \/ \E p \in Passwords : \/ RegisterUser(s, c, a, p)
                                      \/ LoginUser(s, c, a, p)
                                      \/ ResetPassword(s, c, a, p)
      PROVE  Arrives(s)
  <2>1. password[a] \in Passwords \cup {None}
    BY DEF TypeOK
  <2>2. CASE ForgotPasswordUser(s, c, a)
    BY <1>1, <2>2 DEF ForgotPasswordUser, PCs
  <2>3. ASSUME NEW p \in Passwords,
               \/ RegisterUser(s, c, a, p) \/ LoginUser(s, c, a, p)
               \/ ResetPassword(s, c, a, p)
        PROVE  Arrives(s)
    BY <1>1, <2>1, <2>3 DEF RegisterUser, LoginUser, ResetPassword, PCs
  <2> QED
    BY <1>3, <2>2, <2>3
<1>4. ASSUME NEW s \in Slots,
             \/ CreateUser(s) \/ ComparePassword(s) \/ RefreshFind(s)
             \/ SendEmail(s) \/ UpdatePassword(s) \/ Abort(s)
      PROVE  Ends(s)
  BY <1>4, IdleType
     DEF CreateUser, ComparePassword, RefreshFind, SendEmail, UpdatePassword, Abort,
         Refuse, tokens, Ends
<1>5. ASSUME TokenExpires \/ \E s \in Slots, c \in Clients : Logout(s, c)
      PROVE  LosesTokens
  BY <1>5 DEF TokenExpires, Logout, LosesTokens, TypeOK
<1> QED
  BY <1>2, <1>3, <1>4, <1>5 DEF Next

LEMMA SerialNext ==
  ASSUME TypeOK, SerialInv, ~Overlap, Next
  PROVE  /\ SerialInv'
         /\ ComparesCurrent
         /\ SessionsReturnByPassword
<1>1. OneRequest'
  BY DEF Overlap, OneRequest
<1>2. ReadCurrent(Idle)'
  BY IdleType DEF ReadCurrent
<1>3. ASSUME NEW t \in Slots, req'[t] = req[t]
      PROVE  ReadCurrent(req[t])'
  <2>1. CASE req[t] = Idle
    BY <1>2, <1>3, <2>1 DEF ReadCurrent
  <2>2. CASE req[t] # Idle
    BY <1>3, <2>2 DEF Overlap, SerialInv, ReadCurrent
  <2> QED
    BY <2>1, <2>2
<1>4. CASE LosesTokens
  <2>1. SerialInv'
    BY <1>1, <1>3, <1>4 DEF SerialInv, LosesTokens
  <2>2. ComparesCurrent
    BY <1>4, IdleType DEF LosesTokens, ComparesCurrent
  <2> QED
    BY <1>4, <2>1, <2>2 DEF LosesTokens, SessionsReturnByPassword
<1>5. ASSUME NEW s \in Slots, Arrives(s)
      PROVE  /\ SerialInv'
             /\ ComparesCurrent
             /\ SessionsReturnByPassword
  <2>1. PICK q \in Request : req' = [req EXCEPT ![s] = q] /\ ReadCurrent(q)
    BY <1>5 DEF Arrives
  <2>2. UNCHANGED <<password, access, cookie>>
    BY <1>5 DEF Arrives, tokens
  <2>3. \A t \in Slots : req'[t] \in {req[t], q}
    BY <2>1 DEF TypeOK
  <2>4. ASSUME NEW t \in Slots, req'[t] = q
        PROVE  ReadCurrent(req[t])'
    BY <2>1, <2>2, <2>4 DEF ReadCurrent
  <2>5. SerialInv'
    BY <1>1, <1>3, <2>3, <2>4 DEF SerialInv
  <2> QED
    BY <2>2, <2>5 DEF ComparesCurrent, SessionsReturnByPassword
<1>6. ASSUME NEW s \in Slots, Ends(s)
      PROVE  /\ SerialInv'
             /\ ComparesCurrent
             /\ SessionsReturnByPassword
  <2>1. \A t \in Slots : req'[t] = IF t = s THEN Idle ELSE req[t]
    BY <1>6 DEF Ends, Finish, TypeOK
  <2>2. SerialInv'
    <3>1. ReadCurrent(req[s])'
      BY <1>2, <2>1 DEF ReadCurrent
    <3> QED
      BY <1>1, <1>3, <2>1, <3>1 DEF SerialInv
  <2>3. ReadCurrent(req[s]) /\ req[s].by \in Clients /\ req[s].of \in Addresses
    BY <1>6 DEF Ends, SerialInv, TypeOK
  <2>4. ComparesCurrent
    BY <1>6, <2>1, <2>3, IdleType DEF Ends, ComparesCurrent, ReadCurrent
  <2>5. SessionsReturnByPassword
    <3> SUFFICES ASSUME NEW c \in Clients, cookie[c] = None, cookie'[c] # None,
                        req[s].pc \notin {"CreateUser", "ComparePassword"}
                 PROVE  FALSE
      BY DEF SessionsReturnByPassword
    <3>1. /\ req[s].pc = "RefreshFind"
          /\ cookie' = [cookie EXCEPT ![req[s].by] = req[s].of]
      BY <1>6 DEF Ends, StartSession
    <3>2. cookie'[c] = cookie[c]
      BY <2>3, <3>1 DEF ReadCurrent, TypeOK
    <3> QED
      BY <3>2
  <2> QED
    BY <2>2, <2>4, <2>5
<1> QED
  BY <1>4, <1>5, <1>6, StepsSeen

HistoryInv == TypeOK /\ AuthInv /\ (~overlapped => SerialInv)

LEMMA HistoryInit == MCInit => HistoryInv
<1> SUFFICES ASSUME MCInit PROVE HistoryInv
  OBVIOUS
<1>1. TypeOK /\ AuthInv /\ \A s \in Slots : req[s] = Idle
  BY AuthInit DEF MCInit, Init
<1> QED
  BY <1>1, IdleType DEF HistoryInv, SerialInv, OneRequest, ReadCurrent

LEMMA HistoryNext ==
  ASSUME HistoryInv, [MCNext]_<<vars, overlapped>>
  PROVE  /\ HistoryInv'
         /\ [overlapped' \/ ComparesCurrent]_vars
         /\ [overlapped' \/ SessionsReturnByPassword]_vars
<1>1. CASE MCNext
  BY <1>1, AuthNext, SerialNext DEF HistoryInv, MCNext
<1>2. CASE UNCHANGED <<vars, overlapped>>
  <2>1. TypeOK' /\ AuthInv'
    BY <1>2, AuthNext DEF HistoryInv
  <2>2. SerialInv => SerialInv'
    BY <1>2 DEF vars, tokens, SerialInv, OneRequest, ReadCurrent
  <2> QED
    BY <1>2, <2>1, <2>2 DEF HistoryInv
<1> QED
  BY <1>1, <1>2

\* As long as no requests have overlapped, loginUser answers with a session
\* only if the password sent is the one the account has by then: the row it
\* has read has not been rewritten while it compared.
THEOREM LoginsCurrent == MCSpec => LoginByCurrentPassword
<1>1. HistoryInv /\ [MCNext]_<<vars, overlapped>>
        => [overlapped' \/ ComparesCurrent]_vars
  BY HistoryNext
<1> QED
  BY <1>1, HistoryInit, HistoryNext, PTL DEF MCSpec, LoginByCurrentPassword

\* As long as no requests have overlapped, a client whose cookie is gone gets
\* one by registering or logging in only: refreshToken needs the cookie, and
\* answers the client that still has it.
THEOREM LogoutLasts == MCSpec => LoggedOutStaysOut
<1>1. HistoryInv /\ [MCNext]_<<vars, overlapped>>
        => [overlapped' \/ SessionsReturnByPassword]_vars
  BY HistoryNext
<1> QED
  BY <1>1, HistoryInit, HistoryNext, PTL DEF MCSpec, LoggedOutStaysOut
=============================================================================
