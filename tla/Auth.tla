-------------------------------- MODULE Auth --------------------------------
(***************************************************************************)
(* Accounts and sessions: registration, login, refresh, logout and the     *)
(* password reset by mail (Auth/auth.service.ts, auth.controller.ts).      *)
(*                                                                         *)
(* Tokens are signed and kept nowhere, so a token is the address in its    *)
(* claims: whoever holds it may use it until it expires.  Accounts are     *)
(* never deleted and keep their address, which stands for their id.  A     *)
(* request in flight occupies a slot; hashing and comparing a password     *)
(* take long, and everything else may happen meanwhile.  An answer reaches *)
(* its client with the last step of its request.                           *)
(***************************************************************************)
EXTENDS Naturals, FiniteSets

CONSTANTS
  Clients,    \* browsers and other holders of tokens
  Addresses,  \* e-mail addresses, trimmed and in lower case
  Passwords,
  Reads,      \* <<c, a>>: client c reads the mail of address a
  None,       \* no account, password, token or request
  Slots       \* bound: requests in flight at a time

ASSUME AuthAssumption ==
  /\ Reads \subseteq Clients \X Addresses
  /\ None \notin Addresses \cup Passwords \cup Clients

VARIABLES
  password,  \* password in the user row of each address, if it has one
  mails,     \* addresses with an unexpired reset link in their mail
  access,    \* address in the access token each client keeps
  cookie,    \* address in the refresh token of its refreshToken cookie
  req,       \* what each slot is working on
  owners,    \* ghost: clients told that they have registered an address
  setBy,     \* ghost: client who has chosen the current password
  proved     \* ghost: <<c, a>>: client c has registered or logged in as a

tokens == <<mails, access, cookie>>
ghosts == <<owners, setBy, proved>>
vars == <<password, tokens, req, ghosts>>

Token == Addresses \cup {None}

\* by: the client; of: the address; new: the password sent; read: the one of
\* the user row that was found.
PCs == {"idle", "CreateUser", "ComparePassword", "SendEmail",
        "UpdatePassword", "RefreshFind"}
Request == [pc : PCs, by : Clients \cup {None}, of : Token,
            new : Passwords \cup {None}, read : Passwords \cup {None}]

Idle == [pc |-> "idle", by |-> None, of |-> None, new |-> None, read |-> None]

TypeOK ==
  /\ password \in [Addresses -> Passwords \cup {None}]
  /\ mails \subseteq Addresses
  /\ access \in [Clients -> Token]
  /\ cookie \in [Clients -> Token]
  /\ req \in [Slots -> Request]
  /\ \A s \in Slots : req[s] # Idle =>
       /\ req[s].by \in Clients /\ req[s].of \in Addresses
       /\ req[s].pc \in {"CreateUser", "UpdatePassword"}
            => req[s].new \in Passwords
  /\ owners \in [Addresses -> SUBSET Clients]
  /\ setBy \in [Addresses -> Clients \cup {None}]
  /\ proved \subseteq Clients \X Addresses

Init ==
  /\ password = [a \in Addresses |-> None]
  /\ mails = {}
  /\ access = [c \in Clients |-> None]
  /\ cookie = [c \in Clients |-> None]
  /\ req = [s \in Slots |-> Idle]
  /\ owners = [a \in Addresses |-> {}]
  /\ setBy = [a \in Addresses |-> None]
  /\ proved = {}

Arrive(s, pc, c, a, new, read) ==
  /\ req[s] = Idle
  /\ req' = [req EXCEPT ![s] = [pc |-> pc, by |-> c, of |-> a,
                                new |-> new, read |-> read]]
  /\ UNCHANGED <<password, tokens, ghosts>>

Finish(s) == req' = [req EXCEPT ![s] = Idle]
Refuse(s) == Finish(s) /\ UNCHANGED <<password, tokens, ghosts>>

\* createSessionTokens; the answer brings the access token and the cookie.
StartSession(c, a) ==
  /\ access' = [access EXCEPT ![c] = a]
  /\ cookie' = [cookie EXCEPT ![c] = a]
  /\ UNCHANGED mails

-----------------------------------------------------------------------------

RegisterUser(s, c, a, p) ==
  /\ password[a] = None
  /\ Arrive(s, "CreateUser", c, a, p, None)

CreateUserUpserts(s) ==
  LET q == req[s] IN
  /\ q.pc = "CreateUser"
  /\ password' = [password EXCEPT ![q.of] = q.new]
  /\ StartSession(q.by, q.of)
  /\ owners' = [owners EXCEPT ![q.of] = @ \cup {q.by}]
  /\ setBy' = [setBy EXCEPT ![q.of] = q.by]
  /\ proved' = proved \cup {<<q.by, q.of>>}
  /\ Finish(s)

\* The unique constraint refuses a second account.
CreateUser(s) ==
  LET q == req[s] IN
  /\ q.pc = "CreateUser"
  /\ \/ /\ password[q.of] = None
        /\ password' = [password EXCEPT ![q.of] = q.new]
        /\ StartSession(q.by, q.of)
        /\ owners' = [owners EXCEPT ![q.of] = @ \cup {q.by}]
        /\ setBy' = [setBy EXCEPT ![q.of] = q.by]
        /\ proved' = proved \cup {<<q.by, q.of>>}
        /\ Finish(s)
     \/ password[q.of] # None /\ Refuse(s)

LoginUser(s, c, a, p) ==
  /\ password[a] # None
  /\ Arrive(s, "ComparePassword", c, a, p, password[a])

ComparePasswordOrNot(s) ==
  LET q == req[s] IN
  /\ q.pc = "ComparePassword"
  /\ StartSession(q.by, q.of)
  /\ proved' = IF q.new = q.read THEN proved \cup {<<q.by, q.of>>} ELSE proved
  /\ Finish(s)
  /\ UNCHANGED <<password, owners, setBy>>

\* With the password that was read when the request came.
ComparePassword(s) ==
  LET q == req[s] IN
  /\ q.pc = "ComparePassword"
  /\ \/ /\ q.new = q.read
        /\ StartSession(q.by, q.of)
        /\ proved' = proved \cup {<<q.by, q.of>>}
        /\ Finish(s)
        /\ UNCHANGED <<password, owners, setBy>>
     \/ q.new # q.read /\ Refuse(s)

RefreshByAccessToken(s, c) ==
  \E a \in {access[c], cookie[c]} \ {None} :
    Arrive(s, "RefreshFind", c, a, None, None)

\* The cookie travels with the request, and may be cleared meanwhile.
RefreshToken(s, c) ==
  /\ cookie[c] # None
  /\ Arrive(s, "RefreshFind", c, cookie[c], None, None)

RefreshFind(s) ==
  LET q == req[s] IN
  /\ q.pc = "RefreshFind"
  /\ \/ /\ password[q.of] # None
        /\ StartSession(q.by, q.of)
        /\ Finish(s)
        /\ UNCHANGED <<password, ghosts>>
     \/ password[q.of] = None /\ Refuse(s)

\* logout clears the cookie. The refresh token in it stays valid, and so does
\* the access token, which the client keeps.
Logout(s, c) ==
  /\ req[s] = Idle
  /\ cookie' = [cookie EXCEPT ![c] = None]
  /\ UNCHANGED <<access, mails, password, req, ghosts>>

-----------------------------------------------------------------------------
(* forgotPasswordUser and resetPassword                                    *)

ForgotPasswordUser(s, c, a) ==
  /\ password[a] # None
  /\ Arrive(s, "SendEmail", c, a, None, None)

\* A mail that cannot be sent fails the request.
SendEmail(s) ==
  /\ req[s].pc = "SendEmail"
  /\ \/ /\ mails' = mails \cup {req[s].of}
        /\ Finish(s)
        /\ UNCHANGED <<access, cookie, password, ghosts>>
     \/ Refuse(s)

ResetPasswordByAnyToken(s, c, a, p) ==
  /\ \/ a \in mails /\ <<c, a>> \in Reads
     \/ access[c] = a
  /\ Arrive(s, "UpdatePassword", c, a, p, None)

\* With the link from a mail, as often as one likes until it expires.
ResetPassword(s, c, a, p) ==
  /\ a \in mails
  /\ <<c, a>> \in Reads
  /\ Arrive(s, "UpdatePassword", c, a, p, None)

UpdatePassword(s) ==
  LET q == req[s] IN
  /\ q.pc = "UpdatePassword"
  /\ password' = [password EXCEPT ![q.of] = q.new]
  /\ setBy' = [setBy EXCEPT ![q.of] = q.by]
  /\ Finish(s)
  /\ UNCHANGED <<tokens, owners, proved>>

-----------------------------------------------------------------------------

\* The expiry times of jwt.sign, and of the cookie.
TokenExpires ==
  /\ \/ \E c \in Clients :
          \/ access' = [access EXCEPT ![c] = None] /\ UNCHANGED <<cookie, mails>>
          \/ cookie' = [cookie EXCEPT ![c] = None] /\ UNCHANGED <<access, mails>>
     \/ \E a \in mails : mails' = mails \ {a} /\ UNCHANGED <<access, cookie>>
  /\ UNCHANGED <<password, req, ghosts>>

\* A failed database call, or a client that gives up.
Abort(s) == req[s] # Idle /\ Refuse(s)

Next ==
  \/ \E s \in Slots, c \in Clients :
       \/ RefreshToken(s, c) \/ Logout(s, c)
       \/ \E a \in Addresses :
            \/ ForgotPasswordUser(s, c, a)
            \/ \E p \in Passwords : \/ RegisterUser(s, c, a, p)
                                     \/ LoginUser(s, c, a, p)
                                     \/ ResetPassword(s, c, a, p)
  \/ \E s \in Slots : \/ CreateUser(s) \/ ComparePassword(s) \/ RefreshFind(s)
                      \/ SendEmail(s) \/ UpdatePassword(s) \/ Abort(s)
  \/ TokenExpires

Spec == Init /\ [][Next]_vars

-----------------------------------------------------------------------------

\* Only one client is told that it has registered an address, the one whose
\* account it is, although two may both find the address free and hash their
\* passwords at the same time (registerUser).
RegisteredOnce ==
  \A a \in Addresses :
    /\ Cardinality(owners[a]) <= 1
    /\ (password[a] = None) <=> (owners[a] = {})

\* A client's tokens are for an account that it has registered or logged in
\* to with a password that was right: no refresh, reset or overlapping request
\* turns them into somebody else's.
SessionsEarned ==
  \A c \in Clients : {access[c], cookie[c]} \subseteq
                       {None} \cup {a \in Addresses : <<c, a>> \in proved}

\* The password of an account was chosen by whoever registered it or reads its
\* mail (ARCHITECTURE.md: "Password reset uses a signed, expiring token").
PasswordByOwner ==
  \A a \in Addresses : password[a] # None =>
    setBy[a] \in owners[a] \cup {c \in Clients : <<c, a>> \in Reads}

ComparesCurrent ==
  \A s \in Slots :
    LET q == req[s] IN
    /\ q.pc = "ComparePassword" /\ req'[s] = Idle
    /\ <<access, cookie>>' # <<access, cookie>>
    => q.new = password[q.of]

SessionsReturnByPassword ==
  \A c \in Clients :
    cookie[c] = None /\ cookie'[c] # None
      => \E s \in Slots : req[s].pc \in {"CreateUser", "ComparePassword"}
=============================================================================
