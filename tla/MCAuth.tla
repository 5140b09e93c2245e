------------------------------- MODULE MCAuth -------------------------------
(* Auth on a small instance: ann and bob read a mailbox each.              *)
EXTENDS Auth, TLC

CONSTANTS ann, bob, amail, bmail, p1, p2, s1, s2

MCReads == {<<ann, amail>>, <<bob, bmail>>} \cap (Clients \X Addresses)
MCSymmetry == Permutations(Slots) \cup Permutations(Passwords)

VARIABLE overlapped \* history: two requests have been in flight at a time

\* A request of one step overlaps with one that stands still meanwhile.
Overlap ==
  \/ \E s, t \in Slots : s # t /\ req'[s] # Idle /\ req'[t] # Idle
  \/ \E s \in Slots : /\ req[s] # Idle
                      /\ req'[s] = req[s]
                      /\ <<password, cookie>>' # <<password, cookie>>

MCInit == Init /\ overlapped = FALSE

MCNext == Next /\ overlapped' = (overlapped \/ Overlap)

MCSpec == MCInit /\ [][MCNext]_<<vars, overlapped>>

-----------------------------------------------------------------------------

\* As long as no requests have overlapped, a login is answered only with the
\* password the account has by then (loginUser compares with the one it read).
LoginByCurrentPassword == [][overlapped' \/ ComparesCurrent]_vars

\* As long as no requests have overlapped, a client without the cookie, like
\* one that has logged out, gets one by registering or logging in only.
LoggedOutStaysOut == [][overlapped' \/ SessionsReturnByPassword]_vars
=============================================================================
