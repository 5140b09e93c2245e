----------------------------- MODULE PollsProofs -----------------------------
(***************************************************************************)
(* Proofs about Polls, for any users, polls, options and votes in flight:  *)
(* types, votes have polls and voters and are for an option of the poll,   *)
(* and the results of a poll add up to its votes; and about the history of *)
(* module MCPolls: as long as no requests have overlapped, a closed poll   *)
(* keeps its votes.                                                        *)
(***************************************************************************)
EXTENDS MCPolls, FiniteSetTheorems, TLAPS

\* Every vote is for one of the poll's own options, which is why the counts
\* of a poll's options add up to its votes.
OwnOptions ==
  \A p \in PollIds, u \in Users :
    votes[p][u] # NoOption => OptionOf[votes[p][u]] = p

\* Inductive: the rows and polls of a meeting go together; a vote in flight
\* whose poll is there comes from somebody with a row.
VoteRight(q) ==
  q # Idle => /\ Exists => q.by \in Present
              /\ q.pc \in {"FindVote", "WriteVote"} => OptionOf[q.option] = q.poll

PollsInv ==
  /\ VotesHaveVoters
  /\ OwnOptions
  /\ \A s \in Slots : VoteRight(req[s])
  /\ ~Exists => Present = {} /\ \A p \in PollIds : poll[p] = "none"

LEMMA IdleIsNoVote == Idle.pc = "idle" /\ Idle \notin Vote
  BY DEF Idle, Vote

LEMMA BecomeInv ==
  ASSUME TypeOK, PollsInv, NEW s \in Slots, NEW q \in Vote \cup {Idle},
         VoteRight(q), Become(s, q), ReadOnly
  PROVE  TypeOK' /\ PollsInv'
<1>1. /\ UNCHANGED <<stage, poll, votes>>
      /\ req' = [req EXCEPT ![s] = q]
  BY DEF Become, ReadOnly
<1> QED
  BY <1>1
     DEF TypeOK, PollsInv, VotesHaveVoters, OwnOptions, VoteRight, Exists, Present

\* A vote that has passed the checks, or not.
LEMMA CheckInv ==
  ASSUME TypeOK, PollsInv, NEW s \in Slots, FindPoll(s) \/ FindVote(s)
  PROVE  TypeOK' /\ PollsInv'
<1> DEFINE q == req[s]
<1>1. q \in Vote /\ q # Idle /\ ReadOnly
  BY IdleIsNoVote DEF FindPoll, FindVote, TypeOK
<1>2. VoteRight(Idle)
  BY DEF VoteRight
<1>3. CASE FindPoll(s)
  <2>1. CASE Become(s, Idle)
    BY <1>1, <1>2, <2>1, BecomeInv
  <2>2. CASE Goto(s, "FindVote") /\ OptionOf[q.option] = q.poll
    <3>1. /\ [q EXCEPT !.pc = "FindVote"] \in Vote
          /\ VoteRight([q EXCEPT !.pc = "FindVote"])
      BY <1>1, <2>2, IdleIsNoVote DEF Vote, VoteRight, PollsInv
    <3> QED
      BY <1>1, <2>2, <3>1, BecomeInv DEF Goto
  <2> QED
    BY <1>3, <2>1, <2>2 DEF FindPoll
<1>4. CASE FindVote(s)
  <2> DEFINE found == [q EXCEPT !.pc = "WriteVote", !.prior = votes[q.poll][q.by]]
  <2>1. votes[q.poll][q.by] \in Ballots
    BY <1>1 DEF Vote, TypeOK
  <2>2. /\ found \in Vote
        /\ found.by = q.by /\ found.poll = q.poll /\ found.option = q.option
    BY <1>1, <2>1 DEF Vote
  <2>3. VoteRight(found)
    BY <1>1, <1>4, <2>2 DEF FindVote, VoteRight, PollsInv
  <2> QED
    BY <1>1, <1>4, <2>2, <2>3, BecomeInv DEF FindVote
<1> QED
  BY <1>3, <1>4

LEMMA WriteVoteInv ==
  ASSUME TypeOK, PollsInv, NEW s \in Slots, WriteVote(s)
  PROVE  TypeOK' /\ PollsInv'
<1> DEFINE q == req[s]
<1>1. /\ q \in Vote /\ q # Idle /\ q.pc = "WriteVote"
      /\ Become(s, Idle) /\ UNCHANGED <<stage, poll>>
  BY IdleIsNoVote DEF WriteVote, TypeOK
<1>2. VoteRight(Idle)
  BY DEF VoteRight
<1>3. CASE votes' = votes
  BY <1>1, <1>2, <1>3, BecomeInv DEF ReadOnly
<1>4. CASE /\ poll[q.poll] # "none"
           /\ votes' = [votes EXCEPT ![q.poll][q.by] = q.option]
  <2>1. /\ q.by \in Users /\ q.poll \in PollIds /\ q.option \in Options
        /\ q.by \in Present /\ OptionOf[q.option] = q.poll
    BY <1>1, <1>4 DEF PollsInv, VoteRight, Vote
  <2>2. /\ req' \in [Slots -> Vote \cup {Idle}]
        /\ \A t \in Slots : req'[t] \in {req[t], Idle}
    BY <1>1 DEF Become, TypeOK
  <2>3. TypeOK'
    BY <1>1, <1>4, <2>1, <2>2 DEF TypeOK, Ballots
  <2>4. \A t \in Slots : VoteRight(req[t])'
    BY <1>1, <2>2 DEF PollsInv, VoteRight, Exists, Present
  <2>5. VotesHaveVoters' /\ OwnOptions'
    BY <1>1, <1>4, <2>1 DEF PollsInv, VotesHaveVoters, OwnOptions, Present, TypeOK
  <2> QED
    BY <1>1, <2>3, <2>4, <2>5 DEF PollsInv, Exists, Present
<1> QED
  BY <1>1, <1>3, <1>4 DEF WriteVote

-----------------------------------------------------------------------------
(* The meeting.                                                            *)

\* Whoever has a row keeps it, and nobody enters a deleted meeting.
LEMMA ParticipantsInv ==
  ASSUME TypeOK, PollsInv, Participants
  PROVE  TypeOK' /\ PollsInv'
<1>1. Change /\ UNCHANGED <<poll, votes, req>>
  BY DEF Participants, pollVars
<1>2. TypeOK'
  BY <1>1 DEF Change, TypeOK
<1>3. Present \subseteq Present'
  BY <1>1 DEF Change
<1>4. Exists /\ Exists'
  BY <1>1, <1>3 DEF Change, PollsInv, Exists
<1> QED
  BY <1>1, <1>2, <1>3, <1>4
     DEF PollsInv, VotesHaveVoters, OwnOptions, VoteRight, Exists

LEMMA DeleteMeetingInv ==
  ASSUME TypeOK, PollsInv, NEW s \in Slots, DeleteMeeting(s)
  PROVE  TypeOK' /\ PollsInv'
<1>1. /\ stage' = [u \in Users |-> "none"]
      /\ poll' = [p \in PollIds |-> "none"]
      /\ votes' = [p \in PollIds |-> [u \in Users |-> NoOption]]
      /\ req' = req
  BY DEF DeleteMeeting, Erase, NoVotes
<1>2. TypeOK'
  BY <1>1 DEF TypeOK, Stages, PollStates, Ballots
<1>3. Present' = {}
  BY <1>1 DEF Present
<1>4. Host \in Users
  BY PollsAssumption
<1> QED
  BY <1>1, <1>2, <1>3, <1>4
     DEF PollsInv, VotesHaveVoters, OwnOptions, VoteRight, Exists

-----------------------------------------------------------------------------
(* The theorems.                                                           *)

LEMMA PollsInit == Init => TypeOK /\ PollsInv
<1> SUFFICES ASSUME Init PROVE TypeOK /\ PollsInv
  OBVIOUS
<1>1. TypeOK
  BY DEF Init, Founded, TypeOK, Stages, PollStates, NoVotes, Ballots
<1> QED
  BY <1>1, PollsAssumption
     DEF Init, Founded, NoVotes, PollsInv, VotesHaveVoters, OwnOptions,
         VoteRight, Exists, Present

LEMMA PollsNext == TypeOK /\ PollsInv /\ [Next]_vars => TypeOK' /\ PollsInv'
<1> SUFFICES ASSUME TypeOK, PollsInv, [Next]_vars
             PROVE  TypeOK' /\ PollsInv'
  OBVIOUS
<1>1. ASSUME NEW s \in Slots, NEW p \in PollIds, CreatePoll(s, p) \/ ClosePoll(s, p)
      PROVE  TypeOK' /\ PollsInv'
  <2>1. /\ UNCHANGED <<stage, votes, req>>
        /\ poll' \in [PollIds -> PollStates]
        /\ \A r \in PollIds : poll'[r] = "none" => poll[r] = "none"
        /\ ~Exists => \A r \in PollIds : poll'[r] = "none"
    BY <1>1 DEF CreatePoll, ClosePoll, TypeOK, PollStates, PollsInv
  <2> QED
    BY <2>1
       DEF TypeOK, PollsInv, VotesHaveVoters, OwnOptions, VoteRight, Exists,
           Present
<1>2. ASSUME NEW s \in Slots, NEW u \in Users, NEW p \in PollIds,
             NEW o \in Options, SubmitPollVote(s, u, p, o)
      PROVE  TypeOK' /\ PollsInv'
  <2> DEFINE q == [pc |-> "FindPoll", by |-> u, poll |-> p, option |-> o,
                   prior |-> NoOption]
  <2>1. q \in Vote /\ VoteRight(q) /\ Become(s, q) /\ ReadOnly
    BY <1>2 DEF SubmitPollVote, Vote, VoteRight, Ballots
  <2> QED
    BY <2>1, BecomeInv
<1>3. CASE UNCHANGED vars
  BY <1>3
     DEF vars, TypeOK, PollsInv, VotesHaveVoters, OwnOptions, VoteRight, Exists,
         Present
<1> QED
  BY <1>1, <1>2, <1>3, CheckInv, WriteVoteInv, ParticipantsInv, DeleteMeetingInv
     DEF Next

\* Types, and what polls, votes and votes in flight are right about.
THEOREM PollsCorrect == Spec => [](TypeOK /\ PollsInv)
  BY PollsInit, PollsNext, PTL DEF Spec

\* Votes in flight when the meeting is deleted leave no vote behind.
THEOREM VotersStay == Spec => []VotesHaveVoters
<1>1. PollsInv => VotesHaveVoters
  BY DEF PollsInv
<1> QED
  BY <1>1, PollsCorrect, PTL

\* No vote is for an option of another poll.
THEOREM VotesForOwnOptions == Spec => []OwnOptions
<1>1. PollsInv => OwnOptions
  BY DEF PollsInv
<1> QED
  BY <1>1, PollsCorrect, PTL
-----------------------------------------------------------------------------
(* getPollResults: what the fold over a poll's options adds up to.  The    *)
(* induction is over the finite subsets, by a minimal counterexample.      *)

LEMMA SubsetInduction ==
  ASSUME NEW S, IsFiniteSet(S), NEW Good \in SUBSET (SUBSET S), {} \in Good,
         \A T \in SUBSET S :
           T # {} /\ (\A x \in T : T \ {x} \in Good) => T \in Good
  PROVE  S \in Good
<1> DEFINE Bad == (SUBSET S) \ Good
<1> SUFFICES ASSUME Bad # {} PROVE FALSE
  OBVIOUS
<1>1. IsWellFoundedOn(StrictSubsetOrdering(S), SUBSET S)
  <2>1. FiniteSubsetsOf(S) = SUBSET S
    BY FS_FiniteSubsetsOfFinite
  <2>2. IsWellFoundedOn(StrictSubsetOrdering(S), FiniteSubsetsOf(S))
    BY FS_StrictSubsetOrderingWellFounded
  <2> QED
    BY <2>1, <2>2
<1>2. PICK T \in Bad : \A U \in Bad : ~(<<U, T>> \in StrictSubsetOrdering(S))
  <2>1. Bad \subseteq SUBSET S
    OBVIOUS
  <2> HIDE DEF Bad
  <2> QED
    BY <1>1, <2>1, WFMin
<1>3. ASSUME NEW x \in T
      PROVE  T \ {x} \in Good
  <2> DEFINE U == T \ {x}
  <2>1. U \in SUBSET S /\ T \in SUBSET S /\ U \subseteq T /\ U # T
    OBVIOUS
  <2>2. <<U, T>> \in StrictSubsetOrdering(S)
    <3> HIDE DEF U
    <3> QED
      BY <2>1 DEF StrictSubsetOrdering
  <2> QED
    BY <1>2, <2>1, <2>2
<1> QED
  BY <1>3

\* A function of the subsets that grows by each element's summand,
Adds(f, g, S) ==
  /\ f[{}] = 0
  /\ \A T \in SUBSET S : \A x \in T : f[T] = g[x] + f[T \ {x}]

\* and one that takes the elements in some order.
TakesFirst(h, first, g, S) ==
  /\ h[{}] = 0
  /\ \A T \in SUBSET S :
       T # {} => first[T] \in T /\ h[T] = g[first[T]] + h[T \ {first[T]}]

\* The order makes no difference.
LEMMA SumOf ==
  ASSUME NEW S, IsFiniteSet(S), NEW f, NEW g, NEW h, NEW first,
         Adds(f, g, S), TakesFirst(h, first, g, S)
  PROVE  h[S] = f[S]
<1> DEFINE Good == {T \in SUBSET S : h[T] = f[T]}
<1>1. {} \in Good
  BY DEF Adds, TakesFirst
<1>2. ASSUME NEW T \in SUBSET S, T # {}, \A x \in T : T \ {x} \in Good
      PROVE  T \in Good
  <2> PICK x \in T : x = first[T]
    BY <1>2 DEF TakesFirst
  <2>1. h[T] = g[x] + h[T \ {x}] /\ f[T] = g[x] + f[T \ {x}]
    BY <1>2 DEF TakesFirst, Adds
  <2>2. h[T \ {x}] = f[T \ {x}]
    BY <1>2
  <2> QED
    BY <2>1, <2>2
<1>3. S \in Good
  <2> HIDE DEF Good
  <2>1. Good \in SUBSET (SUBSET S)
    BY DEF Good
  <2> QED
    BY <1>1, <1>2, <2>1, SubsetInduction
<1> QED
  BY <1>3

OptionsOf(p) == {o \in Options : OptionOf[o] = p}

Voters(p, T) == {u \in Users : votes[p][u] \in T}

LEMMA DisjointSum ==
  ASSUME NEW A, NEW B, IsFiniteSet(A), IsFiniteSet(B), A \cap B = {}
  PROVE  Cardinality(A \cup B) = Cardinality(A) + Cardinality(B)
<1>1. Cardinality(A \cap B) = 0
  BY FS_EmptySet
<1>2. Cardinality(A) \in Nat /\ Cardinality(B) \in Nat
  BY FS_CardinalityType
<1>3. Cardinality(A \cup B) = Cardinality(A) + Cardinality(B) - Cardinality(A \cap B)
  BY FS_Union
<1> QED
  BY <1>1, <1>2, <1>3

LEMMA VotersFinite ==
  ASSUME NEW p, NEW T
  PROVE  IsFiniteSet(Voters(p, T)) /\ Cardinality(Voters(p, T)) \in Nat
<1>1. Voters(p, T) \in SUBSET Users
  BY DEF Voters
<1> QED
  BY <1>1, PollsAssumption, FS_Subset, FS_CardinalityType

\* An option's votes are those on its own poll.
LEMMA CountOfOption ==
  ASSUME TypeOK, OwnOptions, NEW p \in PollIds, NEW o \in OptionsOf(p)
  PROVE  VoteCount(o) = Cardinality(Voters(p, {o}))
<1> DEFINE W == {pu \in PollIds \X Users : votes[pu[1]][pu[2]] = o}
           V == Voters(p, {o})
           f == [u \in V |-> <<p, u>>]
<1>1. o \in Options /\ OptionOf[o] = p /\ o # NoOption
  BY PollsAssumption DEF OptionsOf
<1>2. W = {<<p, u>> : u \in V}
  <2>1. \A q \in PollIds, u \in Users : votes[q][u] = o => q = p
    BY <1>1 DEF OwnOptions
  <2> QED
    BY <2>1 DEF Voters
<1>3. f \in Bijection(V, W)
  <2> HIDE DEF V, W
  <2> QED
    BY <1>2 DEF Bijection, Injection, Surjection, IsInjective
<1>4. IsFiniteSet(V)
  BY VotersFinite
<1>5. Cardinality(W) = Cardinality(V)
  <2> HIDE DEF V, W, f
  <2> QED
    BY <1>3, <1>4, FS_Bijection DEF ExistsBijection
<1> QED
  BY <1>5 DEF VoteCount

LEMMA TotalIsVoters ==
  ASSUME TypeOK, OwnOptions, NEW p \in PollIds
  PROVE  TotalVotes(p) = Cardinality(Voters(p, OptionsOf(p)))
<1> DEFINE S == OptionsOf(p)
           g == [o \in S |-> VoteCount(o)]
           f == [T \in SUBSET S |-> Cardinality(Voters(p, T))]
           IsSum(h) == h = [T \in SUBSET S |->
                              IF T = {} THEN 0
                              ELSE VoteCount(CHOOSE x \in T : TRUE)
                                     + h[T \ {CHOOSE x \in T : TRUE}]]
<1>1. TotalVotes(p) = (CHOOSE h : IsSum(h))[S]
  BY DEF TotalVotes, MapThenSumSet, MapThenFoldSet, OptionsOf
<1>2. IsFiniteSet(S)
  <2>1. S \in SUBSET Options
    BY DEF OptionsOf
  <2> QED
    BY <2>1, PollsAssumption, FS_Subset
<1>3. f \in [SUBSET S -> Nat] /\ f[{}] = 0
  <2>1. Voters(p, {}) = {}
    BY DEF Voters
  <2> QED
    BY <2>1, VotersFinite, FS_EmptySet
<1>4. ASSUME NEW T \in SUBSET S, NEW x \in T
      PROVE  f[T] = VoteCount(x) + f[T \ {x}]
  <2> DEFINE A == Voters(p, {x})
             B == Voters(p, T \ {x})
  <2>1. A \cup B = Voters(p, T) /\ A \cap B = {}
    BY DEF Voters
  <2>2. Cardinality(A \cup B) = Cardinality(A) + Cardinality(B)
    <3>1. IsFiniteSet(A) /\ IsFiniteSet(B)
      BY VotersFinite
    <3> HIDE DEF A, B
    <3> QED
      BY <2>1, <3>1, DisjointSum
  <2>3. VoteCount(x) = Cardinality(A)
    BY CountOfOption
  <2> QED
    BY <2>1, <2>2, <2>3
<1>5. \E h : IsSum(h)
  <2> SUFFICES IsSum(f)
    OBVIOUS
  <2>1. ASSUME NEW T \in SUBSET S
        PROVE  f[T] = IF T = {} THEN 0
                      ELSE VoteCount(CHOOSE x \in T : TRUE)
                             + f[T \ {CHOOSE x \in T : TRUE}]
    <3> HIDE DEF f
    <3> QED
      BY <1>3, <1>4
  <2>2. f = [T \in SUBSET S |-> f[T]]
    OBVIOUS
  <2> HIDE DEF f
  <2> QED
    BY <2>1, <2>2
<1>6. PICK h : IsSum(h) /\ TotalVotes(p) = h[S]
  BY <1>1, <1>5
<1> DEFINE first == [T \in SUBSET S |-> CHOOSE x \in T : TRUE]
<1>7. TakesFirst(h, first, g, S)
  <2>1. h[{}] = 0
    BY <1>6, {} \in SUBSET S
  <2>2. ASSUME NEW T \in SUBSET S, T # {}
        PROVE  first[T] \in T /\ h[T] = g[first[T]] + h[T \ {first[T]}]
    <3> PICK x : x = CHOOSE z \in T : TRUE
      OBVIOUS
    <3>1. x \in T /\ first[T] = x
      BY <2>2
    <3>2. h[T] = VoteCount(x) + h[T \ {x}]
      BY <1>6, <2>2
    <3> QED
      BY <3>1, <3>2
  <2> QED
    BY <2>1, <2>2 DEF TakesFirst
<1>8. Adds(f, g, S)
  BY <1>3, <1>4 DEF Adds
<1>9. h[S] = f[S]
  <2> HIDE DEF S, f, g, first, IsSum
  <2> QED
    BY <1>2, <1>7, <1>8, SumOf
<1> QED
  BY <1>6, <1>9

\* The results of a poll add up to the number of those who have voted on it:
\* getPollResults counts every vote once, and every vote is for an option of
\* the poll.
THEOREM TotalsAddUp == Spec => []ResultsAddUp
<1>1. ASSUME TypeOK, OwnOptions
      PROVE  ResultsAddUp
  <2> SUFFICES ASSUME NEW p \in PollIds
               PROVE  TotalVotes(p)
                        = Cardinality({u \in Users : votes[p][u] # NoOption})
    BY DEF ResultsAddUp
  <2>1. Voters(p, OptionsOf(p)) = {u \in Users : votes[p][u] # NoOption}
    BY <1>1, PollsAssumption DEF Voters, OptionsOf, OwnOptions, TypeOK, Ballots
  <2> QED
    BY <1>1, <2>1, TotalIsVoters
<1> QED
  BY <1>1, PollsCorrect, PTL DEF PollsInv

-----------------------------------------------------------------------------
(* One request at a time: the poll that a vote has found open is open when *)
(* the vote is written.                                                    *)

OneVote == \A s, t \in Slots : s # t => req[s] = Idle \/ req[t] = Idle

FoundOpen(q) == q.pc \in {"FindVote", "WriteVote"} => poll[q.poll] = "open"

SerialInv == OneVote /\ \A s \in Slots : FoundOpen(req[s])

LEMMA SerialNext ==
  ASSUME TypeOK, SerialInv, ~Overlap, Next
  PROVE  SerialInv' /\ KeepsClosed
<1>1. OneVote'
  BY DEF Overlap, OneVote
<1>2. FoundOpen(Idle)'
  BY IdleIsNoVote DEF FoundOpen
<1>3. ASSUME NEW t \in Slots, req'[t] = req[t]
      PROVE  FoundOpen(req[t])'
  <2>1. CASE req[t] = Idle
    BY <1>2, <1>3, <2>1 DEF FoundOpen
  <2>2. CASE req[t] # Idle
    BY <1>3, <2>2 DEF Overlap, SerialInv, FoundOpen
  <2> QED
    BY <2>1, <2>2
<1>4. ASSUME NEW s \in Slots, NEW q \in Vote \cup {Idle}, Become(s, q),
             FoundOpen(q)'
      PROVE  SerialInv'
  <2>1. \A t \in Slots : req'[t] \in {req[t], q}
    BY <1>4 DEF Become, TypeOK
  <2>2. ASSUME NEW t \in Slots, req'[t] = q
        PROVE  FoundOpen(req[t])'
    BY <1>4, <2>2 DEF FoundOpen
  <2> QED
    BY <1>1, <1>3, <2>1, <2>2 DEF SerialInv
<1>5. CASE req' = req
  <2>1. SerialInv'
    BY <1>1, <1>3, <1>5 DEF SerialInv
  <2>2. ASSUME NEW s \in Slots
        PROVE  ~WriteVote(s)
    BY <1>5, IdleIsNoVote DEF WriteVote, Become, TypeOK
  <2>3. votes' = votes \/ \A p \in PollIds : poll'[p] = "none"
    BY <2>2
       DEF Next, CreatePoll, ClosePoll, DeleteMeeting, Participants, pollVars,
           SubmitPollVote, FindPoll, FindVote, ReadOnly
  <2> QED
    BY <2>1, <2>3 DEF KeepsClosed
<1>6. ASSUME NEW s \in Slots, NEW u \in Users, NEW p \in PollIds,
             NEW o \in Options, SubmitPollVote(s, u, p, o)
      PROVE  SerialInv' /\ KeepsClosed
  <2> DEFINE q == [pc |-> "FindPoll", by |-> u, poll |-> p, option |-> o,
                   prior |-> NoOption]
  <2>1. q \in Vote /\ q.pc = "FindPoll" /\ Become(s, q) /\ ReadOnly
    BY <1>6 DEF SubmitPollVote, Vote, Ballots
  <2>2. FoundOpen(q)'
    BY <2>1 DEF FoundOpen
  <2> QED
    BY <1>4, <2>1, <2>2 DEF ReadOnly, KeepsClosed
<1>7. ASSUME NEW s \in Slots, FindPoll(s) \/ FindVote(s)
      PROVE  SerialInv' /\ KeepsClosed
  <2> PICK q \in Vote : q = req[s]
    BY <1>7, IdleIsNoVote DEF FindPoll, FindVote, TypeOK
  <2>1. UNCHANGED <<stage, poll, votes>>
    BY <1>7 DEF FindPoll, FindVote, ReadOnly
  <2>2. CASE Become(s, Idle)
    BY <1>2, <1>4, <2>1, <2>2 DEF KeepsClosed
  <2>3. CASE Goto(s, "FindVote") /\ poll[q.poll] = "open"
    <3>1. /\ [q EXCEPT !.pc = "FindVote"] \in Vote
          /\ FoundOpen([q EXCEPT !.pc = "FindVote"])'
      BY <2>1, <2>3 DEF Vote, FoundOpen
    <3> QED
      BY <1>4, <2>1, <2>3, <3>1 DEF Goto, KeepsClosed
  <2>4. CASE FindVote(s)
    <3> DEFINE found == [q EXCEPT !.pc = "WriteVote",
                                  !.prior = votes[q.poll][q.by]]
    <3>1. votes[q.poll][q.by] \in Ballots
      BY DEF Vote, TypeOK
    <3>2. found \in Vote /\ found.poll = q.poll
      BY <3>1 DEF Vote
    <3>3. FoundOpen(found)'
      BY <2>1, <2>4, <3>2 DEF FindVote, FoundOpen, SerialInv
    <3> QED
      BY <1>4, <2>1, <2>4, <3>2, <3>3 DEF FindVote, KeepsClosed
  <2> QED
    BY <1>7, <2>2, <2>3, <2>4 DEF FindPoll
<1>8. ASSUME NEW s \in Slots, WriteVote(s)
      PROVE  SerialInv' /\ KeepsClosed
  <2> PICK q \in Vote : q = req[s]
    BY <1>8, IdleIsNoVote DEF WriteVote, TypeOK
  <2>1. /\ Become(s, Idle) /\ poll' = poll
        /\ votes' \in {votes, [votes EXCEPT ![q.poll][q.by] = q.option]}
        /\ poll[q.poll] = "open" /\ q.poll \in PollIds
    BY <1>8 DEF WriteVote, SerialInv, FoundOpen, Vote
  <2>2. KeepsClosed
    BY <2>1 DEF KeepsClosed, TypeOK
  <2> QED
    BY <1>2, <1>4, <2>1, <2>2
<1> QED
  BY <1>5, <1>6, <1>7, <1>8
     DEF Next, CreatePoll, ClosePoll, DeleteMeeting, Participants, pollVars

HistoryInv == TypeOK /\ PollsInv /\ (~overlapped => SerialInv)

LEMMA HistoryInit == MCInit => HistoryInv
<1> SUFFICES ASSUME MCInit PROVE HistoryInv
  OBVIOUS
<1>1. TypeOK /\ PollsInv /\ \A s \in Slots : req[s] = Idle
  BY PollsInit DEF MCInit, Init
<1> QED
  BY <1>1, IdleIsNoVote DEF HistoryInv, SerialInv, OneVote, FoundOpen

LEMMA HistoryNext ==
  ASSUME HistoryInv, [MCNext]_<<vars, overlapped>>
  PROVE  HistoryInv' /\ [overlapped' \/ KeepsClosed]_vars
<1>1. CASE MCNext
  BY <1>1, PollsNext, SerialNext DEF HistoryInv, MCNext
<1>2. CASE UNCHANGED <<vars, overlapped>>
  <2>1. TypeOK' /\ PollsInv'
    BY <1>2, PollsNext DEF HistoryInv
  <2>2. SerialInv => SerialInv'
    BY <1>2 DEF vars, SerialInv, OneVote, FoundOpen
  <2> QED
    BY <1>2, <2>1, <2>2 DEF HistoryInv
<1> QED
  BY <1>1, <1>2

\* As long as no requests have overlapped the votes of a closed poll do not
\* change: the poll that submitPollVote has found open is still open when it
\* writes the vote.
THEOREM ClosedStays == MCSpec => ClosedIsFinal
<1>1. HistoryInv /\ [MCNext]_<<vars, overlapped>>
        => [overlapped' \/ KeepsClosed]_vars
  BY HistoryNext
<1> QED
  BY <1>1, HistoryInit, HistoryNext, PTL DEF MCSpec, ClosedIsFinal
=============================================================================
