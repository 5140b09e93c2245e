------------------------------- MODULE Polls -------------------------------
(***************************************************************************)
(* Polls of a meeting: the host creates and closes them, participants vote *)
(* and may change their vote (Polls/polls.service.ts).                     *)
(*                                                                         *)
(* Meanwhile participants come and go and the meeting may be deleted: that *)
(* is Membership, which the meeting service implements.  A vote in flight  *)
(* occupies a slot and makes one database call per step; the other writing *)
(* requests check what never changes and make one write, so they are one   *)
(* step of a free slot.  Reading the meeting is merged with the read after *)
(* it.                                                                     *)
(***************************************************************************)
EXTENDS Membership, Naturals, FiniteSets, FiniteSetsExt

CONSTANTS
  Host,
  PollIds,   \* bound: polls ever created
  Options,   \* the options of all polls,
  OptionOf,  \* and the poll each belongs to
  NoOption,  \* for: no vote
  Slots      \* bound: votes in flight at a time

ASSUME PollsAssumption ==
  /\ Host \in Users
  /\ IsFiniteSet(Users)
  /\ IsFiniteSet(Options)
  /\ OptionOf \in [Options -> PollIds]
  /\ NoOption \notin Options

VARIABLES
  poll,   \* no such poll, open, or closed
  votes,  \* row of poll_votes per poll and voter: the option; unique
  req     \* votes in flight

pollVars == <<poll, votes, req>>
vars == <<stage, poll, votes, req>>

PollStates == {"none", "open", "closed"}
Ballots == Options \cup {NoOption}

\* prior: the vote found, which decides between update and create.
Vote == [pc : {"FindPoll", "FindVote", "WriteVote"}, by : Users,
         poll : PollIds, option : Options, prior : Ballots]
Idle == [pc |-> "idle"]

TypeOK ==
  /\ stage \in [Users -> Stages]
  /\ poll \in [PollIds -> PollStates]
  /\ votes \in [PollIds -> [Users -> Ballots]]
  /\ req \in [Slots -> Vote \cup {Idle}]

NoVotes == [p \in PollIds |-> [u \in Users |-> NoOption]]

Init ==
  /\ Founded(Host)
  /\ poll = [p \in PollIds |-> "none"]
  /\ votes = NoVotes
  /\ req = [s \in Slots |-> Idle]

\* The host's row lives as long as the meeting.
Exists == Host \in Present

CreatePoll(s, p) ==
  /\ req[s] = Idle
  /\ Exists
  /\ poll[p] = "none"
  /\ poll' = [poll EXCEPT ![p] = "open"]
  /\ UNCHANGED <<stage, votes, req>>

\* Closing a closed poll again changes its closed_at only.
ClosePoll(s, p) ==
  /\ req[s] = Idle
  /\ poll[p] # "none"
  /\ poll' = [poll EXCEPT ![p] = "closed"]
  /\ UNCHANGED <<stage, votes, req>>

-----------------------------------------------------------------------------
(* submitPollVote                                                          *)

Become(s, q) == req' = [req EXCEPT ![s] = q]
Goto(s, pc) == Become(s, [req[s] EXCEPT !.pc = pc])
ReadOnly == UNCHANGED <<stage, poll, votes>>

\* getParticipantOrThrow asks for a row, whatever its status.
SubmitPollVote(s, u, p, o) ==
  /\ u \in Present
  /\ req[s] = Idle
  /\ Become(s, [pc |-> "FindPoll", by |-> u, poll |-> p, option |-> o,
                prior |-> NoOption])
  /\ ReadOnly

FindPollEvenClosed(s) ==
  LET q == req[s] IN
  /\ q.pc = "FindPoll"
  /\ IF poll[q.poll] # "none" /\ OptionOf[q.option] = q.poll
     THEN Goto(s, "FindVote") ELSE Become(s, Idle)
  /\ ReadOnly

FindPollAnyOption(s) ==
  /\ req[s].pc = "FindPoll"
  /\ IF poll[req[s].poll] = "open" THEN Goto(s, "FindVote")
                                   ELSE Become(s, Idle)
  /\ ReadOnly

FindPoll(s) ==
  LET q == req[s] IN
  /\ q.pc = "FindPoll"
  /\ IF poll[q.poll] = "open" /\ OptionOf[q.option] = q.poll
     THEN Goto(s, "FindVote") ELSE Become(s, Idle)
  /\ ReadOnly

FindVote(s) ==
  LET q == req[s] IN
  /\ q.pc = "FindVote"
  /\ Become(s, [q EXCEPT !.pc = "WriteVote", !.prior = votes[q.poll][q.by]])
  /\ ReadOnly

WriteVoteAnyway(s) ==
  LET q == req[s] IN
  /\ q.pc = "WriteVote"
  /\ votes' = [votes EXCEPT ![q.poll][q.by] = q.option]
  /\ Become(s, Idle)
  /\ UNCHANGED <<stage, poll>>

\* Updates the vote that was found, or creates one: the unique constraint and
\* the foreign key refuse a second vote and the vote of a deleted poll.
WriteVote(s) ==
  LET q == req[s]
      writable == /\ poll[q.poll] # "none"
                  /\ (q.prior = NoOption) <=> (votes[q.poll][q.by] = NoOption)
  IN
  /\ q.pc = "WriteVote"
  /\ votes' = IF writable THEN [votes EXCEPT ![q.poll][q.by] = q.option]
                          ELSE votes
  /\ Become(s, Idle)
  /\ UNCHANGED <<stage, poll>>

-----------------------------------------------------------------------------
(* getPollResults: the votes are counted by option.                        *)

VoteCount(o) ==
  Cardinality({pu \in PollIds \X Users : votes[pu[1]][pu[2]] = o})

TotalVotes(p) == MapThenSumSet(VoteCount, {o \in Options : OptionOf[o] = p})

-----------------------------------------------------------------------------
(* The meeting around the polls.                                           *)

Participants == Change /\ UNCHANGED pollVars

\* deleteMeeting deletes the polls with their votes and options.
DeleteMeeting(s) ==
  /\ req[s] = Idle
  /\ Exists
  /\ Erase
  /\ poll' = [p \in PollIds |-> "none"]
  /\ votes' = NoVotes
  /\ UNCHANGED req

Next ==
  \/ \E s \in Slots :
       \/ \E p \in PollIds : CreatePoll(s, p) \/ ClosePoll(s, p)
       \/ \E u \in Users, p \in PollIds, o \in Options :
            SubmitPollVote(s, u, p, o)
       \/ FindPoll(s) \/ FindVote(s) \/ WriteVote(s)
       \/ DeleteMeeting(s)
  \/ Participants

Spec == Init /\ [][Next]_vars

-----------------------------------------------------------------------------

\* The total of a poll's results is the number of those who have voted on it:
\* no vote is counted twice, or for another poll (submitPollVote looks up the
\* option among the poll's own, and a vote is changed and not added).
ResultsAddUp ==
  \A p \in PollIds :
    TotalVotes(p) = Cardinality({u \in Users : votes[p][u] # NoOption})

\* A vote has a poll and its voter a row, although the votes in flight have
\* checked both before the meeting could be deleted.
VotesHaveVoters ==
  \A p \in PollIds, u \in Users :
    votes[p][u] # NoOption => poll[p] # "none" /\ u \in Present

KeepsClosed ==
  \A p \in PollIds :
    poll[p] = "closed" /\ poll'[p] # "none" => votes'[p] = votes[p]

StoresVote ==
  \A s \in Slots :
    LET q == req[s] IN
    q.pc = "WriteVote" /\ req'[s] = Idle /\ poll[q.poll] # "none"
      => votes'[q.poll][q.by] = q.option

\* A vote that has passed all checks is stored (submitPollVote; TODO_TASKS.md
\* calls the race between look-up and write fixed).
VoteStored == [][StoresVote]_vars
=============================================================================
