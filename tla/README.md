# A TLA+ model of the meet-apps backend

The repository is the backend of a video-meeting platform: an Express server in
TypeScript with Prisma on PostgreSQL, LiveKit as media server, S3 for
recordings and Socket.IO. This directory models its business logic in TLA+,
checks it with TLC on small instances and proves with TLAPS, for any number of
users and requests, every safety property that the runs check.

Contents: [1 Inventory](#1-inventory) · [2 How the code is modelled](#2-how-the-code-is-modelled)
· [3 Modules](#3-modules) · [4 Runs](#4-runs) · [5 Bounds and fairness](#5-bounds-and-fairness)
· [6 Proofs](#6-proofs) · [7 Where code and documents disagree](#7-where-code-and-documents-disagree)
· [8 What is not modelled](#8-what-is-not-modelled) · [9 Plan](#9-plan)

    tlc -workers 2 -config MCMeeting_requests.cfg MCMeeting
    tlapm MeetingProofs.tla

## 1. Inventory

Source paths are relative to `src/src/app/`.

| Component | State it keeps | Operations | Talks to |
| --- | --- | --- | --- |
| Meetings (`modules/Meetings/meetings.service.ts`) | row of `meetings` (status, waiting_room_on, max_participants, share policy), rows of `meeting_participants` | create, join, token, leave, waiting room, admit, admit all, deny, kick, end, mute, mute all, cohost, update, delete | LiveKit through `meetings.media.ts`; deletes the rows of every other component |
| LiveKit integration (`meetings.media.ts`, `modules/LiveKit`) | none of its own; room, connections and tokens live in LiveKit | ensure room, issue token, remove participant, delete room, mute; webhooks | writes participant and meeting rows on webhooks |
| ScreenShare (`modules/ScreenShare`) | rows of `screenShare`, `is_screen_sharing` of participants | start, stop, approve, deny, status | participants, LiveKit permissions |
| Recording (`modules/Record`) | rows of `recordings`, egresses in LiveKit, objects in S3 | start, stop, list, download, delete | participants, LiveKit egress, S3 |
| Polls (`modules/Polls`, `repositories/poll.repository.ts`) | rows of `polls`, `poll_options`, `poll_votes` | create, list, vote, results, close | participants |
| Breakout (`modules/Breakout`) | rows of `breakout_rooms`, `breakout_room_id` of participants, messages | create rooms, list, join, end all, broadcast | participants |
| Sockets (`sockets/index.ts`) | membership of Socket.IO rooms | meeting:join, breakout:join | participants |
| Auth (`modules/Auth`, `middlewares/auth.ts`, `helpers/jwtHelpers.ts`) | rows of `users`; JWTs held by clients | register, login, refresh, logout, forgot, reset | e-mail |
| Server (`server.ts`, `app.ts`, `middlewares`) | shutting-down flag | start, shutdown, rate limit, error handling | connections, sockets |

The components share one database and never call each other's services, with
two exceptions: everybody reads the participant rows that Meetings writes, and
`deleteMeeting` deletes everybody's rows in one transaction.

**What is hard.** Every handler reads rows, awaits, and writes what it has
decided on the strength of what it read; all requests interleave at every
`await`. Only creating and deleting a meeting, and a few pairs of writes, are
transactions. Calls to LiveKit and S3 may fail or take effect without an
answer; LiveKit's webhooks arrive late, twice, out of order or never.

| Component | What goes wrong where | What makes it correct |
| --- | --- | --- |
| Meetings | rows and switches read too early (join, admit); limits counted and then filled; ending in four steps; deleting under running requests | nobody gets in whom nobody let in; cohosts are the host's choice; the host stays host; an ended meeting is empty; a deleted one leaves nothing; who is muted was inside and LiveKit was asked |
| LiveKit | swallowed failures; webhooks applied to whatever the row says by then | tokens and connections only for those once let in; `left_at` agrees with the status |
| ScreenShare | two tables and LiveKit's permission changed one after the other | one sharer, nobody unasked, shares end with participation |
| Recording | database, egress and file changed one after the other, each may fail | every running egress and every file has a row; one recording at a time; stopping takes effect |
| Polls | look-up then write; closing in between | results add up, closed is final, votes are not lost |
| Breakout | rooms and assignments in many writes; ending in two | everybody is placed, evenly; assignments lead into open rooms |
| Creation and server | code looked up and inserted later; death in between; signals while requests run | one meeting per code, each with its host, wherever the process stops; a shutdown ends |
| Sockets | a row found, the room entered later; sessions recovered without a token | rooms only for users once allowed in |
| Auth | passwords hashed and compared while others reset and register; tokens that nobody can take back | one owner per address; sessions and passwords only for those who have earned them |

`PROJECT.json` lists each such place under `hazards`, at its line and with the
properties that would notice.

## 2. How the code is modelled

*One step is one `await`.* Node runs one request at a time between two awaits.
So a step of a request is one call to Prisma, LiveKit or S3 together with the
code after it up to the next one; any other request may run between two steps.
A request in flight is a record in a **slot**: `pc` names the call it is about
to make, the other fields are exactly the values it has read and still uses.
That a stale value is used is therefore visible in the model, as a field of the
request that differs from the row.

*Merging.* The first read of a request is merged with its arrival, and a read
of something that never changes (the meeting's id, `host_id`, room name) with the
call after it: no other request can tell the difference. A query with `include` is
one read. A request with a single call that changes anything (update, delete,
creating and closing a poll) is one step of a free slot. A rejected request
changes nothing; only its way back to an idle slot is kept.

*Calls.* A transaction is one step. The calls of a `Promise.all` come in any
order, so does what `findMany` returns without `orderBy`. Unique and foreign
key constraints refuse what they must (a second vote of a user, the room of a
deleted meeting). `Faults` says which calls may fail: `"crash"` lets a request
stop before any call, as a failed database call or the death of the process
does (`Abort`), `"livekit"` and `"s3"` let the call fail, before or after it has
taken effect. Failures the code catches and logs do not stop the request.

*Data.* Users, polls, options, rooms and egresses are model values; dates are
whether the column is set; names, messages, file names, passwords and formats
are left out. The models are of **one meeting**, since no operation touches two
and codes and ids keep them apart; only `Creation` and `Server`, which are about
the codes, have several. A password is a model value, and a token is the address
in its claims: signatures and hashes are taken to do what they are for.

*Ghosts.* `approved`, `granted` (Meeting), `permitted` (ScreenShare), `owners`,
`setBy`, `proved` (Auth) and `been` (Server) record what has happened; no guard
reads them. The MC modules
of the other components add a *history* variable: whether requests have
overlapped so far, or a request has died.

*LiveKit* is external. From the way the code uses it: a token stays valid until
it expires, after a kick or the end of the meeting too; connecting with a valid
token creates the room again if it is gone; an empty room times out; removing
somebody who is not there fails, and that failure is swallowed.
`participant_connection_aborted` is handled like `participant_left` and not
told apart. `hooks` is a *set* of webhooks on their way: an event may be lost
when raised, overtaken by later ones and delivered more than once.

## 3. Modules

| Module | Models | State | Actions |
| --- | --- | --- | --- |
| `LiveKit` | the media server, as used | room, connected, tokens, hooks | create/delete room, remove participant, connect, disconnect, time-outs |
| `Meeting` (EXTENDS LiveKit) | `meetings.service.ts`, `meetings.media.ts` | meeting and participant rows, share rows, requests | one `...Find` action per operation (its arrival), one per later await, named after function and call |
| `Membership` | nothing by itself: what the meeting service promises the other components under every interleaving | a stage per user: the status of the row, if any | Change (rows stay, and none comes into a deleted meeting), Erase |
| `Lifecycle` (EXTENDS Membership) | nothing by itself: what it promises about admission as long as requests do not overlap | also whether the meeting is open | Wait, Admit, Deny, Leave, Evacuate, Close, Erase |
| `ScreenShare` (EXTENDS Meeting) | `screenShare.service.ts` | policy and share requests, on top of all of Meeting | start, stop, approve, deny, the policy part of updateMeeting |
| `Recording` (EXTENDS Membership) | `record.service.ts` | rows, egresses, files, requests | start, stop, delete recordings |
| `Polls` (EXTENDS Membership) | `polls.service.ts`, `poll.repository.ts` | polls, votes, requests | create, vote, close |
| `Breakout` (EXTENDS Membership) | `breakout.service.ts` | rooms, assignments, requests | create, end all |
| `Creation` | creation and deletion of meetings, `createUniqueJoinCode`, the unique constraint | code, host and participant rows of several meetings, creations | create (draw, check, insert), delete, and one-step participation |
| `Server` (EXTENDS Creation) | `server.ts`, `sockets/index.ts` | phase of the process, connections, socket sessions and their rooms | start, shutdown, close, disconnect, kill; hang up; connect, ask for and enter a room, drop, recover |
| `Auth` | `auth.service.ts`, `auth.controller.ts` | passwords, tokens, cookies, mails, requests | register, login, refresh, logout, forgot, reset, expiry |
| `MC*` | the small instances, and the histories on which properties depend | histories | |
| `MeetingProofs` | proofs about Meeting under every interleaving | | |
| `SerialProofs` (EXTENDS MeetingProofs) | proofs about Meeting with one request at a time | | |
| `ShareProofs` (EXTENDS MeetingProofs, MCScreenShare) | proofs about ScreenShare in the meeting | | |
| `PollsProofs`, `RecordingProofs`, `BreakoutProofs`, `AuthProofs` (EXTEND the MC module), `ServerProofs` | proofs about one component each | | |

**Composition.** `ScreenShare` runs in the full `Meeting` module, because both
write the same two pieces of state. `Polls`, `Recording` and `Breakout` only
read who has a row and who is admitted; they run in `Membership`, in which rows
change as they like but none goes while the meeting exists and none comes back
after. That is sound because `Meeting` implements `Membership` under *every*
interleaving of its requests and webhooks, with the participants' statuses as
`stage` (`ImplementsMembership`, run `webhooks` and theorem
`MembershipImplemented`), and goes on doing so while screens
are shared (`MembershipKept`). `deleteMeeting` is there `Erase` together with
the disappearance of the component's own rows.

`Lifecycle` is the stronger promise a reader of the documents would expect. With
"waiting or active" as `open`, `Meeting` implements it when requests do not
overlap (`ImplementsLifecycle`, run `serial` and theorem
`LifecycleImplemented`). Overlapping requests break it in two ways, an admitted
user sent back to waiting and an ended meeting active again (section 7), and no
other module rests on it. It does not promise that a denied user stays out:
`leaveMeeting` asks for a row of any status, and whoever has left may join again.

`Server` composes `Creation` with the process around it: a slot is a connection,
`conn` says whose client is still there, and the rows that meetings leave decide
which rooms a socket enters. A shutdown takes no more connections and waits until
there is none (`Close`); a handler whose client has hung up goes on meanwhile, and
is cut off by `Disconnect` like any other request by `Kill`. A client that has
kept its connection may ask again while the process is closing. Who takes part
changes in one step per request; `Meeting` and `Breakout` have the details.
`Auth` shares no state with the rest: all other modules take the user of a
request as given.

**Correspondence for Meeting.** `participants[u]` is the row of user `u`, or
`NoRow`; `left_at` and `is_screen_sharing` are its columns. `LetIn`, `PutOut`
are the two ways of writing the columns that go together. A path of `join`, for
example: `JoinMeetingFind` (line 119-134: the checks on the rows read, the
waiting-room switch and the row kept in the request) → `JoinCount` (the limit,
for a user without a row only) → `JoinWrite` (the upsert, with `NextStatus` and
`JoinedRow` computed from what was read) → `EnsureRoomExists` →
`IssueParticipantToken` (a token, and the write of status admitted) →
`MarkMeetingActive`. `PROJECT.json`'s `map` gives the lines of every definition.

Definitions that no other definition uses (for instance `LetInKeepsLeftAt`,
`FindPollAnyOption`) are plausible bugs, each placed right before the definition
it would replace: putting it in place of that definition must violate the
property that `PROJECT.json` pairs it with. They show that the properties can
fail.

## 4. Runs

Runs that pass; the name of the cfg is `<module>_<run>.cfg`.

| Run | What it asks |
| --- | --- |
| `MCMeeting_requests` | two overlapping requests of join, admit, admitAll, deny, assignCohost, end, delete, LiveKit failing: `WaitingRoomRespected`, `CohostOnlyByHost`, `DeletedLeavesNothing` (2.5 million states) |
| `MCMeeting_webhooks` | webhooks lost, late, reordered and repeated under join, kick, update and delete, requests dying: `HostKeepsMeeting`, `LeftAtConsistent`, and `ImplementsMembership` (4.2 million) |
| `MCMeeting_liveness` | `RequestsAnswered`, `EndTakesEffect` although others join, fetch tokens, are kicked and muted and LiveKit fails; `MutedWereInside` (280 thousand) |
| `MCMeeting_serial` | three users, one request at a time, requests dying half-way: `EndedMeansEmpty`, `TokenOnlyToAdmitted`, `CohostKept`, `MutedAreAsked`, `AdmissionWithinCapacity`, and `ImplementsLifecycle` (5 million) |
| `MCPolls_votes` | two votes overlapping with everything: `ResultsAddUp`, `VotesHaveVoters`; not overlapping: `ClosedIsFinal` (1.1 million) |
| `MCRecording_recordings` | two requests, every operation and failure: `CompletedMeansStopped`; not overlapping: `OneRecordingSerially`, `CompletedIsFinal`; nothing but S3 failing and the meeting there: `EgressTrackedSoundly`, `FileHasRowSoundly`; under fairness `StopTakesEffect` (410 thousand) |
| `MCScreenShare_shares` | two requests among start, stop, approve, deny, update, leave, kick, end, delete, with every failure: `NobodySharesUnasked`; not overlapping: `OneSharerSerially`; not dying either: `SharesEndWithParticipation` (3.9 million) |
| `MCBreakout_rooms` | two requests that create and end, may die and meet the deletion: `AssignmentsHaveRooms`; not overlapping and not dying: `AssignedRoomsOpen`, `EverybodyPlaced`, `EvenlySpread` (360 thousand) |
| `MCServer_meetings` | two creations competing for two codes, deletions, a socket session, clients that hang up or ask on, signals, deaths and restarts: `OneMeetingPerCode`, `MeetingsHaveHosts`, `RoomsEarned`, and `ShutdownCompletes` under fairness (660 thousand) |
| `MCAuth_sessions` | two clients with a mailbox each, two requests: `RegisteredOnce`, `SessionsEarned`, `PasswordByOwner`; not overlapping: `LoginByCurrentPassword`, `LoggedOutStaysOut` (4.2 million) |

Type invariants are proved (section 6) and no run lists them. The pattern is the
same everywhere. Some properties hold **under every interleaving**. Others are
what the code achieves only as long as **no requests have overlapped**: there
the questions are long sequences of legal calls, and failures half-way where
the property survives them. `MCMeeting_serial` has one slot for those; the
other components check both kinds in one run, with the history variable of the
MC module (`overlapped`, `history`, `disturbed`) as the condition. In
`MCRecording` it tells overlap, failure and death apart: a step is a failure if
it is none of the module instantiated with fewer `Faults`. That variable
is raised by two requests in flight and by a one-step request that writes while
another is in flight.

Runs that TLC refutes, see section 7: `MCMeeting_kicked_token`, `MCPolls_race`.
`CHECK_DEADLOCK FALSE` stands where the system may stop: a deleted meeting takes
no more requests.

## 5. Bounds and fairness

| Bound | Value | Why it is enough |
| --- | --- | --- |
| `Slots` | 2; 1 in `MCMeeting_serial` | every check-then-act of this code is broken, or not, by one other request; the proofs hold for any number |
| `Users` | host and one guest where requests overlap, two guests in `MCMeeting_serial` and `MCBreakout_rooms`, where guests compete for places, rooms or act on each other as cohost; the host alone in Recording, where only the host acts | no handler acts on more than a caller and a target, or treats all the same |
| `Limits` | {2}, {3} | a full meeting (host and one guest) with somebody outside; a limit that is no obstacle |
| `MaxHooks` | 0, or 2 | a joined and a left webhook can overtake each other, and each can be repeated |
| `Ops` | the operations of a run | a run with all operations at once would not finish; every operation is called in some passing run |
| `PollIds`, `Options` | two polls, with two options and one | an option of the wrong poll; changing one's mind |
| `Egresses` | 2 | one per overlapping start, or one after the other |
| `RoomIds`, `Lists` | 3 rooms; two default rooms, one room, two rooms with a user on both lists | creating twice; round robin; double assignment |
| `Meetings`, `Codes`, `MaxAttempts` | 2 each; 5 attempts in the code | two creations draw the same code, all codes are taken, a code is used again after a deletion |
| `Sessions`, `Breakouts` and `Users` of `MCServer` | 1 each | a session meets one user's rows; that sessions and users do not mix is proved for any number; two of either are too many for the liveness check |
| `Clients`, `Addresses`, `Passwords` of `MCAuth` | 2 each | somebody else's account and mail; an old and a new password |

With one slot `MaxHooks` is 0: a webhook that comes late is an overlap, too.
`ScreenShare` starts with the users of `Inside` admitted, active
and connected, as after a join, which saves TLC the way there.

Symmetry is used for slots and for guests, egresses or rooms that no constant
tells apart, and never in a run with a liveness property.

**Fairness** is `WF(Continue(s))` per slot in `Meeting` and `Recording`, and in
`Server` of the creations while the process lives, of `Close` and of
`Disconnect`: Node resumes a request whose call has returned, and every call
returns or fails, since the clients have time-outs. Nothing else in the system is
fair: nobody has to call anything, LiveKit need not deliver a webhook, media
connections need not end, and `Abort` may happen at any time where it is enabled
(it is not in the liveness runs of `Meeting` and `Recording`: a dead process
answers nobody).

`ShutdownCompletes` also assumes something of the clients (`ClientsGo`): one that
has its answer time and again hangs up at last. This is an assumption about the
environment, strong fairness because such a client may always ask once more. The
code does not give it: `io.close` has no time limit, and without the assumption
TLC shows a client that keeps the process alive by asking on. A client that
neither asks nor goes is dropped by Node's keep-alive time-out.

## 6. Proofs

All proofs hold for any values of the constants: any users and slots, any subset
of operations, any limits, faults and webhooks, any rooms, egresses, meetings and
codes. The assumptions on constants are the ones named in the modules: users and
poll options are finitely many, the host is a user, the nulls are no values,
limits are numbers above 1, `OptionOf` gives every option a poll, the lists asked
for are non-empty. `SerialProofs` has a hypothesis of its own, below.

| Module | Theorem | Property |
| --- | --- | --- |
| `MeetingProofs` | `TypeCorrect` | `TypeOK` of Meeting |
| | `WaitingRoomHolds`, `CohostsAreGranted` | `WaitingRoomRespected`, `CohostOnlyByHost` |
| | `HostStays`, `LeftAtAgrees`, `NothingLeft`, `OnlyInsidersMuted` | `HostKeepsMeeting`, `LeftAtConsistent`, `DeletedLeavesNothing`, `MutedWereInside` |
| | `MembershipImplemented` | `ImplementsMembership`: Meeting implements `Membership` |
| `SerialProofs` | `LifecycleImplemented` | `ImplementsLifecycle`: one request at a time, Meeting implements `Lifecycle` |
| | `EndedIsEmpty`, `AdmittedFindPlaces` | `EndedMeansEmpty`, `AdmissionWithinCapacity` |
| | `TokensToAdmitted`, `CohostsStay`, `MutedWereAsked` | `TokenOnlyToAdmitted`, `CohostKept`, `MutedAreAsked` |
| `ShareProofs` | `ShareTypeCorrect`, `SharingIsPermitted` | `ShareTypeOK`, `NobodySharesUnasked` |
| | `MeetingStaysRight`, `MembershipKept` | with screens shared, the six invariants of Meeting proved above, and the steps of `Membership` |
| | `OneShares`, `SharesEnd` | `OneSharerSerially`, `SharesEndWithParticipation` |
| `PollsProofs` | `VotersStay`, `VotesForOwnOptions`, `TotalsAddUp` | `VotesHaveVoters`; votes are for options of their poll; `ResultsAddUp` |
| | `ClosedStays` | `ClosedIsFinal` |
| `RecordingProofs` | `CompletedHasStopped` | `CompletedMeansStopped` |
| | `EgressesTracked`, `FilesKeepRows` | `EgressTrackedSoundly`, `FileHasRowSoundly` |
| | `OneRecords`, `CompletedStays` | `OneRecordingSerially`, `CompletedIsFinal` |
| `BreakoutProofs` | `RoomsStay` | `AssignmentsHaveRooms` |
| | `AssignedToOpen`, `AllArePlaced`, `RoundRobinIsEven` | `AssignedRoomsOpen`, `EverybodyPlaced`, `EvenlySpread` |
| `ServerProofs` | `CodesAreUnique`, `HostsCreated`, `RoomsAreEarned` | `OneMeetingPerCode`, `MeetingsHaveHosts`, `RoomsEarned` |
| `AuthProofs` | `OneRegistration`, `SessionsAreEarned`, `OwnersChoose` | `RegisteredOnce`, `SessionsEarned`, `PasswordByOwner` |
| | `LoginsCurrent`, `LogoutLasts` | `LoginByCurrentPassword`, `LoggedOutStaysOut` |

The theorems named `...Correct` state the inductive invariants these rest on.

*Types.* Rows and requests of Meeting are built by a handful of operators, so one
lemma per operator (`LetIn`, `PutOut`, `At`, `Call`...) and one on moving a slot
make each action's step short. `TypeOK` includes that a request about to act for
a caller or on a target has one (`RequestOK`).

*Admission.* That no row says "admitted" for a user nobody let in
is not inductive: a request may carry a stale row that it will write back, a
token request may be past its check, a webhook "joined" may be on its way and
will write "admitted", and a moderator's request may be past `ensureModerator`.
`AdmissionInv` says of each of these that it has been allowed *already*:
`RowAllowed` for the rows, `RequestAllowed` for the values and the place of
each request in flight, `MediaAllowed` for tokens, connections and undelivered
webhooks. It is preserved because `approved` and `granted` only grow, so what
was allowed when it was read is allowed when it is written. This is why stale
reads, which break much else (section 7), cannot let anybody past the waiting
room. The proof has one step per action, grouped as in the module: joining,
tokens, putting out, admitting, ending, cohosts, webhooks, LiveKit.

*Rows.* The other invariants of Meeting need what each request in flight will
still write: which role it carries to which row, that a row found is still there
unless the meeting has gone, that a webhook's write agrees with its status. They
are one invariant, `RowsInv`, again with a step per action.

*Membership.* Each lemma about a group of actions proves, next to `RowsInv`, what
the group may do to rows at all (`MeetingStep`): write some, keeping those there
are, or delete all. Mapped to the statuses that is a step of `Membership` or
none (`MemberStep`). What `Polls`, `Recording` and `Breakout` assume of their
environment is so proved of the component that is their environment, for the
same constants and under every interleaving. `MembershipKept` repeats it with
`ScreenShare` writing the same rows.

*One request at a time.* The theorems of `SerialProofs` assume `OneAtATime`: at
most one slot, and no webhooks. Which operations are called, who dies where and
what LiveKit refuses stays arbitrary. Without it most of them are false, as
section 7 shows. `ReadRight` says what the request at work has read and still is
so: the row it carries *is* the row, the limit is the meeting's, a place counted
is a place (`Places`), those found waiting or to be muted still are. It is
preserved because no other request can write, a death frees the slot, and
LiveKit's own steps touch no row. From it `LifecycleStep` follows action by
action: a write of a status is an admission of somebody waiting, a denial, a
departure or a first join into an open meeting.

*Until requests overlap.* In the other components the same idea is stated with
the history variable: the invariant (`HistoryInv`) is that as long as nothing
has overlapped (or died, where the property needs that) only one slot is busy
and what it has read is still so (`SerialInv` of Polls, Recording and Auth,
`Undisturbed` of Breakout, `SerialShares` and `Calm` of ShareProofs). A step that
overlaps raises the history, after which nothing is claimed, so the theorem is
about every behaviour up to its first overlap, for any number of slots.
`EgressesTracked` and `FilesKeepRows` need no such condition: there requests do
overlap, and what is excluded are failures other than S3's, deaths and the
deletion of the meeting. `TrackInv` gives every running egress a row or a request
about to write it, and every file the row of its egress, likewise.

*Shares.* A start enters `permitted` where it turns out to need no approval, an
approval after its last check; the set only grows. `PermitInv` says that a request
about to write a mark, or a share without asking, has come past that point;
Meeting's own steps only take marks away. The invariants of Meeting survive because share requests write
nothing of a row but the mark, and none of a meeting that is gone (`SharesOnly`).

*Counting.* `EvenlySpread` counts turns: the k-th user on no list gets room number
k modulo the number of rooms, so that each turn of a room after its first follows
a turn of every other room in the round before (`TurnsEven`). `ResultsAddUp` computes a fold: the counts over a set of options add up
to the number of voters for one of them. The library's induction theorems
take an operator as a parameter and cannot be used, so the proof goes through a
minimal subset of the options that would be a counterexample (`SubsetInduction`).

*Only model-checked*: liveness (`RequestsAnswered`, `EndTakesEffect`,
`StopTakesEffect`, `ShutdownCompletes`), which needs fairness and so ENABLED,
of which TLAPS proves nothing. Every other property that a passing run checks is
stated by a theorem.

## 7. Where code and documents disagree

Two runs each refute one property that a document states.

| Run | What happens |
| --- | --- |
| `MCMeeting_kicked_token` | A participant kicked while joining is given a token, and is admitted again (`ARCHITECTURE.md`: only admitted participants receive tokens) |
| `MCPolls_race` | Of two first votes of a user one fails on the unique constraint (`TODO_TASKS.md`: race fixed by upsert) |

The condition "no requests have overlapped" is needed wherever it stands:
without it TLC finds the counterexample. In short:

- of two joins of a waiting user one has read the row before the admission and
  writes "waiting" after it, and a join in flight marks an ended meeting active
  (both `ImplementsLifecycle`); one admitted while mute-all is at work is marked
  muted though LiveKit has not been asked (`MutedAreAsked`);
- a vote that found the poll open is counted after it was closed
  (`ClosedIsFinal`);
- two starts find no recording in progress and both start one
  (`OneRecordingSerially`); two stops write "failed" over "completed"
  (`CompletedIsFinal`);
- two starts leave two participants sharing (`OneSharerSerially`); an approval
  in flight marks somebody as sharing who has left
  (`SharesEndWithParticipation`);
- end-all closes the rooms that an overlapping creation then assigns users to,
  or dies after closing them (`AssignedRoomsOpen`);
- a login that read the password before a reset is answered after it
  (`LoginByCurrentPassword`); a refresh in flight at a logout sets the cookie
  again (`LoggedOutStaysOut`).

Six more places where the code does less than one might read into the documents
are visible in the actions themselves:

- `JoinMeetingFind` counts the participants for a user without a row only, so
  that somebody who has left joins a full meeting (`AdmissionWithinCapacity` is
  about first joins and admissions);
- a denied user may leave and then join again, since `leaveMeeting` asks for a row
  of any status and only a row that says "denied" is refused (`Lifecycle`'s
  `Leave`);
- `SubmitPollVote` asks for a row of any status, not for an admitted participant;
- `ApproveScreenShare` does not look at `policy.allow`;
- after a stop that LiveKit has refused, a recording is "failed", so that
  `DeleteRecording` goes on without stopping its egress;
- a shutdown waits for connections, not for handlers: the process disconnects
  from the database and exits under a handler whose client has hung up, and under
  whatever sockets have asked for (`Close`, `Disconnect`). That no creation is
  left half done then is `MeetingsHaveHosts`.

## 8. What is not modelled

- *Microphones*: muting marks rows and asks LiveKit, which is modelled; what
  LiveKit does with the track, best effort, is not tracked.
- *Reads* (details, waiting room, participants, status, lists, joining a breakout
  room, results' texts, download links): they change nothing. `broadcast` stores
  a message that no code reads.
- *LiveKit's permissions*: ScreenShare models whether changing them fails.
- *Messages to sockets*: nothing in the repository sends any.
- *HTTP layer, configuration, logging*: stateless; validation decides which
  inputs the modules enumerate, and the rate limit how many. The middleware that
  verifies an access token stores nothing; roles other than a meeting's own are
  not used by any route modelled.
- *Lost answers*: a client learns of its account or its meeting when it is created,
  so a second try after an answer that got lost is a new request.
- *OAuth*: the schema has a column for it and the code does not use it.
- Bitrates, names, formats, e-mail texts, JWT signatures and hashing are data
  that no property tells apart, or library code.

## 9. Plan

Done, in this order: `LiveKit` and `Meeting` with `Lifecycle`; the proofs of
types and admission; `Polls`; `Recording`; `ScreenShare`; `Breakout`; muting;
`Auth`; `Creation` and `Server`; the proofs of the rows of Meeting and of what
the other components promise under every interleaving; those of `ScreenShare`,
of Meeting with one request at a time, and of what holds until requests overlap,
with the counting in polls and breakout rooms; `Membership`, which `Meeting` is
proved to implement.

Next, most important first:

1. A second detailed-to-abstract pair: `ScreenShare` implementing an abstract
   "floor" (nobody, asking, sharing) as long as requests do not overlap, from
   `SerialShares` and `Calm`.
2. The hazards that no property covers yet: an egress without a row after a
   death, a file that is still being uploaded when it is deleted.
3. `OneAtATime` relaxed: `CohostKept` under overlapping requests other than
   joins of the same user.
