----------------------------- MODULE Recording -----------------------------
(***************************************************************************)
(* Recording a meeting: LiveKit runs an egress that writes a file to S3,   *)
(* the database keeps a row per egress, and the host starts, stops and     *)
(* deletes recordings (Record/record.service.ts).                          *)
(*                                                                         *)
(* A request in flight occupies a slot; each step is one call to the       *)
(* database, LiveKit or S3.  The participants around it are Membership,    *)
(* which the meeting service implements.  A recording is named by its      *)
(* egress.  An egress also ends on its own, when its room is empty or      *)
(* deleted; nothing tells the backend, whose webhook handler refuses       *)
(* events without a room.                                                  *)
(***************************************************************************)
EXTENDS Membership, Naturals, FiniteSets

CONSTANTS
  Host,
  Egresses, \* bound: egresses ever started
  Slots,    \* bound: requests in flight at a time
  Ops,      \* the operations that are called
  Faults    \* "crash": a request may die at an await; "livekit", "s3": a
            \* call may fail; "lag": a stopped egress is still uploading

NoEgress == "none"

ASSUME RecordingAssumption == Host \in Users /\ NoEgress \notin Egresses

VARIABLES
  rec,    \* status of the recording's row
  egress, \* state of the egress in LiveKit
  files,  \* egresses with an object in S3
  req     \* requests in flight

recVars == <<rec, egress, files, req>>
vars == <<stage, rec, egress, files, req>>

RecStates == {"none", "recording", "completed", "failed"}
EgressStates == {"unused", "running", "ending", "ended"}
PCs == {"idle", "FindActive", "CountAdmitted", "CreateRoom", "StartEgress",
        "CreateRow", "FindRow", "StopEgress", "WriteStatus",
        "StopBeforeDelete", "DeleteObject", "DeleteRow"}

\* of: the recording worked on; status: what stopRecording will write.
Request == [pc : PCs, of : Egresses \cup {NoEgress}, status : RecStates]
Call(pc, e) == [pc |-> pc, of |-> e, status |-> "none"]
Idle == Call("idle", NoEgress)

TypeOK ==
  /\ stage \in [Users -> Stages]
  /\ rec \in [Egresses -> RecStates]
  /\ egress \in [Egresses -> EgressStates]
  /\ files \subseteq Egresses
  /\ req \in [Slots -> Request]

Init ==
  /\ Founded(Host)
  /\ rec = [e \in Egresses |-> "none"]
  /\ egress = [e \in Egresses |-> "unused"]
  /\ files = {}
  /\ req = [s \in Slots |-> Idle]

Exists == Host \in Present
Active == {e \in Egresses : rec[e] = "recording"}

Become(s, q) == req' = [req EXCEPT ![s] = q]
Goto(s, pc) == Become(s, [req[s] EXCEPT !.pc = pc])
Finish(s) == Become(s, Idle)
Arrive(s, op, q) == op \in Ops /\ Exists /\ req[s] = Idle /\ Become(s, q)
ReadOnly == UNCHANGED <<stage, rec, egress, files>>
SetRec(e, st) == rec' = [rec EXCEPT ![e] = st]

-----------------------------------------------------------------------------
(* LiveKit and S3.                                                         *)

\* An egress that has ended has written its file.
EgressEnds(e) ==
  /\ egress[e] \in {"running", "ending"}
  /\ egress' = [egress EXCEPT ![e] = "ended"]
  /\ files' = files \cup {e}

EgressEnding(e) ==
  /\ "lag" \in Faults
  /\ egress' = [egress EXCEPT ![e] = "ending"]
  /\ UNCHANGED files

\* stopEgress succeeds for a running egress only; a call that fails may still
\* have stopped it.
StopEgressCall(e, ok, failed) ==
  \/ /\ egress[e] = "running"
     /\ EgressEnds(e) \/ EgressEnding(e)
     /\ ok
  \/ /\ egress[e] # "running" \/ "livekit" \in Faults
     /\ failed
     /\ UNCHANGED <<egress, files>>
  \/ "livekit" \in Faults /\ EgressEnds(e) /\ failed

-----------------------------------------------------------------------------
(* startRecording                                                          *)

StartRecording(s) ==
  /\ Arrive(s, "start", Call("FindActive", NoEgress))
  /\ ReadOnly

FindActiveNever(s) ==
  /\ req[s].pc = "FindActive"
  /\ Goto(s, "CountAdmitted")
  /\ ReadOnly

FindActive(s) ==
  /\ req[s].pc = "FindActive"
  /\ IF Active = {} THEN Goto(s, "CountAdmitted") ELSE Finish(s)
  /\ ReadOnly

CountAdmitted(s) ==
  /\ req[s].pc = "CountAdmitted"
  /\ IF \E u \in Users : stage[u] = "admitted" THEN Goto(s, "CreateRoom")
                                               ELSE Finish(s)
  /\ ReadOnly

CreateRoom(s) ==
  /\ req[s].pc = "CreateRoom"
  /\ \/ Goto(s, "StartEgress")
     \/ "livekit" \in Faults /\ Finish(s)
  /\ ReadOnly

\* LiveKit may start an egress and fail to say so.
StartEgress(s) ==
  /\ req[s].pc = "StartEgress"
  /\ \/ \E e \in Egresses :
          /\ egress[e] = "unused"
          /\ egress' = [egress EXCEPT ![e] = "running"]
          /\ \/ Become(s, Call("CreateRow", e))
             \/ "livekit" \in Faults /\ Finish(s)
     \/ "livekit" \in Faults /\ Finish(s) /\ UNCHANGED egress
  /\ UNCHANGED <<stage, rec, files>>

\* The foreign key refuses the row of a deleted meeting.
CreateRow(s) ==
  /\ req[s].pc = "CreateRow"
  /\ IF Exists THEN SetRec(req[s].of, "recording") ELSE UNCHANGED rec
  /\ Finish(s)
  /\ UNCHANGED <<stage, egress, files>>

-----------------------------------------------------------------------------
(* stopRecording                                                           *)

StopRecording(s) ==
  /\ Arrive(s, "stop", Call("FindRow", NoEgress))
  /\ ReadOnly

FindRowOfAnyStatus(s) ==
  /\ req[s].pc = "FindRow"
  /\ \/ \E e \in Egresses : rec[e] # "none" /\ Become(s, Call("StopEgress", e))
     \/ Finish(s)
  /\ ReadOnly

FindRow(s) ==
  /\ req[s].pc = "FindRow"
  /\ \/ \E e \in Active : Become(s, Call("StopEgress", e))
     \/ Active = {} /\ Finish(s)
  /\ ReadOnly

StopEgressCompletes(s) ==
  LET q == [req[s] EXCEPT !.pc = "WriteStatus"] IN
  /\ req[s].pc = "StopEgress"
  /\ StopEgressCall(req[s].of, Become(s, [q EXCEPT !.status = "completed"]),
                               Become(s, [q EXCEPT !.status = "completed"]))
  /\ UNCHANGED <<stage, rec>>

StopEgressOrGiveUp(s) ==
  /\ req[s].pc = "StopEgress"
  /\ StopEgressCall(req[s].of,
       Become(s, [req[s] EXCEPT !.pc = "WriteStatus", !.status = "completed"]),
       Finish(s))
  /\ UNCHANGED <<stage, rec>>

\* An error is logged, and the recording has failed.
StopEgress(s) ==
  LET q == [req[s] EXCEPT !.pc = "WriteStatus"] IN
  /\ req[s].pc = "StopEgress"
  /\ StopEgressCall(req[s].of, Become(s, [q EXCEPT !.status = "completed"]),
                               Become(s, [q EXCEPT !.status = "failed"]))
  /\ UNCHANGED <<stage, rec>>

\* By id: an error when the row has been deleted.
WriteStatus(s) ==
  LET q == req[s] IN
  /\ q.pc = "WriteStatus"
  /\ IF rec[q.of] # "none" THEN SetRec(q.of, q.status) ELSE UNCHANGED rec
  /\ Finish(s)
  /\ UNCHANGED <<stage, egress, files>>

-----------------------------------------------------------------------------
(* deleteRecording                                                         *)

DeleteUnstopped(s, e) ==
  /\ rec[e] # "none"
  /\ Arrive(s, "delete", Call("DeleteObject", e))
  /\ ReadOnly

DeleteRecording(s, e) ==
  /\ rec[e] # "none"
  /\ Arrive(s, "delete", Call(IF rec[e] = "recording"
                              THEN "StopBeforeDelete" ELSE "DeleteObject", e))
  /\ ReadOnly

\* An error refuses the deletion.
StopBeforeDelete(s) ==
  /\ req[s].pc = "StopBeforeDelete"
  /\ StopEgressCall(req[s].of, Goto(s, "DeleteObject"), Finish(s))
  /\ UNCHANGED <<stage, rec>>

DeleteObjectOrNot(s) ==
  /\ req[s].pc = "DeleteObject"
  /\ \/ files' = files \ {req[s].of}
     \/ "s3" \in Faults /\ UNCHANGED files
  /\ Goto(s, "DeleteRow")
  /\ UNCHANGED <<stage, rec, egress>>

\* Deleting a missing object is no error.
DeleteObject(s) ==
  /\ req[s].pc = "DeleteObject"
  /\ \/ files' = files \ {req[s].of} /\ Goto(s, "DeleteRow")
     \/ "s3" \in Faults /\ Finish(s) /\ UNCHANGED files
  /\ UNCHANGED <<stage, rec, egress>>

DeleteRow(s) ==
  /\ req[s].pc = "DeleteRow"
  /\ SetRec(req[s].of, "none")
  /\ Finish(s)
  /\ UNCHANGED <<stage, egress, files>>

-----------------------------------------------------------------------------
(* The meeting around the recordings.                                      *)

\* A process that dies or a database call that fails at any await.
Abort(s) ==
  /\ "crash" \in Faults
  /\ req[s] # Idle
  /\ Finish(s)
  /\ ReadOnly

\* deleteMeeting deletes the rows of the recordings; their egresses and files
\* stay.
DeleteMeeting(s) ==
  /\ Arrive(s, "deleteMeeting", Idle)
  /\ Erase
  /\ rec' = [e \in Egresses |-> "none"]
  /\ UNCHANGED <<egress, files>>

Continue(s) ==
  \/ FindActive(s) \/ CountAdmitted(s) \/ CreateRoom(s)
  \/ StartEgress(s) \/ CreateRow(s)
  \/ FindRow(s) \/ StopEgress(s) \/ WriteStatus(s)
  \/ StopBeforeDelete(s) \/ DeleteObject(s) \/ DeleteRow(s)

Next ==
  \/ \E s \in Slots :
       \/ StartRecording(s) \/ StopRecording(s)
       \/ \E e \in Egresses : DeleteRecording(s, e)
       \/ Continue(s)
       \/ Abort(s)
       \/ DeleteMeeting(s)
  \/ \E e \in Egresses : EgressEnds(e) /\ UNCHANGED <<stage, rec, req>>
  \/ Change /\ UNCHANGED recVars

Spec == Init /\ [][Next]_vars

\* Node runs a request on whenever the call it waits for has returned.
Fairness == \A s \in Slots : WF_vars(Continue(s))

-----------------------------------------------------------------------------
(* With requests overlapping and calls failing.                            *)

\* A recording is completed only when its egress has stopped recording, even
\* if several requests stop it and LiveKit refuses some of them.
CompletedMeansStopped ==
  \A e \in Egresses :
    rec[e] = "completed" => egress[e] \in {"ending", "ended"}

Stopping(s, e) == req[s].pc = "StopEgress" /\ req[s].of = e

-----------------------------------------------------------------------------
(* As long as nothing has failed; see MCRecording.                         *)

Starting(e) == \E s \in Slots : req[s].pc = "CreateRow" /\ req[s].of = e

EgressTracked ==
  \A e \in Egresses :
    egress[e] = "running" => rec[e] = "recording" \/ Starting(e)

FileHasRow == \A e \in files : rec[e] # "none" \/ Starting(e)

-----------------------------------------------------------------------------
(* When requests do not overlap.                                           *)

\* At most one recording of a meeting is in progress.
OneRecording == Cardinality(Active) <= 1

KeepsCompleted ==
  \A e \in Egresses :
    rec[e] = "completed" => rec'[e] \in {"completed", "none"}
=============================================================================
