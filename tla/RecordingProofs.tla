--------------------------- MODULE RecordingProofs ---------------------------
(***************************************************************************)
(* Proofs about Recording, for any number of egresses and requests in      *)
(* flight: a completed recording has stopped, whatever fails; as long as   *)
(* nothing but S3 fails, egresses and files keep their rows; and as long   *)
(* as no requests overlap, one recording runs and a completed one stays.   *)
(***************************************************************************)
EXTENDS MCRecording, FiniteSetTheorems, TLAPS

\* The steps at which a request works on a recording.
Working == {"CreateRow", "StopEgress", "WriteStatus", "StopBeforeDelete",
            "DeleteObject", "DeleteRow"}

\* Inductive: what a request that writes the status has learnt from LiveKit.
StopInv ==
  /\ CompletedMeansStopped
  /\ \A s \in Slots :
       /\ req[s].pc \in Working => req[s].of \in Egresses
       /\ req[s].pc = "WriteStatus" /\ req[s].status = "completed"
            => egress[req[s].of] \in {"ending", "ended"}

LEMMA CallType ==
  ASSUME NEW pc \in PCs, NEW e \in Egresses \cup {NoEgress}
  PROVE  /\ Call(pc, e) \in Request
         /\ Call(pc, e).pc = pc /\ Call(pc, e).of = e
  BY DEF Call, Request, RecStates

LEMMA IdleCall == Idle \in Request /\ Idle.pc = "idle"
  BY CallType DEF Idle, PCs

\* Egresses do not run again once they have stopped.
StoppedStay ==
  /\ egress' \in [Egresses -> EgressStates]
  /\ \A e \in Egresses :
       egress[e] \in {"ending", "ended"} => egress'[e] \in {"ending", "ended"}

LEMMA EgressSteps ==
  ASSUME TypeOK, NEW e \in Egresses,
         \/ EgressEnds(e)
         \/ egress[e] = "running" /\ EgressEnding(e)
  PROVE  /\ StoppedStay /\ files' \subseteq files \cup {e}
         /\ files \subseteq files'
         /\ egress'[e] \in {"ending", "ended"}
  BY DEF EgressEnds, EgressEnding, StoppedStay, TypeOK, EgressStates

\* One request goes on to q, one row changes to st, or none.
LEMMA StepInv ==
  ASSUME TypeOK, StopInv, NEW s \in Slots, NEW q \in Request,
         q.pc \in Working => q.of \in Egresses,
         q.pc = "WriteStatus" /\ q.status = "completed"
           => egress'[q.of] \in {"ending", "ended"},
         Become(s, q), UNCHANGED stage,
         StoppedStay, files' \subseteq Egresses,
         \/ rec' = rec
         \/ \E e \in Egresses, st \in RecStates :
              /\ rec' = [rec EXCEPT ![e] = st]
              /\ st = "completed" => egress[e] \in {"ending", "ended"}
  PROVE  TypeOK' /\ StopInv'
<1>1. req' \in [Slots -> Request] /\ \A t \in Slots : req'[t] \in {req[t], q}
  BY DEF Become, TypeOK
<1>2. rec' \in [Egresses -> RecStates]
  BY DEF TypeOK
<1>3. TypeOK'
  BY <1>1, <1>2 DEF TypeOK, StoppedStay
<1>4. CompletedMeansStopped'
  BY DEF StopInv, CompletedMeansStopped, StoppedStay, TypeOK
<1>5. ASSUME NEW t \in Slots
      PROVE  /\ req'[t].pc \in Working => req'[t].of \in Egresses
             /\ req'[t].pc = "WriteStatus" /\ req'[t].status = "completed"
                  => egress'[req'[t].of] \in {"ending", "ended"}
  <2>1. CASE req'[t] = q
    BY <2>1
  <2>2. CASE req'[t] = req[t]
    BY <2>2 DEF StopInv, StoppedStay, Working
  <2> QED
    BY <1>1, <2>1, <2>2
<1> QED
  BY <1>3, <1>4, <1>5 DEF StopInv

LEMMA ReadInv ==
  ASSUME TypeOK, StopInv, NEW s \in Slots, NEW q \in Request,
         q.pc \in Working => q.of \in Egresses,
         q.pc = "WriteStatus" => q.status # "completed",
         Become(s, q), ReadOnly
  PROVE  TypeOK' /\ StopInv'
<1>1. /\ UNCHANGED stage /\ rec' = rec
      /\ StoppedStay /\ files' \subseteq Egresses
  BY DEF ReadOnly, StoppedStay, TypeOK
<1> QED
  BY <1>1, StepInv

-----------------------------------------------------------------------------
(* The steps of a request.                                                 *)

LEMMA StartInv ==
  ASSUME TypeOK, StopInv, NEW s \in Slots,
         \/ FindActive(s) \/ CountAdmitted(s) \/ CreateRoom(s)
         \/ StartEgress(s) \/ CreateRow(s)
  PROVE  TypeOK' /\ StopInv'
<1> DEFINE q == req[s]
<1>1. q \in Request
  BY DEF TypeOK
<1>2. CASE FindActive(s) \/ CountAdmitted(s) \/ CreateRoom(s)
  <2>1. PICK pc \in {"CountAdmitted", "CreateRoom", "StartEgress"} :
          ReadOnly /\ (Goto(s, pc) \/ Finish(s))
    BY <1>2 DEF FindActive, CountAdmitted, CreateRoom
  <2>2. /\ [q EXCEPT !.pc = pc] \in Request
        /\ [q EXCEPT !.pc = pc].pc = pc
    BY <1>1 DEF Request, PCs
  <2> QED
    BY <2>1, <2>2, IdleCall, ReadInv DEF Goto, Finish, Working
<1>3. CASE StartEgress(s)
  <2>1. UNCHANGED stage /\ rec' = rec /\ files' \subseteq Egresses
    BY <1>3 DEF StartEgress, TypeOK
  <2>2. StoppedStay
    BY <1>3 DEF StartEgress, StoppedStay, TypeOK, EgressStates
  <2>3. CASE Finish(s)
    BY <2>1, <2>2, <2>3, IdleCall, StepInv DEF Finish, Working
  <2>4. ASSUME NEW e \in Egresses, Become(s, Call("CreateRow", e))
        PROVE  TypeOK' /\ StopInv'
    <3>1. /\ Call("CreateRow", e) \in Request
          /\ Call("CreateRow", e).pc = "CreateRow"
          /\ Call("CreateRow", e).of = e
      BY CallType DEF PCs
    <3> QED
      BY <2>1, <2>2, <2>4, <3>1, StepInv
  <2> QED
    BY <1>3, <2>3, <2>4 DEF StartEgress
<1>4. CASE CreateRow(s)
  <2>1. /\ Become(s, Idle) /\ UNCHANGED stage /\ q.of \in Egresses
        /\ StoppedStay /\ files' \subseteq Egresses
        /\ rec' = rec \/ rec' = [rec EXCEPT ![q.of] = "recording"]
    BY <1>4
       DEF CreateRow, Finish, SetRec, StoppedStay, TypeOK, StopInv, Working
  <2>2. "recording" \in RecStates
    BY DEF RecStates
  <2> QED
    BY <2>1, <2>2, IdleCall, StepInv DEF Working
<1> QED
  BY <1>2, <1>3, <1>4

\* What a call to stopEgress may lead to.
LEMMA CallInv ==
  ASSUME TypeOK, StopInv, NEW s \in Slots, NEW e \in Egresses,
         UNCHANGED <<stage, rec>>,
         NEW ok \in Request, NEW failed \in Request,
         ok.pc \in Working => ok.of \in Egresses,
         failed.pc \in Working => failed.of \in Egresses,
         ok.pc = "WriteStatus" => ok.of = e,
         failed.pc = "WriteStatus" => failed.status # "completed",
         StopEgressCall(e, Become(s, ok), Become(s, failed))
  PROVE  TypeOK' /\ StopInv'
<1>1. CASE egress[e] = "running" /\ (EgressEnds(e) \/ EgressEnding(e))
           /\ Become(s, ok)
  BY <1>1, EgressSteps, StepInv DEF TypeOK
<1>2. CASE Become(s, failed) /\ UNCHANGED <<egress, files>>
  BY <1>2, ReadInv DEF ReadOnly
<1>3. CASE Become(s, failed) /\ EgressEnds(e)
  BY <1>3, EgressSteps, StepInv DEF TypeOK
<1> QED
  BY <1>1, <1>2, <1>3 DEF StopEgressCall

LEMMA StopRecordingInv ==
  ASSUME TypeOK, StopInv, NEW s \in Slots,
         FindRow(s) \/ StopEgress(s) \/ WriteStatus(s)
  PROVE  TypeOK' /\ StopInv'
<1> DEFINE q == req[s]
<1>1. q \in Request
  BY DEF TypeOK
<1>2. CASE FindRow(s)
  <2>1. CASE Finish(s)
    BY <1>2, <2>1, IdleCall, ReadInv DEF FindRow, Finish, Working
  <2>2. ASSUME NEW e \in Active, Become(s, Call("StopEgress", e))
        PROVE  TypeOK' /\ StopInv'
    <3>1. /\ Call("StopEgress", e) \in Request
          /\ Call("StopEgress", e).pc = "StopEgress"
          /\ Call("StopEgress", e).of \in Egresses
      BY CallType DEF PCs, Active
    <3> QED
      BY <1>2, <2>2, <3>1, ReadInv DEF FindRow
  <2> QED
    BY <1>2, <2>1, <2>2 DEF FindRow
<1>3. CASE StopEgress(s)
  <2> DEFINE ok == [[q EXCEPT !.pc = "WriteStatus"] EXCEPT !.status = "completed"]
             failed == [[q EXCEPT !.pc = "WriteStatus"] EXCEPT !.status = "failed"]
  <2>1. q.of \in Egresses
    BY <1>3 DEF StopEgress, StopInv, Working
  <2>2. /\ ok \in Request /\ failed \in Request
        /\ ok.of = q.of /\ failed.of = q.of /\ failed.status = "failed"
    BY <1>1 DEF Request, PCs, RecStates
  <2>3. /\ UNCHANGED <<stage, rec>>
        /\ StopEgressCall(q.of, Become(s, ok), Become(s, failed))
    BY <1>3 DEF StopEgress
  <2> HIDE DEF ok, failed
  <2> QED
    BY <2>1, <2>2, <2>3, CallInv
<1>4. CASE WriteStatus(s)
  <2>1. /\ Become(s, Idle) /\ UNCHANGED stage
        /\ StoppedStay /\ files' \subseteq Egresses
        /\ q.of \in Egresses /\ q.status \in RecStates
        /\ q.status = "completed" => egress[q.of] \in {"ending", "ended"}
        /\ rec' = rec \/ rec' = [rec EXCEPT ![q.of] = q.status]
    BY <1>1, <1>4
       DEF WriteStatus, Finish, SetRec, StoppedStay, TypeOK, StopInv, Working,
           Request
  <2> QED
    BY <2>1, IdleCall, StepInv DEF Working
<1> QED
  BY <1>2, <1>3, <1>4

LEMMA DeleteRecordingInv ==
  ASSUME TypeOK, StopInv, NEW s \in Slots,
         StopBeforeDelete(s) \/ DeleteObject(s) \/ DeleteRow(s)
  PROVE  TypeOK' /\ StopInv'
<1> DEFINE q == req[s]
           to(pc) == [q EXCEPT !.pc = pc]
<1>1. q \in Request /\ q.of \in Egresses
  BY DEF StopBeforeDelete, DeleteObject, DeleteRow, TypeOK, StopInv, Working
<1>2. ASSUME NEW pc \in {"DeleteObject", "DeleteRow"}
      PROVE  to(pc) \in Request /\ to(pc).pc = pc /\ to(pc).of \in Egresses
  BY <1>1 DEF Request, PCs
<1>3. CASE StopBeforeDelete(s)
  <2>1. /\ UNCHANGED <<stage, rec>>
        /\ StopEgressCall(q.of, Become(s, to("DeleteObject")), Become(s, Idle))
    BY <1>3 DEF StopBeforeDelete, Goto, Finish
  <2> QED
    BY <1>1, <1>2, <2>1, IdleCall, CallInv DEF Working
<1>4. CASE DeleteObject(s)
  <2>1. /\ UNCHANGED stage /\ rec' = rec
        /\ StoppedStay /\ files' \subseteq Egresses
        /\ Become(s, to("DeleteRow")) \/ Become(s, Idle)
    BY <1>4 DEF DeleteObject, Goto, Finish, StoppedStay, TypeOK
  <2> QED
    BY <1>2, <2>1, IdleCall, StepInv DEF Working
<1>5. CASE DeleteRow(s)
  <2>1. /\ Become(s, Idle) /\ UNCHANGED stage
        /\ StoppedStay /\ files' \subseteq Egresses
        /\ rec' = [rec EXCEPT ![q.of] = "none"]
    BY <1>5 DEF DeleteRow, Finish, SetRec, StoppedStay, TypeOK
  <2>2. "none" \in RecStates
    BY DEF RecStates
  <2> QED
    BY <1>1, <2>1, <2>2, IdleCall, StepInv DEF Working
<1> QED
  BY <1>3, <1>4, <1>5

LEMMA ArriveInv ==
  ASSUME TypeOK, StopInv, NEW s \in Slots,
         \/ StartRecording(s) \/ StopRecording(s)
         \/ \E e \in Egresses : DeleteRecording(s, e)
         \/ Abort(s)
  PROVE  TypeOK' /\ StopInv'
<1>1. PICK pc \in PCs \ {"WriteStatus"}, e \in Egresses \cup {NoEgress} :
        /\ Become(s, Call(pc, e)) /\ ReadOnly
        /\ pc \in Working => e \in Egresses
  BY DEF StartRecording, StopRecording, DeleteRecording, Abort, Arrive, Finish,
         Idle, PCs, Working
<1> QED
  BY <1>1, CallType, ReadInv

LEMMA RecordingInit == Init => TypeOK /\ StopInv
<1> SUFFICES ASSUME Init PROVE TypeOK /\ StopInv
  OBVIOUS
<1>1. TypeOK
  BY IdleCall
     DEF Init, Founded, TypeOK, Stages, RecStates, EgressStates
<1> QED
  BY <1>1, IdleCall DEF Init, StopInv, CompletedMeansStopped, Working

LEMMA RecordingNext == TypeOK /\ StopInv /\ [Next]_vars => TypeOK' /\ StopInv'
<1> SUFFICES ASSUME TypeOK, StopInv, [Next]_vars PROVE TypeOK' /\ StopInv'
  OBVIOUS
<1>1. ASSUME NEW s \in Slots, Continue(s)
      PROVE  TypeOK' /\ StopInv'
  BY <1>1, StartInv, StopRecordingInv, DeleteRecordingInv DEF Continue
<1>2. ASSUME NEW s \in Slots, DeleteMeeting(s)
      PROVE  TypeOK' /\ StopInv'
  <2>1. /\ stage' = [u \in Users |-> "none"]
        /\ rec' = [e \in Egresses |-> "none"]
        /\ egress' = egress /\ files' = files
        /\ req' \in [Slots -> Request]
        /\ \A t \in Slots : req'[t] \in {req[t], Idle}
    BY <1>2, IdleCall DEF DeleteMeeting, Arrive, Erase, Become, TypeOK
  <2>2. TypeOK'
    BY <2>1 DEF TypeOK, Stages, RecStates
  <2>3. ASSUME NEW t \in Slots
        PROVE  /\ req'[t].pc \in Working => req'[t].of \in Egresses
               /\ req'[t].pc = "WriteStatus" /\ req'[t].status = "completed"
                    => egress'[req'[t].of] \in {"ending", "ended"}
    BY <2>1, IdleCall DEF StopInv, Working
  <2> QED
    BY <2>1, <2>2, <2>3 DEF StopInv, CompletedMeansStopped
<1>3. ASSUME NEW e \in Egresses, EgressEnds(e), UNCHANGED <<stage, rec, req>>
      PROVE  TypeOK' /\ StopInv'
  <2>1. StoppedStay /\ files' \subseteq Egresses
    BY <1>3, EgressSteps DEF TypeOK
  <2>2. TypeOK'
    BY <1>3, <2>1 DEF TypeOK, StoppedStay
  <2> QED
    BY <1>3, <2>1, <2>2
       DEF StopInv, CompletedMeansStopped, StoppedStay, Working
<1>4. CASE Change /\ UNCHANGED recVars
  BY <1>4
     DEF Change, recVars, TypeOK, StopInv, CompletedMeansStopped
<1>5. CASE UNCHANGED vars
  BY <1>5 DEF vars, TypeOK, StopInv, CompletedMeansStopped
<1> QED
  BY <1>1, <1>2, <1>3, <1>4, <1>5, ArriveInv DEF Next

\* Types, and what requests have learnt from LiveKit.
THEOREM RecordingCorrect == Spec => [](TypeOK /\ StopInv)
  BY RecordingInit, RecordingNext, PTL DEF Spec

\* No recording is completed while its egress runs, whatever fails or dies.
THEOREM CompletedHasStopped == Spec => []CompletedMeansStopped
<1>1. StopInv => CompletedMeansStopped
  BY DEF StopInv
<1> QED
  BY <1>1, RecordingCorrect, PTL

-----------------------------------------------------------------------------
(* Nothing fails but S3, and the meeting is not deleted.                   *)

\* What a call to stopEgress does when LiveKit does not fail, and what
\* startEgress does.
SoundCall(e, ok, failed) ==
  \/ egress[e] = "running" /\ EgressEnds(e) /\ ok
  \/ egress[e] # "running" /\ failed /\ UNCHANGED <<egress, files>>

SoundStop(s) ==
  LET q == [req[s] EXCEPT !.pc = "WriteStatus"] IN
  /\ req[s].pc = "StopEgress"
  /\ SoundCall(req[s].of, Become(s, [q EXCEPT !.status = "completed"]),
                          Become(s, [q EXCEPT !.status = "failed"]))
  /\ UNCHANGED <<stage, rec>>

SoundStopBeforeDelete(s) ==
  /\ req[s].pc = "StopBeforeDelete"
  /\ SoundCall(req[s].of, Goto(s, "DeleteObject"), Finish(s))
  /\ UNCHANGED <<stage, rec>>

SoundStart(s) ==
  /\ req[s].pc = "StartEgress"
  /\ \E e \in Egresses : /\ egress[e] = "unused"
                         /\ egress' = [egress EXCEPT ![e] = "running"]
                         /\ Become(s, Call("CreateRow", e))
  /\ UNCHANGED <<stage, rec, files>>

SoundContinue(s) ==
  \/ FindActive(s) \/ CountAdmitted(s) \/ CreateRoom(s)
  \/ SoundStart(s) \/ CreateRow(s)
  \/ FindRow(s) \/ SoundStop(s) \/ WriteStatus(s)
  \/ SoundStopBeforeDelete(s) \/ DeleteObject(s) \/ DeleteRow(s)

SoundNext ==
  \/ \E s \in Slots :
       \/ StartRecording(s) \/ StopRecording(s)
       \/ \E e \in Egresses : DeleteRecording(s, e)
       \/ SoundContinue(s)
  \/ \E e \in Egresses : EgressEnds(e) /\ UNCHANGED <<stage, rec, req>>
  \/ Change /\ UNCHANGED recVars

\* Module MCRecording's Sound is the same code, whose S3 alone may fail.
LEMMA SameHelpers ==
  /\ Sound!ReadOnly <=> ReadOnly
  /\ Sound!Idle = Idle /\ Sound!NoEgress = NoEgress
  /\ Sound!Exists <=> Exists
  /\ Sound!Active = Active
  /\ \A s, q : Sound!Become(s, q) <=> Become(s, q)
  /\ \A s, pc : Sound!Goto(s, pc) <=> Goto(s, pc)
  /\ \A s : Sound!Finish(s) <=> Finish(s)
  /\ \A pc, e : Sound!Call(pc, e) = Call(pc, e)
  /\ \A e, st : Sound!SetRec(e, st) <=> SetRec(e, st)
  /\ \A e : Sound!EgressEnds(e) <=> EgressEnds(e)
<1>1. Sound!ReadOnly <=> ReadOnly
  BY DEF Sound!ReadOnly, ReadOnly
<1>2. /\ Sound!Idle = Idle /\ Sound!NoEgress = NoEgress
      /\ \A pc, e : Sound!Call(pc, e) = Call(pc, e)
  BY DEF Sound!Idle, Idle, Sound!NoEgress, NoEgress, Sound!Call, Call
<1>3. /\ Sound!Exists <=> Exists
      /\ Sound!Active = Active
  BY DEF Sound!Exists, Exists, Sound!Present, Present, Sound!Active, Active
<1>4. /\ \A s, q : Sound!Become(s, q) <=> Become(s, q)
      /\ \A s, pc : Sound!Goto(s, pc) <=> Goto(s, pc)
      /\ \A s : Sound!Finish(s) <=> Finish(s)
  BY <1>2 DEF Sound!Become, Become, Sound!Goto, Goto, Sound!Finish, Finish
<1>5. /\ \A e, st : Sound!SetRec(e, st) <=> SetRec(e, st)
      /\ \A e : Sound!EgressEnds(e) <=> EgressEnds(e)
  BY DEF Sound!SetRec, SetRec, Sound!EgressEnds, EgressEnds
<1> QED
  BY <1>1, <1>2, <1>3, <1>4, <1>5

LEMMA SoundArrives ==
  ASSUME NEW s \in Slots
  PROVE  /\ Sound!StartRecording(s) => StartRecording(s)
         /\ Sound!StopRecording(s) => StopRecording(s)
         /\ \A e \in Egresses : Sound!DeleteRecording(s, e) => DeleteRecording(s, e)
         /\ ~Sound!Abort(s)
         /\ Sound!DeleteMeeting(s) => Deleted
<1>1. ~Sound!Abort(s)
  BY DEF Sound!Abort
<1>2. Sound!DeleteMeeting(s) => Deleted
  BY DEF Sound!DeleteMeeting, Sound!Arrive, Sound!Exists, Sound!Present,
         Sound!Erase, Deleted, Exists, Present
<1>3. \A op, q : Sound!Arrive(s, op, q) <=> Arrive(s, op, q)
  BY SameHelpers DEF Sound!Arrive, Arrive
<1>4. /\ Sound!StartRecording(s) => StartRecording(s)
      /\ Sound!StopRecording(s) => StopRecording(s)
  BY <1>3, SameHelpers
     DEF Sound!StartRecording, StartRecording, Sound!StopRecording, StopRecording
<1>5. \A e \in Egresses : Sound!DeleteRecording(s, e) => DeleteRecording(s, e)
  BY <1>3, SameHelpers DEF Sound!DeleteRecording, DeleteRecording
<1> QED
  BY <1>1, <1>2, <1>4, <1>5

LEMMA SoundContinues ==
  ASSUME NEW s \in Slots, Sound!Continue(s)
  PROVE  SoundContinue(s)
<1>1. /\ Sound!FindActive(s) => FindActive(s)
      /\ Sound!FindRow(s) => FindRow(s)
  BY SameHelpers DEF Sound!FindActive, FindActive, Sound!FindRow, FindRow
<1>2. /\ Sound!CountAdmitted(s) => CountAdmitted(s)
      /\ Sound!CreateRoom(s) => CreateRoom(s)
  BY SameHelpers DEF Sound!CountAdmitted, CountAdmitted, Sound!CreateRoom, CreateRoom
<1>3. /\ Sound!CreateRow(s) => CreateRow(s)
      /\ Sound!WriteStatus(s) => WriteStatus(s)
      /\ Sound!DeleteRow(s) => DeleteRow(s)
  BY SameHelpers
     DEF Sound!CreateRow, CreateRow, Sound!WriteStatus, WriteStatus,
         Sound!DeleteRow, DeleteRow
<1>4. Sound!DeleteObject(s) => DeleteObject(s)
  BY SameHelpers DEF Sound!DeleteObject, DeleteObject
<1>5. Sound!StartEgress(s) => SoundStart(s)
  BY SameHelpers DEF Sound!StartEgress, SoundStart
<1>6. Sound!StopEgress(s) => SoundStop(s)
  BY SameHelpers
     DEF Sound!StopEgress, SoundStop, Sound!StopEgressCall, SoundCall,
         Sound!EgressEnding
<1>7. Sound!StopBeforeDelete(s) => SoundStopBeforeDelete(s)
  BY SameHelpers
     DEF Sound!StopBeforeDelete, SoundStopBeforeDelete, Sound!StopEgressCall,
         SoundCall, Sound!EgressEnding
<1> QED
  BY <1>1, <1>2, <1>3, <1>4, <1>5, <1>6, <1>7
     DEF Sound!Continue, SoundContinue

LEMMA SoundSteps == Sound!Next => SoundNext \/ Deleted
<1>1. Sound!Change => Change
  BY DEF Sound!Change, Change, Sound!Present, Present, Sound!Stages, Stages
<1>2. UNCHANGED Sound!recVars <=> UNCHANGED recVars
  BY DEF Sound!recVars, recVars
<1> QED
  BY <1>1, <1>2, SoundArrives, SoundContinues, SameHelpers
     DEF Sound!Next, SoundNext

\* Inductive, of one egress: its row and its file; a row that says it has
\* stopped is right.
EgressRight(e) ==
  /\ egress[e] = "running" => rec[e] = "recording" \/ Starting(e)
  /\ e \in files => rec[e] # "none" \/ Starting(e)
  /\ egress[e] # "ending"
  /\ rec[e] \in {"completed", "failed"} => egress[e] = "ended"
  /\ rec[e] # "none" => egress[e] # "unused"

\* And of one request: when it writes a status or deletes anything, the egress
\* has ended; and it deletes the row after the file.
WorkRight(q) ==
  /\ q.pc \in Working => egress[q.of] # "unused"
  /\ q.pc \in {"WriteStatus", "DeleteObject", "DeleteRow"}
       => egress[q.of] = "ended"
  /\ q.pc = "WriteStatus" => q.status # "none"
  /\ q.pc = "DeleteRow" => q.of \notin files

TrackInv ==
  /\ Exists
  /\ \A e \in Egresses : EgressRight(e)
  /\ \A s \in Slots : WorkRight(req[s])

\* Egresses go from unused to running to ended, and write a file at the end.
EgressOnward(e) ==
  /\ egress[e] # "unused" => egress'[e] # "unused"
  /\ egress[e] = "ended"
       => egress'[e] = "ended" /\ (e \in files' => e \in files)

\* The requests that stand still know what they knew.
LEMMA OthersRight ==
  ASSUME TypeOK, StopInv, TrackInv, NEW s \in Slots, NEW q,
         Become(s, q), UNCHANGED stage, WorkRight(q)',
         \A e \in Egresses : EgressOnward(e) /\ EgressRight(e)'
  PROVE  TrackInv'
<1>1. Exists'
  BY DEF TrackInv, Exists, Present
<1>2. ASSUME NEW t \in Slots
      PROVE  WorkRight(req[t])'
  <2>1. CASE t = s
    <3>1. req'[t] = q
      BY <2>1 DEF Become, TypeOK
    <3> QED
      BY <3>1 DEF WorkRight
  <2>2. CASE t # s
    <3>1. req'[t] = req[t]
      BY <2>2 DEF Become, TypeOK
    <3>2. WorkRight(req[t]) /\ (req[t].pc \in Working => req[t].of \in Egresses)
      BY DEF TrackInv, StopInv
    <3> QED
      BY <3>1, <3>2 DEF WorkRight, EgressOnward, Working
  <2> QED
    BY <2>1, <2>2
<1> QED
  BY <1>1, <1>2 DEF TrackInv

LEMMA StartingStays ==
  ASSUME TypeOK, NEW s \in Slots, NEW q, Become(s, q), NEW e \in Egresses,
         Starting(e), req[s].pc # "CreateRow" \/ req[s].of # e
  PROVE  Starting(e)'
<1>1. PICK t \in Slots : req[t].pc = "CreateRow" /\ req[t].of = e
  BY DEF Starting
<1>2. req'[t] = req[t]
  BY <1>1 DEF Become, TypeOK
<1> QED
  BY <1>1, <1>2 DEF Starting

LEMMA ReadTracks ==
  ASSUME TypeOK, StopInv, TrackInv, NEW s \in Slots, NEW q,
         req[s].pc # "CreateRow", Become(s, q), ReadOnly, WorkRight(q)
  PROVE  TrackInv'
<1>1. UNCHANGED <<stage, rec, egress, files>>
  BY DEF ReadOnly
<1>2. WorkRight(q)'
  BY <1>1 DEF WorkRight
<1>3. ASSUME NEW e \in Egresses
      PROVE  EgressOnward(e) /\ EgressRight(e)'
  BY <1>1, StartingStays DEF EgressOnward, EgressRight, TrackInv
<1> QED
  BY <1>1, <1>2, <1>3, OthersRight

LEMMA IdleRight == WorkRight(Idle) /\ WorkRight(Idle)'
  BY IdleCall DEF WorkRight, Working

\* A call to stopEgress leaves the egress ended, whether it succeeds or not.
LEMMA CallTracks ==
  ASSUME TypeOK, StopInv, TrackInv, NEW s \in Slots, NEW ok, NEW failed,
         req[s].pc \in {"StopEgress", "StopBeforeDelete"}, UNCHANGED <<stage, rec>>,
         SoundCall(req[s].of, Become(s, ok), Become(s, failed)),
         \A q \in {ok, failed} :
           /\ q = Idle \/ q.of = req[s].of
           /\ q.pc \in {"WriteStatus", "DeleteObject", "idle"}
           /\ q.pc = "WriteStatus" => q.status # "none"
  PROVE  TrackInv'
<1> DEFINE e == req[s].of
<1>1. e \in Egresses /\ egress[e] \in {"running", "ended"}
  BY DEF StopInv, TrackInv, WorkRight, EgressRight, Working, TypeOK, EgressStates
<1>2. PICK q \in {ok, failed} : Become(s, q)
  BY DEF SoundCall
<1>3. /\ egress' = [egress EXCEPT ![e] = "ended"]
      /\ files' \in {files, files \cup {e}}
      /\ egress[e] = "ended" => files' = files
  BY <1>1 DEF SoundCall, EgressEnds, TypeOK
<1>4. WorkRight(q)'
  BY <1>1, <1>3, IdleCall DEF WorkRight, Working, TypeOK
<1>5. ASSUME NEW f \in Egresses
      PROVE  EgressOnward(f) /\ EgressRight(f)'
  <2>1. Starting(f) => Starting(f)'
    BY <1>2, StartingStays
  <2>2. EgressRight(f)
    BY DEF TrackInv
  <2>3. CASE f = e
    BY <1>1, <1>3, <2>1, <2>2, <2>3 DEF EgressOnward, EgressRight, TypeOK
  <2>4. CASE f # e
    BY <1>3, <2>1, <2>2, <2>4 DEF EgressOnward, EgressRight, TypeOK
  <2> QED
    BY <2>3, <2>4
<1> QED
  BY <1>2, <1>4, <1>5, OthersRight

LEMMA StartTracks ==
  ASSUME TypeOK, StopInv, TrackInv, NEW s \in Slots,
         \/ FindActive(s) \/ CountAdmitted(s) \/ CreateRoom(s)
         \/ SoundStart(s) \/ CreateRow(s)
  PROVE  TrackInv'
<1>1. CASE FindActive(s) \/ CountAdmitted(s) \/ CreateRoom(s)
  <2>1. PICK pc \in {"CountAdmitted", "CreateRoom", "StartEgress"} :
          ReadOnly /\ (Goto(s, pc) \/ Finish(s))
    BY <1>1 DEF FindActive, CountAdmitted, CreateRoom
  <2>2. req[s].pc # "CreateRow"
    BY <1>1 DEF FindActive, CountAdmitted, CreateRoom
  <2>3. [req[s] EXCEPT !.pc = pc].pc = pc
    BY DEF TypeOK, Request
  <2>4. WorkRight([req[s] EXCEPT !.pc = pc])
    BY <2>3 DEF WorkRight, Working
  <2> QED
    BY <2>1, <2>2, <2>4, IdleRight, ReadTracks DEF Goto, Finish
<1>2. CASE SoundStart(s)
  <2>1. PICK e \in Egresses :
          /\ egress[e] = "unused"
          /\ egress' = [egress EXCEPT ![e] = "running"]
          /\ Become(s, Call("CreateRow", e))
    BY <1>2 DEF SoundStart
  <2>2. UNCHANGED <<stage, rec, files>> /\ req[s].pc = "StartEgress"
    BY <1>2 DEF SoundStart
  <2>3. Call("CreateRow", e).pc = "CreateRow" /\ Call("CreateRow", e).of = e
    BY CallType DEF PCs
  <2>4. WorkRight(Call("CreateRow", e))'
    BY <2>1, <2>3 DEF WorkRight, TypeOK
  <2>5. Starting(e)'
    BY <2>1, <2>3 DEF Starting, Become, TypeOK
  <2>6. ASSUME NEW f \in Egresses
        PROVE  EgressOnward(f) /\ EgressRight(f)'
    <3>1. Starting(f) => Starting(f)'
      BY <2>1, <2>2, StartingStays
    <3>2. EgressRight(f)
      BY DEF TrackInv
    <3> QED
      BY <2>1, <2>2, <2>5, <3>1, <3>2 DEF EgressOnward, EgressRight, TypeOK
  <2> QED
    BY <2>1, <2>2, <2>4, <2>6, OthersRight
<1>3. CASE CreateRow(s)
  <2> DEFINE e == req[s].of
  <2>1. /\ rec' = [rec EXCEPT ![e] = "recording"] /\ Become(s, Idle)
        /\ UNCHANGED <<stage, egress, files>>
        /\ e \in Egresses /\ egress[e] # "unused"
    BY <1>3
       DEF CreateRow, SetRec, Finish, TrackInv, WorkRight, StopInv, Working
  <2>2. ASSUME NEW f \in Egresses
        PROVE  EgressOnward(f) /\ EgressRight(f)'
    <3>1. f # e /\ Starting(f) => Starting(f)'
      BY <2>1, StartingStays
    <3>2. EgressRight(f)
      BY DEF TrackInv
    <3> QED
      BY <2>1, <3>1, <3>2 DEF EgressOnward, EgressRight, TypeOK
  <2> QED
    BY <2>1, <2>2, IdleRight, OthersRight
<1> QED
  BY <1>1, <1>2, <1>3

LEMMA StopTracks ==
  ASSUME TypeOK, StopInv, TrackInv, NEW s \in Slots,
         FindRow(s) \/ SoundStop(s) \/ WriteStatus(s)
  PROVE  TrackInv'
<1> DEFINE q == req[s]
<1>1. q \in Request
  BY DEF TypeOK
<1>2. CASE FindRow(s)
  <2>1. ASSUME NEW e \in Active, Become(s, Call("StopEgress", e))
        PROVE  TrackInv'
    <3>1. /\ Call("StopEgress", e).pc = "StopEgress"
          /\ Call("StopEgress", e).of = e /\ egress[e] # "unused"
      BY CallType DEF PCs, Active, TrackInv, EgressRight
    <3>2. WorkRight(Call("StopEgress", e))
      BY <3>1 DEF WorkRight
    <3> QED
      BY <1>2, <2>1, <3>2, ReadTracks DEF FindRow
  <2> QED
    BY <1>2, <2>1, IdleRight, ReadTracks DEF FindRow, Finish
<1>3. CASE SoundStop(s)
  <2> DEFINE ok == [[q EXCEPT !.pc = "WriteStatus"] EXCEPT !.status = "completed"]
             failed == [[q EXCEPT !.pc = "WriteStatus"] EXCEPT !.status = "failed"]
  <2>1. /\ ok.pc = "WriteStatus" /\ failed.pc = "WriteStatus"
        /\ ok.of = q.of /\ failed.of = q.of
        /\ ok.status = "completed" /\ failed.status = "failed"
    BY <1>1 DEF Request
  <2>2. /\ UNCHANGED <<stage, rec>> /\ q.pc = "StopEgress"
        /\ SoundCall(q.of, Become(s, ok), Become(s, failed))
    BY <1>3 DEF SoundStop
  <2> HIDE DEF ok, failed
  <2> QED
    BY <2>1, <2>2, CallTracks
<1>4. CASE WriteStatus(s)
  <2>1. /\ Become(s, Idle) /\ UNCHANGED <<stage, egress, files>>
        /\ q.of \in Egresses /\ egress[q.of] = "ended"
        /\ q.status \in RecStates \ {"none"}
        /\ rec' = rec \/ rec' = [rec EXCEPT ![q.of] = q.status]
    BY <1>1, <1>4
       DEF WriteStatus, Finish, SetRec, StopInv, TrackInv, WorkRight, Working,
           Request
  <2>2. ASSUME NEW f \in Egresses
        PROVE  EgressOnward(f) /\ EgressRight(f)'
    <3>1. Starting(f) => Starting(f)'
      BY <1>4, <2>1, StartingStays DEF WriteStatus
    <3>2. EgressRight(f)
      BY DEF TrackInv
    <3> QED
      BY <2>1, <3>1, <3>2 DEF EgressOnward, EgressRight, TypeOK
  <2> QED
    BY <2>1, <2>2, IdleRight, OthersRight
<1> QED
  BY <1>2, <1>3, <1>4

LEMMA DeleteTracks ==
  ASSUME TypeOK, StopInv, TrackInv, NEW s \in Slots,
         SoundStopBeforeDelete(s) \/ DeleteObject(s) \/ DeleteRow(s)
  PROVE  TrackInv'
<1> PICK q \in Request : q = req[s]
  BY DEF TypeOK
<1> DEFINE to(pc) == [q EXCEPT !.pc = pc]
<1>1. q.of \in Egresses /\ q.pc # "CreateRow"
  BY DEF SoundStopBeforeDelete, DeleteObject, DeleteRow, TypeOK, StopInv, Working
<1>2. ASSUME NEW pc \in {"DeleteObject", "DeleteRow"}
      PROVE  to(pc).pc = pc /\ to(pc).of = q.of
  BY DEF Request
<1>3. CASE SoundStopBeforeDelete(s)
  <2>1. /\ UNCHANGED <<stage, rec>> /\ q.pc = "StopBeforeDelete"
        /\ SoundCall(q.of, Become(s, to("DeleteObject")), Become(s, Idle))
    BY <1>3 DEF SoundStopBeforeDelete, Goto, Finish
  <2>2. to("DeleteObject").pc = "DeleteObject" /\ to("DeleteObject").of = q.of
    BY <1>2
  <2> HIDE DEF to
  <2> QED
    BY <2>1, <2>2, IdleCall, CallTracks
<1>4. CASE DeleteObject(s)
  <2>1. /\ UNCHANGED <<stage, rec, egress>> /\ egress[q.of] = "ended"
        /\ \/ Become(s, to("DeleteRow")) /\ files' = files \ {q.of}
           \/ Become(s, Idle) /\ files' = files
    BY <1>4 DEF DeleteObject, Goto, Finish, TrackInv, WorkRight
  <2>2. ASSUME files' = files \ {q.of}
        PROVE  WorkRight(to("DeleteRow"))'
    <3>1. to("DeleteRow").pc = "DeleteRow" /\ to("DeleteRow").of = q.of
      BY <1>2
    <3> HIDE DEF to
    <3> QED
      BY <2>1, <2>2, <3>1 DEF WorkRight
  <2>3. ASSUME NEW f \in Egresses
        PROVE  EgressOnward(f) /\ EgressRight(f)'
    <3>1. Starting(f) => Starting(f)'
      BY <1>1, <2>1, StartingStays
    <3>2. EgressRight(f)
      BY DEF TrackInv
    <3> QED
      BY <2>1, <3>1, <3>2 DEF EgressOnward, EgressRight
  <2> HIDE DEF to
  <2> QED
    BY <2>1, <2>2, <2>3, IdleRight, OthersRight
<1>5. CASE DeleteRow(s)
  <2>1. /\ Become(s, Idle) /\ UNCHANGED <<stage, egress, files>>
        /\ rec' = [rec EXCEPT ![q.of] = "none"]
        /\ egress[q.of] = "ended" /\ q.of \notin files
    BY <1>5 DEF DeleteRow, Finish, SetRec, TrackInv, WorkRight
  <2>2. ASSUME NEW f \in Egresses
        PROVE  EgressOnward(f) /\ EgressRight(f)'
    <3>1. Starting(f) => Starting(f)'
      BY <1>1, <2>1, StartingStays
    <3>2. EgressRight(f)
      BY DEF TrackInv
    <3> QED
      BY <2>1, <3>1, <3>2 DEF EgressOnward, EgressRight, TypeOK
  <2> QED
    BY <2>1, <2>2, IdleRight, OthersRight
<1> QED
  BY <1>3, <1>4, <1>5

LEMMA ArriveTracks ==
  ASSUME TypeOK, StopInv, TrackInv, NEW s \in Slots,
         \/ StartRecording(s) \/ StopRecording(s)
         \/ \E e \in Egresses : DeleteRecording(s, e)
  PROVE  TrackInv'
<1>1. req[s].pc # "CreateRow"
  BY IdleCall DEF StartRecording, StopRecording, DeleteRecording, Arrive
<1>2. CASE StartRecording(s) \/ StopRecording(s)
  <2>1. PICK pc \in {"FindActive", "FindRow"} :
          Become(s, Call(pc, NoEgress)) /\ ReadOnly
    BY <1>2 DEF StartRecording, StopRecording, Arrive
  <2>2. Call(pc, NoEgress).pc = pc
    BY CallType DEF PCs
  <2> QED
    BY <1>1, <2>1, <2>2, ReadTracks DEF WorkRight, Working
<1>3. ASSUME NEW e \in Egresses, DeleteRecording(s, e)
      PROVE  TrackInv'
  <2>1. PICK pc \in {"StopBeforeDelete", "DeleteObject"} :
          /\ Become(s, Call(pc, e)) /\ ReadOnly
          /\ pc = "DeleteObject" => rec[e] # "recording"
    BY <1>3 DEF DeleteRecording, Arrive
  <2>2. Call(pc, e).pc = pc /\ Call(pc, e).of = e
    BY CallType DEF PCs
  <2>3. rec[e] \in RecStates \ {"none"} /\ EgressRight(e)
    BY <1>3 DEF DeleteRecording, TypeOK, TrackInv
  <2>4. WorkRight(Call(pc, e))
    BY <2>1, <2>2, <2>3 DEF WorkRight, EgressRight, RecStates
  <2> QED
    BY <1>1, <2>1, <2>4, ReadTracks
<1> QED
  BY <1>2, <1>3

LEMMA TrackNext ==
  ASSUME TypeOK, StopInv, TrackInv, SoundNext \/ UNCHANGED vars
  PROVE  TrackInv'
<1>1. ASSUME NEW s \in Slots, SoundContinue(s) PROVE TrackInv'
  BY <1>1, StartTracks, StopTracks, DeleteTracks DEF SoundContinue
<1>2. ASSUME NEW e \in Egresses, EgressEnds(e), UNCHANGED <<stage, rec, req>>
      PROVE  TrackInv'
  <2>1. /\ egress[e] = "running"
        /\ egress' = [egress EXCEPT ![e] = "ended"] /\ files' = files \cup {e}
    BY <1>2 DEF EgressEnds, TrackInv, EgressRight
  <2>2. Exists'
    BY <1>2 DEF TrackInv, Exists, Present
  <2>3. ASSUME NEW f \in Egresses
        PROVE  EgressRight(f)'
    BY <1>2, <2>1 DEF TrackInv, EgressRight, Starting, TypeOK
  <2>4. ASSUME NEW t \in Slots
        PROVE  WorkRight(req[t])'
    <3>1. WorkRight(req[t]) /\ (req[t].pc \in Working => req[t].of \in Egresses)
      BY DEF TrackInv, StopInv
    <3> QED
      BY <1>2, <2>1, <3>1 DEF WorkRight, Working, TypeOK
  <2> QED
    BY <2>2, <2>3, <2>4 DEF TrackInv
<1>3. CASE Change /\ UNCHANGED recVars
  <2>1. Exists'
    BY <1>3 DEF Change, TrackInv, Exists
  <2> QED
    BY <1>3, <2>1 DEF recVars, TrackInv, EgressRight, WorkRight, Starting
<1>4. CASE UNCHANGED vars
  BY <1>4
     DEF vars, TrackInv, EgressRight, WorkRight, Starting, Exists, Present
<1> QED
  BY <1>1, <1>2, <1>3, <1>4, ArriveTracks DEF SoundNext

LEMMA TrackInit == Init => TrackInv
  BY IdleRight, RecordingAssumption
     DEF Init, Founded, TrackInv, Exists, Present, EgressRight

-----------------------------------------------------------------------------
(* No requests overlap; any call may fail, and any request die.            *)

Busy == {s \in Slots : req[s] # Idle}
OneActive == \A e, f \in Active : e = f
RowsStarted == \A e \in Egresses : egress[e] = "unused" => rec[e] = "none"

\* What a request has read of the rows still stands.
ReadRight(q) ==
  /\ q.pc \in {"CountAdmitted", "CreateRoom", "StartEgress", "CreateRow"}
       => Active = {}
  /\ q.pc = "CreateRow" => rec[q.of] = "none" /\ egress[q.of] # "unused"
  /\ q.pc \in {"StopEgress", "WriteStatus"} => rec[q.of] = "recording"
  /\ q.pc = "WriteStatus" => q.status \in {"completed", "failed"}

SerialInv ==
  /\ \A s, t \in Busy : s = t
  /\ OneActive
  /\ RowsStarted
  /\ \A s \in Slots : ReadRight(req[s])

\* What an egress has started stays started.
Onward ==
  \A e \in Egresses : egress'[e] = "unused" <=> egress[e] = "unused"

LEMMA SerialStep ==
  ASSUME TypeOK, StopInv, SerialInv, ~Overlap, NEW s \in Slots, NEW q,
         Become(s, q), ReadRight(q)', OneActive', RowsStarted',
         \A e \in Egresses : egress[e] # "unused" => egress'[e] # "unused"
  PROVE  SerialInv'
<1>1. req'[s] = q /\ \A t \in Slots \ {s} : req'[t] = req[t]
  BY DEF Become, TypeOK
<1>2. \A t, r \in Busy' : t = r
  BY DEF Overlap, Busy
<1>3. ASSUME NEW t \in Slots
      PROVE  ReadRight(req[t])'
  <2>1. CASE t = s
    BY <1>1, <2>1 DEF ReadRight
  <2>2. CASE req'[t] = Idle
    BY <2>2, IdleCall DEF ReadRight
  <2>3. CASE t # s /\ req'[t] # Idle
    <3>1. req'[t] = req[t] /\ rec' = rec
      BY <1>1, <2>3 DEF Overlap
    <3>2. ReadRight(req[t]) /\ (req[t].pc = "CreateRow" => req[t].of \in Egresses)
      BY DEF SerialInv, StopInv, Working
    <3> QED
      BY <3>1, <3>2 DEF ReadRight, Active
  <2> QED
    BY <2>1, <2>2, <2>3
<1> QED
  BY <1>2, <1>3 DEF SerialInv

\* A step that leaves the rows alone.
LEMMA SerialReads ==
  ASSUME TypeOK, StopInv, SerialInv, ~Overlap, NEW s \in Slots, NEW q,
         Become(s, q), ReadRight(q), q.pc # "CreateRow", rec' = rec, Onward
  PROVE  SerialInv' /\ KeepsCompleted
<1>1. Active' = Active /\ OneActive' /\ RowsStarted' /\ KeepsCompleted
  BY DEF Active, OneActive, RowsStarted, KeepsCompleted, SerialInv, Onward
<1>2. ReadRight(q)'
  BY <1>1 DEF ReadRight
<1> QED
  BY <1>1, <1>2, SerialStep DEF Onward

LEMMA SerialIdle == ReadRight(Idle) /\ ReadRight(Idle)' /\ Idle.pc # "CreateRow"
  BY IdleCall DEF ReadRight

LEMMA StillOnward == ReadOnly => rec' = rec /\ Onward
  BY DEF ReadOnly, Onward

\* A step that writes one row.
LEMMA SerialWrites ==
  ASSUME TypeOK, StopInv, SerialInv, ~Overlap, NEW s \in Slots, Become(s, Idle),
         egress' = egress, NEW e \in Egresses, NEW st,
         rec' = [rec EXCEPT ![e] = st],
         \/ st = "recording" /\ Active = {} /\ rec[e] = "none"
         \/ st \in {"completed", "failed"} /\ rec[e] = "recording"
         \/ st = "none",
         st # "none" => egress[e] # "unused"
  PROVE  SerialInv' /\ KeepsCompleted
<1>1. \A f \in Egresses : rec'[f] = IF f = e THEN st ELSE rec[f]
  BY DEF TypeOK
<1>2. OneActive' /\ RowsStarted' /\ KeepsCompleted
  BY <1>1 DEF OneActive, Active, RowsStarted, KeepsCompleted, SerialInv
<1> QED
  BY <1>2, SerialIdle, SerialStep

LEMMA SerialStarts ==
  ASSUME TypeOK, StopInv, SerialInv, ~Overlap, NEW s \in Slots,
         \/ FindActive(s) \/ CountAdmitted(s) \/ CreateRoom(s)
         \/ StartEgress(s) \/ CreateRow(s)
  PROVE  SerialInv' /\ KeepsCompleted
<1>1. PICK q \in Request : q = req[s] /\ ReadRight(q)
  BY DEF TypeOK, SerialInv
<1>2. CASE FindActive(s) \/ CountAdmitted(s) \/ CreateRoom(s)
  <2>1. PICK pc \in {"CountAdmitted", "CreateRoom", "StartEgress"} :
          /\ ReadOnly
          /\ \/ Active = {} /\ Become(s, [q EXCEPT !.pc = pc])
             \/ Become(s, Idle)
    BY <1>1, <1>2
       DEF FindActive, CountAdmitted, CreateRoom, Goto, Finish, ReadRight
  <2>2. [q EXCEPT !.pc = pc].pc = pc
    BY <1>1 DEF Request
  <2>3. Active = {} => ReadRight([q EXCEPT !.pc = pc])
    BY <2>2 DEF ReadRight
  <2> QED
    BY <2>1, <2>2, <2>3, SerialIdle, SerialReads, StillOnward
<1>3. CASE StartEgress(s)
  <2>1. rec' = rec /\ Active = {} /\ Active' = {}
    BY <1>1, <1>3 DEF StartEgress, ReadRight, Active
  <2>2. RowsStarted' /\ OneActive' /\ KeepsCompleted
    BY <1>3, <2>1
       DEF StartEgress, RowsStarted, OneActive, KeepsCompleted, SerialInv, TypeOK
  <2>3. \A e \in Egresses : egress[e] # "unused" => egress'[e] # "unused"
    BY <1>3 DEF StartEgress, TypeOK
  <2>4. ASSUME NEW e \in Egresses, egress[e] = "unused",
               egress' = [egress EXCEPT ![e] = "running"],
               Become(s, Call("CreateRow", e))
        PROVE  SerialInv'
    <3>1. /\ Call("CreateRow", e).pc = "CreateRow"
          /\ Call("CreateRow", e).of = e
      BY CallType DEF PCs
    <3>2. rec'[e] = "none" /\ egress'[e] # "unused"
      BY <2>1, <2>4 DEF SerialInv, RowsStarted, TypeOK
    <3>3. ReadRight(Call("CreateRow", e))'
      BY <2>1, <3>1, <3>2 DEF ReadRight
    <3> QED
      BY <2>2, <2>3, <2>4, <3>3, SerialStep
  <2>5. Finish(s) => SerialInv'
    BY <2>2, <2>3, SerialIdle, SerialStep DEF Finish
  <2> QED
    BY <1>3, <2>2, <2>4, <2>5 DEF StartEgress
<1>4. CASE CreateRow(s)
  <2>1. /\ Become(s, Idle) /\ egress' = egress /\ q.of \in Egresses
        /\ Active = {} /\ rec[q.of] = "none" /\ egress[q.of] # "unused"
        /\ rec' = rec \/ rec' = [rec EXCEPT ![q.of] = "recording"]
    BY <1>1, <1>4
       DEF CreateRow, SetRec, Finish, ReadRight, StopInv, Working
  <2> QED
    BY <2>1, SerialIdle, SerialReads, SerialWrites DEF Onward
<1> QED
  BY <1>2, <1>3, <1>4

\* A call to stopEgress stops no egress that has not been started.
LEMMA CallOnward ==
  ASSUME TypeOK, NEW e \in Egresses, NEW ok, NEW failed, NEW s,
         StopEgressCall(e, Become(s, ok), Become(s, failed))
  PROVE  Onward /\ (Become(s, ok) \/ Become(s, failed))
  BY DEF StopEgressCall, EgressEnds, EgressEnding, Onward, TypeOK

LEMMA SerialStops ==
  ASSUME TypeOK, StopInv, SerialInv, ~Overlap, NEW s \in Slots,
         FindRow(s) \/ StopEgress(s) \/ WriteStatus(s)
  PROVE  SerialInv' /\ KeepsCompleted
<1>1. PICK q \in Request : q = req[s] /\ ReadRight(q)
  BY DEF TypeOK, SerialInv
<1>2. CASE FindRow(s)
  <2>1. ASSUME NEW e \in Active, Become(s, Call("StopEgress", e)), ReadOnly
        PROVE  SerialInv' /\ KeepsCompleted
    <3>1. /\ Call("StopEgress", e).pc = "StopEgress"
          /\ Call("StopEgress", e).of = e /\ rec[e] = "recording"
      BY CallType DEF PCs, Active
    <3>2. ReadRight(Call("StopEgress", e))
      BY <3>1 DEF ReadRight
    <3> QED
      BY <2>1, <3>1, <3>2, SerialReads, StillOnward
  <2> QED
    BY <1>2, <2>1, SerialIdle, SerialReads, StillOnward DEF FindRow, Finish
<1>3. CASE StopEgress(s)
  <2> DEFINE to(st) == [[q EXCEPT !.pc = "WriteStatus"] EXCEPT !.status = st]
  <2>1. q.of \in Egresses /\ rec[q.of] = "recording"
    BY <1>1, <1>3 DEF StopEgress, StopInv, Working, ReadRight
  <2>2. \A st : to(st).pc = "WriteStatus" /\ to(st).of = q.of /\ to(st).status = st
    BY <1>1 DEF Request
  <2>3. /\ rec' = rec
        /\ StopEgressCall(q.of, Become(s, to("completed")), Become(s, to("failed")))
    BY <1>1, <1>3 DEF StopEgress
  <2> HIDE DEF to
  <2>4. PICK st \in {"completed", "failed"} : Onward /\ Become(s, to(st))
    BY <2>1, <2>3, CallOnward
  <2>5. ReadRight(to(st))
    BY <2>1, <2>2 DEF ReadRight
  <2> QED
    BY <2>2, <2>3, <2>4, <2>5, SerialReads
<1>4. CASE WriteStatus(s)
  <2>1. /\ Become(s, Idle) /\ egress' = egress /\ q.of \in Egresses
        /\ q.status \in {"completed", "failed"} /\ rec[q.of] = "recording"
        /\ rec' = [rec EXCEPT ![q.of] = q.status]
    BY <1>1, <1>4
       DEF WriteStatus, SetRec, Finish, ReadRight, StopInv, Working
  <2>2. egress[q.of] # "unused"
    BY <2>1 DEF SerialInv, RowsStarted
  <2> QED
    BY <2>1, <2>2, SerialWrites
<1> QED
  BY <1>2, <1>3, <1>4

LEMMA SerialDeletes ==
  ASSUME TypeOK, StopInv, SerialInv, ~Overlap, NEW s \in Slots,
         StopBeforeDelete(s) \/ DeleteObject(s) \/ DeleteRow(s)
  PROVE  SerialInv' /\ KeepsCompleted
<1>1. PICK q \in Request : q = req[s] /\ q.of \in Egresses
  BY DEF TypeOK, StopInv, Working, StopBeforeDelete, DeleteObject, DeleteRow
<1> DEFINE to(pc) == [q EXCEPT !.pc = pc]
<1>2. ASSUME NEW pc \in {"DeleteObject", "DeleteRow"}
      PROVE  ReadRight(to(pc)) /\ to(pc).pc # "CreateRow"
  <2>1. to(pc).pc = pc
    BY <1>1 DEF Request
  <2> QED
    BY <2>1 DEF ReadRight
<1>3. CASE StopBeforeDelete(s)
  <2>1. rec' = rec /\ Onward /\ (Become(s, to("DeleteObject")) \/ Become(s, Idle))
    BY <1>1, <1>3, CallOnward DEF StopBeforeDelete, Goto, Finish
  <2> HIDE DEF to
  <2> QED
    BY <1>2, <2>1, SerialIdle, SerialReads
<1>4. CASE DeleteObject(s)
  <2>1. rec' = rec /\ Onward /\ (Become(s, to("DeleteRow")) \/ Become(s, Idle))
    BY <1>1, <1>4 DEF DeleteObject, Goto, Finish, Onward
  <2> HIDE DEF to
  <2> QED
    BY <1>2, <2>1, SerialIdle, SerialReads
<1>5. CASE DeleteRow(s)
  <2>1. /\ Become(s, Idle) /\ egress' = egress
        /\ rec' = [rec EXCEPT ![q.of] = "none"]
    BY <1>1, <1>5 DEF DeleteRow, SetRec, Finish
  <2> QED
    BY <1>1, <2>1, SerialWrites
<1> QED
  BY <1>3, <1>4, <1>5

LEMMA SerialNext ==
  ASSUME TypeOK, StopInv, SerialInv, ~Overlap, Next
  PROVE  SerialInv' /\ KeepsCompleted
<1>1. ASSUME NEW s \in Slots, Continue(s)
      PROVE  SerialInv' /\ KeepsCompleted
  BY <1>1, SerialStarts, SerialStops, SerialDeletes DEF Continue
<1>2. ASSUME NEW s \in Slots,
             \/ StartRecording(s) \/ StopRecording(s)
             \/ \E e \in Egresses : DeleteRecording(s, e)
             \/ Abort(s)
      PROVE  SerialInv' /\ KeepsCompleted
  <2>1. PICK pc \in {"FindActive", "FindRow", "StopBeforeDelete", "DeleteObject",
                     "idle"},
             e \in Egresses \cup {NoEgress} :
          Become(s, Call(pc, e)) /\ ReadOnly
    BY <1>2
       DEF StartRecording, StopRecording, DeleteRecording, Abort, Arrive, Finish,
           Idle
  <2>2. Call(pc, e).pc = pc
    BY CallType DEF PCs
  <2>3. ReadRight(Call(pc, e))
    BY <2>2 DEF ReadRight
  <2> QED
    BY <2>1, <2>2, <2>3, SerialReads, StillOnward
<1>3. ASSUME NEW s \in Slots, DeleteMeeting(s)
      PROVE  SerialInv' /\ KeepsCompleted
  <2>1. /\ Become(s, Idle) /\ egress' = egress
        /\ rec' = [e \in Egresses |-> "none"]
    BY <1>3 DEF DeleteMeeting, Arrive
  <2>2. OneActive' /\ RowsStarted' /\ KeepsCompleted
    BY <2>1 DEF OneActive, Active, RowsStarted, KeepsCompleted
  <2> QED
    BY <2>1, <2>2, SerialIdle, SerialStep
<1>4. ASSUME NEW e \in Egresses, EgressEnds(e), UNCHANGED <<stage, rec, req>>
      PROVE  SerialInv' /\ KeepsCompleted
  <2>1. Onward
    BY <1>4 DEF EgressEnds, Onward, TypeOK
  <2>2. \A s \in Slots : req[s].pc = "CreateRow" => req[s].of \in Egresses
    BY DEF StopInv, Working
  <2> QED
    BY <1>4, <2>1, <2>2
       DEF SerialInv, Busy, OneActive, Active, RowsStarted, ReadRight, Onward,
           KeepsCompleted
<1>5. CASE Change /\ UNCHANGED recVars
  BY <1>5
     DEF recVars, SerialInv, Busy, OneActive, Active, RowsStarted, ReadRight,
         KeepsCompleted
<1> QED
  BY <1>1, <1>2, <1>3, <1>4, <1>5 DEF Next

-----------------------------------------------------------------------------
(* The induction over the history of module MCRecording.                   *)

HistoryInv ==
  /\ TypeOK /\ StopInv
  /\ history \subseteq {"overlap"} => TrackInv
  /\ "overlap" \notin history => SerialInv

LEMMA HistoryInit == MCInit => HistoryInv
<1> SUFFICES ASSUME MCInit PROVE HistoryInv
  OBVIOUS
<1>1. TypeOK /\ StopInv /\ TrackInv
  BY RecordingInit, TrackInit DEF MCInit
<1>2. /\ \A e \in Egresses : rec[e] = "none"
      /\ \A s \in Slots : req[s] = Idle
  BY DEF MCInit, Init
<1>3. SerialInv
  BY <1>2, SerialIdle DEF SerialInv, Busy, OneActive, Active, RowsStarted
<1> QED
  BY <1>1, <1>3 DEF HistoryInv

LEMMA HistoryNext ==
  ASSUME HistoryInv, [MCNext]_<<vars, history>>
  PROVE  /\ HistoryInv'
         /\ "overlap" \notin history' => KeepsCompleted \/ UNCHANGED vars
<1>1. TypeOK' /\ StopInv'
  BY RecordingNext DEF HistoryInv, MCNext, vars
<1>2. CASE MCNext
  <2>1. /\ history \subseteq history'
        /\ "overlap" \notin history' => ~Overlap
        /\ history' \subseteq {"overlap"} => Sound!Next /\ ~Deleted
    BY <1>2 DEF MCNext, Happens
  <2>2. history' \subseteq {"overlap"} => TrackInv'
    BY <2>1, SoundSteps, TrackNext DEF HistoryInv
  <2>3. "overlap" \notin history' => SerialInv' /\ KeepsCompleted
    BY <1>2, <2>1, SerialNext DEF HistoryInv, MCNext
  <2> QED
    BY <1>1, <2>2, <2>3 DEF HistoryInv
<1>3. CASE UNCHANGED <<vars, history>>
  <2>1. TrackInv => TrackInv'
    BY <1>3, TrackNext DEF HistoryInv
  <2>2. SerialInv => SerialInv'
    BY <1>3
       DEF vars, SerialInv, Busy, OneActive, Active, RowsStarted, ReadRight
  <2> QED
    BY <1>1, <1>3, <2>1, <2>2 DEF HistoryInv
<1> QED
  BY <1>2, <1>3

\* As long as nothing has failed or died and the meeting is there, every
\* running egress can be stopped, for any number of overlapping requests:
\* startRecording writes a row for each egress that it starts, and
\* deleteRecording stops an egress before it deletes the row.
THEOREM EgressesTracked == MCSpec => []EgressTrackedSoundly
<1>1. HistoryInv => EgressTrackedSoundly
  BY DEF HistoryInv, TrackInv, EgressRight, EgressTracked, EgressTrackedSoundly
<1> QED
  BY <1>1, HistoryInit, HistoryNext, PTL DEF MCSpec

\* As long as nothing but S3 has failed and the meeting is there, every file
\* has a row through which it can be deleted, for any number of overlapping
\* requests: deleteRecording deletes the object before the row.
THEOREM FilesKeepRows == MCSpec => []FileHasRowSoundly
<1>1. HistoryInv => FileHasRowSoundly
  BY DEF HistoryInv, TypeOK, TrackInv, EgressRight, FileHasRow, FileHasRowSoundly
<1> QED
  BY <1>1, HistoryInit, HistoryNext, PTL DEF MCSpec

\* As long as no requests have overlapped at most one recording of the meeting
\* is in progress, whatever fails or dies: startRecording's look for another
\* still holds when it writes its row.
THEOREM OneRecords == MCSpec => []OneRecordingSerially
<1>1. HistoryInv => OneRecordingSerially
  <2> SUFFICES ASSUME HistoryInv, "overlap" \notin history PROVE OneRecording
    BY DEF OneRecordingSerially
  <2>1. OneActive
    BY DEF HistoryInv, SerialInv
  <2>2. CASE Active = {}
    BY <2>2, FS_EmptySet DEF OneRecording
  <2>3. ASSUME NEW e \in Active
        PROVE  OneRecording
    <3>1. Active = {e}
      BY <2>1, <2>3 DEF OneActive
    <3> QED
      BY <3>1, FS_Singleton DEF OneRecording
  <2> QED
    BY <2>2, <2>3
<1> QED
  BY <1>1, HistoryInit, HistoryNext, PTL DEF MCSpec

\* As long as no requests have overlapped a completed recording stays so until
\* it is deleted: stopRecording writes the status of a recording that still
\* runs, startRecording that of a new one.
THEOREM CompletedStays == MCSpec => CompletedIsFinal
<1>1. HistoryInv /\ [MCNext]_<<vars, history>>
        => [~("overlap" \in history') => KeepsCompleted]_vars
  BY HistoryNext
<1> QED
  BY <1>1, HistoryInit, HistoryNext, PTL DEF MCSpec, CompletedIsFinal
=============================================================================
