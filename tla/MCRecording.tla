---------------------------- MODULE MCRecording ----------------------------
(* Recording on small instances.                                           *)
EXTENDS Recording, TLC

\* The same code where nothing fails but S3, and where no request dies.
Sound == INSTANCE Recording WITH Faults <- Faults \cap {"s3"}
Alive == INSTANCE Recording WITH Faults <- Faults \ {"crash"}

\* History: whether requests have overlapped; a call has failed, a stopped
\* egress was still uploading or the meeting has been deleted; one has died.
VARIABLE history

\* deleteMeeting, of one step, overlaps with a request that stands still.
Overlap ==
  \/ \E s, t \in Slots : s # t /\ req'[s] # Idle /\ req'[t] # Idle
  \/ \E s \in Slots : req[s] # Idle /\ req'[s] = req[s] /\ rec' # rec

Deleted == Exists /\ ~Exists'

Happens ==
  UNION {IF Overlap THEN {"overlap"} ELSE {},
         IF ~Sound!Next \/ Deleted THEN {"fault"} ELSE {},
         IF ~Alive!Next THEN {"death"} ELSE {}}

MCInit == Init /\ history = {}

MCNext == Next /\ history' = history \cup Happens

MCSpec == MCInit /\ [][MCNext]_<<vars, history>> /\ Fairness

-----------------------------------------------------------------------------

\* As long as no requests have overlapped, at most one recording of the
\* meeting is in progress (startRecording looks for another).
OneRecordingSerially == "overlap" \notin history => OneRecording

\* As long as no requests have overlapped, a completed recording does not
\* become a failed or a running one (stopRecording looks for a running one).
CompletedIsFinal == [][~("overlap" \in history') => KeepsCompleted]_vars

\* As long as nothing has failed or died, and the meeting is there, an egress
\* that runs can be stopped: its row says so, or is being written
\* (startRecording).
EgressTrackedSoundly == history \subseteq {"overlap"} => EgressTracked

\* As long as nothing but S3 has failed, and the meeting is there, a file in
\* S3 has a row, through which it can be deleted: deleteRecording deletes the
\* object first, and the row only if that has worked.
FileHasRowSoundly == history \subseteq {"overlap"} => FileHasRow

\* A request to stop a recording, as long as none dies, takes it out of the
\* state in which no other can be started, whatever LiveKit answers.
StopTakesEffect ==
  \A s \in Slots, e \in Egresses :
    Stopping(s, e) ~> rec[e] # "recording" \/ "death" \in history
=============================================================================
