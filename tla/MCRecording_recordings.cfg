SPECIFICATION MCSpec
CONSTANTS
  Host = host
  Users = {host}
  Slots = {s1, s2}
  Egresses = {e1, e2}
  Ops = {"start", "stop", "delete", "deleteMeeting"}
  Faults = {"crash", "livekit", "s3", "lag"}
INVARIANTS
  CompletedMeansStopped
  OneRecordingSerially
  EgressTrackedSoundly
  FileHasRowSoundly
PROPERTIES
  CompletedIsFinal
  StopTakesEffect
CHECK_DEADLOCK FALSE
