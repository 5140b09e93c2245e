SPECIFICATION Spec
CONSTANTS
  host = host
  ann = ann
  bob = bob
  s1 = s1
  s2 = s2
  Nobody = Nobody
  Host = host
  Users = {host, ann}
  Slots = {s1, s2}
  Ops = {"join", "admit", "admitAll", "deny", "cohost", "end", "delete"}
  Limits = {2}
  Faults = {"livekit"}
  MaxHooks = 0
INVARIANTS
  CohostOnlyByHost
  WaitingRoomRespected
  DeletedLeavesNothing
SYMMETRY SlotSymmetry
CHECK_DEADLOCK FALSE
