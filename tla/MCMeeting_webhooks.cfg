SPECIFICATION Spec
CONSTANTS
  host = host
  ann = ann
  bob = bob
  s1 = s1
  s2 = s2
  Nobody = Nobody
  Host = host
  Users = {host, ann}
  Slots = {s1, s2}
  Ops = {"join", "kick", "update", "delete", "webhook"}
  Limits = {2}
  Faults = {"crash"}
  MaxHooks = 2
INVARIANTS
  HostKeepsMeeting
  LeftAtConsistent
PROPERTY ImplementsMembership
SYMMETRY SlotSymmetry
CHECK_DEADLOCK FALSE
