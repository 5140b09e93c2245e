SPECIFICATION Spec
CONSTANTS
  host = host
  ann = ann
  bob = bob
  s1 = s1
  s2 = s2
  Nobody = Nobody
  Host = host
  Users = {host, ann}
  Slots = {s1, s2}
  Ops = {"join", "kick"}
  Limits = {2}
  Faults = {}
  MaxHooks = 0
PROPERTIES
  TokenOnlyToAdmitted
SYMMETRY SlotSymmetry
