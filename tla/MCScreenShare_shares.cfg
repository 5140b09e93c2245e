SPECIFICATION MCSpec
CONSTANTS
  host = host
  ann = ann
  bob = bob
  s1 = s1
  s2 = s2
  Nobody = Nobody
  Host = host
  Users = {host, ann}
  Inside = {ann}
  Slots = {s1, s2}
  Ops = {"leave", "kick", "end", "delete"}
  ShareOps = {"start", "stop", "approve", "deny", "policy"}
  Limits = {3}
  Faults = {"crash", "livekit"}
  MaxHooks = 0
INVARIANTS
  NobodySharesUnasked
  OneSharerSerially
  SharesEndWithParticipation
SYMMETRY SlotSymmetry
CHECK_DEADLOCK FALSE
