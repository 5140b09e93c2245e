SPECIFICATION FairSpec
CONSTANTS
  host = host
  ann = ann
  bob = bob
  s1 = s1
  s2 = s2
  Nobody = Nobody
  Host = host
  Users = {host, ann}
  Slots = {s1, s2}
  Ops = {"join", "token", "kick", "end", "mute", "muteAll"}
  Limits = {2}
  Faults = {"livekit"}
  MaxHooks = 0
INVARIANTS
  MutedWereInside
PROPERTIES
  RequestsAnswered
  EndTakesEffect
