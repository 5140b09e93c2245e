SPECIFICATION Spec
CONSTANTS
  host = host
  ann = ann
  bob = bob
  s1 = s1
  s2 = s2
  Nobody = Nobody
  Host = host
  Users = {host, ann, bob}
  Slots = {s1}
  Ops = {"join", "token", "leave", "admit", "admitAll", "deny", "end", "cohost", "mute", "muteAll"}
  Limits = {2}
  Faults = {"crash", "livekit"}
  MaxHooks = 0
INVARIANTS
  EndedMeansEmpty
PROPERTIES
  TokenOnlyToAdmitted
  CohostKept
  MutedAreAsked
  AdmissionWithinCapacity
  ImplementsLifecycle
SYMMETRY GuestSymmetry
