SPECIFICATION FairSpec
CONSTANTS
  Users = {ann}
  Meetings = {m1, m2}
  Codes = {c1, c2}
  Breakouts = {b1}
  MaxAttempts = 2
  None = None
  Slots = {s1, s2}
  Sessions = {k1}
INVARIANTS
  OneMeetingPerCode
  MeetingsHaveHosts
  RoomsEarned
PROPERTIES
  ShutdownCompletes
