SPECIFICATION MCSpec
CONSTANTS
  s1 = s1
  s2 = s2
  r1 = r1
  r2 = r2
  r3 = r3
  host = host
  ann = ann
  bob = bob
  NoRoom = NoRoom
  Host = host
  Users = {host, ann, bob}
  Slots = {s1, s2}
  RoomIds = {r1, r2, r3}
  Lists <- MCLists
  Faults = {"crash"}
INVARIANTS
  AssignmentsHaveRooms
  AssignedRoomsOpen
PROPERTIES
  EverybodyPlaced
  EvenlySpread
SYMMETRY Symmetry
CHECK_DEADLOCK FALSE
