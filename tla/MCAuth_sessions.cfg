SPECIFICATION MCSpec
CONSTANTS
  ann = ann
  bob = bob
  amail = amail
  bmail = bmail
  p1 = p1
  p2 = p2
  s1 = s1
  s2 = s2
  None = None
  Clients = {ann, bob}
  Addresses = {amail, bmail}
  Passwords = {p1, p2}
  Slots = {s1, s2}
  Reads <- MCReads
INVARIANTS
  RegisteredOnce
  SessionsEarned
  PasswordByOwner
PROPERTIES
  LoginByCurrentPassword
  LoggedOutStaysOut
SYMMETRY MCSymmetry
