SPECIFICATION MCSpec
CONSTANTS
  s1 = s1
  s2 = s2
  p1 = p1
  p2 = p2
  yes = yes
  no = no
  maybe = maybe
  NoOption = NoOption
  Host = host
  Users = {host, ann}
  Slots = {s1, s2}
  PollIds = {p1, p2}
  Options = {yes, no, maybe}
  OptionOf <- MCOptionOf
INVARIANTS
  ResultsAddUp
  VotesHaveVoters
PROPERTIES
  ClosedIsFinal
SYMMETRY SlotSymmetry
CHECK_DEADLOCK FALSE
