SPECIFICATION EntrySpec
CONSTANTS
  s1 = s1
  s2 = s2
  o1 = o1
  o2 = o2
  o3 = o3
  b1 = b1
  Leg = {s1, s2}
  Order = {o1, o2, o3}
  Submit <- Asks
  Resizes = {3}
  Boat = {b1}
  Trading = b1
  Paths <- Moves
  FirstMark = 4
  LastDay = 1
  Policies <- AllPolicies
SYMMETRY Ids
CHECK_DEADLOCK FALSE
INVARIANTS  FixedFloorsWatched
