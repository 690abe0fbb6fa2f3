CONSTANTS
  o1 = o1
  o2 = o2
  o3 = o3
  o4 = o4
  o5 = o5
  o6 = o6
  o7 = o7
  o8 = o8
  NoId = NoId
  Id = {o1, o2}
  Terms <- StopTerms
  Linked = {}
  Frames = {}
  EnforceFunds = FALSE
  Through = {}
  Arms = {}
  AmendTo = {}
  Walker = {w1}
  MaxDepth = 1
  MaxRevision = 1
  MaxLinked = 8
SPECIFICATION Spec
SYMMETRY Walkers
CHECK_DEADLOCK FALSE
PROPERTIES NoFillAfterClose
