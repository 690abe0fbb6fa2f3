CONSTANTS
  o1 = o1
  o2 = o2
  o3 = o3
  o4 = o4
  o5 = o5
  o6 = o6
  o7 = o7
  o8 = o8
  NoId = NoId
  Id = {o1, o2, o3, o4, o5, o6, o7, o8}
  Terms <- BareTerms
  Linked = {o2, o6}
  Frames <- StopAndChild
  EnforceFunds = TRUE
  Through = {o1, o2, o3, o4, o7}
  Arms <- BareArms
  AmendTo = {3}
  Walker = {w1, w2}
  MaxDepth = 2
  MaxRevision = 1
  MaxLinked = 8
SPECIFICATION Spec
SYMMETRY Walkers
CHECK_DEADLOCK FALSE
CONSTRAINT LimitsOrKinds
INVARIANTS TypeOK HoldsExact OpenRowsTruthful
PROPERTIES AnswersItsQuestion ReduceOnlyReduces Lifecycle
