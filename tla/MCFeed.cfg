CONSTANTS
  Depth = 1
  Instants <- PairThenSingles
  WindowEnds = {0, 3}
SPECIFICATION Spec
CHECK_DEADLOCK FALSE
INVARIANTS HolesStated NothingMissed
PROPERTIES LossIsStated
