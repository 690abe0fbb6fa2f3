SPECIFICATION Spec
CONSTANTS
  stop = stop
  Order <- OnlyStop
  Conditional <- OnlyStop
  Faults <- AllFaults
  MaxGeneration = 2
  MaxSpent = 1
CHECK_DEADLOCK FALSE
INVARIANTS NothingVanishes
PROPERTIES EndsHold Answered
