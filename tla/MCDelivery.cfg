CONSTANTS
  alice = alice
  bob = bob
  first = first
  second = second
  other = other
  Nobody = Nobody
  Account <- TwoAccounts
  Conn <- ThreeSockets
  AccountOf <- TwoToAlice
  MaxLedgers = 3
  MaxOrders = 1
SPECIFICATION Spec
CHECK_DEADLOCK FALSE
SYMMETRY Alike
INVARIANTS OwnFramesArriveUnlessShared RowsShownUnlessShared
