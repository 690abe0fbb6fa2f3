CONSTANTS
  a1 = a1
  a2 = a2
  l1 = l1
  l2 = l2
  k1 = k1
  k2 = k2
  None = None
  Account = {a1, a2}
  Leg = {l1, l2}
  Key = {k1, k2}
  Order = {o1}
  Berths <- OneConsumerAndAStranger
  MaxBoats = 2
  Horizon = 2
  Calendar <- FirstSettles
SPECIFICATION Spec
CHECK_DEADLOCK FALSE
INVARIANTS SettledOnce
PROPERTIES FillsAfterAcceptance RiddenOrdersKept
