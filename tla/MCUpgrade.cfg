CONSTANTS
  k1 = k1
  k2 = k2
  river1 = river1
  acc1 = acc1
  acc2 = acc2
  me = me
  NoConn = NoConn
  NoCallsign = NoCallsign
  Conn = {c1, c2}
  Key = {k1, k2}
  River <- RiverOf
  Account = {acc1, acc2}
  Callsign = {me}
  Requests <- UpgradeRequests
  MaxLedgers = 1
SPECIFICATION Spec
CHECK_DEADLOCK FALSE
INVARIANTS TypeOK LeaseExact BoatsSailForPassengers ReservationHolds RideKeepsBoat LedgerAsChecked
PROPERTIES AnsweredUnlessStranded DisplacedLeaves
