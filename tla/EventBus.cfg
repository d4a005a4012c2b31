SPECIFICATION FairSpec
CONSTANTS
  Publishers = {p1, p2}
  Clients = {c1}
  Limit = 2
  SubCap = 1
  MaxEvents = 5
  MaxFaults = 1
INVARIANTS BusInv NothingMissed InOrder
PROPERTIES CatchesUp
CHECK_DEADLOCK FALSE
