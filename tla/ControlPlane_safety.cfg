SPECIFICATION Spec
CONSTANTS
  Streams = {s1}
  Deletes = {d1, d2}
  Updates = {u1, u2}
  Creator = creator
  Nobody = nobody
  Kinds = {"status", "meters"}
  QueueCap = 1
  DeleteAttempts = 2
  MaxDrops = 0
  MaxCrashes = 1
SYMMETRY Symmetry
INVARIANTS IndInv RevocationHolds HubOwnsConnections StopsOnlyOnDeletion
CHECK_DEADLOCK FALSE
