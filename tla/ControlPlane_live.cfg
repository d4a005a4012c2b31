SPECIFICATION FairSpec
CONSTANTS
  Streams = {s1, s2}
  Deletes = {d1}
  Updates = {}
  Creator = creator
  Nobody = nobody
  Kinds = {"status"}
  QueueCap = 1
  DeleteAttempts = 2
  MaxDrops = 1
  MaxCrashes = 0
INVARIANTS AttachedIsEnrolled SilentOnceDeleted
PROPERTIES ImplementsEnrollment DeletedAgentStops DeletionEnds OfflineHeals
CHECK_DEADLOCK FALSE
