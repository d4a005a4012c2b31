SPECIFICATION FairSpec
CONSTANTS
  Installs = {i1, i2}
  Slots = 1
  Families = {"v4", "mapped"}
  HostKeys = {k1, k2}
  None = none
  MaxCrashes = 1
INVARIANTS InstallInv AllOrNothing OnlyConfirmedMachines
PROPERTIES NoSuccessOnceDeleted InstallEnds OrphanStops
CHECK_DEADLOCK FALSE
