SPECIFICATION FairSpec
CONSTANTS
  Requests = {r1, r2, r3}
  Threshold = 5
  MaxDelay = 10
  MaxRestarts = 2
INVARIANT LimiterInv
PROPERTY BlockEnds
