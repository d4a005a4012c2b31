SPECIFICATION Spec
CONSTANTS
  Requests = {r1, r2}
  RecoveryCodes = {c1}
  WrongCode = wrong
  None = none
  MaxStarts = 2
  MaxClock = 1
  MaxRestarts = 0
SYMMETRY Symmetry
INVARIANT StepsConsumedOnce
CHECK_DEADLOCK FALSE
