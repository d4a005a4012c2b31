SPECIFICATION Spec
CONSTANTS
  Requests = {r1, r2}
  RecoveryCodes = {c1}
  WrongCode = wrong
  None = none
  MaxStarts = 2
  MaxClock = 1
  MaxRestarts = 1
SYMMETRY Symmetry
INVARIANTS SessionsInv CodesAreSpent
PROPERTY OneOperator
CHECK_DEADLOCK FALSE
