CONSTANTS
  da = da
  db = db
  none = none
  NConns = 3
  Devices = {da, db}
  NoDevice = none
  Systems <- MCSystems
  Wanted <- MCWanted
  Garbage <- MCGarbage
  Impatient = {1, 2}
SPECIFICATION Spec
INVARIANTS UseIsLocked LockOwned NotForgotten FailuresNoticed CallsInOrder
CHECK_DEADLOCK FALSE
