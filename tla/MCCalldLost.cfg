CONSTANTS
  da = da
  db = db
  none = none
  NConns = 3
  Devices = {da, db}
  NoDevice = none
  Systems <- MCSystems
  Wanted <- MCWanted
  Garbage <- MCClear
  Impatient = {}
SPECIFICATION FairSpec
PROPERTY StatusFound
CHECK_DEADLOCK FALSE
