CONSTANTS
  p1 = p1
  p2 = p2
  p3 = p3
  Procs = {p1, p2, p3}
  Servers = {}
  BIGCOUNT = 4
  MaxSets = 2
  MaxExits = 1
SPECIFICATION Spec
PROPERTY CreateSucceeds
