CONSTANTS
  Clients = {c1, c2, c3, c4}
  NUMMSG = 2
  MaxRuns = 2
  MaxKills = 1
SPECIFICATION Spec
INVARIANTS UsersCounted OneWriter 
PROPERTIES ClientsEnd
CHECK_DEADLOCK FALSE
