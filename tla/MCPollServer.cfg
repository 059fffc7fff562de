CONSTANTS
  N = 2
  MaxMsgs = 2
  Backlog = 2
SPECIFICATION Spec
INVARIANTS TableSound TableBound
PROPERTY Served
CHECK_DEADLOCK FALSE
