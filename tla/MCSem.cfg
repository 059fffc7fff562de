CONSTANTS
  p1 = p1
  p2 = p2
  p3 = p3
  Procs = {p1, p2, p3}
  Servers = {p1}
  BIGCOUNT = 4
  MaxSets = 2
  MaxExits = 1
SPECIFICATION Spec
INVARIANTS TypeOK LockHeld CounterCorrect CriticalSection CreatorsKeepIt
