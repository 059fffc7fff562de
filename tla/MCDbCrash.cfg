CONSTANTS
  p1 = p1
  p2 = p2
  k1 = k1
  k2 = k2
  k3 = k3
  d1 = d1
  d2 = d2
  e1 = e1
  NULL = NULL
  EXITED = EXITED
  BLANK = BLANK
  Procs = {p1, p2}
  Keys = {k1, k2, k3}
  Data = {d1, d2, e1}
  Requests <- MCCrashRequests
  NHASH = 2
  PTR_MAX = 9
  Hash <- MCHash
  KeyLen <- MCKeyLen
  DatLen <- MCDatLen
  MaxCalls = 4
  MaxCrashes = 1
SPECIFICATION CrashSpec
INVARIANTS CrashContained FreeListSound
