SPECIFICATION FairSpec
CONSTANTS
  Bufcnt = 2
  Files = {1}
  Recs = {0, 1, 2}
  Data = {d1}
  Absent = Absent
  CustomXfr = {}
  KeepTwo = FALSE
  UsesLocks = TRUE
  LockSpan = 2
VIEW StateView
CONSTRAINT ChainInv
PROPERTIES
  LockedStays
  CallsReturn
