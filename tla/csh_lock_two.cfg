SPECIFICATION Spec
CONSTANTS
  Bufcnt = 2
  Files = {1}
  Recs = {0, 2, 4}
  Data = {d1}
  Absent = Absent
  CustomXfr = {1}
  KeepTwo = FALSE
  UsesLocks = TRUE
  LockSpan = 2
VIEW StateView
INVARIANTS
  OneBuffer
