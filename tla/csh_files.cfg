SPECIFICATION Spec
CONSTANTS
  Bufcnt = 2
  Files = {1, 2}
  Recs = {0, 1}
  Data = {d1}
  Absent = Absent
  CustomXfr = {}
  KeepTwo = TRUE
  UsesLocks = FALSE
  LockSpan = 0
VIEW StateView
INVARIANTS
  TypeOK
  OneBuffer
  ChainInv
  RingInv
  CleanOnDisk
  HandlesValid
PROPERTIES
  StoreSpec
  FlushDurable
