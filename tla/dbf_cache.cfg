SPECIFICATION Spec
CONSTANTS
  PerBlk = 2
  NumBlks = 2
  MaxRecs = 3
  Vals = {v1, v2}
  None = None
  Junk = Junk
  Fails <- FailsReported
SYMMETRY ValSymmetry
INVARIANTS
  TypeOK
  TableKept
  ReadsCurrent
  HeaderCovered
  CrashSafe
  AutoDurable
PROPERTIES
  FlushTruthful
