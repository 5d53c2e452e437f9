SPECIFICATION Spec
CONSTANTS
  PerBlk = 2
  NumBlks = 2
  MaxRecs = 4
  Vals = {v1, v2}
  None = None
  Junk = Junk
  Fails <- FailsUser
SYMMETRY ValSymmetry
PROPERTIES
  FailedAppendKeeps
