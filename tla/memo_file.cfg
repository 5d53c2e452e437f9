SPECIFICATION Spec
CONSTANTS
  MaxRecs = 2
  MaxCnt = 3
  MaxBlocks = 7
  Dialogs = {w1}
  None = None
  Allow = {}
VIEW StateView
INVARIANTS
  TypeOK
  MemosIntact
  NoConflict
  FreeListOrdered
  NothingWasted
  HeaderMatchesLength
