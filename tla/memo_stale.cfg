SPECIFICATION Spec
CONSTANTS
  MaxRecs = 2
  MaxCnt = 2
  MaxBlocks = 5
  Dialogs = {w1}
  None = None
  Allow = {"SaveUnderOpenMemo"}
VIEW StateView
INVARIANTS
  NoConflict
