SPECIFICATION Spec
CONSTANTS
  a = a
  Letters = {a}
  Tab = Tab
  Typed = {a}
  Garbage = Garbage
  NoText = NoText
  InitDocs <- OneFile
  Clips <- SmallClips
  MaxLin = 2
  MaxLocal = 2
  MaxLines = 3
  MaxHist = 2
  Allow = {"SaveFails"}
VIEW StateView
INVARIANTS
  TypeOK
  UndoRestores
  SavedPosition
  UnmodifiedIsSaved
  LongTextHeldOnce
