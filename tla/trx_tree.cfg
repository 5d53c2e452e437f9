SPECIFICATION Spec
CONSTANTS
  Users = {u1, u2}
  Faults = {}
  Keys = {1, 2, 3}
  LeafCap = 2
  BranchCap = 2
  MinPreWrite = 1
  MaxNodes = 10
  MaxKeys = 5
  SharedKeys = 3
VIEW StateView
INVARIANTS
  TypeOK
  TreeInv
  NodesAccounted
  NoFormatError
  MovesRight
PROPERTIES
  KeyListSpec
  GrowsFirst
