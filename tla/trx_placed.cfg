SPECIFICATION Spec
CONSTANTS
  Users = {u1}
  Faults = {"placed"}
  Keys = {1, 2, 3}
  LeafCap = 2
  BranchCap = 2
  MinPreWrite = 1
  MaxNodes = 10
  MaxKeys = 5
  SharedKeys = 5
VIEW StateView
INVARIANTS
  PlacedOnce
