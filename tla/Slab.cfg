SPECIFICATION Spec
CONSTANTS
  Cpus = {c1, c2, c3}
  Slabs = {1, 2}
  PageWords = 10
  ObjWords = 3
  MaxFrees = 4
SYMMETRY CpuSymmetry
CHECK_DEADLOCK FALSE
INVARIANTS
  TypeOK
  ObjectsAreDisjoint
  FreeListIsExact
  ListsMatchUse
  UsedIsCounted
