SPECIFICATION Spec
CONSTANTS
  Cpus = {c1}
  Slabs = {1}
  PageWords = 11
  ObjWords = 3
  MaxFrees = 1
CHECK_DEADLOCK FALSE
INVARIANTS
  ObjectsInFormat
