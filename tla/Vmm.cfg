SPECIFICATION Spec
CONSTANTS
  Cpus = {c1, c2}
  Fanout = 2
  Frames = {1, 2, 3, 4, 5, 6}
  Root = 1
  Virts = {1, 2, 15}
  Phys = {11, 12}
  MaxRun = 2
  TlbVirts = {2}
SYMMETRY CpuSymmetry
CHECK_DEADLOCK FALSE
INVARIANTS
  TypeOK
  NoGarbageReachable
  EveryTableLinkedOnce
  WalkStaysValid
  StaleOnlyFromRemote
PROPERTIES
  ImplementsAddressSpace
