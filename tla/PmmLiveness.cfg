SPECIFICATION FairSpec
CONSTANTS
  Cpus = {c1, c2}
  Bits = 4
  Reserved = {0, 2}
  MaxPages = 2
CHECK_DEADLOCK FALSE
PROPERTIES
  LockIsDropped
