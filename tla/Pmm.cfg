SPECIFICATION Spec
CONSTANTS
  Cpus = {c1, c2, c3}
  Bits = 6
  Reserved = {0, 2}
  MaxPages = 2
SYMMETRY CpuSymmetry
CHECK_DEADLOCK FALSE
INVARIANTS
  TypeOK
  ExclusiveBitmap
  NoDoubleAllocation
  NoPageLost
  AssertsHold
  OomIsGenuine
  ZeroedPagesAreZero
PROPERTIES
  ImplementsPageAllocator
  PanicStopsAllocator
