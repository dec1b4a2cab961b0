SPECIFICATION FairSpec
CONSTANTS
  Cpus = {bsp, ap1, ap2}
  Bsp = bsp
  MaxTables = 1
  MaxExceptions = 2
CHECK_DEADLOCK FALSE
INVARIANTS
  NoWaitCycle
  LocksAreReturned
  LinesAreWhole
PROPERTIES
  EverybodyArrives
  PanicIsReported
