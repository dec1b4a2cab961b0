SPECIFICATION FairSpec
CONSTANTS
  Cpus = {bsp, ap}
  Bsp = bsp
  MaxTables = 1
  MaxExceptions = 0
CHECK_DEADLOCK FALSE
PROPERTIES
  EverythingHalted
