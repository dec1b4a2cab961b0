SPECIFICATION Spec
CONSTANTS
  Machines <- MCMachines
  MappedPorts = 2
  NcsMask = 4
  Wait = 2
  SectorSize = 2
  DbcSize = 8
  CountSize = 8
  Sectors = {0, 1, 4, 5}
  MaxCalls = 3
CHECK_DEADLOCK FALSE
INVARIANTS
  DeviceRunsTheCall
  OutcomesAreGenuine
PROPERTIES
  EveryLoopEnds
