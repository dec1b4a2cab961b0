SPECIFICATION Spec
CONSTANTS
  Firmwares <- MCFirmwares
  NoFirmware = NoFirmware
  Drivers = {"timer", "keyboard", "clock"}
  IsaLine <- MCIsaLine
  Vectors = 35
  IrqHandlers = 3
  Stubs = 34
  Exceptions = {0, 2, 8, 13, 14, 17, 21, 29, 30}
CHECK_DEADLOCK FALSE
INVARIANTS
  LinesReachTheirHandlers
  SharedOnlyWhenFull
  ReportsAreTrue
