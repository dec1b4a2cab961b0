SPECIFICATION Spec
CONSTANTS
  Calls <- MCCalls
  KeptAs <- MCKeptAs
  Endless = {"huge"}
  FileSize = 4
  WordSize = 8
  MaxCalls = 4
CHECK_DEADLOCK FALSE
INVARIANTS
  ReadsSeeWrites
  DirectoriesListTheTree
PROPERTIES
  ImplementsFileTree
