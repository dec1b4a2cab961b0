SPECIFICATION Spec
CONSTANTS
  PAGE_SIZE = 2
  WordBits = 2
  WordBytes = 1
  MemMaps <- MCMemMaps
CHECK_DEADLOCK FALSE
INVARIANTS
  TypeOK
  FreePagesAreExact
  BitmapFits
  AssertsHold
  PanicIsJustified
