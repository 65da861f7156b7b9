CONSTANTS
  MaxClients = 2
  Patched = {1, 2}
  Files = {1}
  SizeOf <- Sizes
  Offsets = {0, 1}
  MinCompress = 2
  Precache = {}
  MaxEntries = 2
SPECIFICATION Spec
CHECK_DEADLOCK FALSE
INVARIANTS
  CountIsExact
  WorkerHasItsEntry
  SendsWhatWasAsked
PROPERTIES
  StaysWhileInUse
