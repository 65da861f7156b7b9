CONSTANTS
  Setups = {"mixed"}
  Requests <- Skins
  LocalMax = 2
  PadSize = 1
  BuffSize = 6
  MaxPayload = 6
  Spare = 0
  MaxList = 5
  FrameSizes = {1, 5}
  Compress = FALSE
  MaxSequence = 4
  MaxAdds = 2
SPECIFICATION MCSpec
CHECK_DEADLOCK FALSE
INVARIANTS
  FreesOnlyMalloced
