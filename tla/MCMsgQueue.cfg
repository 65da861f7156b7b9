SPECIFICATION MCSpec
CONSTANTS
  Setups = {"mixed", "short"}
  Requests <- Mixed
  LocalMax = 2
  PadSize = 1
  BuffSize = 6
  MaxPayload = 6
  Spare = 0
  MaxList = 6
  FrameSizes = {1, 5}
  Compress = TRUE
  MaxSequence = 4
  MaxAdds = 3
CHECK_DEADLOCK FALSE
INVARIANTS
  ReliableInOrder
  DatagramFits
  
PROPERTIES
  WantedIsWritten
  OverflowEnds
