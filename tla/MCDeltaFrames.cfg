SPECIFICATION Spec
CONSTANTS
  MaxClients = 1
  NumEdicts = 3
  Views <- Seen
  Backup = 4
  PerFrame = 2
  FrameLimit = 2
  Others = 0
  OtherSizes = {0}
  MaxFrames = 5
  MaxLevels = 1
  MaxDemos = 1
  MaxWire = 1
CHECK_DEADLOCK FALSE
INVARIANTS
  FramesAgree
  
  DemoIsComplete
