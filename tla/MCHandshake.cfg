SPECIFICATION Spec
CONSTANTS
  Clients = {c1}
  Plain = {p}
  Images = {i}
  Values = {v1}
  MaxCount = 4
  MaxSets = 1
  MaxFiles = 1
  MaxSkips = 2
  None = None
  Paks = {"pak"}
  PlainFiles = {"skin", "map"}
  InPak <- SomeFiles
  Blocks = 2
  MaxLevels = 3
  MaxToggles = 1
CHECK_DEADLOCK FALSE
INVARIANTS
  RequestsEnd
PROPERTIES
  TellsTheLevel
  PlayerGetsIn
  LoaderIsIn
