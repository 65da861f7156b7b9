SPECIFICATION Spec
CONSTANTS
  Parts = {"variables"}
  Cmds <- SomeCmds
  Lines <- SomeLines
  Files <- SomeFiles
  Hooks <- SomeHooks
  RestartMap = TRUE
  MaxSize = 6
  LoopCount = 3
  MaxLines = 3
  CvarNames = {"maxclients", "timelimit", "sv_rcon_buffsize", "g_idle"}
  CvarValues = {1, 2, 3}
  DefaultFlags <- SomeFlags
  Clamped = {"sv_rcon_buffsize"}
  Floor = 1
  Ceiling = 2
  MaxSets = 2
  InfoKeys = {1, 2}
  MaxStringCmds = 3
  Stuffable <- SomeText
  Space = 8
  MaxInPacket = 3
  MaxPackets = 1
  MaxListEdits = 2
  AdrBits = 2
  Hosts = {1, 2}
  Period = 1
  StatusMax = 2
  RconMax = 1
  HeartbeatTime = 2
  MasterLists <- SomeMasters
  MaxNow = 3
  CountCap = 3
  MaxHoles = 2
  Fps = 20
  Swap = TRUE
  Rate = 1
  DownRate = 2
  DownFps = {30, 40}
  Limit = 0
  MaxLevel = 3
  Clients = {c1, c2, c3}
  UserinfoKeys = {"name", "rate"}
  Values = {0, 1, 9}
  Word = 9
  Methods = {"message", "kick"}
  Ops = {"is", "greater"}
  Names <- SomeNames
  Stem = 1
  MaxChecks = 2
  MaxEdits = 2
  MaxTime = 7
  MaxDelay = 2
  GivePeriod = 3
  Budget = 4
  KickLimit = 3
  NetDrops = {1, 20}
  Steps = {1, 2}
  Keys = {1, 2, 3, 4, 5}
  Nodes = {n1, n2, n3, n4, n5}
  Null = null
  Byte = 4
  Domain <- MCDomain
CONSTRAINT Followed
CHECK_DEADLOCK FALSE
INVARIANT StringsAreLive
