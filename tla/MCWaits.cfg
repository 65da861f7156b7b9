SPECIFICATION MCSpec
CONSTANTS
  p1 = p1
  p3 = p3
  a = a
  b = b
  IpOf <- MCIpOf
  QportOf <- MCQportOf
  NameOf <- MCNameOf
  Players = {p1, p3}
  Leavers = {p1, p3}
  MaxClients = 2
  Ports = {a, b}
  ReservedSlots = 0
  Reserved = {}
  IpLimit = 1
  MaxChallenges = 1
  Timeout = 2
  ZombieTime = 1
  Grace = 1
  IcmpSpawned = 1
  IcmpLoading = 2
  WantAll = TRUE
  Flood = FALSE
  NewPorts = FALSE
  ReusePorts = FALSE
  MaxIssued = 2
  MaxLevels = 1
CHECK_DEADLOCK FALSE
INVARIANTS
  ConnectionsLimited
PROPERTIES
  DownloadWaitEnds
  SlotsComeFree
