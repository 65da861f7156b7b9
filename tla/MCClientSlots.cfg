SPECIFICATION MCSpec
CONSTANTS
  p1 = p1
  p2 = p2
  p3 = p3
  a = a
  b = b
  c = c
  IpOf <- MCIpOf
  QportOf <- MCQportOf
  NameOf <- MCNameOf
  Players = {p1, p2}
  Leavers = {}
  MaxClients = 2
  Ports = {a, b, c}
  ReservedSlots = 0
  Reserved = {}
  IpLimit = 2
  MaxChallenges = 1
  Timeout = 2
  ZombieTime = 1
  Grace = 1
  IcmpSpawned = 1
  IcmpLoading = 2
  WantAll = TRUE
  Flood = FALSE
  NewPorts = TRUE
  ReusePorts = FALSE
  MaxIssued = 2
  MaxLevels = 0
SYMMETRY PortsAlike
INVARIANTS
  
  GameToldOnce
PROPERTIES
  OnlyNewerTakesOver
