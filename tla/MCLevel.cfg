SPECIFICATION Spec
CONSTANTS
  Parts = {"world", "maps", "indexes", "saves", "files", "zone"}
  Maps <- TheMaps
  Ents = {1, 2}
  Owner <- NoOwner
  Spots <- TheSpots
  Solids = {"not", "trigger", "bbox"}
  BoxSizes <- TheSizes
  Probes <- TheProbes
  AreaDepth = 2
  MaxLeafs = 3
  MaxClusters = 2
  Boxes <- SomeSizes
  NoEnt = 0
  MapNames = {"dm", "town", "big", "dm-noguns"}
  BspFile <- TheFiles
  Overrides <- OneOverride
  Portals <- ThePortals
  Areas = {1, 2, 3}
  Leafs <- TheLeafs
  Pvs <- ThePvs
  Phs <- ThePhs
  MaxItems = 30
  NoFile = NoFile
  NoMap = NoMap
  MaxLoads = 4
  Names = {"gun.mdx", "GUN.mdx", "hat.mdx", "box.mdx", "fry.wav", "pic.tga", "mod.dll"}
  Lower <- LowerOf
  Kind <- KindOf
  File <- FileOf
  Room = 3
  DlRoom = 2
  SkinNames <- TheSkins
  SkinRoom = 10
  PlayerSkins <- TheTexts
  SkinLen = 3
  Gaps = {2}
  DefaultSkin <- TheDefault
  MaxAsks = 3
  GameMaps = {"m1", "m2"}
  Saves = {"s1", "s2"}
  NoneSaved = NoneSaved
  NoLevel = NoLevel
  MaxGames = 2
  MaxPlays = 1
  Recycles = FALSE
  FromDead = FALSE
  FileNames = {"a", "A", "b"}
  LowerCase <- SomeLower
  Base = "main"
  Mods = {"mod"}
  PakList <- SomePaks
  Loose <- SomeLoose
  CacheBits = {"pak", "missing", "loose"}
  Links <- SomeLinks
  Addr = {b0, b1, b2, b3}
  ZChain = zchain
  Oldest = b0
  Sizes = {0, 1}
  Header = 3
  Models = {"gun"}
  SubObjects <- SubObjectsOf
  MaxBounds = 2
  MaxModels = 2
CONSTRAINT OtherGame
SYMMETRY Alike
CHECK_DEADLOCK FALSE
INVARIANTS
  WorldIsExact
  
  NumbersAreKept
  FilesAreFound
PROPERTIES
  
  MemoryIsSound
