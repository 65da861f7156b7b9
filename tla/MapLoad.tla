------------------------------ MODULE MapLoad ------------------------------
(***************************************************************************)
(* Loading a level (cmodel.c): the lumps of a map file go one by one into        *)
(* static tables that keep what an earlier map left there, an error in one of  *)
(* them stops the load in the middle, a map that is still there is not loaded   *)
(* again, and an override file brings entities of its own and names the map    *)
(* they are for. While the level runs the game works its doors, and levels     *)
(* that are left and entered again find them as they were.                     *)
(***************************************************************************)
EXTENDS Sight

CONSTANTS MapNames,          \* of levels; those of map files are among them
          BspFile,        \* name -> NoFile or [id, surfaces, leafs, ...]: how many of each
          Overrides,      \* name -> the override files it may have: NoFile or [source, ents]
          MaxItems,       \* MAX_MAP_...
          NoFile, NoMap, MaxLoads

VARIABLES mapName, lumps, entityString, lastChecksum, override, flushmap,
          level,          \* the name of the level that runs, NoMap: none
          kept,           \* the doors of the levels that were left (level files)
          doors,          \* ghost: the doors the game has open
          loads
mlVars == <<portalopen, flood, mapName, lumps, entityString, lastChecksum, override, flushmap, level, kept, doors, loads>>

LumpOrder == <<"surfaces", "leafs", "leafbrushes", "planes", "brushes", "brushsides", "models", "nodes",
               "areas", "areaportals", "visibility", "entities">>
NoFlood == [a \in Areas \union {0} |-> 0]
MlInit ==
  /\ mapName = NoMap /\ lumps = [l \in ToSet(LumpOrder) |-> NoMap] /\ entityString = NoMap /\ lastChecksum = NoMap
  /\ override \in {o \in [MapNames -> UNION {Overrides[n] : n \in MapNames}] : \A n \in MapNames : o[n] \in Overrides[n]}
  /\ flushmap \in BOOLEAN /\ level = NoMap /\ kept = [n \in MapNames |-> NoMap] /\ doors = {} /\ loads = 0
  /\ portalopen = {} /\ flood = NoFlood

-----------------------------------------------------------------------------
(* CMod_Load...: whether a lump is taken *)
LoadSurfaces(f)    == f.surfaces \in 1..MaxItems
LoadLeafs(f)       == f.leafs \in 1..MaxItems /\ f.solidleaf /\ f.emptyleaf
LoadLeafBrushes(f) == f.leafbrushes \in 1..(MaxItems - 1)
LoadPlanes(f)      == f.planes \in 1..MaxItems /\ f.planetypes
LoadBrushes(f)     == f.brushes <= MaxItems
LoadBrushSides(f)  == f.brushsides <= MaxItems /\ f.texinfo < f.surfaces
LoadSubmodels(f)   == f.models \in 1..(MaxItems - 1)
LoadNodes(f)       == f.nodes \in 1..MaxItems
LoadAreas(f)       == f.areas <= MaxItems
LoadAreaPortals(f) == f.areaportals <= MaxItems
LoadVisibility(f)  == f.visibility <= MaxItems
LoadEntityString(f) == f.entities <= MaxItems
(* CM_InitBoxHull: there must be room for the box. *)
BoxFits(f) == f.nodes + 6 <= MaxItems /\ f.brushes + 1 <= MaxItems /\ f.brushsides + 6 <= MaxItems /\ f.planes + 12 <= MaxItems

Taken(f) == <<LoadSurfaces(f), LoadLeafs(f), LoadLeafBrushes(f), LoadPlanes(f), LoadBrushes(f), LoadBrushSides(f),
              LoadSubmodels(f), LoadNodes(f), LoadAreas(f), LoadAreaPortals(f), LoadVisibility(f), LoadEntityString(f)>>
Refused(f) == {i \in 1..12 : ~Taken(f)[i]}
(* How many lumps are loaded before one is refused, and whether all is well then. *)
LoadedLumps(f) == IF Refused(f) = {} THEN 12 ELSE (CHOOSE i \in Refused(f) : \A j \in Refused(f) : i <= j) - 1

(* CM_LoadMap, for the server *)
StillLoaded(name) ==
  /\ mapName = name /\ ~flushmap
  /\ portalopen' = {} /\ flood' = FloodAreaConnections(name, {})
  /\ UNCHANGED <<mapName, lumps, entityString, lastChecksum>>
Forget == NoMap          \* nothing is loaded until all is
LoadLumps(f, source, ents) ==
  LET k == LoadedLumps(f)
      done == k = 12 /\ BoxFits(f)
      own == ents = NoMap
  IN /\ lumps' = [l \in DOMAIN lumps |-> IF (\E i \in 1..k : LumpOrder[i] = l) /\ (own \/ l # "entities") THEN f.id ELSE lumps[l]]
     /\ entityString' = IF ~own THEN ents ELSE IF k = 12 THEN f.id ELSE NoMap
     /\ lastChecksum' = f.id
     /\ mapName' = IF done THEN source ELSE Forget
     /\ IF done THEN portalopen' = {} /\ flood' = FloodAreaConnections(source, {}) ELSE UNCHANGED <<portalopen, flood>>
LoadMap(name) ==
  \/ StillLoaded(name)
  \/ /\ ~(mapName = name /\ ~flushmap)
     /\ LET source == IF override[name] = NoFile THEN name ELSE override[name].source
            ents   == IF override[name] = NoFile THEN NoMap ELSE override[name].ents
        IN IF BspFile[source] = NoFile
           THEN /\ mapName' = Forget /\ entityString' = ents
                /\ UNCHANGED <<lumps, lastChecksum, portalopen, flood>>
           ELSE LoadLumps(BspFile[source], source, ents)

(* SV_SpawnServer: an error in the load ends in no level; SV_CheckForSavegame, SV_ReadLevelFile
   and CM_ReadPortalState for a level that was left. *)
ReadPortalState(m, open) == portalopen' = open /\ flood' = FloodAreaConnections(m, open)
StartLevel(name) ==
  /\ loads < MaxLoads /\ loads' = loads + 1
  /\ LoadMap(name)
  /\ level' = IF mapName' # NoMap THEN name ELSE NoMap
  /\ doors' = {} /\ kept' = IF level = NoMap THEN kept ELSE [kept EXCEPT ![level] = portalopen]
  /\ UNCHANGED <<override, flushmap>>
ReadLevelFile ==
  /\ level # NoMap /\ kept[level] # NoMap /\ kept' = [kept EXCEPT ![level] = NoMap]
  /\ ReadPortalState(mapName, kept[level]) /\ doors' = kept[level]
  /\ UNCHANGED <<mapName, lumps, entityString, lastChecksum, override, flushmap, level, loads>>
Door ==
  /\ level # NoMap /\ \E n \in Nums, open \in BOOLEAN :
       /\ n \in {p.num : p \in ToSet(Portals[mapName])}
       /\ SetAreaPortalState(mapName, n, open)
       /\ doors' = IF open THEN doors \union {n} ELSE doors \ {n}
  /\ UNCHANGED <<mapName, lumps, entityString, lastChecksum, override, flushmap, level, kept, loads>>
(* The server stops, or is in a level again from the start (a new game: no level files). *)
Stops ==
  /\ level # NoMap /\ level' = NoMap /\ kept' = [n \in MapNames |-> NoMap] /\ doors' = {}
  /\ UNCHANGED <<portalopen, flood, mapName, lumps, entityString, lastChecksum, override, flushmap, loads>>
MlNext == (\E n \in MapNames : StartLevel(n)) \/ ReadLevelFile \/ Door \/ Stops
MlSpec == MlInit /\ [][MlNext]_mlVars

-----------------------------------------------------------------------------
(* A level that runs has all its tables from one file, the one that is taken for loaded,
   and tells clients the checksum of that, whatever loads failed before. *)
MapIsWhole ==
  level # NoMap => LET f == BspFile[mapName] IN
    f # NoFile /\ lastChecksum = f.id /\ \A l \in DOMAIN lumps \ {"entities"} : lumps[l] = f.id

(* Two areas are joined exactly if one can go from one to the other through doors that the
   game has open, also after the level was left and entered again or is still loaded. *)
Joined ==
  LET step(S) == S \union {p.other : p \in {q \in ToSet(Portals[mapName]) : q.num \in doors /\ q.area \in S}}
      reach[n \in 0..Cardinality(Areas), a \in Areas] == IF n = 0 THEN {a} ELSE step(reach[n - 1, a])
  IN [a \in Areas |-> reach[Cardinality(Areas), a]]
DoorsJoinAreas ==
  level # NoMap => \A a, b \in Areas : (AreasConnected(a, b) <=> b \in Joined[a]) /\ (b \in WriteAreaBits(a) <=> b \in Joined[a])

(* What is seen through doors can be heard, and never through a door that is shut. *)
DoorsBlockSight ==
  level # NoMap => \A p, q \in DOMAIN Leafs :
    /\ InPVS(p, q) => InPHS(p, q) /\ Leafs[q].area \in Joined[Leafs[p].area]
    /\ Leafs[p].cluster # -1 => Leafs[p].cluster \in FatPVS({p, q})

(* A level is played with the entities of its override file if it has one, else with those
   of its map: an override file under another name is a separate version of the map. *)
OwnEntities ==
  level # NoMap => entityString = IF override[level] = NoFile THEN BspFile[level].id ELSE override[level].ents

(* A level that runs is one map with its own entities, and its doors decide what is seen.           *)
LevelIsOneMap == MapIsWhole /\ DoorsJoinAreas /\ DoorsBlockSight /\ OwnEntities
=============================================================================
