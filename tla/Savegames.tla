----------------------------- MODULE Savegames ------------------------------
(***************************************************************************)
(* The levels of a cooperative game: leaving a level saves it in the         *)
(* directory "current" and coming back restores it; save and load copy that  *)
(* directory. What a level has come to is [game, n]: the game it belongs to   *)
(* and how often something has happened in it. In deathmatch nothing is saved. *)
(***************************************************************************)
EXTENDS Integers

CONSTANTS GameMaps, Saves,   \* the levels, the names of the saves
          NoneSaved, NoLevel, MaxGames, MaxPlays,
          Recycles,      \* BOOLEAN: a latched variable or sv_recycle can wait when "gamemap" is given
          FromDead       \* BOOLEAN: "gamemap" can be given when no game runs
ASSUME SgNames ==
  /\ "current" \notin Saves /\ NoneSaved \notin GameMaps /\ NoLevel \notin [game : Nat, n : Nat]
  /\ MaxGames \in Nat /\ MaxPlays \in Nat
VARIABLES run,           \* [state, map, game, level]: sv.state, sv.name, and what the game has in memory
          mapcmd,        \* svs.mapcmd
          current, saves,   \* directories [server, game, levels]
          left,          \* ghost: the levels left in this game, as they were
          book,          \* ghost: what was saved under a name
          games
sgVars == <<run, mapcmd, current, saves, left, book, games>>

Nothing == [m \in GameMaps |-> NoLevel]
Wiped == [server |-> NoneSaved, game |-> 0, levels |-> Nothing]
SgInit ==
  /\ run = [state |-> "dead", map |-> NoneSaved, game |-> 0, level |-> NoLevel] /\ mapcmd = NoneSaved
  /\ current = Wiped /\ saves = [d \in Saves |-> Wiped] /\ left = Nothing /\ games = 0
  /\ book = [d \in Saves |-> [map |-> NoneSaved, level |-> NoLevel, left |-> Nothing]]

(* SV_WriteLevelFile; SV_WriteServerFile with the game's own file. *)
WriteLevelFile(dir) == [dir EXCEPT !.levels[run.map] = run.level]
WriteServerFile(dir) == [dir EXCEPT !.server = mapcmd, !.game = run.game]

(* SV_SpawnServer with SV_CheckForSavegame and SV_ReadLevelFile. *)
SpawnServer(m, dir, game) ==
  run' = [state |-> "game", map |-> m, game |-> game,
          level |-> IF dir.levels[m] = NoLevel THEN [game |-> game, n |-> 0] ELSE dir.levels[m]]

(* SV_GameMap_f and SV_Map. A new game begins if none runs, or a variable waits for one. *)
MutGameMap(m, star, waits, dead) ==   \* a new unit keeps the levels of the last
  LET saved == IF ~dead THEN WriteLevelFile(current) ELSE current
      anew == dead \/ waits
      game == IF anew THEN games + 1 ELSE run.game
  IN /\ current' = saved /\ games' = IF anew THEN games + 1 ELSE games
     /\ SpawnServer(m, saved, game) /\ mapcmd' = m
     /\ left' = IF anew \/ star THEN Nothing ELSE [left EXCEPT ![run.map] = run.level]
GameMap(m, star, waits, dead) ==
  LET saved == IF star THEN Wiped ELSE IF ~dead THEN WriteLevelFile(current) ELSE current
      anew == dead \/ waits
      game == IF anew THEN games + 1 ELSE run.game
  IN /\ current' = saved /\ games' = IF anew THEN games + 1 ELSE games
     /\ SpawnServer(m, saved, game) /\ mapcmd' = m
     /\ left' = IF anew \/ star THEN Nothing ELSE [left EXCEPT ![run.map] = run.level]

GameMap_f == \E m \in GameMaps, star \in BOOLEAN, waits \in IF Recycles THEN BOOLEAN ELSE {FALSE} :
  /\ run.state = "game" \/ FromDead
  /\ games < MaxGames /\ GameMap(m, star, waits, run.state = "dead") /\ UNCHANGED <<saves, book>>

(* SV_Map_f, sv_allow_map 1: the game that runs is not saved. With a variable that waits
   this is what sv_allow_map 0 does too, and 2 is GameMap_f. *)
Map_f(m) ==
  /\ games < MaxGames /\ games' = games + 1
  /\ current' = Wiped /\ SpawnServer(m, Wiped, games + 1) /\ mapcmd' = m /\ left' = Nothing
  /\ UNCHANGED <<saves, book>>

(* SV_CopySaveGame wipes where it copies to, also if that is where it copies from. *)
CopySaveGame(src, dst, dir) == IF src = dst THEN Wiped ELSE dir

(* SV_Savegame_f and SV_SaveNewLevel *)
Save(d) ==
  /\ current' = WriteServerFile(WriteLevelFile(current))
  /\ saves' = [saves EXCEPT ![d] = CopySaveGame("current", d, current')]
Savegame_f(d) ==
  /\ run.state = "game" /\ d # "current" /\ Save(d)
  /\ book' = [book EXCEPT ![d] = [map |-> run.map, level |-> run.level, left |-> left]]
  /\ UNCHANGED <<run, mapcmd, left, games>>

(* SV_ReadServerFile, then the level of the save. *)
ReadServerFile(dir) ==
  IF dir.server = NoneSaved THEN SpawnServer(mapcmd, dir, run.game) /\ UNCHANGED mapcmd
  ELSE SpawnServer(dir.server, dir, dir.game) /\ mapcmd' = dir.server
Loadgame_f(d) ==
  LET src == IF d = "current" THEN current ELSE saves[d] IN
  /\ src.server # NoneSaved /\ (run.state = "game" \/ d # "current")
  /\ current' = CopySaveGame(d, "current", src) /\ ReadServerFile(current')
  /\ left' = IF d = "current" THEN left ELSE book[d].left
  /\ UNCHANGED <<saves, book, games>>

(* Something happens in the level; killserver, or the end of the process. *)
Play == run.state = "game" /\ run.level.n < MaxPlays /\ run' = [run EXCEPT !.level.n = @ + 1]
        /\ UNCHANGED <<mapcmd, current, saves, left, book, games>>
Shutdown == run.state = "game" /\ run' = [run EXCEPT !.state = "dead"]
            /\ UNCHANGED <<mapcmd, current, saves, left, book, games>>

SgNext ==
  \/ GameMap_f \/ Play \/ Shutdown
  \/ \E m \in GameMaps : Map_f(m)
  \/ \E d \in Saves : Savegame_f(d) \/ Loadgame_f(d)
SgSpec == SgInit /\ [][SgNext]_sgVars

-----------------------------------------------------------------------------
(* While a game runs, the directory holds the levels that were left in it, as they were
   left: what a player finds on coming back, through units, saves, loads and new games. *)
CurrentIsLeft == run.state = "game" => \A m \in GameMaps \ {run.map} : current.levels[m] = left[m]

(* A level is never that of another game. *)
OwnLevels == run.state = "game" => run.level.game = run.game

(* Loading brings back the level and the place that were saved under that name, whatever was
   played, saved and loaded since. *)
LoadBringsBack == [][\A d \in Saves : Loadgame_f(d) =>
  run'.map = book[d].map /\ run'.level = book[d].level]_sgVars

(* The levels of a game come back as they were left or saved, in that game only.                    *)
LevelsComeBack == [](CurrentIsLeft /\ OwnLevels) /\ LoadBringsBack
=============================================================================
