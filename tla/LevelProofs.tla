---------------------------- MODULE LevelProofs ----------------------------
(***************************************************************************)
(* Proofs about what a level is made of. Savegames: a load brings back what  *)
(* was saved, and the levels of a game come back as they were left; two cases *)
(* are hypotheses, as the code restores the levels of another game in them:  *)
(* "gamemap" with a variable that waits for a new game, and when none runs.  *)
(* Files: a name means one file, from the search path, the cache and in lists. *)
(* Indexes: a number stands for its name, and what players lack is listed; the *)
(* hypothesis is that names of skins have the three letters the code asks for. *)
(* Zone: the ring of blocks is whole both ways and what the game holds is listed. *)
(***************************************************************************)
EXTENDS Savegames, Files, Indexes, Zone, FiniteSetTheorems, SequenceTheorems, WellFoundedInduction, TLAPS

(* A set of natural numbers has its least element.                         *)
LEMMA MinIsLeast ==
  ASSUME NEW S \in SUBSET Nat, S # {}
  PROVE  Min(S) \in S /\ \A y \in S : Min(S) <= y
<1> DEFINE T == {0 .. y : y \in S}
<1>1. T \subseteq FiniteSubsetsOf(Nat) /\ T # {}
  <2>1. ASSUME NEW y \in S PROVE 0 .. y \in FiniteSubsetsOf(Nat)
    <3>1. y \in Nat /\ 0 \in Int /\ y \in Int
      OBVIOUS
    <3>2. IsFiniteSet(0 .. y)
      BY <3>1, FS_Interval
    <3>3. 0 .. y \subseteq Nat
      BY <3>1
    <3>4. QED
      BY <3>2, <3>3 DEF FiniteSubsetsOf
  <2>2. QED
    BY <2>1
<1>2. PICK low \in T : \A t \in T : <<t, low>> \notin StrictSubsetOrdering(Nat)
  BY <1>1, WFMin, FS_StrictSubsetOrderingWellFounded
<1>3. PICK x \in S : low = 0 .. x
  BY <1>2
<1>4. ASSUME NEW y \in S PROVE x <= y
  <2>1. <<0 .. y, 0 .. x>> \notin StrictSubsetOrdering(Nat)
    BY <1>2, <1>3
  <2>2. ~(0 .. y \subseteq 0 .. x /\ 0 .. y # 0 .. x)
    BY <2>1 DEF StrictSubsetOrdering
  <2>3. x \in Nat /\ y \in Nat
    OBVIOUS
  <2>4. SUFFICES ASSUME y < x PROVE FALSE
    BY <2>3
  <2>5. 0 .. y \subseteq 0 .. x /\ x \in 0 .. x /\ x \notin 0 .. y
    BY <2>3, <2>4
  <2>6. QED
    BY <2>2, <2>5
<1>5. QED
  BY <1>4 DEF Min

-----------------------------------------------------------------------------
(* Savegames *)
Level == [game : Nat, n : Nat]
Levels == [GameMaps -> Level \cup {NoLevel}]
Directory == [server : GameMaps \cup {NoneSaved}, game : Nat, levels : Levels]
SgTypeOK ==
  /\ run \in [state : {"game", "dead"}, map : GameMaps \cup {NoneSaved}, game : Nat, level : Level \cup {NoLevel}]
  /\ run.state = "game" => run.map \in GameMaps /\ run.level \in Level
  /\ mapcmd \in GameMaps \cup {NoneSaved}
  /\ current \in Directory /\ saves \in [Saves -> Directory] /\ left \in Levels
  /\ book \in [Saves -> [map : GameMaps \cup {NoneSaved}, level : Level \cup {NoLevel}, left : Levels]]
  /\ games \in Nat

(* The name that SV_WriteServerFile stores is that of the level that runs. *)
CommandIsMap == run.state = "game" => mapcmd = run.map
(* A save has the level it was made in. *)
SavedIsBooked == \A d \in Saves : saves[d].server # NoneSaved =>
  /\ saves[d].server = book[d].map
  /\ saves[d].levels[saves[d].server] = book[d].level /\ book[d].level \in Level
BookInv == SgTypeOK /\ CommandIsMap /\ SavedIsBooked

(* The levels of a directory are of one game, and the others of a save are those left before. *)
OfGame(dir, game) == \A m \in GameMaps : dir.levels[m] # NoLevel => dir.levels[m].game = game
CurrentIsOwn == run.state = "game" => OfGame(current, run.game)
SavedIsLeft == \A d \in Saves : saves[d].server # NoneSaved =>
  /\ OfGame(saves[d], saves[d].game)
  /\ \A m \in GameMaps \ {book[d].map} : saves[d].levels[m] = book[d].left[m]
LeftInv == CurrentIsOwn /\ SavedIsLeft /\ CurrentIsLeft /\ OwnLevels

-----------------------------------------------------------------------------
(* At the start nothing is left or saved. *)
LEMMA StartsEmpty == SgInit => BookInv /\ LeftInv
BY SgNames DEF SgInit, BookInv, LeftInv, SgTypeOK, Level, Levels, Wiped, Nothing, Directory, CommandIsMap,
   CurrentIsOwn, SavedIsBooked, SavedIsLeft, CurrentIsLeft, OwnLevels, OfGame

(* SV_WriteLevelFile puts the level among those that were left. *)
LEMMA LevelWritten ==
  ASSUME BookInv, run.state = "game"
  PROVE  /\ WriteLevelFile(current) \in Directory
         /\ WriteLevelFile(current).levels[run.map] = run.level
         /\ \A m \in GameMaps \ {run.map} : WriteLevelFile(current).levels[m] = current.levels[m]
         /\ LeftInv => /\ OfGame(WriteLevelFile(current), run.game)
                       /\ \A m \in GameMaps \ {run.map} : WriteLevelFile(current).levels[m] = left[m]
BY DEF BookInv, LeftInv, SgTypeOK, Level, Levels, Directory, OfGame, CurrentIsOwn, CurrentIsLeft, OwnLevels,
       WriteLevelFile

(* SV_SpawnServer restores the level of its name, if the directory has one. *)
LEMMA SpawnReads ==
  ASSUME NEW m \in GameMaps, NEW dir \in Directory, NEW game \in Nat, SpawnServer(m, dir, game)
  PROVE  /\ run' \in [state : {"game"}, map : GameMaps, game : Nat, level : Level]
         /\ run'.state = "game" /\ run'.map = m /\ run'.game = game
         /\ dir.levels[m] # NoLevel => run'.level = dir.levels[m]
         /\ OfGame(dir, game) => run'.level.game = game
BY DEF SpawnServer, Directory, OfGame, Level, Levels

-----------------------------------------------------------------------------
(* "gamemap" keeps the level that is left, or begins with nothing. *)
LEMMA GameMapKeeps ==
  ASSUME BookInv, GameMap_f
  PROVE  BookInv' /\ (~Recycles /\ ~FromDead /\ LeftInv => LeftInv')
<1>1. PICK m \in GameMaps, star \in BOOLEAN, waits \in IF Recycles THEN BOOLEAN ELSE {FALSE} :
        GameMap(m, star, waits, run.state = "dead")
  BY DEF GameMap_f
<1>2. (run.state = "game" \/ FromDead) /\ UNCHANGED <<saves, book>> /\ run.state \in {"game", "dead"}
  BY DEF GameMap_f, BookInv, SgTypeOK
<1> DEFINE dead == run.state = "dead"
           dir == IF star THEN Wiped ELSE IF ~dead THEN WriteLevelFile(current) ELSE current
           game == IF dead \/ waits THEN games + 1 ELSE run.game
<1>3. /\ current' = dir /\ SpawnServer(m, dir, game) /\ mapcmd' = m
      /\ games' = IF dead \/ waits THEN games + 1 ELSE games
      /\ left' = IF dead \/ waits \/ star THEN Nothing ELSE [left EXCEPT ![run.map] = run.level]
  BY <1>1 DEF GameMap
<1>4. dir \in Directory /\ game \in Nat /\ games' \in Nat
  BY <1>2, <1>3, LevelWritten DEF Wiped, Nothing, Directory, Levels, BookInv, SgTypeOK
<1>5. left' \in Levels
  BY <1>2, <1>3 DEF BookInv, SgTypeOK, Levels, Nothing
<1>6. ASSUME ~Recycles, ~FromDead, LeftInv
      PROVE  OfGame(dir, game) /\ \A l \in GameMaps : dir.levels[l] = left'[l]
  <2>1. ~dead /\ ~waits
    BY <1>2, <1>6
  <2>2. run.map \in GameMaps
    BY <1>2, <2>1 DEF BookInv, SgTypeOK
  <2>3. QED
    BY <1>2, <1>3, <1>6, <2>1, <2>2, LevelWritten DEF Wiped, Nothing, OfGame, BookInv, SgTypeOK, Levels
<1> HIDE DEF dir, game
<1>7. /\ run' \in [state : {"game"}, map : GameMaps, game : Nat, level : Level]
      /\ run'.map = m /\ run'.game = game /\ (OfGame(dir, game) => run'.level.game = game)
  BY <1>3, <1>4, SpawnReads
<1>8. SgTypeOK' /\ CommandIsMap'
  BY <1>2, <1>3, <1>4, <1>5, <1>7 DEF BookInv, SgTypeOK, CommandIsMap
<1>9. SavedIsBooked' /\ (SavedIsLeft => SavedIsLeft')
  BY <1>2 DEF BookInv, SavedIsBooked, SavedIsLeft, OfGame
<1>10. ~Recycles /\ ~FromDead /\ LeftInv => CurrentIsOwn' /\ CurrentIsLeft' /\ OwnLevels'
  BY <1>3, <1>6, <1>7 DEF CurrentIsOwn, CurrentIsLeft, OwnLevels, OfGame
<1>11. QED
  BY <1>8, <1>9, <1>10 DEF BookInv, LeftInv

(* "map" begins another game, with an empty directory. *)
LEMMA MapKeeps ==
  ASSUME BookInv, NEW m \in GameMaps, Map_f(m)
  PROVE  BookInv' /\ (LeftInv => LeftInv')
<1>1. /\ current' = Wiped /\ games' = games + 1 /\ SpawnServer(m, Wiped, games + 1) /\ mapcmd' = m
      /\ left' = Nothing /\ UNCHANGED <<saves, book>>
  BY DEF Map_f
<1>2. Wiped \in Directory /\ games + 1 \in Nat /\ OfGame(Wiped, games + 1)
  BY DEF Wiped, Nothing, Directory, Levels, OfGame, BookInv, SgTypeOK
<1>3. /\ run' \in [state : {"game"}, map : GameMaps, game : Nat, level : Level]
      /\ run'.map = m /\ run'.game = games + 1 /\ run'.level.game = games + 1
  BY <1>1, <1>2, SpawnReads
<1>4. SgTypeOK' /\ CommandIsMap'
  BY <1>1, <1>2, <1>3 DEF BookInv, SgTypeOK, CommandIsMap, Nothing, Levels
<1>5. SavedIsBooked' /\ (SavedIsLeft => SavedIsLeft')
  BY <1>1 DEF BookInv, SavedIsBooked, SavedIsLeft, OfGame
<1>6. CurrentIsOwn' /\ CurrentIsLeft' /\ OwnLevels'
  BY <1>1, <1>2, <1>3 DEF CurrentIsOwn, CurrentIsLeft, OwnLevels, OfGame, Wiped
<1>7. QED
  BY <1>4, <1>5, <1>6 DEF BookInv, LeftInv

(* A save is a copy of the directory, with the level of the moment. *)
LEMMA SaveKeeps ==
  ASSUME BookInv, NEW d \in Saves, Savegame_f(d)
  PROVE  BookInv' /\ (LeftInv => LeftInv')
<1> DEFINE dir == WriteServerFile(WriteLevelFile(current))
<1>1. /\ run.state = "game" /\ current' = dir /\ saves' = [saves EXCEPT ![d] = dir]
      /\ book' = [book EXCEPT ![d] = [map |-> run.map, level |-> run.level, left |-> left]]
      /\ UNCHANGED <<run, mapcmd, left, games>>
  BY SgNames DEF Savegame_f, Save, CopySaveGame
<1>2. mapcmd = run.map /\ run.map \in GameMaps /\ run.level \in Level /\ run.game \in Nat
  BY <1>1 DEF BookInv, SgTypeOK, CommandIsMap
<1>3. /\ dir \in Directory /\ dir.server = run.map /\ dir.game = run.game /\ dir.levels[run.map] = run.level
      /\ LeftInv => OfGame(dir, run.game) /\ \A m \in GameMaps \ {run.map} : dir.levels[m] = left[m]
  BY <1>1, <1>2, LevelWritten DEF WriteServerFile, Directory, OfGame
<1> HIDE DEF dir
<1>4. SgTypeOK' /\ CommandIsMap'
  BY <1>1, <1>2, <1>3 DEF BookInv, SgTypeOK, CommandIsMap
<1>5. /\ saves'[d] = dir /\ book'[d] = [map |-> run.map, level |-> run.level, left |-> left]
      /\ \A e \in Saves \ {d} : saves'[e] = saves[e] /\ book'[e] = book[e]
  BY <1>1 DEF BookInv, SgTypeOK
<1>6. SavedIsBooked'
  BY <1>2, <1>3, <1>5 DEF BookInv, SavedIsBooked
<1>7. LeftInv => SavedIsLeft'
  <2> SUFFICES ASSUME LeftInv, NEW e \in Saves, saves'[e].server # NoneSaved
               PROVE  /\ OfGame(saves'[e], saves'[e].game)
                      /\ \A m \in GameMaps \ {book'[e].map} : saves'[e].levels[m] = book'[e].left[m]
    BY DEF SavedIsLeft, OfGame
  <2>1. CASE e = d
    BY <1>3, <1>5, <2>1
  <2>2. CASE e # d
    BY <1>5, <2>2 DEF LeftInv, SavedIsLeft
  <2>3. QED
    BY <2>1, <2>2
<1>8. LeftInv => CurrentIsOwn' /\ CurrentIsLeft' /\ OwnLevels'
  BY <1>1, <1>3 DEF LeftInv, CurrentIsOwn, CurrentIsLeft, OwnLevels, OfGame
<1>9. QED
  BY <1>4, <1>6, <1>7, <1>8 DEF BookInv, LeftInv

(* Loading brings back what was saved. *)
LEMMA LoadReads ==
  ASSUME BookInv, NEW d \in Saves, Loadgame_f(d)
  PROVE  /\ BookInv' /\ (LeftInv => LeftInv')
         /\ run'.map = book[d].map /\ run'.level = book[d].level
<1> DEFINE dir == saves[d]
<1>1. /\ dir.server # NoneSaved /\ current' = dir /\ left' = book[d].left /\ UNCHANGED <<saves, book, games>>
      /\ SpawnServer(dir.server, dir, dir.game) /\ mapcmd' = dir.server
  BY SgNames DEF Loadgame_f, CopySaveGame, ReadServerFile
<1>2. /\ dir \in Directory /\ dir.server \in GameMaps /\ dir.game \in Nat /\ book[d].level \in Level
      /\ book[d].left \in Levels /\ dir.server = book[d].map /\ dir.levels[dir.server] = book[d].level
      /\ LeftInv => /\ OfGame(dir, dir.game)
                    /\ \A m \in GameMaps \ {book[d].map} : dir.levels[m] = book[d].left[m]
  BY <1>1 DEF BookInv, LeftInv, SgTypeOK, SavedIsBooked, SavedIsLeft, Directory
<1> HIDE DEF dir
<1>3. /\ run' \in [state : {"game"}, map : GameMaps, game : Nat, level : Level]
      /\ run'.map = dir.server /\ run'.game = dir.game /\ run'.level = book[d].level
      /\ OfGame(dir, dir.game) => run'.level.game = dir.game
  BY <1>1, <1>2, SpawnReads, SgNames DEF Level
<1>4. SgTypeOK' /\ CommandIsMap'
  BY <1>1, <1>2, <1>3 DEF BookInv, SgTypeOK, CommandIsMap
<1>5. SavedIsBooked' /\ (SavedIsLeft => SavedIsLeft')
  BY <1>1 DEF BookInv, SavedIsBooked, SavedIsLeft, OfGame
<1>6. LeftInv => CurrentIsOwn' /\ CurrentIsLeft' /\ OwnLevels'
  BY <1>1, <1>2, <1>3 DEF CurrentIsOwn, CurrentIsLeft, OwnLevels, OfGame
<1>7. QED
  BY <1>2, <1>3, <1>4, <1>5, <1>6 DEF BookInv, LeftInv

(* Playing and the end of the process touch no file. *)
LEMMA PlayKeeps ==
  ASSUME BookInv, Play \/ Shutdown
  PROVE  BookInv' /\ (LeftInv => LeftInv')
<1>1. /\ run.state = "game" /\ UNCHANGED <<mapcmd, current, saves, left, book, games>>
      /\ run' = [run EXCEPT !.level.n = @ + 1] \/ run' = [run EXCEPT !.state = "dead"]
  BY DEF Play, Shutdown
<1>2. run \in [state : {"game", "dead"}, map : GameMaps, game : Nat, level : Level]
  BY <1>1 DEF BookInv, SgTypeOK
<1>3. /\ run' \in [state : {"game", "dead"}, map : GameMaps, game : Nat, level : Level]
      /\ run'.map = run.map /\ run'.game = run.game /\ run'.level.game = run.level.game
  BY <1>1, <1>2 DEF Level
<1>4. SgTypeOK' /\ CommandIsMap' /\ SavedIsBooked'
  BY <1>1, <1>3 DEF BookInv, SgTypeOK, CommandIsMap, SavedIsBooked
<1>5. LeftInv => CurrentIsOwn' /\ CurrentIsLeft' /\ OwnLevels' /\ SavedIsLeft'
  BY <1>1, <1>3 DEF LeftInv, CurrentIsOwn, CurrentIsLeft, OwnLevels, SavedIsLeft, OfGame
<1>6. QED
  BY <1>4, <1>5 DEF BookInv, LeftInv

LEMMA SgStep ==
  BookInv /\ [SgNext]_sgVars => BookInv' /\ (~Recycles /\ ~FromDead /\ LeftInv => LeftInv')
<1> SUFFICES ASSUME BookInv, [SgNext]_sgVars
             PROVE  BookInv' /\ (~Recycles /\ ~FromDead /\ LeftInv => LeftInv')
  OBVIOUS
<1>1. CASE GameMap_f
  BY <1>1, GameMapKeeps
<1>2. CASE Play \/ Shutdown
  BY <1>2, PlayKeeps
<1>3. CASE \E m \in GameMaps : Map_f(m)
  BY <1>3, MapKeeps
<1>4. CASE \E d \in Saves : Savegame_f(d)
  BY <1>4, SaveKeeps
<1>5. CASE \E d \in Saves : Loadgame_f(d)
  BY <1>5, LoadReads
<1>6. CASE UNCHANGED sgVars
  BY <1>6 DEF sgVars, BookInv, LeftInv, SgTypeOK, CommandIsMap, CurrentIsOwn, SavedIsBooked, SavedIsLeft,
              CurrentIsLeft, OwnLevels, OfGame
<1>7. QED
  BY <1>1, <1>2, <1>3, <1>4, <1>5, <1>6 DEF SgNext

-----------------------------------------------------------------------------
(* What is on the disk under the name of a save is what was saved, in every state (SV_CopySaveGame). *)
THEOREM SavesAreBooked == SgSpec => []BookInv
BY StartsEmpty, SgStep, PTL DEF SgSpec

(* Loading a game brings back the level and the place that were saved under its name, however games,
   units and levels follow each other (SV_Savegame_f, SV_Loadgame_f). *)
THEOREM LoadReturns == SgSpec => LoadBringsBack
<1>1. BookInv /\ [SgNext]_sgVars => [\A d \in Saves : Loadgame_f(d) =>
                                       run'.map = book[d].map /\ run'.level = book[d].level]_sgVars
  BY LoadReads
<1>2. QED
  BY <1>1, SavesAreBooked, PTL DEF SgSpec, LoadBringsBack

(* The levels of a game come back as they were left or saved, in that game only, unless "gamemap" begins
   a new game (SV_GameMap_f, SV_Savegame_f, SV_Loadgame_f). *)
THEOREM LevelsReturn ==
  ASSUME ~Recycles, ~FromDead
  PROVE  SgSpec => LevelsComeBack
<1>1. BookInv /\ LeftInv /\ [SgNext]_sgVars => LeftInv'
  BY SgStep
<1>2. LeftInv => CurrentIsLeft /\ OwnLevels
  BY DEF LeftInv
<1>3. QED
  BY <1>1, <1>2, StartsEmpty, SavesAreBooked, LoadReturns, PTL DEF SgSpec, LevelsComeBack

-----------------------------------------------------------------------------
(* Files *)
(* A finite set of numbers can be listed from the greatest to the least. *)
IsDescending(s, S) == s \in [1 .. Cardinality(S) -> S] /\ ToSet(s) = S /\ \A i, j \in DOMAIN s : i < j => s[i] > s[j]

LEMMA DescendingExists == \A S \in SUBSET Nat : IsFiniteSet(S) => \E s : IsDescending(s, S)
<1> DEFINE Bad == {c \in Nat : \E S \in SUBSET Nat : IsFiniteSet(S) /\ Cardinality(S) = c /\ ~\E s : IsDescending(s, S)}
<1>1. SUFFICES ASSUME Bad # {} PROVE FALSE
  BY FS_CardinalityType
<1>2. Bad \in SUBSET Nat
  OBVIOUS
<1>3. Min(Bad) \in Bad /\ \A c \in Bad : Min(Bad) <= c
  <2> HIDE DEF Bad
  <2>1. QED
    BY <1>1, <1>2, MinIsLeast
<1>4. PICK S \in SUBSET Nat : IsFiniteSet(S) /\ Cardinality(S) = Min(Bad) /\ ~\E s : IsDescending(s, S)
  BY <1>3
<1>5. CASE S = {}
  <2>1. Cardinality(S) = 0
    BY <1>5, FS_EmptySet
  <2>2. IsDescending(<<>>, S)
    BY <1>5, <2>1 DEF IsDescending, ToSet
  <2>3. QED
    BY <1>4, <2>2
<1>6. CASE S # {}
  <2> DEFINE m == Min(S)
             U == S \ {m}
             n == Cardinality(S)
  <2>1. m \in S /\ \A x \in S : m <= x
    BY <1>6, MinIsLeast
  <2>2. IsFiniteSet(U) /\ Cardinality(U) = n - 1 /\ n \in Nat /\ Cardinality(U) \in Nat
    BY <1>4, <2>1, FS_RemoveElement, FS_CardinalityType
  <2>3. U \in SUBSET Nat /\ (\A x \in U : x > m) /\ m \in Nat
    <3>1. m \in Nat /\ U \in SUBSET Nat
      BY <1>4, <2>1
    <3>2. ASSUME NEW x \in U PROVE x > m
      <4> HIDE DEF m
      <4>1. x \in Nat /\ x \in S /\ x # m
        BY <3>1
      <4>2. QED
        BY <2>1, <3>1, <4>1
    <3>3. QED
      BY <3>1, <3>2
  <2>4. PICK s : IsDescending(s, U)
    <3> HIDE DEF U, m, n, Bad
    <3>1. n - 1 \in Nat /\ n - 1 < Min(Bad)
      BY <1>4, <2>2 DEF n
    <3>2. Min(Bad) \in Nat
      BY <1>4, FS_CardinalityType
    <3>3. n - 1 \notin Bad
      BY <1>3, <3>1, <3>2
    <3>4. QED
      BY <2>2, <2>3, <3>1, <3>3 DEF Bad
  <2> DEFINE t == [i \in 1 .. n |-> IF i = n THEN m ELSE s[i]]
  <2>5. S = U \cup {m}
    BY <2>1
  <2> HIDE DEF U, m, n
  <2>6. DOMAIN s = 1 .. (n - 1) /\ (\A i \in 1 .. (n - 1) : s[i] \in U) /\ (\A x \in U : \E i \in 1 .. (n - 1) : s[i] = x)
    BY <2>2, <2>4 DEF IsDescending, ToSet
  <2>7. t \in [1 .. n -> S]
    BY <2>2, <2>5, <2>6
  <2>8. ToSet(t) = S
    BY <2>2, <2>5, <2>6 DEF ToSet
  <2>9. ASSUME NEW i \in DOMAIN t, NEW j \in DOMAIN t, i < j PROVE t[i] > t[j]
    <3>1. i \in 1 .. (n - 1) /\ j \in 1 .. n /\ t[i] = s[i] /\ (IF j = n THEN t[j] = m ELSE t[j] = s[j] /\ j \in 1 .. (n - 1))
      BY <2>2, <2>9
    <3>2. \A k, l \in 1 .. (n - 1) : k < l => s[k] > s[l]
      BY <2>4, <2>6 DEF IsDescending
    <3>3. QED
      BY <2>3, <2>6, <2>9, <3>1, <3>2
  <2>10. IsDescending(t, S)
    BY <2>7, <2>8, <2>9 DEF IsDescending, n
  <2>11. QED
    BY <1>4, <2>10
<1>7. QED
  BY <1>5, <1>6

LEMMA DescendingIs ==
  ASSUME NEW S \in SUBSET Nat, IsFiniteSet(S) PROVE IsDescending(Descending(S), S)
<1>1. \E s : IsDescending(s, S)
  BY DescendingExists
<1>2. QED
  BY <1>1 DEF IsDescending, Descending

(* The paks that are loaded are those there are, the one with the greatest number in front. *)
LEMMA PaksAre ==
  ASSUME NEW d \in Dirs
  PROVE  /\ LoadPaks(d) \in Seq(Nat) /\ ToSet(LoadPaks(d)) = PakNumbers(d)
         /\ \A i, j \in DOMAIN LoadPaks(d) : i < j => LoadPaks(d)[i] > LoadPaks(d)[j]
<1>1. PakNumbers(d) \in SUBSET Nat
  BY FsAssumption DEF PakNumbers, Dirs
<1>2. IsFiniteSet(PakNumbers(d))
  <2> DEFINE f == [p \in PakList(d) |-> p.num]
             R == {f[p] : p \in PakList(d)}
  <2>1. IsFiniteSet(PakList(d))
    BY FsAssumption DEF Dirs
  <2>2. f \in Surjection(PakList(d), R)
    BY DEF Surjection
  <2>3. IsFiniteSet(R)
    BY <2>1, <2>2, FS_Surjection
  <2>4. PakNumbers(d) \subseteq R
    BY DEF PakNumbers
  <2>5. QED
    BY <2>3, <2>4, FS_Subset
<1>3. IsDescending(LoadPaks(d), PakNumbers(d)) /\ Cardinality(PakNumbers(d)) \in Nat
  BY <1>1, <1>2, DescendingIs, FS_CardinalityType DEF LoadPaks
<1>4. QED
  BY <1>1, <1>3 DEF IsDescending

(* What a search path looks like while the directory g is set. *)
Entry == [dir : Dirs, pak : Nat \cup {Dir}]
InOrder(path, g) == \A i, j \in DOMAIN path : i < j =>
  IF path[i].dir = path[j].dir THEN path[i].pak > path[j].pak ELSE path[i].dir = g
Lists(path, d, n) == \E i \in DOMAIN path : path[i] = [dir |-> d, pak |-> n]
PathOK(path, g) ==
  /\ path \in Seq(Entry) /\ \A i \in DOMAIN path : path[i].dir \in {g, Base}
  /\ InOrder(path, g)
  /\ \A d \in {g, Base} : Lists(path, d, Dir) /\ \A n \in PakNumbers(d) : Lists(path, d, n)

(* FS_AddGameDirectory puts the paks of a directory in front of it, and both before the base. *)
LEMMA DirectoryAdded ==
  ASSUME NEW d \in Dirs, NEW path, (d = Base /\ path = <<>>) \/ (d # Base /\ PathOK(path, Base))
  PROVE  PathOK(AddGameDirectory(d, path), d)
<1> DEFINE paks == LoadPaks(d)
           k == Len(paks)
           front == [i \in 1 .. k |-> [dir |-> d, pak |-> paks[i]]]
           all == AddGameDirectory(d, path)
<1>1. /\ paks \in Seq(Nat) /\ ToSet(paks) = PakNumbers(d)
      /\ \A i, j \in DOMAIN paks : i < j => paks[i] > paks[j]
  BY PaksAre
<1>2. all = front \o <<[dir |-> d, pak |-> Dir]>> \o path
  BY DEF AddGameDirectory
<1> HIDE DEF paks, all
<1>3. path \in Seq(Entry)
  <2>1. <<>> \in Seq(Entry)
    OBVIOUS
  <2>2. QED
    BY <2>1 DEF PathOK
<1>4. k \in Nat /\ DOMAIN paks = 1 .. k /\ \A i \in 1 .. k : paks[i] \in Nat
  BY <1>1
<1>5. front \in Seq(Entry) /\ Len(front) = k
  BY <1>4 DEF Entry
<1> HIDE DEF k
<1>6. [dir |-> d, pak |-> Dir] \in Entry
  BY DEF Entry
<1> HIDE DEF front
<1> DEFINE mid == front \o <<[dir |-> d, pak |-> Dir]>>
<1>7. mid \in Seq(Entry) /\ Len(mid) = k + 1
  BY <1>4, <1>5, <1>6
<1>8. (\A i \in 1 .. k : mid[i] = front[i]) /\ mid[k + 1] = [dir |-> d, pak |-> Dir]
  BY <1>4, <1>5, <1>6
<1>9. all = mid \o path
  BY <1>2
<1> HIDE DEF mid
<1>10. all \in Seq(Entry) /\ Len(all) = k + 1 + Len(path) /\ DOMAIN all = 1 .. Len(all)
  <2>1. all \in Seq(Entry) /\ Len(all) = Len(mid) + Len(path)
    BY <1>3, <1>7, <1>9, ConcatProperties
  <2>2. QED
    BY <1>7, <2>1
<1>11. (\A i \in 1 .. (k + 1) : all[i] = mid[i]) /\ \A i \in DOMAIN path : all[k + 1 + i] = path[i] /\ k + 1 + i \in DOMAIN all
  <2>1. ASSUME NEW i \in 1 .. (k + 1) PROVE all[i] = mid[i]
    BY <1>3, <1>4, <1>7, <1>9
  <2>2. ASSUME NEW i \in DOMAIN path PROVE all[k + 1 + i] = path[i] /\ k + 1 + i \in DOMAIN all
    <3>1. i \in 1 .. Len(path) /\ Len(path) \in Nat
      BY <1>3
    <3>2. QED
      BY <1>3, <1>4, <1>7, <1>9, <1>10, <3>1
  <2>3. QED
    BY <2>1, <2>2
<1>12. ASSUME NEW i \in 1 .. k PROVE all[i] = [dir |-> d, pak |-> paks[i]] /\ all[i].dir = d /\ all[i].pak = paks[i]
  BY <1>4, <1>8, <1>11, <1>12 DEF front
<1>13. all[k + 1] = [dir |-> d, pak |-> Dir] /\ all[k + 1].dir = d /\ all[k + 1].pak = Dir
  BY <1>4, <1>8, <1>11
<1>14. \A i \in DOMAIN all : i \in 1 .. k \/ i = k + 1 \/ (i - k - 1 \in DOMAIN path /\ all[i] = path[i - k - 1] /\ i > k + 1)
  BY <1>3, <1>4, <1>10, <1>11
<1>15. DOMAIN all = 1 .. Len(all) /\ k + 1 \in DOMAIN all /\ 1 .. k \subseteq DOMAIN all
  BY <1>3, <1>4, <1>10
<1>16. \A i \in DOMAIN path : path[i].dir = Base /\ path[i].dir # d
  BY DEF PathOK
<1>17. \A i \in DOMAIN all : all[i].dir \in {d, Base}
  BY <1>14, <1>16, <1>12, <1>13
<1>18. InOrder(all, d)
  <2> SUFFICES ASSUME NEW i \in DOMAIN all, NEW j \in DOMAIN all, i < j
               PROVE  IF all[i].dir = all[j].dir THEN all[i].pak > all[j].pak ELSE all[i].dir = d
    BY DEF InOrder
  <2>1. i \in Nat /\ j \in Nat
    BY <1>10
  <2>2. CASE i \in 1 .. k
    <3>1. all[i].dir = d /\ all[i].pak = paks[i] /\ paks[i] \in Nat
      BY <1>4, <1>12, <2>2
    <3>2. CASE j \in 1 .. k
      BY <1>1, <1>4, <1>12, <2>2, <3>1, <3>2
    <3>3. CASE j = k + 1
      BY <1>13, <3>1, <3>3 DEF Dir
    <3>4. CASE j - k - 1 \in DOMAIN path /\ all[j] = path[j - k - 1]
      BY <1>16, <3>1, <3>4
    <3>5. QED
      BY <1>14, <3>2, <3>3, <3>4
  <2>3. CASE i = k + 1
    <3>1. j - k - 1 \in DOMAIN path /\ all[j] = path[j - k - 1]
      BY <1>4, <1>14, <2>1, <2>3
    <3>2. QED
      BY <1>16, <1>13, <2>3, <3>1
  <2>4. CASE i > k + 1
    <3>1. /\ i - k - 1 \in DOMAIN path /\ all[i] = path[i - k - 1]
          /\ j - k - 1 \in DOMAIN path /\ all[j] = path[j - k - 1] /\ i - k - 1 < j - k - 1
      BY <1>4, <1>14, <2>1, <2>4
    <3>2. InOrder(path, Base)
      BY <3>1 DEF PathOK
    <3>3. QED
      BY <1>16, <3>1, <3>2 DEF InOrder
  <2>5. QED
    BY <1>4, <1>14, <2>1, <2>2, <2>3, <2>4
<1>19. ASSUME NEW e \in {d, Base}
       PROVE  Lists(all, e, Dir) /\ \A n \in PakNumbers(e) : Lists(all, e, n)
  <2>1. CASE e = d
    <3>1. Lists(all, e, Dir)
      BY <1>15, <1>13, <2>1 DEF Lists
    <3>2. ASSUME NEW n \in PakNumbers(e) PROVE Lists(all, e, n)
      <4>1. PICK i \in 1 .. k : paks[i] = n
        BY <1>1, <1>4, <2>1 DEF ToSet
      <4>2. QED
        BY <1>15, <1>12, <2>1, <4>1 DEF Lists
    <3>3. QED
      BY <3>1, <3>2
  <2>2. CASE e # d
    <3>1. e = Base /\ PathOK(path, Base)
      BY <2>2
    <3>2. \A n : Lists(path, Base, n) => Lists(all, Base, n)
      BY <1>11 DEF Lists
    <3>3. QED
      BY <3>1, <3>2 DEF PathOK
  <2>3. QED
    BY <2>1, <2>2
<1>20. PathOK(all, d)
  BY <1>17, <1>18, <1>19, <1>10 DEF PathOK
<1>21. QED
  BY <1>20 DEF all

(* Without the directory that is set, the path is that of the base. *)
LEMMA BaseIsLast ==
  ASSUME NEW g \in Dirs, PathOK(searchpaths, g)
  PROVE  PathOK(BasePath, Base)
<1> DEFINE S == {i \in DOMAIN searchpaths : searchpaths[i].dir = Base}
           b == Min(S)
           n == Len(searchpaths)
<1>1. searchpaths \in Seq(Entry) /\ n \in Nat /\ DOMAIN searchpaths = 1 .. n
  BY DEF PathOK
<1>2. S \in SUBSET Nat /\ S # {}
  BY <1>1 DEF PathOK, Lists
<1>3. b \in S /\ \A i \in S : b <= i
  <2> HIDE DEF S
  <2>1. QED
    BY <1>2, MinIsLeast
<1>4. BasePath = SubSeq(searchpaths, b, n)
  BY DEF BasePath
<1> HIDE DEF b
<1>5. b \in 1 .. n /\ searchpaths[b].dir = Base
  BY <1>1, <1>3
<1>6. ASSUME NEW i \in b .. n PROVE searchpaths[i].dir = Base
  <2>1. CASE i = b
    BY <1>5, <2>1
  <2>2. CASE b < i
    <3>1. i \in DOMAIN searchpaths /\ b \in DOMAIN searchpaths
      BY <1>1, <1>5
    <3>2. searchpaths[i].dir = searchpaths[b].dir \/ searchpaths[b].dir = g
      BY <2>2, <3>1 DEF PathOK, InOrder
    <3>3. searchpaths[i].dir \in {g, Base}
      BY <3>1 DEF PathOK
    <3>4. QED
      BY <1>5, <3>2, <3>3
  <2>3. QED
    BY <1>5, <2>1, <2>2
<1> HIDE DEF n
<1> DEFINE p == SubSeq(searchpaths, b, n)
           m == n - b + 1
<1>7. p \in Seq(Entry) /\ Len(p) = m /\ m \in Nat
  BY <1>1, <1>5
<1>8. /\ DOMAIN p = 1 .. m
      /\ \A i \in 1 .. m : p[i] = searchpaths[b + i - 1] /\ b + i - 1 \in b .. n /\ b + i - 1 \in DOMAIN searchpaths
  BY <1>1, <1>5
<1> HIDE DEF p
<1>9. \A i \in DOMAIN p : p[i].dir = Base
  BY <1>6, <1>8
<1>10. InOrder(p, Base)
  <2> SUFFICES ASSUME NEW i \in 1 .. m, NEW j \in 1 .. m, i < j PROVE p[i].pak > p[j].pak
    BY <1>8, <1>9 DEF InOrder
  <2>1. /\ b + i - 1 \in DOMAIN searchpaths /\ b + j - 1 \in DOMAIN searchpaths /\ b + i - 1 < b + j - 1
        /\ searchpaths[b + i - 1].dir = searchpaths[b + j - 1].dir
    BY <1>5, <1>6, <1>8
  <2>2. searchpaths[b + i - 1].pak > searchpaths[b + j - 1].pak
    BY <2>1 DEF PathOK, InOrder
  <2>3. QED
    BY <1>8, <2>2
<1>11. ASSUME NEW x, Lists(searchpaths, Base, x) PROVE Lists(p, Base, x)
  <2>1. PICK i \in DOMAIN searchpaths : searchpaths[i] = [dir |-> Base, pak |-> x]
    BY <1>11 DEF Lists
  <2>2. i \in S
    BY <2>1
  <2>3. b <= i /\ i \in 1 .. n
    BY <1>1, <1>3, <2>2
  <2>4. i - b + 1 \in 1 .. m /\ b + (i - b + 1) - 1 = i
    BY <1>1, <1>5, <2>3
  <2>5. p[i - b + 1] = searchpaths[i]
    BY <1>8, <2>4
  <2>6. QED
    BY <1>8, <2>1, <2>4, <2>5 DEF Lists
<1>12. PathOK(p, Base)
  BY <1>7, <1>9, <1>10, <1>11 DEF PathOK
<1>13. QED
  BY <1>4, <1>12 DEF p

(* The invariant: the path is in order, and what is cached is what the search finds. *)
Places == {NoEntry, Missing} \cup [dir : Dirs, pak : Nat \cup {Dir}, name : FileNames \cup {LowerCase(f) : f \in FileNames}]
CacheIsTrue == ~changed => \A f \in FileNames : cache[f] \in {NoEntry, Search(f)}
FsInv ==
  /\ gamedir \in Dirs /\ disk \subseteq Loose /\ noextern \in BOOLEAN /\ cache \in [FileNames -> Places]
  /\ PathOK(searchpaths, gamedir) /\ CachedPakIsOpen /\ CacheIsTrue

LEMMA EntriesAre ==
  ASSUME FsInv, NEW i \in DOMAIN searchpaths
  PROVE  searchpaths[i] \in Entry /\ searchpaths[i].dir \in Dirs /\ searchpaths[i].pak \in Nat \cup {Dir}
<1>1. searchpaths \in Seq(Entry)
  BY DEF FsInv, PathOK
<1>2. searchpaths[i] \in Entry
  BY <1>1
<1>3. QED
  BY <1>2 DEF Entry

LEMMA NoPak == ~InPak(NoEntry) /\ ~InPak(Missing)
BY DEF InPak, NoEntry, Missing, At, Dir

(* What a search finds is at the first place that has it. *)
LEMMA FoundFirst ==
  ASSUME FsInv, NEW f, Hits(f) # {}
  PROVE  /\ Min(Hits(f)) \in Hits(f) /\ \A i \in Hits(f) : Min(Hits(f)) <= i
         /\ Hits(f) \subseteq DOMAIN searchpaths /\ DOMAIN searchpaths \subseteq Nat
         /\ Search(f) = LET s == searchpaths[Min(Hits(f))]
                        IN At(s.dir, s.pak, IF s.pak # Dir THEN LowerCase(f) ELSE Spelling(s.dir, f))
<1>1. searchpaths \in Seq(Entry)
  BY DEF FsInv, PathOK
<1>2. Hits(f) \subseteq DOMAIN searchpaths /\ DOMAIN searchpaths \subseteq Nat
  BY <1>1 DEF Hits
<1>3. Min(Hits(f)) \in Hits(f) /\ \A i \in Hits(f) : Min(Hits(f)) <= i
  BY <1>2, MinIsLeast
<1>4. QED
  BY <1>2, <1>3 DEF Search

LEMMA SearchIs ==
  ASSUME FsInv, NEW f \in FileNames
  PROVE  /\ Search(f) \in Places
         /\ InPak(Search(f)) => \E i \in 1 .. Len(searchpaths) : PakOf(searchpaths[i]) = PakOf(Search(f))
         /\ Search(f) = Missing \/ InPak(Search(f)) \/ <<Search(f).dir, Search(f).name>> \in disk
<1>1. CASE Hits(f) = {}
  <2>1. Search(f) = Missing
    BY <1>1 DEF Search
  <2>2. QED
    BY <2>1, NoPak DEF Places
<1>2. CASE Hits(f) # {}
  <2> DEFINE k == Min(Hits(f))
             s == searchpaths[k]
             name == IF s.pak # Dir THEN LowerCase(f) ELSE Spelling(s.dir, f)
  <2>1. k \in Hits(f) /\ k \in DOMAIN searchpaths /\ Search(f) = At(s.dir, s.pak, name)
    BY <1>2, FoundFirst
  <2> HIDE DEF k
  <2>2. searchpaths \in Seq(Entry)
    BY DEF FsInv, PathOK
  <2>3. s \in Entry /\ k \in 1 .. Len(searchpaths)
    BY <2>1, <2>2
  <2>4. name \in FileNames \cup {LowerCase(g) : g \in FileNames}
    BY DEF Spelling
  <2>5. s.pak # Dir \/ <<s.dir, name>> \in disk
    BY <2>1 DEF Hits
  <2> HIDE DEF s, name
  <2>6. Search(f) = [dir |-> s.dir, pak |-> s.pak, name |-> name]
    BY <2>1 DEF At
  <2>7. Search(f) \in Places
    BY <2>3, <2>4, <2>6 DEF Entry, Places
  <2>8. PakOf(Search(f)) = PakOf(searchpaths[k])
    BY <2>6 DEF PakOf, s
  <2>9. QED
    BY <2>3, <2>5, <2>6, <2>7, <2>8 DEF InPak
<1>3. QED
  BY <1>1, <1>2

(* An open changes the entry of its name only, to nothing or to what the search finds. *)
LEMMA FindKeeps ==
  ASSUME FsInv, NEW f \in FileNames, NEW mode,
         NEW c, c = Find(f, mode).cache
  PROVE  /\ c \in [FileNames -> Places]
         /\ \A g \in FileNames : c[g] = cache[g] \/ c[g] = NoEntry \/ c[g] = Search(g)
<1>1. c = cache \/ c = [cache EXCEPT ![f] = NoEntry] \/ c = [cache EXCEPT ![f] = Search(f)]
  BY DEF Find, AddToCache
<1>2. cache \in [FileNames -> Places] /\ Search(f) \in Places /\ NoEntry \in Places
  BY SearchIs DEF FsInv, Places
<1>3. QED
  BY <1>1, <1>2

LEMMA CacheKept ==
  ASSUME FsInv, NEW c \in [FileNames -> Places], cache' = c,
         \A g \in FileNames : c[g] = cache[g] \/ c[g] = NoEntry \/ c[g] = Search(g),
         UNCHANGED <<searchpaths, gamedir, noextern, disk, gone>>, changed' = changed \/ c = NoCache
  PROVE  FsInv'
<1>1. \A g : Search(g)' = Search(g)
  BY DEF Search, Hits, PakHolds, Spelling
<1>2. PathOK(searchpaths, gamedir)'
  <2>1. PathOK(searchpaths, gamedir)
    BY DEF FsInv
  <2>2. \A d : PakNumbers(d)' = PakNumbers(d)
    BY DEF PakNumbers
  <2>3. QED
    BY <2>1, <2>2 DEF PathOK, InOrder, Lists
<1>3. CachedPakIsOpen'
  <2> SUFFICES ASSUME NEW g \in FileNames, InPak(c[g])
               PROVE  \E i \in 1 .. Len(searchpaths) : PakOf(searchpaths[i]) = PakOf(c[g])
    BY DEF CachedPakIsOpen
  <2>1. CASE c[g] = cache[g]
    BY <2>1 DEF FsInv, CachedPakIsOpen
  <2>2. CASE c[g] = NoEntry
    BY <2>2, NoPak
  <2>3. CASE c[g] = Search(g)
    BY <2>3, SearchIs
  <2>4. QED
    BY <2>1, <2>2, <2>3
<1>4. CacheIsTrue'
  BY <1>1 DEF FsInv, CacheIsTrue, NoCache
<1>5. QED
  BY <1>2, <1>3, <1>4 DEF FsInv

LEMMA EmptyCache == NoCache \in [FileNames -> Places] /\ \A g \in FileNames : NoCache[g] = NoEntry
BY DEF NoCache, Places

LEMMA FsStarts == FsInit => FsInv
<1> SUFFICES ASSUME FsInit PROVE FsInv
  OBVIOUS
<1>1. Base \in Dirs
  BY DEF Dirs
<1>2. PathOK(searchpaths, gamedir)
  BY <1>1, DirectoryAdded DEF FsInit
<1>3. CachedPakIsOpen /\ CacheIsTrue
  BY EmptyCache, NoPak DEF FsInit, CachedPakIsOpen, CacheIsTrue
<1>4. QED
  BY <1>1, <1>2, <1>3, EmptyCache DEF FsInit, FsInv

LEMMA FsStep == FsInv /\ [FsNext]_fsVars => FsInv'
<1> SUFFICES ASSUME FsInv, [FsNext]_fsVars PROVE FsInv'
  OBVIOUS
<1>0. cache \in [FileNames -> Places] /\ gamedir \in Dirs /\ PathOK(searchpaths, gamedir)
  BY DEF FsInv
<1>1. ASSUME NEW f \in FileNames, NEW mode, Open(f, mode) PROVE FsInv'
  <2>1. cache' = Find(f, mode).cache /\ UNCHANGED <<searchpaths, gamedir, noextern, disk, gone, changed>>
    BY <1>1 DEF Open
  <2>2. QED
    BY <2>1, FindKeeps, CacheKept
<1>2. ASSUME NEW f \in FileNames, LoadMapFile(f) PROVE FsInv'
  <2>1. /\ cache' = NoCache \/ (cache' = Find(f, "OPEN").cache /\ changed' = changed)
        /\ UNCHANGED <<searchpaths, gamedir, noextern, disk, gone>>
    BY <1>2 DEF LoadMapFile
  <2>2. CASE cache' = NoCache
    BY <2>1, <2>2, EmptyCache, CacheKept
  <2>3. CASE cache' = Find(f, "OPEN").cache /\ changed' = changed
    BY <2>1, <2>3, FindKeeps, CacheKept
  <2>4. QED
    BY <2>1, <2>2, <2>3
<1>3. CASE FlushCache
  <2>1. cache' = NoCache /\ UNCHANGED <<searchpaths, gamedir, noextern, disk, gone>>
    BY <1>3 DEF FlushCache
  <2>2. QED
    BY <2>1, EmptyCache, CacheKept
<1>4. ASSUME NEW d \in Dirs, SetGamedir(d) PROVE FsInv'
  <2>1. /\ gamedir' = d /\ cache' = NoCache /\ UNCHANGED <<noextern, disk, gone>>
        /\ searchpaths' = IF d = Base THEN BasePath ELSE AddGameDirectory(d, BasePath)
    BY <1>4 DEF SetGamedir
  <2>2. PathOK(BasePath, Base)
    BY <1>0, BaseIsLast
  <2>3. PathOK(searchpaths', d)
    BY <2>1, <2>2, DirectoryAdded
  <2>4. PathOK(searchpaths, gamedir)'
    <3>1. \A e : PakNumbers(e)' = PakNumbers(e)
      BY <2>1 DEF PakNumbers
    <3> DEFINE p == searchpaths'
    <3>2. PathOK(p, d)
      BY <2>3
    <3>3. searchpaths' = p /\ gamedir' = d
      BY <2>1
    <3> HIDE DEF p
    <3>4. QED
      BY <3>1, <3>2, <3>3 DEF PathOK, InOrder, Lists
  <2>5. CachedPakIsOpen' /\ CacheIsTrue'
    BY <2>1, EmptyCache, NoPak DEF CachedPakIsOpen, CacheIsTrue
  <2>6. QED
    BY <2>1, <2>4, <2>5, EmptyCache DEF FsInv
<1>5. CASE /\ UNCHANGED <<searchpaths, gamedir, cache, noextern, disk, gone, changed>>
  BY <1>0, <1>5, CacheKept
<1>6. CASE SetNoextern \/ ChangeDisk
  <2>1. changed' = TRUE /\ UNCHANGED <<searchpaths, gamedir, cache>> /\ gone \subseteq gone'
    BY <1>6 DEF SetNoextern, ChangeDisk
  <2>2. disk' \subseteq Loose /\ noextern' \in BOOLEAN
    BY <1>6 DEF SetNoextern, ChangeDisk, FsInv
  <2>3. \A d : PakNumbers(d)' \subseteq PakNumbers(d)
    BY <2>1 DEF PakNumbers
  <2>4. PathOK(searchpaths, gamedir)'
    BY <1>0, <2>1, <2>3 DEF PathOK, InOrder, Lists
  <2>5. CachedPakIsOpen' /\ CacheIsTrue'
    BY <2>1 DEF FsInv, CachedPakIsOpen, CacheIsTrue
  <2>6. QED
    BY <1>0, <2>1, <2>2, <2>4, <2>5 DEF FsInv
<1>7. QED
  BY <1>1, <1>2, <1>3, <1>4, <1>5, <1>6 DEF FsNext, fsVars, Link, Unlink

LEMMA CacheShows == FsInv => CacheTransparent
<1> SUFFICES ASSUME FsInv, ~changed, NEW f \in FileNames, NEW mode \in {"NONE", "OPEN"}
             PROVE  Find(f, mode).src = WhereIs(f)
  BY DEF CacheTransparent
<1>1. CASE LinkFor(f) # {}
  BY <1>1 DEF Find
<1>2. CASE LinkFor(f) = {} /\ cache[f] = NoEntry
  BY <1>2 DEF Find, WhereIs
<1>3. CASE LinkFor(f) = {} /\ cache[f] # NoEntry
  <2>1. cache[f] = Search(f)
    BY <1>3 DEF FsInv, CacheIsTrue
  <2>2. Search(f) = Missing \/ InPak(Search(f)) \/ <<Search(f).dir, Search(f).name>> \in disk
    BY SearchIs
  <2>3. FromCache(f, mode).src = Search(f)
    BY <2>1, <2>2 DEF FromCache
  <2>4. QED
    BY <1>3, <2>3 DEF Find, WhereIs
<1>4. QED
  BY <1>1, <1>2, <1>3

(* Every place that has a file is in the path, *)
LEMMA PlaceIsHit ==
  ASSUME FsInv, NEW f \in FileNames, NEW s \in InPaks(f) \cup OnDisk(f)
  PROVE  \E i \in Hits(f) : searchpaths[i].dir = s.dir /\ searchpaths[i].pak = s.pak
<1>0. /\ searchpaths \in Seq(Entry) /\ gamedir \in Dirs /\ Base \in Dirs
      /\ \A d \in {gamedir, Base} : Lists(searchpaths, d, Dir) /\ \A n \in PakNumbers(d) : Lists(searchpaths, d, n)
  BY DEF FsInv, PathOK, Dirs
<1>1. CASE s \in InPaks(f)
  <2>1. PICK d \in {gamedir, Base}, p \in UNION {PakList(e) : e \in Dirs} : s = At(d, p.num, LowerCase(f))
    BY <1>1 DEF InPaks
  <2>2. s.dir = d /\ LowerCase(f) \in PakHolds(d, s.pak) /\ d \in Dirs /\ StillOpen(s)
    BY <1>0, <1>1, <2>1 DEF InPaks, At
  <2>3. PICK q \in PakList(d) : q.num = s.pak /\ q.plain
    BY <2>2 DEF PakHolds
  <2>4. s.pak \in Nat /\ s.pak # Dir
    BY <2>2, <2>3, FsAssumption DEF Dirs, Dir
  <2>5. PICK i \in DOMAIN searchpaths : searchpaths[i].dir = d /\ searchpaths[i].pak = s.pak
    <3>1. CASE <<d, s.pak>> \in gone
      <4>1. PICK i \in DOMAIN searchpaths : PakOf(searchpaths[i]) = PakOf(s)
        BY <2>2, <3>1 DEF StillOpen, PakOf
      <4>2. QED
        BY <2>2, <4>1 DEF PakOf
    <3>2. CASE <<d, s.pak>> \notin gone
      <4>1. s.pak \in PakNumbers(d)
        BY <2>3, <3>2 DEF PakNumbers
      <4>2. Lists(searchpaths, d, s.pak)
        BY <1>0, <4>1
      <4>3. QED
        BY <4>2 DEF Lists
    <3>3. QED
      BY <3>1, <3>2
  <2>6. QED
    BY <2>2, <2>4, <2>5 DEF Hits
<1>2. CASE s \in OnDisk(f)
  <2>1. PICK d \in {gamedir, Base} : s = At(d, Dir, Spelling(d, f))
    BY <1>2 DEF OnDisk
  <2>2. s.dir = d /\ s.pak = Dir /\ ~noextern /\ <<d, Spelling(d, f)>> \in disk
    BY <1>2, <2>1 DEF OnDisk, At
  <2>3. PICK i \in DOMAIN searchpaths : searchpaths[i] = [dir |-> d, pak |-> Dir]
    BY <1>0 DEF Lists
  <2>4. searchpaths[i].dir = d /\ searchpaths[i].pak = Dir
    BY <2>3
  <2>5. QED
    BY <2>2, <2>4 DEF Hits
<1>3. QED
  BY <1>1, <1>2

(* and what is found is one of them. *)
LEMMA HitIsPlace ==
  ASSUME FsInv, NEW f \in FileNames, Hits(f) # {}
  PROVE  Search(f) \in InPaks(f) \cup OnDisk(f)
<1> DEFINE k == Min(Hits(f))
           s == searchpaths[k]
           name == IF s.pak # Dir THEN LowerCase(f) ELSE Spelling(s.dir, f)
<1>1. k \in Hits(f) /\ k \in DOMAIN searchpaths /\ Search(f) = At(s.dir, s.pak, name)
  BY FoundFirst
<1>2. s.dir \in {gamedir, Base} /\ s.dir \in Dirs
  BY <1>1 DEF FsInv, PathOK, Dirs
<1>3. /\ s.pak # Dir => LowerCase(f) \in PakHolds(s.dir, s.pak)
      /\ s.pak = Dir => ~noextern /\ <<s.dir, Spelling(s.dir, f)>> \in disk
  BY <1>1 DEF Hits
<1> HIDE DEF k
<1>4. CASE s.pak # Dir
  <2>1. PICK q \in PakList(s.dir) : q.num = s.pak
    BY <1>3, <1>4 DEF PakHolds
  <2>2. Search(f) = At(s.dir, q.num, LowerCase(f)) /\ q \in UNION {PakList(e) : e \in Dirs}
    BY <1>1, <1>2, <1>4, <2>1
  <2>3. Search(f).dir = s.dir /\ Search(f).pak = s.pak
    BY <1>1 DEF At
  <2>4. StillOpen(Search(f))
    BY <1>1, <2>3 DEF StillOpen, PakOf
  <2>5. QED
    BY <1>2, <1>3, <1>4, <2>2, <2>3, <2>4 DEF InPaks
<1>5. CASE s.pak = Dir
  <2>1. Search(f) = At(s.dir, Dir, Spelling(s.dir, f))
    BY <1>1, <1>5
  <2>2. Search(f).dir = s.dir /\ Search(f).name = Spelling(s.dir, f)
    BY <2>1 DEF At
  <2>3. QED
    BY <1>2, <1>3, <1>5, <2>1, <2>2 DEF OnDisk
<1>6. QED
  BY <1>4, <1>5

LEMMA OrderShows == FsInv => SearchOrder
<1> SUFFICES ASSUME FsInv, NEW f \in FileNames
             PROVE  IF InPaks(f) \cup OnDisk(f) = {} THEN Search(f) = Missing
                    ELSE /\ Search(f) \in InPaks(f) \cup OnDisk(f)
                         /\ \A s \in InPaks(f) \cup OnDisk(f) : Before(Search(f), s)
  BY DEF SearchOrder
<1>1. CASE Hits(f) = {}
  <2>1. Search(f) = Missing
    BY <1>1 DEF Search
  <2>2. InPaks(f) \cup OnDisk(f) = {}
    BY <1>1, PlaceIsHit
  <2>3. QED
    BY <2>1, <2>2
<1>2. CASE Hits(f) # {}
  <2> DEFINE k == Min(Hits(f))
             t == searchpaths[k]
  <2>1. Search(f) \in InPaks(f) \cup OnDisk(f)
    BY <1>2, HitIsPlace
  <2>2. /\ k \in DOMAIN searchpaths /\ (\A i \in Hits(f) : k <= i) /\ Hits(f) \subseteq DOMAIN searchpaths
        /\ DOMAIN searchpaths \subseteq Nat
        /\ Search(f).dir = t.dir /\ Search(f).pak = t.pak
    BY <1>2, FoundFirst DEF At
  <2> HIDE DEF k
  <2>3. searchpaths \in Seq(Entry) /\ InOrder(searchpaths, gamedir)
    BY DEF FsInv, PathOK
  <2>4. ASSUME NEW s \in InPaks(f) \cup OnDisk(f) PROVE Before(Search(f), s)
    <3>1. PICK i \in Hits(f) : searchpaths[i].dir = s.dir /\ searchpaths[i].pak = s.pak
      BY <2>4, PlaceIsHit
    <3>2. CASE i = k
      <4>1. t.dir = s.dir /\ t.pak = s.pak /\ t.pak \in Nat \cup {Dir}
        BY <2>2, <3>1, <3>2, EntriesAre
      <4>2. QED
        BY <2>2, <4>1 DEF Before, Dir
    <3>3. CASE i # k
      <4>1. k < i /\ i \in DOMAIN searchpaths
        BY <2>2, <3>3
      <4>2. IF t.dir = s.dir THEN t.pak > s.pak ELSE t.dir = gamedir
        BY <2>2, <2>3, <3>1, <4>1 DEF InOrder
      <4>3. t.pak \in Int /\ s.pak \in Int
        BY <2>2, <3>1, <4>1, EntriesAre DEF Dir
      <4>4. QED
        BY <2>2, <4>2, <4>3 DEF Before
    <3>4. QED
      BY <3>2, <3>3
  <2>5. QED
    BY <2>1, <2>4
<1>3. QED
  BY <1>1, <1>2

LEMMA ListShows == FsInv => ListedAsFound
<1> SUFFICES ASSUME FsInv, ~noextern, NEW n \in DOMAIN MapsListed,
                    \A x \in disk : LowerCase(x[2]) = n => x[2] = n
             PROVE  Search(n) # Missing /\ PakOf(Search(n)) = MapsListed[n]
  BY DEF ListedAsFound
<1>1. /\ disk \subseteq Loose
      /\ \A i \in DOMAIN searchpaths : searchpaths[i].dir \in Dirs /\ searchpaths[i].pak \in Nat \cup {Dir}
  BY EntriesAre DEF FsInv
<1>2. DOMAIN MapsListed = UNION {NamesIn(i) : i \in DOMAIN searchpaths}
  BY DEF MapsListed
<1>3. PICK j \in DOMAIN searchpaths : n \in NamesIn(j)
  BY <1>2
<1>4. LowerCase(n) = n
  <2>1. CASE searchpaths[j].pak # Dir
    <3>1. PICK p \in PakList(searchpaths[j].dir) : n \in p.holds
      BY <1>3, <2>1 DEF NamesIn, PakHolds
    <3>2. QED
      BY <1>1, <3>1, FsAssumption DEF Dirs
  <2>2. CASE searchpaths[j].pak = Dir
    <3>1. PICK x \in disk : n = LowerCase(x[2])
      BY <1>3, <2>2 DEF NamesIn
    <3>2. x[2] \in FileNames
      BY <1>1, <3>1, FsAssumption
    <3>3. QED
      BY <3>1, <3>2, FsAssumption
  <2>3. QED
    BY <2>1, <2>2
<1>5. ASSUME NEW i \in DOMAIN searchpaths PROVE n \in NamesIn(i) <=> i \in Hits(n)
  <2>1. CASE searchpaths[i].pak # Dir
    BY <1>4, <2>1 DEF NamesIn, Hits
  <2>2. CASE searchpaths[i].pak = Dir
    <3> DEFINE d == searchpaths[i].dir
    <3>1. Spelling(d, n) = n
      BY <1>4 DEF Spelling
    <3>2. i \in Hits(n) <=> <<d, n>> \in disk
      BY <2>2, <3>1 DEF Hits
    <3>3. n \in NamesIn(i) <=> \E x \in disk : x[1] = d /\ LowerCase(x[2]) = n
      BY <2>2 DEF NamesIn
    <3>4. \A x \in disk : x = <<x[1], x[2]>>
      BY <1>1, FsAssumption
    <3>5. (\E x \in disk : x[1] = d /\ LowerCase(x[2]) = n) <=> <<d, n>> \in disk
      <4>1. ASSUME NEW x \in disk, x[1] = d, LowerCase(x[2]) = n PROVE <<d, n>> \in disk
        BY <3>4, <4>1
      <4>2. ASSUME <<d, n>> \in disk PROVE \E x \in disk : x[1] = d /\ LowerCase(x[2]) = n
        BY <1>4, <4>2
      <4>3. QED
        BY <4>1, <4>2
    <3>6. QED
      BY <3>2, <3>3, <3>5
  <2>3. QED
    BY <2>1, <2>2
<1>6. {i \in DOMAIN searchpaths : n \in NamesIn(i)} = Hits(n)
  BY <1>5 DEF Hits
<1>7. Origin(n) = Min(Hits(n)) /\ Hits(n) # {}
  BY <1>3, <1>6 DEF Origin
<1> DEFINE k == Min(Hits(n))
           s == searchpaths[k]
<1>8. k \in DOMAIN searchpaths /\ Search(n).dir = s.dir /\ Search(n).pak = s.pak
  BY <1>7, FoundFirst DEF At
<1>9. MapsListed[n] = PakOf(s)
  BY <1>7 DEF MapsListed
<1> HIDE DEF k
<1>10. s.dir \in Dirs /\ "missing" \notin Dirs
  BY <1>1, <1>8, FsAssumption DEF Dirs
<1>11. Missing.dir = "missing"
  BY DEF Missing, At
<1>12. QED
  BY <1>8, <1>9, <1>10, <1>11 DEF PakOf

(* FilesAreFound holds: the cache, the lists and the search agree, in any order of directories set, files *)
(* opened, and files and paks that come and go under the server.                                         *)
THEOREM NamesMeanOneFile == FsSpec => []FilesAreFound
<1>1. FsInv => FilesAreFound
  BY CacheShows, OrderShows, ListShows DEF FsInv, FilesAreFound
<1>2. QED
  BY <1>1, FsStarts, FsStep, PTL DEF FsSpec

-----------------------------------------------------------------------------
(* Indexes *)
(* A function defined by recursion over 0 .. N exists: f[i] is what the i-th step makes of f[i-1]. *)
Recurs(f, N, D, a, s) == f \in [0 .. N -> D] /\ f[0] = a /\ \A i \in 1 .. N : f[i] = s[i][f[i-1]]
LEMMA Recursion ==
  ASSUME NEW N \in Nat, NEW D, NEW a \in D, NEW s \in [1 .. N -> [D -> D]]
  PROVE  \E f : Recurs(f, N, D, a, s)
<1> DEFINE Upto(n, f) == f \in [0 .. n -> D] /\ f[0] = a /\ \A i \in 1 .. n : f[i] = s[i][f[i-1]]
           Bad == {n \in 0 .. N : ~\E f : Upto(n, f)}
<1>1. SUFFICES ASSUME Bad # {} PROVE FALSE
  <2>1. N \notin Bad
    BY <1>1
  <2>2. PICK f : Upto(N, f)
    BY <2>1
  <2>3. QED
    BY <2>2 DEF Recurs
<1>2. Bad \in SUBSET Nat
  OBVIOUS
<1>3. PICK n \in Bad : \A k \in Bad : n <= k
  <2> HIDE DEF Bad
  <2>1. QED
    BY <1>1, <1>2, MinIsLeast
<1>4. n \in 0 .. N /\ ~\E f : Upto(n, f)
  BY <1>3
<1>5. CASE n = 0
  <2>1. Upto(0, [i \in 0 .. 0 |-> a])
    OBVIOUS
  <2>2. QED
    BY <1>4, <1>5, <2>1
<1>6. CASE n # 0
  <2>1. n - 1 \in 0 .. N /\ ~(n <= n - 1)
    BY <1>4, <1>6
  <2>2. n - 1 \notin Bad
    BY <1>3, <2>1
  <2>3. PICK f : Upto(n - 1, f)
    BY <2>1, <2>2
  <2> DEFINE g == [i \in 0 .. n |-> IF i = n THEN s[n][f[n-1]] ELSE f[i]]
  <2>4. n \in 1 .. N /\ n - 1 \in 0 .. n - 1
    BY <1>4, <1>6
  <2>5. s[n] \in [D -> D] /\ f[n-1] \in D
    BY <2>3, <2>4
  <2>6. g \in [0 .. n -> D]
    <3>1. ASSUME NEW i \in 0 .. n PROVE (IF i = n THEN s[n][f[n-1]] ELSE f[i]) \in D
      <4>1. i # n => i \in 0 .. n - 1
        BY <2>4
      <4>2. QED
        BY <2>3, <2>5, <4>1
    <3>2. QED
      BY <3>1
  <2>7. g[0] = a
    <3>1. 0 \in 0 .. n /\ 0 # n
      BY <2>4
    <3>2. QED
      BY <2>3, <3>1
  <2>8. ASSUME NEW i \in 1 .. n PROVE g[i] = s[i][g[i-1]]
    <3>1. i \in 0 .. n /\ i - 1 \in 0 .. n /\ i - 1 # n /\ (i # n => i \in 1 .. n - 1)
      BY <2>4
    <3>2. g[i-1] = f[i-1]
      BY <3>1
    <3>3. g[i] = IF i = n THEN s[n][f[n-1]] ELSE f[i]
      BY <3>1
    <3>4. QED
      BY <2>3, <3>1, <3>2, <3>3
  <2>9. Upto(n, g)
    BY <2>6, <2>7, <2>8
  <2>10. QED
    BY <1>4, <2>9
<1>7. QED
  BY <1>4, <1>5, <1>6

Lowered == DOMAIN Kind
Wanted(f) == File[f].listed /\ ~File[f].exe /\ ~File[f].inpak
ListOK(list) ==
  /\ list \in Seq(Lowered) /\ Len(list) <= DlRoom /\ Cardinality(ToSet(list)) = Len(list) /\ IsFiniteSet(ToSet(list))
  /\ \A f \in ToSet(list) : ~File[f].exe /\ ~File[f].inpak

LEMMA AppendedIs ==
  ASSUME NEW D, NEW s \in Seq(D), NEW x \in D
  PROVE  Append(s, x) \in Seq(D) /\ Len(Append(s, x)) = Len(s) + 1 /\ ToSet(Append(s, x)) = ToSet(s) \cup {x}
<1>1. /\ Append(s, x) \in Seq(D) /\ Len(s) \in Nat /\ DOMAIN s = 1 .. Len(s) /\ Len(Append(s, x)) = Len(s) + 1
      /\ DOMAIN Append(s, x) = 1 .. (Len(s) + 1)
      /\ (\A i \in 1 .. Len(s) : Append(s, x)[i] = s[i]) /\ Append(s, x)[Len(s) + 1] = x
  OBVIOUS
<1>2. \A i \in 1 .. (Len(s) + 1) : i \in 1 .. Len(s) \/ i = Len(s) + 1
  BY <1>1
<1>3. 1 .. Len(s) \subseteq 1 .. (Len(s) + 1) /\ Len(s) + 1 \in 1 .. (Len(s) + 1)
  BY <1>1
<1>4. QED
  BY <1>1, <1>2, <1>3 DEF ToSet

(* One file: it is on the list then, if it is wanted and there is room. *)
LEMMA FileListed ==
  ASSUME NEW list, ListOK(list), NEW f \in Lowered
  PROVE  LET r == DownloadIndex(list, f) IN
         /\ ListOK(r) /\ ToSet(list) \subseteq ToSet(r) /\ Len(list) <= Len(r)
         /\ state = "loading" /\ Len(r) < DlRoom /\ Wanted(f) => f \in ToSet(r)
<1>1. list \in Seq(Lowered) /\ Len(list) \in Nat /\ DlRoom \in Nat /\ Len(list) <= DlRoom
  BY IxAssumption DEF ListOK
<1>2. Contains(list, f) <=> f \in ToSet(list)
  BY <1>1 DEF Contains, ToSet
<1>3. File[f].exe \in BOOLEAN /\ File[f].listed \in BOOLEAN /\ File[f].inpak \in BOOLEAN
  BY IxAssumption DEF Lowered
<1>4. CASE state # "loading" \/ File[f].exe \/ ~File[f].listed \/ File[f].inpak \/ Contains(list, f) \/ Len(list) = DlRoom
  <2>1. DownloadIndex(list, f) = list
    BY <1>4 DEF DownloadIndex
  <2>2. state = "loading" /\ Len(list) < DlRoom /\ Wanted(f) => f \in ToSet(list)
    BY <1>1, <1>2, <1>3, <1>4 DEF Wanted
  <2>3. QED
    BY <1>1, <2>1, <2>2
<1>5. CASE ~(state # "loading" \/ File[f].exe \/ ~File[f].listed \/ File[f].inpak \/ Contains(list, f) \/ Len(list) = DlRoom)
  <2> DEFINE r == Append(list, f)
  <2>1. DownloadIndex(list, f) = r
    BY <1>5 DEF DownloadIndex
  <2>2. r \in Seq(Lowered) /\ Len(r) = Len(list) + 1 /\ ToSet(r) = ToSet(list) \cup {f}
    BY <1>1, AppendedIs
  <2> HIDE DEF r
  <2>3. f \notin ToSet(list) /\ Len(list) < DlRoom /\ ~File[f].exe /\ ~File[f].inpak
    BY <1>1, <1>2, <1>5
  <2>4. IsFiniteSet(ToSet(r)) /\ Cardinality(ToSet(r)) = Len(r)
    BY <2>2, <2>3, FS_AddElement DEF ListOK
  <2>5. ListOK(r)
    BY <1>1, <2>2, <2>3, <2>4 DEF ListOK
  <2>6. QED
    BY <1>1, <2>1, <2>2, <2>5
<1>6. QED
  BY <1>4, <1>5

(* The files of a model, one after the other. *)
LEMMA FilesListed ==
  ASSUME NEW list, ListOK(list), NEW files \in Seq(Lowered)
  PROVE  LET r == AddFiles(list, files) IN
         /\ ListOK(r) /\ ToSet(list) \subseteq ToSet(r) /\ Len(list) <= Len(r)
         /\ state = "loading" /\ Len(r) < DlRoom => \A f \in ToSet(files) : Wanted(f) => f \in ToSet(r)
<1> DEFINE N == Len(files)
           D == Seq(Lowered)
           Body(g) == [i \in 0 .. N |-> IF i = 0 THEN list ELSE DownloadIndex(g[i - 1], files[i])]
           s == [i \in 1 .. N |-> [l \in D |-> DownloadIndex(l, files[i])]]
           u == CHOOSE g : g = Body(g)
<1>1. N \in Nat /\ list \in D /\ \A i \in 1 .. N : files[i] \in Lowered
  BY DEF ListOK
<1>2. \A i \in 1 .. N : \A l \in D : DownloadIndex(l, files[i]) \in D
  BY <1>1 DEF DownloadIndex
<1>3. s \in [1 .. N -> [D -> D]]
  BY <1>2
<1>4. PICK h : Recurs(h, N, D, list, s)
  <2> HIDE DEF s, D
  <2>1. QED
    BY <1>1, <1>3, Recursion
<1>5. h = Body(h)
  <2>1. h \in [0 .. N -> D] /\ h[0] = list /\ \A i \in 1 .. N : h[i] = s[i][h[i-1]]
    BY <1>4 DEF Recurs
  <2>2. ASSUME NEW i \in 1 .. N PROVE h[i] = DownloadIndex(h[i-1], files[i])
    <3>1. i - 1 \in 0 .. N
      BY <1>1
    <3>2. h[i-1] \in D
      BY <2>1, <3>1
    <3>3. QED
      BY <2>1, <3>2
  <2>3. \A i \in 0 .. N : h[i] = IF i = 0 THEN list ELSE DownloadIndex(h[i - 1], files[i])
    BY <1>1, <2>1, <2>2
  <2>4. QED
    BY <2>1, <2>3
<1>6. u = Body(u)
  <2> HIDE DEF Body
  <2>1. QED
    BY <1>5
<1>7. AddFiles(list, files) = u[N]
  BY DEF AddFiles
<1> HIDE DEF u, s
<1>8. u[0] = list /\ \A i \in 1 .. N : u[i] = DownloadIndex(u[i-1], files[i])
  <2>1. \A i \in 0 .. N : u[i] = IF i = 0 THEN list ELSE DownloadIndex(u[i - 1], files[i])
    BY <1>6
  <2>2. 0 \in 0 .. N /\ \A i \in 1 .. N : i \in 0 .. N /\ i # 0
    BY <1>1
  <2>3. QED
    BY <2>1, <2>2
<1> HIDE DEF Body
<1> DEFINE Good(i) ==
             /\ ListOK(u[i]) /\ ToSet(list) \subseteq ToSet(u[i]) /\ Len(list) <= Len(u[i])
             /\ state = "loading" /\ Len(u[i]) < DlRoom => \A j \in 1 .. i : Wanted(files[j]) => files[j] \in ToSet(u[i])
           Bad == {i \in 0 .. N : ~Good(i)}
<1>9. Bad = {}
  <2>1. SUFFICES ASSUME Bad # {} PROVE FALSE
    OBVIOUS
  <2>2. Bad \in SUBSET Nat
    OBVIOUS
  <2> DEFINE i == Min(Bad)
  <2>3. i \in Bad /\ \A j \in Bad : i <= j
    <3> HIDE DEF Bad
    <3>1. QED
      BY <2>1, <2>2, MinIsLeast
  <2> HIDE DEF i
  <2>4. i \in 0 .. N /\ ~Good(i)
    BY <2>3
  <2>5. CASE i = 0
    <3>1. Len(list) \in Nat
      BY DEF ListOK
    <3>2. Good(0)
      BY <1>8, <3>1
    <3>3. QED
      BY <2>4, <2>5, <3>2
  <2>6. CASE i # 0
    <3>1. i - 1 \in 0 .. N /\ ~(i <= i - 1) /\ i \in 1 .. N
      BY <1>1, <2>4, <2>6
    <3>2. Good(i - 1)
      BY <2>3, <3>1
    <3> DEFINE a == u[i - 1]
               b == u[i]
    <3>3. b = DownloadIndex(a, files[i]) /\ files[i] \in Lowered
      BY <1>1, <1>8, <3>1
    <3>4. /\ ListOK(b) /\ ToSet(a) \subseteq ToSet(b) /\ Len(a) <= Len(b)
          /\ state = "loading" /\ Len(b) < DlRoom /\ Wanted(files[i]) => files[i] \in ToSet(b)
      <4> HIDE DEF b
      <4>1. ListOK(a)
        BY <3>2
      <4> HIDE DEF a
      <4>2. QED
        BY <3>3, <4>1, FileListed
    <3>5. Len(list) \in Nat /\ Len(a) \in Nat /\ Len(b) \in Nat /\ DlRoom \in Nat
      BY <3>2, <3>4, IxAssumption DEF ListOK
    <3> HIDE DEF a, b
    <3>6. ToSet(list) \subseteq ToSet(a) /\ Len(list) <= Len(a)
      BY <3>2 DEF a
    <3>7. ASSUME state = "loading", Len(b) < DlRoom, NEW j \in 1 .. i, Wanted(files[j]) PROVE files[j] \in ToSet(b)
      <4>1. CASE j = i
        BY <3>4, <3>7, <4>1
      <4>2. CASE j # i
        <5>1. j \in 1 .. (i - 1)
          BY <3>1, <4>2
        <5>2. Len(a) < DlRoom
          BY <3>4, <3>5, <3>7
        <5>3. files[j] \in ToSet(a)
          BY <3>2, <3>7, <5>1, <5>2 DEF a
        <5>4. QED
          BY <3>4, <5>3
      <4>3. QED
        BY <4>1, <4>2
    <3>8. Good(i)
      BY <3>4, <3>5, <3>6, <3>7 DEF b
    <3>9. QED
      BY <2>4, <3>8
  <2>7. QED
    BY <2>5, <2>6
<1>10. Good(N)
  BY <1>1, <1>9
<1>11. ToSet(files) = {files[j] : j \in 1 .. N}
  BY DEF ToSet
<1>12. QED
  BY <1>7, <1>10, <1>11

(* A number that was given is the first place of the name. *)
IsFirst(s, n, i) == i \in DOMAIN s /\ s[i] = n /\ \A j \in DOMAIN s : j < i => s[j] # n
NamesInv ==
  /\ state \in {"loading", "game", "error"} /\ strings \in [Kinds -> Seq(Lowered)]
  /\ state = "game" => told = strings
  /\ given \in [names : SUBSET (Lowered \X Nat), skins : SUBSET (SkinNames \X Nat)]
  /\ \A g \in given.names : Kind[g[1]] \in Kinds /\ IsFirst(strings[Kind[g[1]]], g[1], g[2])
ListInv ==
  /\ ListOK(dl)
  /\ state = "loading" /\ Len(dl) < DlRoom => \A g \in given.names : \A f \in ToSet(FilesOf(g[1])) : Wanted(f) => f \in ToSet(dl)

LEMMA PlaceIs ==
  ASSUME NEW s \in Seq(Lowered), NEW n
  PROVE  /\ Place(n, s) \in Nat /\ (Place(n, s) # 0 => IsFirst(s, n, Place(n, s)))
         /\ Place(n, s) = 0 => \A i \in DOMAIN s : s[i] # n
         /\ \A i : IsFirst(s, n, i) => i = Place(n, s)
<1> DEFINE at == {i \in DOMAIN s : s[i] = n}
<1>1. Place(n, s) = IF at = {} THEN 0 ELSE Min(at)
  BY DEF Place
<1>2. DOMAIN s \subseteq Nat \ {0}
  OBVIOUS
<1>3. at # {} => Min(at) \in at /\ \A i \in at : Min(at) <= i
  <2>1. at \in SUBSET Nat
    BY <1>2
  <2> HIDE DEF at
  <2>2. QED
    BY <2>1, MinIsLeast
<1>4. CASE at = {}
  BY <1>1, <1>4 DEF IsFirst
<1>5. CASE at # {}
  <2> DEFINE m == Min(at)
  <2>1. Place(n, s) = m /\ m \in DOMAIN s /\ s[m] = n /\ \A i \in DOMAIN s : s[i] = n => m <= i
    BY <1>1, <1>3, <1>5
  <2> HIDE DEF m
  <2>2. m \in Nat /\ m # 0 /\ \A j \in DOMAIN s : j < m => s[j] # n
    <3>1. m \in Nat /\ m # 0
      BY <1>2, <2>1
    <3>2. ASSUME NEW j \in DOMAIN s, j < m PROVE s[j] # n
      <4>1. j \in Nat
        BY <1>2
      <4>2. QED
        BY <2>1, <3>1, <3>2, <4>1
    <3>3. QED
      BY <3>1, <3>2
  <2>3. ASSUME NEW i, IsFirst(s, n, i) PROVE i = m
    <3>1. i \in DOMAIN s /\ s[i] = n /\ i \in Nat /\ ~(m < i)
      BY <1>2, <2>1, <2>3 DEF IsFirst
    <3>2. m <= i
      BY <2>1, <3>1
    <3>3. QED
      BY <2>2, <3>1, <3>2
  <2>4. QED
    BY <2>1, <2>2, <2>3 DEF IsFirst
<1>6. QED
  BY <1>4, <1>5

(* The name has its number then, and those given before keep theirs. *)
LEMMA NameFound ==
  ASSUME NamesInv, NEW k \in Kinds, NEW n \in Lowered, NEW r, r = FindIndex(k, n), r.at # 0
  PROVE  /\ r.strings \in Seq(Lowered) /\ r.at \in Nat /\ IsFirst(r.strings, n, r.at)
         /\ \A m, i : IsFirst(strings[k], m, i) => IsFirst(r.strings, m, i)
<1> DEFINE s == strings[k]
<1>1. s \in Seq(Lowered)
  BY DEF NamesInv
<1>2. CASE Place(n, s) # 0
  <2>1. r = [at |-> Place(n, s), strings |-> s]
    BY <1>2 DEF FindIndex
  <2>2. Place(n, s) \in Nat /\ IsFirst(s, n, Place(n, s))
    BY <1>1, <1>2, PlaceIs
  <2>3. r.at = Place(n, s) /\ r.strings = s
    BY <2>1
  <2>4. QED
    BY <1>1, <2>2, <2>3
<1>3. CASE Place(n, s) = 0
  <2> DEFINE t == Append(s, n)
             l == Len(s) + 1
  <2>1. r = IF l = Room THEN [at |-> 0, strings |-> s] ELSE [at |-> l, strings |-> t]
    BY <1>3 DEF FindIndex
  <2>2. r.at = l /\ r.strings = t
    BY <2>1
  <2>3. /\ t \in Seq(Lowered) /\ l \in Nat /\ DOMAIN s = 1 .. (l - 1) /\ DOMAIN t = 1 .. l
        /\ (\A i \in 1 .. (l - 1) : t[i] = s[i]) /\ t[l] = n
    BY <1>1
  <2>4. \A i \in DOMAIN s : s[i] # n
    BY <1>1, <1>3, PlaceIs
  <2> HIDE DEF t, l, s
  <2>5. IsFirst(t, n, l)
    <3>1. l \in DOMAIN t
      BY <2>2, <2>3, <1>1 DEF l
    <3>2. ASSUME NEW j \in 1 .. l, j < l PROVE t[j] # n
      <4>1. j \in 1 .. (l - 1)
        BY <2>3, <3>2
      <4>2. QED
        BY <2>3, <2>4, <4>1
    <3>3. QED
      BY <2>3, <3>1, <3>2 DEF IsFirst
  <2>6. ASSUME NEW m, NEW i, IsFirst(s, m, i) PROVE IsFirst(t, m, i)
    <3>1. i \in 1 .. (l - 1) /\ s[i] = m /\ \A j \in DOMAIN s : j < i => s[j] # m
      BY <2>3, <2>6 DEF IsFirst
    <3>2. i \in 1 .. l /\ t[i] = m
      BY <2>3, <3>1
    <3>3. ASSUME NEW j \in 1 .. l, j < i PROVE t[j] # m
      <4>1. j \in 1 .. (l - 1)
        BY <2>3, <3>1, <3>3
      <4>2. QED
        BY <2>3, <3>1, <3>3, <4>1
    <3>4. QED
      BY <2>3, <3>2, <3>3 DEF IsFirst
  <2>7. QED
    BY <2>2, <2>3, <2>5, <2>6 DEF s
<1>4. QED
  BY <1>2, <1>3

LEMMA IndexKeeps ==
  ASSUME NamesInv, ListInv, NEW asked \in Names, Index(asked)
  PROVE  NamesInv' /\ ListInv' /\ given'.skins = given.skins /\ UNCHANGED <<skins, playerskin>>
<1> DEFINE name == Lower[asked]
           k == Kind[name]
           found == FindIndex(k, name)
           list == AddFiles(dl, FilesOf(name))
<1>1. name \in Lowered /\ k \in Kinds \cup {"other"}
  BY IxAssumption DEF Lowered, Kinds
<1>2. FilesOf(name) \in Seq(Lowered)
  <2>1. File[name].skins \in Seq(Lowered)
    BY <1>1, IxAssumption DEF Lowered
  <2>2. <<name>> \in Seq(Lowered)
    BY <1>1
  <2>3. FilesOf(name) = File[name].skins \/ FilesOf(name) = <<name>>
    BY DEF FilesOf, ModelFiles, SoundFiles, ImageFiles
  <2>4. QED
    BY <2>1, <2>2, <2>3
<1>3. /\ ListOK(list) /\ ToSet(dl) \subseteq ToSet(list) /\ Len(dl) <= Len(list)
      /\ state = "loading" /\ Len(list) < DlRoom => \A f \in ToSet(FilesOf(name)) : Wanted(f) => f \in ToSet(list)
  BY <1>2, FilesListed DEF ListInv
<1>4. Len(dl) \in Nat /\ Len(list) \in Nat /\ DlRoom \in Nat
  BY <1>3, IxAssumption DEF ListInv, ListOK
<1> HIDE DEF list, found, name, k
<1>5. /\ state # "error" /\ UNCHANGED <<skins, playerskin>>
      /\ IF k = "other" THEN UNCHANGED <<strings, told, given, state>> /\ dl' = list
         ELSE IF found.at = 0 THEN state' = "error" /\ UNCHANGED <<strings, told, given, dl>>
         ELSE /\ strings' = [strings EXCEPT ![k] = found.strings]
              /\ told' = IF state = "game" THEN [told EXCEPT ![k] = found.strings] ELSE told
              /\ given' = [given EXCEPT !.names = @ \union {<<name, found.at>>}]
              /\ dl' = list /\ UNCHANGED state
  BY DEF Index, list, found, name, k
<1>6. CASE k = "other"
  <2>1. UNCHANGED <<strings, told, given, state>> /\ dl' = list
    BY <1>5, <1>6
  <2>2. NamesInv'
    BY <2>1 DEF NamesInv, IsFirst
  <2>3. ASSUME state = "loading", Len(list) < DlRoom, NEW g \in given.names, NEW f \in ToSet(FilesOf(g[1])), Wanted(f)
        PROVE  f \in ToSet(list)
    <3>1. Len(dl) < DlRoom
      BY <1>3, <1>4, <2>3
    <3>2. QED
      BY <1>3, <2>3, <3>1 DEF ListInv
  <2>4. ListInv'
    BY <1>3, <2>1, <2>3 DEF ListInv, ListOK, Wanted, FilesOf, ModelFiles, SoundFiles, ImageFiles
  <2>5. QED
    BY <1>5, <2>1, <2>2, <2>4
<1>7. CASE k # "other" /\ found.at = 0
  <2>1. state' = "error" /\ UNCHANGED <<strings, told, given, dl>>
    BY <1>5, <1>7
  <2>2. NamesInv'
    BY <2>1 DEF NamesInv, IsFirst
  <2>3. ListInv'
    BY <2>1 DEF ListInv, ListOK
  <2>4. QED
    BY <1>5, <2>1, <2>2, <2>3
<1>8. CASE k # "other" /\ found.at # 0
  <2> DEFINE s == found.strings
  <2>1. /\ strings' = [strings EXCEPT ![k] = s] /\ told' = IF state = "game" THEN [told EXCEPT ![k] = s] ELSE told
        /\ given' = [given EXCEPT !.names = @ \union {<<name, found.at>>}] /\ dl' = list /\ UNCHANGED state
    BY <1>5, <1>8
  <2>2. k \in Kinds
    BY <1>1, <1>8
  <2>3. /\ s \in Seq(Lowered) /\ found.at \in Nat /\ IsFirst(s, name, found.at)
        /\ \A m, i : IsFirst(strings[k], m, i) => IsFirst(s, m, i)
    BY <1>1, <1>8, <2>2, NameFound DEF found
  <2> HIDE DEF s
  <2>4. NamesInv'
    <3>1. strings \in [Kinds -> Seq(Lowered)] /\ state \in {"loading", "game", "error"} /\ (state = "game" => told = strings)
      BY DEF NamesInv
    <3>2. strings' \in [Kinds -> Seq(Lowered)] /\ strings'[k] = s /\ \A j \in Kinds \ {k} : strings'[j] = strings[j]
      BY <2>1, <2>2, <2>3, <3>1
    <3>3. state' \in {"loading", "game", "error"} /\ (state' = "game" => told' = strings')
      BY <2>1, <3>1
    <3>4. given' \in [names : SUBSET (Lowered \X Nat), skins : SUBSET (SkinNames \X Nat)]
      <4>1. <<name, found.at>> \in Lowered \X Nat
        BY <1>1, <2>3
      <4>2. given \in [names : SUBSET (Lowered \X Nat), skins : SUBSET (SkinNames \X Nat)]
        BY DEF NamesInv
      <4> DEFINE w == given.names \union {<<name, found.at>>}
      <4>3. w \in SUBSET (Lowered \X Nat)
        BY <4>1, <4>2
      <4>4. given' = [given EXCEPT !.names = w]
        BY <2>1
      <4> HIDE DEF w
      <4>5. QED
        BY <4>2, <4>3, <4>4
    <3>5. given'.names = given.names \cup {<<name, found.at>>} /\ given'.skins = given.skins
      BY <2>1 DEF NamesInv
    <3>6. ASSUME NEW g \in given'.names PROVE Kind[g[1]] \in Kinds /\ IsFirst(strings'[Kind[g[1]]], g[1], g[2])
      <4>1. CASE g \in given.names
        <5>1. Kind[g[1]] \in Kinds /\ IsFirst(strings[Kind[g[1]]], g[1], g[2])
          BY <4>1 DEF NamesInv
        <5>2. QED
          BY <2>3, <3>2, <5>1
      <4>2. CASE g = <<name, found.at>>
        <5>1. g[1] = name /\ g[2] = found.at
          BY <4>2
        <5>2. QED
          BY <2>2, <2>3, <3>2, <5>1 DEF k
      <4>3. QED
        BY <3>5, <4>1, <4>2
    <3>7. QED
      BY <3>2, <3>3, <3>4, <3>6 DEF NamesInv, IsFirst
  <2>5. ListInv'
    <3>1. given'.names = given.names \cup {<<name, found.at>>}
      BY <2>1 DEF NamesInv
    <3>2. ASSUME state = "loading", Len(list) < DlRoom, NEW g \in given'.names, NEW f \in ToSet(FilesOf(g[1])), Wanted(f)
          PROVE  f \in ToSet(list)
      <4>1. CASE g \in given.names
        <5>1. Len(dl) < DlRoom
          BY <1>3, <1>4, <3>2
        <5>2. f \in ToSet(dl)
          BY <3>2, <4>1, <5>1 DEF ListInv
        <5>3. QED
          BY <1>3, <5>2
      <4>2. CASE g = <<name, found.at>>
        <5>1. g[1] = name
          BY <4>2
        <5>2. QED
          BY <1>3, <3>2, <5>1
      <4>3. QED
        BY <3>1, <4>1, <4>2
    <3>3. QED
      BY <1>3, <2>1, <3>2 DEF ListInv, ListOK, Wanted, FilesOf, ModelFiles, SoundFiles, ImageFiles
  <2>6. given'.skins = given.skins
    BY <2>1 DEF NamesInv
  <2>7. QED
    BY <1>5, <2>4, <2>5, <2>6
<1>9. QED
  BY <1>1, <1>6, <1>7, <1>8

(* All names of skins have three letters, which the code asks for and does not insist on (sv_init.c:333). *)
ThreeLetters == \A s \in SkinNames : Len(s) = 3
SkinLetters == UNION {ToSet(s) : s \in SkinNames}
FirstSkin(s, name, i) ==
  /\ i \in Nat /\ i + 3 <= Len(s) /\ i % 3 = 0 /\ Letters(s, i, 3) = name
  /\ \A j \in 0 .. (Len(s) - 1) : j % 3 = 0 /\ j < i => Letters(s, j, 3) # name
SkinsInv ==
  /\ skins \in Seq(SkinLetters) /\ Len(skins) % 3 = 0
  /\ \A g \in given.skins : FirstSkin(skins, g[1], g[2])

LEMMA Thirds ==
  /\ \A i, n \in Nat : i % 3 = 0 /\ n % 3 = 0 /\ i < n => i + 3 <= n
  /\ \A n \in Nat : n % 3 = 0 => (n + 3) % 3 = 0
OBVIOUS

(* The letters of a text stay where they are when some are added behind. *)
LEMMA LettersStay ==
  ASSUME NEW D, NEW s \in Seq(D), NEW t \in Seq(D), Len(t) = 3
  PROVE  /\ s \o t \in Seq(D) /\ Len(s \o t) = Len(s) + 3
         /\ \A i \in Nat : i + 3 <= Len(s) => Letters(s \o t, i, 3) = Letters(s, i, 3)
         /\ Letters(s \o t, Len(s), 3) = t
<1>1. s \o t \in Seq(D) /\ Len(s \o t) = Len(s) + 3 /\ Len(s) \in Nat
  <2>1. s \o t \in Seq(D) /\ Len(s \o t) = Len(s) + Len(t)
    BY ConcatProperties
  <2>2. QED
    BY <2>1
<1>2. ASSUME NEW i \in Nat, i + 3 <= Len(s) PROVE Letters(s \o t, i, 3) = Letters(s, i, 3)
  <2>1. i + 1 \in 1 .. Len(s) /\ i + 3 \in 1 .. Len(s) /\ ~(i + 3 > Len(s)) /\ ~(i + 3 > Len(s \o t))
    BY <1>1, <1>2
  <2>2. SubSeq(s \o t, i + 1, i + 3) = SubSeq(s, i + 1, i + 3)
    BY <2>1, SubSeqOfConcat1
  <2>3. QED
    BY <2>1, <2>2 DEF Letters
<1>3. Letters(s \o t, Len(s), 3) = t
  <2> DEFINE l == Len(s)
             u == Letters(s \o t, l, 3)
  <2>1. /\ l + 1 \in Int /\ l + 3 \in Int /\ l + 3 - (l + 1) + 1 = 3 /\ 1 <= l + 1 /\ ~(l + 3 > Len(s \o t))
        /\ \A i \in 1 .. 3 : (l + 1) + i - 1 = l + i
    BY <1>1
  <2>2. u \in Seq(D) /\ Len(u) = 3 /\ \A i \in 1 .. 3 : u[i] = (s \o t)[l + i]
    BY <1>1, <2>1 DEF Letters
  <2>3. ASSUME NEW i \in 1 .. 3 PROVE (s \o t)[l + i] = t[i]
    <3> DEFINE j == l + i
    <3>1. j \in 1 .. Len(s) + Len(t) /\ ~(j <= Len(s)) /\ j - Len(s) = i
      BY <1>1
    <3> HIDE DEF j
    <3>2. (s \o t)[j] = t[j - Len(s)]
      BY <3>1, ConcatProperties
    <3>3. QED
      BY <3>1, <3>2 DEF j
  <2> HIDE DEF u
  <2>4. u = t
    BY <2>2, <2>3
  <2>5. QED
    BY <2>4 DEF u
<1>4. QED
  BY <1>1, <1>2, <1>3

LEMMA SkinIndexKeeps ==
  ASSUME ThreeLetters, NamesInv, SkinsInv, NEW name \in SkinNames, SkinIndex(name)
  PROVE  SkinsInv' /\ given' \in [names : {given.names}, skins : SUBSET (SkinNames \X Nat)]
         /\ UNCHANGED <<state, strings, dl, playerskin, told>>
<1> DEFINE found == {i \in Offsets(3) : Letters(skins, i, 3) = name}
           n == Len(skins)
<1>1. name \in Seq(SkinLetters) /\ Len(name) = 3
  BY IxAssumption DEF ThreeLetters, SkinLetters
<1>2. /\ UNCHANGED <<state, strings, dl, playerskin, told>>
      /\ IF found # {} THEN given' = [given EXCEPT !.skins = @ \union {<<name, Min(found)>>}] /\ UNCHANGED skins
         ELSE IF n + 3 >= SkinRoom THEN UNCHANGED <<given, skins>>
         ELSE given' = [given EXCEPT !.skins = @ \union {<<name, n>>}] /\ skins' = skins \o name
  BY <1>1 DEF SkinIndex
<1>3. /\ skins \in Seq(SkinLetters) /\ n \in Nat /\ n % 3 = 0
      /\ given \in [names : SUBSET (Lowered \X Nat), skins : SUBSET (SkinNames \X Nat)]
  <2>1. skins \in Seq(SkinLetters) /\ Len(skins) % 3 = 0
    BY DEF SkinsInv
  <2>2. given \in [names : SUBSET (Lowered \X Nat), skins : SUBSET (SkinNames \X Nat)]
    BY DEF NamesInv
  <2>3. QED
    BY <2>1, <2>2
<1>4. found = {i \in 0 .. (n - 1) : i % 3 = 0 /\ Letters(skins, i, 3) = name}
  BY DEF Offsets
<1> HIDE DEF found, n
<1>5. ASSUME NEW i \in Nat, given' = [given EXCEPT !.skins = @ \union {<<name, i>>}]
      PROVE  /\ given' \in [names : {given.names}, skins : SUBSET (SkinNames \X Nat)]
             /\ given'.skins = given.skins \cup {<<name, i>>}
  <2> DEFINE w == given.skins \union {<<name, i>>}
  <2>1. w \in SUBSET (SkinNames \X Nat)
    BY <1>3
  <2>2. given' = [given EXCEPT !.skins = w]
    BY <1>5
  <2> HIDE DEF w
  <2>3. given' \in [names : {given.names}, skins : SUBSET (SkinNames \X Nat)] /\ given'.skins = w
    BY <1>3, <2>1, <2>2
  <2>4. QED
    BY <2>3 DEF w
<1>6. CASE found # {}
  <2> DEFINE i == Min(found)
  <2>1. found \in SUBSET Nat
    BY <1>3, <1>4
  <2>2. i \in found /\ \A j \in found : i <= j
    BY <1>6, <2>1, MinIsLeast
  <2>3. given' = [given EXCEPT !.skins = @ \union {<<name, i>>}] /\ UNCHANGED skins
    BY <1>2, <1>6
  <2> HIDE DEF i
  <2>4. i \in Nat /\ i % 3 = 0 /\ i < n /\ Letters(skins, i, 3) = name
    BY <1>3, <1>4, <2>2
  <2>5. i + 3 <= n
    BY <1>3, <2>4, Thirds
  <2>6. \A j \in 0 .. (n - 1) : j % 3 = 0 /\ j < i => Letters(skins, j, 3) # name
    <3> SUFFICES ASSUME NEW j \in 0 .. (n - 1), j % 3 = 0, j < i, Letters(skins, j, 3) = name PROVE FALSE
      OBVIOUS
    <3>1. j \in found
      BY <1>4
    <3>2. i <= j /\ j \in Nat
      BY <2>2, <3>1
    <3>3. QED
      BY <2>4, <3>2
  <2>7. FirstSkin(skins, name, i)
    BY <2>4, <2>5, <2>6 DEF FirstSkin, n
  <2>8. /\ given' \in [names : {given.names}, skins : SUBSET (SkinNames \X Nat)]
        /\ given'.skins = given.skins \cup {<<name, i>>}
    BY <1>5, <2>3, <2>4
  <2>9. \A g \in given'.skins : FirstSkin(skins, g[1], g[2])
    BY <2>7, <2>8 DEF SkinsInv
  <2>10. SkinsInv'
    BY <1>3, <2>3, <2>9 DEF SkinsInv, FirstSkin, Letters, n
  <2>11. QED
    BY <1>2, <2>8, <2>10
<1>7. CASE found = {} /\ n + 3 >= SkinRoom
  <2>1. UNCHANGED <<given, skins>>
    BY <1>2, <1>7
  <2>2. QED
    BY <1>2, <1>3, <2>1 DEF SkinsInv, FirstSkin, Letters
<1>8. CASE found = {} /\ ~(n + 3 >= SkinRoom)
  <2> DEFINE t == skins \o name
  <2>1. given' = [given EXCEPT !.skins = @ \union {<<name, n>>}] /\ skins' = t
    BY <1>2, <1>8
  <2>2. /\ t \in Seq(SkinLetters) /\ Len(t) = n + 3 /\ Letters(t, n, 3) = name
        /\ \A i \in Nat : i + 3 <= n => Letters(t, i, 3) = Letters(skins, i, 3)
    BY <1>1, <1>3, LettersStay DEF n
  <2>3. Len(t) % 3 = 0
    BY <1>3, <2>2, Thirds
  <2> HIDE DEF t
  <2>4. ASSUME NEW j \in 0 .. (Len(t) - 1), j % 3 = 0, j < n
        PROVE  Letters(t, j, 3) = Letters(skins, j, 3) /\ j \in 0 .. (n - 1)
    <3>1. j \in Nat /\ j + 3 <= n
      BY <1>3, <2>2, <2>4, Thirds
    <3>2. QED
      BY <1>3, <2>2, <3>1
  <2>5. FirstSkin(t, name, n)
    <3>1. \A j \in 0 .. (n - 1) : j % 3 = 0 => Letters(skins, j, 3) # name
      BY <1>4, <1>8
    <3>2. QED
      BY <1>3, <2>2, <2>4, <3>1 DEF FirstSkin
  <2>6. ASSUME NEW g \in given.skins PROVE FirstSkin(t, g[1], g[2])
    <3>1. FirstSkin(skins, g[1], g[2])
      BY DEF SkinsInv
    <3>2. /\ g[2] \in Nat /\ g[2] + 3 <= n /\ g[2] % 3 = 0 /\ Letters(skins, g[2], 3) = g[1]
          /\ \A j \in 0 .. (n - 1) : j % 3 = 0 /\ j < g[2] => Letters(skins, j, 3) # g[1]
      BY <3>1 DEF FirstSkin, n
    <3>3. g[2] + 3 <= Len(t) /\ Letters(t, g[2], 3) = g[1] /\ g[2] < n
      BY <1>3, <2>2, <3>2
    <3>4. ASSUME NEW j \in 0 .. (Len(t) - 1), j % 3 = 0, j < g[2] PROVE Letters(t, j, 3) # g[1]
      <4>1. j < n
        BY <1>3, <3>2, <3>3, <3>4
      <4>2. QED
        BY <2>4, <3>2, <3>4, <4>1
    <3>5. QED
      BY <3>2, <3>3, <3>4 DEF FirstSkin
  <2>7. /\ given' \in [names : {given.names}, skins : SUBSET (SkinNames \X Nat)]
        /\ given'.skins = given.skins \cup {<<name, n>>}
    BY <1>3, <1>5, <2>1
  <2>8. \A g \in given'.skins : FirstSkin(t, g[1], g[2])
    BY <2>5, <2>6, <2>7
  <2>9. SkinsInv'
    BY <2>1, <2>2, <2>3, <2>8 DEF SkinsInv, FirstSkin, Letters
  <2>10. QED
    BY <1>2, <2>7, <2>9
<1>9. QED
  BY <1>6, <1>7, <1>8

(* The place of the first of some letters, 0 if there is none. *)
LEMMA CutIs ==
  ASSUME NEW s \in Seq(STRING), NEW chars
  PROVE  /\ Cut(s, chars) = 0 => \A i \in 1 .. Len(s) : s[i] \notin chars
         /\ Cut(s, chars) # 0 => /\ Cut(s, chars) \in 1 .. Len(s) /\ s[Cut(s, chars)] \in chars
                                 /\ \A i \in 1 .. Len(s) : i < Cut(s, chars) => s[i] \notin chars
         /\ \A n \in 1 .. Len(s) : s[n] \in chars /\ (\A i \in 1 .. Len(s) : i < n => s[i] \notin chars) => Cut(s, chars) = n
<1> DEFINE at == {i \in 1 .. Len(s) : s[i] \in chars}
           c == Min(at)
<1>1. Cut(s, chars) = IF at = {} THEN 0 ELSE c
  BY DEF Cut
<1>2. at \in SUBSET Nat /\ 1 .. Len(s) \subseteq Nat \ {0}
  OBVIOUS
<1>3. at # {} => c \in at /\ \A i \in at : c <= i
  <2> HIDE DEF at
  <2>1. QED
    BY <1>2, MinIsLeast
<1> HIDE DEF c
<1>4. CASE at = {}
  BY <1>1, <1>4
<1>5. CASE at # {}
  <2>1. Cut(s, chars) = c /\ c \in 1 .. Len(s) /\ c \in Nat \ {0} /\ s[c] \in chars /\ \A i \in 1 .. Len(s) : s[i] \in chars => c <= i
    BY <1>1, <1>2, <1>3, <1>5
  <2>2. ASSUME NEW i \in 1 .. Len(s), i < c PROVE s[i] \notin chars
    BY <1>2, <2>1, <2>2
  <2>3. ASSUME NEW n \in 1 .. Len(s), s[n] \in chars, \A i \in 1 .. Len(s) : i < n => s[i] \notin chars PROVE c = n
    BY <1>2, <2>1, <2>3
  <2>4. QED
    BY <2>1, <2>2, <2>3
<1>6. QED
  BY <1>4, <1>5

(* The name of a player that is put before a default is followed by all of it. *)
LEMMA FixedIsWellFormed ==
  ASSUME NEW val \in Seq(STRING)
  PROVE  FixPlayerSkin(val) \in Seq(STRING) /\ WellFormed(FixPlayerSkin(val))
<1> DEFINE B == {"\\"}
           p == PlayerName(val)
           d == DefaultSkin
           t == p \o d
           l == Len(p)
<1>1. val \in Seq(STRING) /\ d \in Seq(STRING)
  BY IxAssumption
<1>2. d # <<>> /\ d[1] \in B /\ Len(d) \in Nat /\ Len(d) >= 1 /\ WellFormed(d)
  BY <1>1, DefaultIsWellFormed
<1>3. p \in Seq(STRING) /\ l \in Nat /\ \A i \in 1 .. l : p[i] \notin B
  <2> DEFINE c == Cut(val, B)
  <2>1. CASE c = 0
    <3>1. p = val
      BY <2>1 DEF PlayerName
    <3>2. QED
      BY <1>1, <2>1, <3>1, CutIs
  <2>2. CASE c # 0
    <3>1. p = SubSeq(val, 1, c - 1)
      BY <2>2 DEF PlayerName
    <3>2. c \in 1 .. Len(val) /\ \A i \in 1 .. Len(val) : i < c => val[i] \notin B
      BY <1>1, <2>2, CutIs
    <3> HIDE DEF c, p, B
    <3>3. c \in Nat /\ 1 .. (c - 1) \subseteq 1 .. Len(val) /\ c - 1 \in Int /\ \A i \in 1 .. (c - 1) : i < c
      BY <1>1, <3>2
    <3>4. \A i \in 1 .. (c - 1) : val[i] \in STRING
      BY <1>1, <3>3
    <3>5. /\ p \in Seq(STRING) /\ Len(p) = IF 1 <= c - 1 THEN c - 1 - 1 + 1 ELSE 0
          /\ \A i \in 1 .. (c - 1 - 1 + 1) : p[i] = val[1 + i - 1]
      BY <3>1, <3>3, <3>4, SubSeqProperties
    <3>6. Len(p) = c - 1 /\ \A i \in 1 .. (c - 1) : p[i] = val[i]
      BY <3>2, <3>3, <3>5
    <3>7. l \in Nat /\ 1 .. l = 1 .. (c - 1)
      BY <3>3, <3>6, <3>2
    <3>8. ASSUME NEW i \in 1 .. (c - 1) PROVE p[i] \notin B
      <4>1. i \in 1 .. Len(val) /\ i < c
        BY <3>3
      <4>2. QED
        BY <3>2, <3>6, <4>1
    <3>9. QED
      BY <3>5, <3>7, <3>8
  <2>3. QED
    BY <2>1, <2>2
<1> HIDE DEF p, B, d
<1>4. /\ t \in Seq(STRING) /\ Len(t) = l + Len(d)
      /\ \A i \in 1 .. l + Len(d) : t[i] = IF i <= l THEN p[i] ELSE d[i - l]
  BY <1>1, <1>3, ConcatProperties
<1> HIDE DEF t
<1>5. Cut(t, B) = l + 1 /\ Cut(d, B) = 1
  <2>1. l + 1 \in 1 .. Len(t) /\ t[l + 1] \in B
    <3> DEFINE j == l + 1
    <3>1. j \in 1 .. l + Len(d) /\ ~(j <= l) /\ j - l = 1
      BY <1>2, <1>3
    <3> HIDE DEF j
    <3>2. t[j] = d[j - l]
      BY <1>4, <3>1
    <3>3. QED
      BY <1>2, <1>4, <3>1, <3>2 DEF j
  <2>2. ASSUME NEW i \in 1 .. Len(t), i < l + 1 PROVE t[i] \notin B
    <3>1. i \in 1 .. l + Len(d) /\ i <= l /\ i \in 1 .. l
      BY <1>2, <1>3, <1>4, <2>2
    <3>2. t[i] = p[i]
      BY <1>4, <3>1
    <3>3. QED
      BY <1>3, <3>1, <3>2
  <2>3. 1 \in 1 .. Len(d) /\ \A i \in 1 .. Len(d) : ~(i < 1)
    BY <1>2
  <2>4. Cut(t, B) = l + 1
    BY <1>4, <2>1, <2>2, CutIs
  <2>5. Cut(d, B) = 1
    BY <1>1, <1>2, <2>3, CutIs
  <2>6. QED
    BY <2>4, <2>5
<1>6. Rest(t) = Rest(d)
  <2> DEFINE u == SubSeq(t, l + 2, Len(t))
             v == SubSeq(d, 2, Len(d))
  <2>1. Rest(t) = u /\ Rest(d) = v
    BY <1>3, <1>5 DEF Rest, B
  <2>2. \A i \in l + 2 .. Len(t) : t[i] \in STRING
    BY <1>3, <1>4
  <2>3. \A i \in 2 .. Len(d) : d[i] \in STRING
    BY <1>1
  <2>4. /\ u \in Seq(STRING) /\ Len(u) = IF l + 2 <= Len(t) THEN Len(t) - (l + 2) + 1 ELSE 0
        /\ \A i \in 1 .. Len(t) - (l + 2) + 1 : u[i] = t[l + 2 + i - 1]
    BY <1>2, <1>3, <1>4, <2>2, SubSeqProperties
  <2>5. /\ v \in Seq(STRING) /\ Len(v) = IF 2 <= Len(d) THEN Len(d) - 2 + 1 ELSE 0
        /\ \A i \in 1 .. Len(d) - 2 + 1 : v[i] = d[2 + i - 1]
    BY <1>2, <2>3, SubSeqProperties
  <2> HIDE DEF u, v
  <2>6. Len(u) = Len(d) - 1 /\ Len(v) = Len(d) - 1
    <3>1. Len(u) = IF l + 2 <= l + Len(d) THEN l + Len(d) - (l + 2) + 1 ELSE 0
      BY <1>4, <2>4
    <3>2. Len(v) = IF 2 <= Len(d) THEN Len(d) - 2 + 1 ELSE 0
      BY <2>5
    <3>3. QED
      <4> DEFINE a == Len(u)
                 b == Len(v)
                 m == Len(d)
      <4> HIDE DEF a, b, m, l
      <4>1. a = IF l + 2 <= l + m THEN l + m - (l + 2) + 1 ELSE 0
        BY <3>1 DEF a, m
      <4>2. b = IF 2 <= m THEN m - 2 + 1 ELSE 0
        BY <3>2 DEF b, m
      <4>3. l \in Nat /\ m \in Nat /\ m >= 1
        BY <1>2, <1>3 DEF m
      <4>4. a = m - 1 /\ b = m - 1
        BY <4>1, <4>2, <4>3
      <4>5. QED
        BY <4>4 DEF a, b, m
  <2>7. ASSUME NEW i \in 1 .. Len(u) PROVE u[i] = v[i]
    <3>1. i \in 1 .. Len(t) - (l + 2) + 1 /\ i \in 1 .. Len(d) - 2 + 1 /\ l + 2 + i - 1 = l + (i + 1) /\ 2 + i - 1 = i + 1
      BY <1>2, <1>3, <1>4, <2>6
    <3> DEFINE j == l + (i + 1)
    <3>2. u[i] = t[j] /\ v[i] = d[i + 1]
      BY <2>4, <2>5, <3>1
    <3>3. j \in 1 .. l + Len(d) /\ ~(j <= l) /\ j - l = i + 1
      BY <1>2, <1>3, <3>1
    <3> HIDE DEF j
    <3>4. t[j] = d[j - l]
      BY <1>4, <3>3
    <3>5. QED
      BY <3>2, <3>3, <3>4
  <2>8. u = v
    BY <2>4, <2>5, <2>6, <2>7, SeqEqual
  <2>9. QED
    BY <2>1, <2>8
<1>7. WellFormed(t)
  <2>1. Cut(t, B) # 0
    BY <1>3, <1>5
  <2>2. QED
    BY <1>2, <1>6, <2>1 DEF WellFormed, B
<1>8. QED
  BY <1>4, <1>7 DEF FixPlayerSkin, t, d, p

IxInv == NamesInv /\ ListInv /\ SkinsInv /\ SkinsParse

LEMMA PlayerSkinParses ==
  ASSUME NEW val \in PlayerSkins
  PROVE  PlayerSkin(val) = <<>> \/ WellFormed(PlayerSkin(val))
<1>1. val \in Seq(STRING)
  BY IxAssumption
<1>2. WellFormed(FixPlayerSkin(val))
  BY <1>1, FixedIsWellFormed
<1>3. QED
  BY <1>2 DEF PlayerSkin

LEMMA IxInitially == IxInit => IxInv
<1> SUFFICES ASSUME IxInit PROVE IxInv
  OBVIOUS
<1>1. /\ state = "loading" /\ strings = [k \in Kinds |-> <<>>] /\ skins = <<>> /\ dl = <<>> /\ playerskin = <<>>
      /\ given = [names |-> {}, skins |-> {}]
  BY DEF IxInit
<1>2. NamesInv
  BY <1>1 DEF NamesInv
<1>3. ListInv
  <2>1. dl \in Seq(Lowered) /\ Len(dl) = 0 /\ ToSet(dl) = {} /\ DlRoom \in Nat
    BY <1>1, IxAssumption DEF ToSet
  <2>2. IsFiniteSet(ToSet(dl)) /\ Cardinality(ToSet(dl)) = 0
    BY <2>1, FS_EmptySet
  <2>3. QED
    BY <1>1, <2>1, <2>2 DEF ListInv, ListOK
<1>4. SkinsInv
  BY <1>1 DEF SkinsInv
<1>5. QED
  BY <1>1, <1>2, <1>3, <1>4 DEF IxInv, SkinsParse

LEMMA IxStep == ASSUME ThreeLetters, IxInv, [IxNext]_ixVars PROVE IxInv'
<1>1. NamesInv /\ ListInv /\ SkinsInv /\ SkinsParse
  BY DEF IxInv
<1>2. CASE \E n \in Names : Index(n)
  <2>1. NamesInv' /\ ListInv' /\ given'.skins = given.skins /\ UNCHANGED <<skins, playerskin>>
    BY <1>1, <1>2, IndexKeeps
  <2>2. SkinsInv'
    BY <1>1, <2>1 DEF SkinsInv, FirstSkin, Letters
  <2>3. SkinsParse'
    BY <1>1, <2>1 DEF SkinsParse
  <2>4. QED
    BY <2>1, <2>2, <2>3 DEF IxInv
<1>3. CASE \E s \in SkinNames : SkinIndex(s)
  <2>1. /\ SkinsInv' /\ given' \in [names : {given.names}, skins : SUBSET (SkinNames \X Nat)]
        /\ UNCHANGED <<state, strings, dl, playerskin, told>>
    BY <1>1, <1>3, SkinIndexKeeps
  <2>2. given.names \in SUBSET (Lowered \X Nat) /\ given'.names = given.names
    BY <1>1, <2>1 DEF NamesInv
  <2>3. NamesInv'
    BY <1>1, <2>1, <2>2 DEF NamesInv, IsFirst
  <2>4. ListInv'
    BY <1>1, <2>1, <2>2 DEF ListInv, ListOK, Wanted, FilesOf, ModelFiles, SoundFiles, ImageFiles
  <2>5. SkinsParse'
    BY <1>1, <2>1 DEF SkinsParse
  <2>6. QED
    BY <2>1, <2>3, <2>4, <2>5 DEF IxInv
<1>4. CASE \E v \in PlayerSkins : SetPlayerSkin(v)
  <2>1. PICK v \in PlayerSkins : SetPlayerSkin(v)
    BY <1>4
  <2>2. playerskin' = PlayerSkin(v) /\ UNCHANGED <<state, strings, skins, dl, told, given>>
    BY <2>1 DEF SetPlayerSkin
  <2>3. SkinsParse'
    BY <2>2, PlayerSkinParses DEF SkinsParse
  <2>4. QED
    BY <1>1, <2>2, <2>3 DEF IxInv, NamesInv, IsFirst, ListInv, ListOK, Wanted, FilesOf, ModelFiles, SoundFiles, ImageFiles,
                            SkinsInv, FirstSkin, Letters
<1>5. CASE Loaded
  <2>1. state' = "game" /\ told' = strings /\ UNCHANGED <<strings, skins, dl, playerskin, given>>
    BY <1>5 DEF Loaded
  <2>2. NamesInv'
    BY <1>1, <2>1 DEF NamesInv, IsFirst
  <2>3. ListInv'
    BY <1>1, <2>1 DEF ListInv, ListOK
  <2>4. SkinsInv' /\ SkinsParse'
    BY <1>1, <2>1 DEF SkinsInv, FirstSkin, Letters, SkinsParse
  <2>5. QED
    BY <2>2, <2>3, <2>4 DEF IxInv
<1>6. CASE UNCHANGED ixVars
  BY <1>1, <1>6 DEF ixVars, IxInv, NamesInv, IsFirst, ListInv, ListOK, Wanted, FilesOf, ModelFiles, SoundFiles, ImageFiles,
                    SkinsInv, FirstSkin, Letters, SkinsParse
<1>7. QED
  BY <1>2, <1>3, <1>4, <1>5, <1>6 DEF IxNext

LEMMA IxInvImplies == ASSUME ThreeLetters, IxInv PROVE NumbersAreKept
<1>1. NamesInv /\ ListInv /\ SkinsInv /\ SkinsParse
  BY DEF IxInv
<1>2. NumbersStand
  <2>1. ASSUME NEW g \in given.names PROVE strings[Kind[g[1]]][g[2]] = g[1]
    BY <1>1 DEF NamesInv, IsFirst
  <2>2. ASSUME NEW g \in given.names, NEW h \in given.names, h[1] = g[1] PROVE h[2] = g[2]
    <3> DEFINE s == strings[Kind[g[1]]]
    <3>1. s \in Seq(Lowered) /\ IsFirst(s, g[1], g[2]) /\ IsFirst(s, g[1], h[2])
      BY <1>1, <2>2 DEF NamesInv
    <3> HIDE DEF s
    <3>2. h[2] = Place(g[1], s) /\ g[2] = Place(g[1], s)
      BY <3>1, PlaceIs
    <3>3. QED
      BY <3>2
  <2>3. QED
    BY <1>1, <2>1, <2>2 DEF NumbersStand, NamesInv
<1>3. SkinsAreWhole
  <2>1. ASSUME NEW g \in given.skins PROVE FirstSkin(skins, g[1], g[2]) /\ Len(g[1]) = 3
    <3>1. g[1] \in SkinNames
      BY <1>1 DEF NamesInv
    <3>2. QED
      BY <1>1, <3>1 DEF SkinsInv, ThreeLetters
  <2>2. ASSUME NEW g \in given.skins, NEW h \in given.skins, h[1] = g[1] PROVE h[2] = g[2]
    <3> DEFINE i == g[2]
               j == h[2]
               n == g[1]
    <3>1. FirstSkin(skins, n, i) /\ FirstSkin(skins, n, j) /\ Len(skins) \in Nat
      BY <1>1, <2>1, <2>2 DEF SkinsInv
    <3> HIDE DEF i, j, n
    <3>2. /\ i \in Nat /\ j \in Nat /\ i % 3 = 0 /\ j % 3 = 0 /\ i \in 0 .. (Len(skins) - 1) /\ j \in 0 .. (Len(skins) - 1)
          /\ Letters(skins, i, 3) = n /\ Letters(skins, j, 3) = n
      BY <3>1 DEF FirstSkin
    <3>3. ~(j < i) /\ ~(i < j)
      BY <3>1, <3>2 DEF FirstSkin
    <3>4. i = j
      BY <3>2, <3>3
    <3>5. QED
      BY <3>4 DEF i, j
  <2>3. QED
    BY <2>1, <2>2 DEF SkinsAreWhole, FirstSkin
<1>4. ListIsComplete
  <2>1. \A f : Contains(dl, f) <=> f \in ToSet(dl)
    BY DEF Contains, ToSet
  <2>2. QED
    BY <1>1, <2>1 DEF ListIsComplete, ListInv, ListOK, Needs, Wanted
<1>5. QED
  BY <1>1, <1>2, <1>3, <1>4 DEF NumbersAreKept

(* NumbersAreKept holds: whatever the game asks for, in any order, while the level loads and after, a number *)
(* or the offset of a skin stands for one name, here and at the clients, what players lack is on the list of *)
(* downloads once (SV_FindIndex, DownloadIndex, SV_SkinIndex), and a player's skin can be taken apart         *)
(* (PF_Configstring).                                                                                      *)
THEOREM NumbersStandForNames == ASSUME ThreeLetters PROVE IxSpec => []NumbersAreKept
<1>1. IxInit => IxInv
  BY IxInitially
<1>2. IxInv /\ [IxNext]_ixVars => IxInv'
  BY IxStep
<1>3. IxInv => NumbersAreKept
  BY IxInvImplies
<1>4. QED
  BY <1>1, <1>2, <1>3, PTL DEF IxSpec

-----------------------------------------------------------------------------
(* Zone *)

(* What holds at 0 and from one number to the next holds up to N.           *)
LEMMA ByInduction ==
  ASSUME NEW N \in Nat, NEW P \in [0 .. N -> BOOLEAN], P[0], \A i \in 1 .. N : P[i-1] => P[i]
  PROVE  \A i \in 0 .. N : P[i]
<1> DEFINE Bad == {i \in 0 .. N : ~P[i]}
<1>1. SUFFICES ASSUME Bad # {} PROVE FALSE
  OBVIOUS
<1>2. Bad \in SUBSET Nat
  OBVIOUS
<1>3. PICK i \in Bad : \A j \in Bad : i <= j
  <2> HIDE DEF Bad
  <2>1. QED
    BY <1>1, <1>2, MinIsLeast
<1>4. i \in 1 .. N /\ ~P[i] /\ i - 1 \in 0 .. N /\ ~(i <= i - 1)
  BY <1>3
<1>5. P[i-1]
  BY <1>3, <1>4
<1>6. QED
  BY <1>4, <1>5

Places_ == Addr \cup {ZChain}
Blocks == [tag : Tags, size : Nat, debug : BOOLEAN, guard : BOOLEAN, tail : BOOLEAN]
Ends == {"none", "corruption", "overrun", "size", "magic", "zero", "unknown", "corrupted"}
Heaps == [next : [Places_ -> Places_], prev : [Places_ -> Places_], live : SUBSET Addr, count : Int, bytes : Int,
          block : [Addr -> Blocks], locs : Seq(Addr), err : Ends]

(* The ring, from z_chain through all blocks and back to it; the first block of all is last. *)
Ring(z, r, n) ==
  /\ n = Cardinality(z.live) /\ n \in Nat /\ n > 0
  /\ r \in [0 .. n + 1 -> Places_] /\ r[0] = ZChain /\ r[n + 1] = ZChain /\ r[n] = Oldest
  /\ \A i \in 1 .. n : r[i] \in z.live
  /\ \A a \in z.live : \E i \in 1 .. n : r[i] = a
  /\ \A i, j \in 1 .. n : r[i] = r[j] => i = j
  /\ \A i \in 0 .. n : z.next[r[i]] = r[i + 1] /\ z.prev[r[i + 1]] = r[i]
(* What its blocks add up to, one after the other. *)
Sums(z, r, s, n) ==
  /\ s \in [0 .. n -> Int] /\ s[0] = 0 /\ z.bytes = s[n]
  /\ \A i \in 1 .. n : s[i] = s[i-1] + z.block[r[i]].size

LEMMA RingApart ==
  ASSUME NEW z \in Heaps, NEW r, NEW n, Ring(z, r, n)
  PROVE  /\ \A i, j \in 0 .. n : r[i] = r[j] => i = j
         /\ \A i, j \in 1 .. n + 1 : r[i] = r[j] => i = j
         /\ \A i \in 1 .. n : r[i] \in Addr /\ r[i] # ZChain
<1>1. /\ n \in Nat /\ r[0] = ZChain /\ r[n + 1] = ZChain /\ \A i \in 1 .. n : r[i] \in z.live
      /\ \A i, j \in 1 .. n : r[i] = r[j] => i = j
  BY DEF Ring
<1>2. z.live \subseteq Addr
  BY DEF Heaps
<1>3. \A i \in 1 .. n : r[i] \in Addr /\ r[i] # ZChain
  BY <1>1, <1>2, ZoneAssumption
<1>4. \A i \in 0 .. n : i = 0 \/ i \in 1 .. n
  BY <1>1
<1>5. \A i \in 1 .. n + 1 : i = n + 1 \/ i \in 1 .. n
  BY <1>1
<1>6. QED
  BY <1>1, <1>3, <1>4, <1>5

(* Following links is following the ring. *)
Follows(link, n, r) == r[0] = ZChain /\ \A i \in 1 .. n : link[r[i-1]] = r[i]

LEMMA WalkIs ==
  ASSUME NEW link, NEW n \in Nat, NEW r, Follows(link, n, r)
  PROVE  Walk(link, n) = [i \in 1 .. n |-> r[i]]
<1>0. r[0] = ZChain /\ \A i \in 1 .. n : link[r[i-1]] = r[i]
  BY DEF Follows
<1> DEFINE Body(h) == [i \in 0 .. n |-> IF i = 0 THEN ZChain ELSE link[h[i-1]]]
           f == [i \in 0 .. n |-> r[i]]
           g == CHOOSE h : h = Body(h)
<1>1. f = Body(f)
  <2>1. ASSUME NEW i \in 0 .. n PROVE f[i] = IF i = 0 THEN ZChain ELSE link[f[i-1]]
    <3>1. i # 0 => i \in 1 .. n /\ i - 1 \in 0 .. n
      OBVIOUS
    <3>2. QED
      BY <1>0, <3>1
  <2>2. QED
    BY <2>1
<1>2. g = Body(g)
  <2> HIDE DEF f, Body
  <2>1. QED
    BY <1>1
<1>3. Walk(link, n) = [i \in 1 .. n |-> g[i]]
  BY DEF Walk
<1> HIDE DEF g
<1>4. \A i \in 0 .. n : g[i] = IF i = 0 THEN ZChain ELSE link[g[i-1]]
  BY <1>2
<1>5. \A i \in 0 .. n : g[i] = r[i]
  <2> DEFINE P == [i \in 0 .. n |-> g[i] = r[i]]
  <2>0. 0 \in 0 .. n
    OBVIOUS
  <2>1. P[0]
    BY <1>0, <1>4, <2>0
  <2>2. ASSUME NEW i \in 1 .. n, P[i-1] PROVE P[i]
    <3>1. i \in 0 .. n /\ i - 1 \in 0 .. n /\ i # 0
      OBVIOUS
    <3>2. g[i-1] = r[i-1]
      BY <2>2, <3>1
    <3>3. g[i] = link[g[i-1]]
      BY <1>4, <3>1
    <3>4. QED
      BY <1>0, <3>1, <3>2, <3>3
  <2>3. P \in [0 .. n -> BOOLEAN]
    OBVIOUS
  <2>4. \A i \in 0 .. n : P[i]
    <3> HIDE DEF P
    <3>1. QED
      BY <2>1, <2>2, <2>3, ByInduction
  <2>5. QED
    BY <2>4
<1>6. QED
  BY <1>3, <1>5

LEMMA RoomForAll ==
  ASSUME NEW z \in Heaps
  PROVE  IsFiniteSet(z.live) /\ Cardinality(z.live) \in Nat /\ Cardinality(Addr) \in Nat
         /\ Cardinality(z.live) <= Cardinality(Addr)
<1>1. z.live \in SUBSET Addr
  BY DEF Heaps
<1>2. IsFiniteSet(Addr)
  BY ZoneAssumption
<1>3. QED
  BY <1>1, <1>2, FS_Subset, FS_CardinalityType

LEMMA ChainIs ==
  ASSUME NEW z \in Heaps, NEW r, NEW n, Ring(z, r, n)
  PROVE  Chain(z) = [i \in 1 .. n |-> r[i]] /\ Len(Chain(z)) = n /\ ToSet(Chain(z)) = z.live
<1> DEFINE N == Cardinality(Addr) + 1
           w == Walk(z.next, N)
           at == {i \in 1 .. Len(w) : w[i] = ZChain}
<1>1. /\ n \in Nat /\ n > 0 /\ n + 1 <= N /\ N \in Nat /\ r[0] = ZChain /\ r[n + 1] = ZChain
      /\ \A i \in 0 .. n : z.next[r[i]] = r[i + 1]
  <2>1. n = Cardinality(z.live) /\ n \in Nat /\ n > 0 /\ r[0] = ZChain /\ r[n + 1] = ZChain
    BY DEF Ring
  <2>2. Cardinality(Addr) \in Nat /\ Cardinality(z.live) <= Cardinality(Addr)
    BY RoomForAll
  <2>3. \A i \in 0 .. n : z.next[r[i]] = r[i + 1]
    BY DEF Ring
  <2>4. QED
    BY <2>1, <2>2, <2>3
<1> DEFINE link == z.next
           Body(h) == [i \in 0 .. N |-> IF i = 0 THEN ZChain ELSE link[h[i-1]]]
           e == SubSeq(w, 1, n)
<1>2. w \in Seq(Places_) /\ Len(w) = N /\ \A i \in 1 .. n + 1 : w[i] = r[i]
  <2>1. z.next \in [Places_ -> Places_]
    BY DEF Heaps
  <2> DEFINE D == Places_
             st == [i \in 1 .. N |-> z.next]
  <2>2. st \in [1 .. N -> [D -> D]] /\ ZChain \in D
    BY <2>1 DEF Places_
  <2>3. PICK f : Recurs(f, N, D, ZChain, st)
    <3> HIDE DEF st, D, N
    <3>1. QED
      BY <1>1, <2>2, Recursion
  <2>4. f \in [0 .. N -> Places_] /\ f[0] = ZChain /\ \A i \in 1 .. N : f[i] = z.next[f[i-1]]
    BY <2>3 DEF Recurs
  <2>5. w = [i \in 1 .. N |-> f[i]]
    <3> HIDE DEF N
    <3>1. \A i \in 1 .. N : link[f[i-1]] = f[i]
      BY <2>4
    <3>2. Walk(link, N) = [i \in 1 .. N |-> f[i]]
      <4> HIDE DEF link
      <4>1. N \in Nat
        BY <1>1
      <4>2. f[0] = ZChain
        BY <2>4
      <4>3. Follows(link, N, f)
        BY <4>2, <3>1 DEF Follows
      <4>4. QED
        BY <4>1, <4>3, WalkIs
    <3>3. QED
      BY <3>2
  <2>6. \A i \in 0 .. n + 1 : f[i] = r[i]
    <3> DEFINE P == [i \in 0 .. n + 1 |-> f[i] = r[i]]
    <3>0. 0 \in 0 .. n + 1
      BY <1>1
    <3>1. P[0]
      BY <1>1, <2>4, <3>0
    <3>2. ASSUME NEW i \in 1 .. n + 1, P[i-1] PROVE P[i]
      <4>1. i \in 0 .. n + 1 /\ i - 1 \in 0 .. n /\ i - 1 \in 0 .. n + 1 /\ i \in 1 .. N /\ (i - 1) + 1 = i
        BY <1>1
      <4>2. f[i-1] = r[i-1]
        BY <3>2, <4>1
      <4>3. f[i] = z.next[r[i-1]] /\ z.next[r[i-1]] = r[(i - 1) + 1]
        BY <1>1, <2>4, <4>1, <4>2
      <4>4. QED
        BY <4>1, <4>3
    <3>3. P \in [0 .. n + 1 -> BOOLEAN] /\ n + 1 \in Nat
      BY <1>1
    <3>4. \A i \in 0 .. n + 1 : P[i]
      <4> HIDE DEF P
      <4>1. QED
        BY <3>1, <3>2, <3>3, ByInduction
    <3>5. QED
      BY <3>4
  <2>7. \A i \in 1 .. N : f[i] \in Places_
    BY <2>4
  <2> HIDE DEF N, w
  <2>8. w \in Seq(Places_) /\ Len(w) = N
    BY <1>1, <2>5, <2>7
  <2>9. ASSUME NEW i \in 1 .. n + 1 PROVE w[i] = r[i]
    <3>1. i \in 1 .. N /\ i \in 0 .. n + 1
      BY <1>1
    <3>2. QED
      BY <2>5, <2>6, <3>1
  <2>10. QED
    BY <2>8, <2>9
<1>3. Chain(z) = SubSeq(w, 1, (IF (IF at # {} THEN Min(at) ELSE 0) = 0 THEN Len(w) ELSE (IF at # {} THEN Min(at) ELSE 0)) - 1)
  BY DEF Chain, SelectInSeq
<1> HIDE DEF w, N
<1>4. n + 1 \in at /\ \A i \in at : n + 1 <= i
  <2>1. n + 1 \in 1 .. Len(w) /\ w[n + 1] = ZChain
    <3> DEFINE k == n + 1
    <3>1. k \in 1 .. n + 1 /\ k \in 1 .. Len(w) /\ r[k] = ZChain
      BY <1>1, <1>2
    <3> HIDE DEF k
    <3>2. w[k] = ZChain
      BY <1>2, <3>1
    <3>3. QED
      BY <3>1, <3>2 DEF k
  <2>2. ASSUME NEW i \in 1 .. n PROVE w[i] # ZChain
    <3>1. i \in 1 .. n + 1
      BY <1>1
    <3>2. QED
      BY <1>2, <3>1, RingApart
  <2>3. QED
    BY <1>1, <2>1, <2>2
<1>5. Min(at) = n + 1
  <2>1. at \in SUBSET Nat /\ at # {}
    BY <1>2, <1>4
  <2>2. Min(at) \in at /\ \A i \in at : Min(at) <= i
    <3> HIDE DEF at
    <3>1. QED
      BY <2>1, MinIsLeast
  <2>3. Min(at) <= n + 1 /\ n + 1 <= Min(at) /\ Min(at) \in Nat
    <3> HIDE DEF at
    <3>1. QED
      BY <1>4, <2>1, <2>2
  <2>4. QED
    BY <1>1, <2>3
<1>6. Chain(z) = SubSeq(w, 1, n)
  <2> DEFINE m == Min(at)
             k == IF (IF at # {} THEN m ELSE 0) = 0 THEN Len(w) ELSE (IF at # {} THEN m ELSE 0)
  <2>1. at # {}
    BY <1>4
  <2>2. m = n + 1 /\ m # 0
    BY <1>1, <1>5
  <2> HIDE DEF m, at
  <2>3. k - 1 = n
    BY <1>1, <2>1, <2>2
  <2>4. Chain(z) = SubSeq(w, 1, k - 1)
    BY <1>3 DEF m
  <2> HIDE DEF k
  <2>5. QED
    BY <2>3, <2>4
<1>7. e \in Seq(Places_) /\ Len(e) = n /\ \A i \in 1 .. n : e[i] = r[i]
  <2>1. n <= Len(w) /\ 1 \in Int
    BY <1>1, <1>2
  <2>2. e \in Seq(Places_) /\ Len(e) = n /\ \A i \in 1 .. n : e[i] = w[i]
    BY <1>1, <1>2, <2>1
  <2>3. \A i \in 1 .. n : i \in 1 .. n + 1
    BY <1>1
  <2> HIDE DEF e
  <2>4. QED
    BY <1>2, <2>2, <2>3
<1> HIDE DEF e
<1>8. e = [i \in 1 .. n |-> r[i]]
  BY <1>7
<1>9. ToSet(e) = z.live
  <2>1. DOMAIN e = 1 .. n
    BY <1>8
  <2>2. (\A i \in 1 .. n : r[i] \in z.live) /\ \A a \in z.live : \E i \in 1 .. n : r[i] = a
    BY DEF Ring
  <2>3. \A i \in 1 .. n : e[i] = r[i]
    BY <1>7
  <2>4. ToSet(e) = {e[i] : i \in 1 .. n}
    BY <2>1 DEF ToSet
  <2>5. {e[i] : i \in 1 .. n} = {r[i] : i \in 1 .. n}
    BY <2>3
  <2>6. {r[i] : i \in 1 .. n} = z.live
    BY <2>2
  <2>7. QED
    BY <2>4, <2>5, <2>6
<1>10. QED
  BY <1>6, <1>7, <1>8, <1>9 DEF e


(* The memory as the server keeps it; `res`: a guard may be lost, `wr`: what the game wrote over. *)
Sound(z, res, wr) ==
  /\ Alive(z) /\ z.count = Cardinality(z.live)
  /\ \E r, s, n : Ring(z, r, n) /\ Sums(z, r, s, n)
  /\ z.block[Oldest].tag = "server"
  /\ \A a \in z.live : ~res /\ z.block[a].debug => z.block[a].guard
  /\ wr \subseteq z.live
  /\ \A a \in z.live : a \in wr <=> ~z.block[a].tail
  /\ \A a \in wr : z.block[a].tag # "server"
(* Why the program may have ended: a size of nothing, a guard lost by a resize, or the game. *)
Fair(z, res, wr) ==
  \/ z.err = "size" \/ z.err = "zero"
  \/ (z.err = "overrun" /\ res)
  \/ (z.err = "corrupted" /\ wr # {})
(* What an operation leaves: the memory as it should be, or a reason to end. *)
After(z, res, wr) == z \in Heaps /\ (Alive(z) => Sound(z, res, wr)) /\ (~Alive(z) => Fair(z, res, wr))

LEMMA DieIs ==
  ASSUME NEW z \in Heaps, NEW why \in Ends
  PROVE  Die(z, why) \in Heaps /\ Die(z, why).err = why
<1>1. z = [next |-> z.next, prev |-> z.prev, live |-> z.live, count |-> z.count, bytes |-> z.bytes,
           block |-> z.block, locs |-> z.locs, err |-> z.err]
  BY DEF Heaps
<1>2. QED
  BY <1>1 DEF Heaps, Die

LEMMA VerifyTypes == ASSUME NEW z \in Heaps PROVE Verify(z) \in Heaps
<1>1. "corruption" \in Ends /\ "overrun" \in Ends
  BY DEF Ends
<1>2. Verify(z) = z \/ Verify(z) = Die(z, "corruption") \/ Verify(z) = Die(z, "overrun")
  BY DEF Verify
<1>3. QED
  BY <1>1, <1>2, DieIs

LEMMA VerifyIs ==
  ASSUME NEW z \in Heaps, NEW res \in BOOLEAN, NEW wr, Sound(z, res, wr)
  PROVE  /\ Verify(z) \in Heaps
         /\ Verify(z) = z \/ (Verify(z).err = "overrun" /\ res)
<1>1. PICK r, s, n : Ring(z, r, n)
  BY DEF Sound
<1>2. ToSet(Chain(z)) = z.live
  BY <1>1, ChainIs
<1>3. Alive(z) /\ \A a \in z.live : ~res /\ z.block[a].debug => z.block[a].guard
  BY DEF Sound
<1>4. Verify(z) = z \/ (Verify(z) = Die(z, "overrun") /\ res)
  BY <1>2, <1>3 DEF Verify
<1>5. "overrun" \in Ends
  BY DEF Ends
<1>6. QED
  BY <1>4, <1>5, VerifyTypes, DieIs

LEMMA Verified ==
  ASSUME NEW z \in Heaps, NEW res \in BOOLEAN, NEW wr, Sound(z, res, wr)
  PROVE  After(Verify(z), res, wr) /\ (Alive(Verify(z)) => Verify(z) = z)
<1>1. Verify(z) \in Heaps /\ (Verify(z) = z \/ (Verify(z).err = "overrun" /\ res))
  BY VerifyIs
<1>2. QED
  BY <1>1 DEF After, Fair, Alive, Sound

LEMMA OldestLives ==
  ASSUME NEW z \in Heaps, NEW res, NEW wr, Sound(z, res, wr)
  PROVE  Oldest \in z.live
BY DEF Sound, Ring

Fresh(b) == b.tail /\ b.guard
(* A block of the heap is put at the front of the ring. *)
LinkedAt(z, a, b, y) ==
  /\ y \in Heaps /\ y.live = z.live \cup {a} /\ y.block = [z.block EXCEPT ![a] = b] /\ y.locs = z.locs /\ y.err = z.err
  /\ y.count = z.count + 1 /\ y.bytes = z.bytes + b.size
  /\ y.next = [[z.next EXCEPT ![a] = z.next[ZChain]] EXCEPT ![ZChain] = a]
  /\ y.prev = [[z.prev EXCEPT ![a] = ZChain] EXCEPT ![z.next[ZChain]] = a]
LEMMA LinkInTypes ==
  ASSUME NEW z \in Heaps, NEW a \in Addr, NEW b \in Blocks, NEW y, y = LinkIn(z, a, b)
  PROVE  LinkedAt(z, a, b, y)
<1> DEFINE nx == [[z.next EXCEPT ![a] = z.next[ZChain]] EXCEPT ![ZChain] = a]
           pv == [[z.prev EXCEPT ![a] = ZChain] EXCEPT ![z.next[ZChain]] = a]
           bl == [z.block EXCEPT ![a] = b]
<1>1. z = [next |-> z.next, prev |-> z.prev, live |-> z.live, count |-> z.count, bytes |-> z.bytes,
           block |-> z.block, locs |-> z.locs, err |-> z.err]
      /\ z.next \in [Places_ -> Places_] /\ z.prev \in [Places_ -> Places_] /\ z.live \in SUBSET Addr
      /\ z.count \in Int /\ z.bytes \in Int /\ z.block \in [Addr -> Blocks] /\ z.locs \in Seq(Addr) /\ z.err \in Ends
  BY DEF Heaps
<1>2. a \in Places_ /\ ZChain \in Places_ /\ z.next[ZChain] \in Places_ /\ b.size \in Int
  BY <1>1 DEF Places_, Blocks
<1>3. nx \in [Places_ -> Places_]
  BY <1>1, <1>2
<1>4. pv \in [Places_ -> Places_]
  BY <1>1, <1>2
<1>5. bl \in [Addr -> Blocks]
  BY <1>1
<1>6. y = [next |-> nx, prev |-> pv, live |-> z.live \cup {a}, count |-> z.count + 1,
                         bytes |-> z.bytes + b.size, block |-> bl, locs |-> z.locs, err |-> z.err]
  BY <1>1 DEF LinkIn
<1>7. z.live \cup {a} \in SUBSET Addr /\ z.count + 1 \in Int /\ z.bytes + b.size \in Int
  BY <1>1, <1>2
<1> HIDE DEF nx, pv, bl
<1>8. y \in Heaps
  BY <1>1, <1>3, <1>4, <1>5, <1>6, <1>7 DEF Heaps
<1>9. QED
  BY <1>6, <1>8 DEF nx, pv, bl, LinkedAt

LEMMA LinkedIn ==
  ASSUME NEW z \in Heaps, NEW r, NEW s, NEW n, Ring(z, r, n), Sums(z, r, s, n), NEW a \in Addr \ z.live, NEW b \in Blocks,
         NEW y \in Heaps, y = LinkIn(z, a, b)
  PROVE  (\E q, t : Ring(y, q, n + 1) /\ Sums(y, q, t, n + 1)) /\ Cardinality(y.live) = Cardinality(z.live) + 1
<1> DEFINE q == [i \in 0 .. n + 2 |-> IF i = 0 THEN ZChain ELSE IF i = 1 THEN a ELSE r[i-1]]
           t == [i \in 0 .. n + 1 |-> IF i = 0 THEN 0 ELSE b.size + s[i-1]]
<1>1. /\ n = Cardinality(z.live) /\ n \in Nat /\ n > 0
      /\ r \in [0 .. n + 1 -> Places_] /\ r[0] = ZChain /\ r[n + 1] = ZChain /\ r[n] = Oldest
      /\ \A i \in 1 .. n : r[i] \in z.live
      /\ \A x \in z.live : \E i \in 1 .. n : r[i] = x
      /\ \A i, j \in 1 .. n : r[i] = r[j] => i = j
      /\ \A i \in 0 .. n : z.next[r[i]] = r[i + 1] /\ z.prev[r[i + 1]] = r[i]
  BY DEF Ring
<1>2. /\ s \in [0 .. n -> Int] /\ s[0] = 0 /\ z.bytes = s[n]
      /\ \A i \in 1 .. n : s[i] = s[i-1] + z.block[r[i]].size
  BY DEF Sums
<1>3. /\ y.live = z.live \cup {a} /\ y.block = [z.block EXCEPT ![a] = b] /\ y.bytes = z.bytes + b.size
      /\ y.next = [[z.next EXCEPT ![a] = z.next[ZChain]] EXCEPT ![ZChain] = a]
      /\ y.prev = [[z.prev EXCEPT ![a] = ZChain] EXCEPT ![z.next[ZChain]] = a]
  BY LinkInTypes DEF LinkedAt
<1>4. /\ z.next \in [Places_ -> Places_] /\ z.prev \in [Places_ -> Places_] /\ z.live \subseteq Addr
      /\ z.block \in [Addr -> Blocks] /\ a \in Places_ /\ ZChain \in Places_ /\ a # ZChain /\ b.size \in Int /\ a \notin z.live
  BY ZoneAssumption DEF Heaps, Places_, Blocks
<1>5. Cardinality(y.live) = n + 1 /\ n + 1 \in Nat
  <2>1. IsFiniteSet(z.live) /\ a \notin z.live
    BY <1>4, RoomForAll
  <2>2. Cardinality(z.live \cup {a}) = Cardinality(z.live) + 1
    BY <2>1, FS_AddElement
  <2>3. QED
    BY <1>1, <1>3, <2>2
<1>6. /\ \A i, j \in 0 .. n : r[i] = r[j] => i = j
      /\ \A i, j \in 1 .. n + 1 : r[i] = r[j] => i = j
      /\ \A i \in 1 .. n : r[i] \in Addr /\ r[i] # ZChain
  BY RingApart
<1>7. /\ q \in [0 .. n + 2 -> Places_] /\ q[0] = ZChain /\ q[1] = a
      /\ \A i \in 2 .. n + 2 : q[i] = r[i-1] /\ i - 1 \in 1 .. n + 1
  <2>1. \A i \in 0 .. n + 2 : i # 0 => i - 1 \in 0 .. n + 1
    BY <1>1
  <2>2. 0 \in 0 .. n + 2 /\ 1 \in 0 .. n + 2 /\ \A i \in 2 .. n + 2 : i \in 0 .. n + 2 /\ i # 0 /\ i # 1 /\ i - 1 \in 1 .. n + 1
    BY <1>1
  <2>3. q \in [0 .. n + 2 -> Places_]
    BY <1>1, <1>4, <2>1
  <2>4. QED
    BY <2>2, <2>3
<1> HIDE DEF q
<1>8. q[n + 2] = ZChain /\ q[n + 1] = Oldest
  <2>1. n + 2 \in 2 .. n + 2 /\ n + 1 \in 2 .. n + 2 /\ (n + 2) - 1 = n + 1 /\ (n + 1) - 1 = n
    BY <1>1
  <2>2. QED
    BY <1>1, <1>7, <2>1
<1>9. \A i \in 1 .. n + 1 : i = 1 \/ (i \in 2 .. n + 2 /\ i - 1 \in 1 .. n)
  BY <1>1
<1>10. \A i \in 1 .. n + 1 : q[i] \in y.live
  BY <1>1, <1>3, <1>7, <1>9
<1>11. ASSUME NEW x \in y.live PROVE \E i \in 1 .. n + 1 : q[i] = x
  <2>1. CASE x = a
    <3>1. 1 \in 1 .. n + 1
      BY <1>1
    <3>2. QED
      BY <1>7, <2>1, <3>1
  <2>2. CASE x # a
    <3>1. PICK i \in 1 .. n : r[i] = x
      BY <1>1, <1>3, <2>2
    <3>2. i + 1 \in 2 .. n + 2 /\ (i + 1) - 1 = i /\ i + 1 \in 1 .. n + 1
      BY <1>1
    <3>3. q[i + 1] = x
      BY <1>7, <3>1, <3>2
    <3>4. QED
      BY <3>2, <3>3
  <2>3. QED
    BY <2>1, <2>2
<1>12. ASSUME NEW i \in 1 .. n + 1, NEW j \in 1 .. n + 1, q[i] = q[j] PROVE i = j
  <2>1. CASE i = 1 /\ j # 1
    BY <1>1, <1>4, <1>7, <1>9, <1>12, <2>1
  <2>2. CASE j = 1 /\ i # 1
    BY <1>1, <1>4, <1>7, <1>9, <1>12, <2>2
  <2>3. CASE i # 1 /\ j # 1
    <3>1. i - 1 \in 1 .. n /\ j - 1 \in 1 .. n /\ q[i] = r[i-1] /\ q[j] = r[j-1]
      BY <1>7, <1>9, <2>3
    <3>2. i - 1 = j - 1
      <4>1. \A k, l \in 1 .. n : r[k] = r[l] => k = l
        BY <1>1
      <4>2. r[i-1] = r[j-1]
        BY <1>12, <3>1
      <4>3. QED
        BY <3>1, <4>1, <4>2
    <3>3. QED
      BY <3>2
  <2>4. QED
    BY <2>1, <2>2, <2>3
<1>13. z.next[ZChain] = r[1] /\ r[1] # a /\ r[1] # ZChain /\ r[1] \in Places_
  <2>1. 0 \in 0 .. n /\ 0 + 1 = 1 /\ 1 \in 1 .. n
    BY <1>1
  <2>2. z.next[r[0]] = r[0 + 1]
    BY <1>1, <2>1
  <2>3. QED
    BY <1>1, <1>4, <1>6, <2>1, <2>2 DEF Places_
<1>14. ASSUME NEW i \in 0 .. n + 1 PROVE y.next[q[i]] = q[i + 1] /\ y.prev[q[i + 1]] = q[i]
  <2>1. CASE i = 0
    <3>1. q[i] = ZChain /\ q[i + 1] = a
      BY <1>7, <2>1
    <3>2. y.next[ZChain] = a
      BY <1>3, <1>4
    <3>3. y.prev[a] = ZChain
      BY <1>3, <1>4, <1>13
    <3>4. QED
      BY <3>1, <3>2, <3>3
  <2>2. CASE i = 1
    <3>1. 2 \in 2 .. n + 2 /\ i + 1 = 2 /\ 2 - 1 = 1
      BY <1>1, <2>2
    <3>2. q[i] = a /\ q[i + 1] = r[1]
      BY <1>7, <2>2, <3>1
    <3>3. y.next[a] = r[1]
      BY <1>3, <1>4, <1>13
    <3>4. y.prev[r[1]] = a
      BY <1>3, <1>4, <1>13
    <3>5. QED
      BY <3>2, <3>3, <3>4
  <2>3. CASE i # 0 /\ i # 1
    <3> DEFINE j == i - 1
    <3>1. i \in 2 .. n + 2 /\ i + 1 \in 2 .. n + 2 /\ j \in 1 .. n /\ (i + 1) - 1 = j + 1 /\ j + 1 \in 1 .. n + 1 /\ j \in 0 .. n
           /\ 1 \in 1 .. n + 1 /\ j + 1 # 1
      BY <1>1, <2>3
    <3>2. q[i] = r[j] /\ q[i + 1] = r[j + 1]
      BY <1>7, <3>1
    <3> HIDE DEF j
    <3>3. z.next[r[j]] = r[j + 1] /\ z.prev[r[j + 1]] = r[j]
      BY <1>1, <3>1
    <3>4. r[j] \in z.live /\ r[j] # a /\ r[j] # ZChain /\ r[j] \in Places_
      BY <1>1, <1>4, <1>6, <3>1 DEF Places_
    <3>5. r[j + 1] # a /\ r[j + 1] # r[1] /\ r[j + 1] \in Places_
      <4>1. r[j + 1] # r[1]
        BY <1>6, <3>1
      <4>2. j + 1 = n + 1 \/ j + 1 \in 1 .. n
        BY <1>1, <3>1
      <4>3. r[j + 1] \in Places_ /\ r[j + 1] # a
        BY <1>1, <1>4, <4>2 DEF Places_
      <4>4. QED
        BY <4>1, <4>3
    <3>6. y.next[r[j]] = z.next[r[j]]
      BY <1>3, <1>4, <3>4
    <3>7. y.prev[r[j + 1]] = z.prev[r[j + 1]]
      BY <1>3, <1>4, <1>13, <3>5
    <3>8. QED
      BY <3>2, <3>3, <3>6, <3>7
  <2>4. QED
    BY <2>1, <2>2, <2>3
<1>15. Ring(y, q, n + 1)
  <2>1. (n + 1) + 1 = n + 2 /\ n + 1 > 0
    BY <1>1
  <2>2. QED
    BY <1>5, <1>7, <1>8, <1>10, <1>11, <1>12, <1>14, <2>1 DEF Ring
<1>16. t \in [0 .. n + 1 -> Int] /\ t[0] = 0 /\ y.bytes = t[n + 1]
  <2>1. \A i \in 0 .. n + 1 : i # 0 => i - 1 \in 0 .. n
    BY <1>1
  <2>2. t \in [0 .. n + 1 -> Int]
    BY <1>2, <1>4, <2>1
  <2>3. 0 \in 0 .. n + 1 /\ n + 1 \in 0 .. n + 1 /\ n + 1 # 0 /\ (n + 1) - 1 = n /\ n \in 0 .. n
    BY <1>1
  <2>4. t[0] = 0
    BY <2>3
  <2>5. t[n + 1] = b.size + s[(n + 1) - 1]
    BY <2>3
  <2>6. s[n] \in Int
    BY <1>2, <2>3
  <2> HIDE DEF t
  <2>7. t[n + 1] = s[n] + b.size
    BY <1>4, <2>3, <2>5, <2>6
  <2>8. QED
    BY <1>2, <1>3, <2>2, <2>4, <2>7
<1>17. ASSUME NEW i \in 1 .. n + 1 PROVE t[i] = t[i-1] + y.block[q[i]].size
  <2>1. i \in 0 .. n + 1 /\ i # 0 /\ i - 1 \in 0 .. n + 1 /\ i - 1 \in 0 .. n /\ 0 \in 0 .. n + 1
    BY <1>1
  <2>2. t[i] = b.size + s[i-1]
    BY <2>1
  <2>3. CASE i = 1
    <3>1. q[i] = a /\ i - 1 = 0 /\ y.block[a] = b
      BY <1>3, <1>4, <1>7, <2>3
    <3>2. t[0] = 0
      BY <2>1
    <3> HIDE DEF t
    <3>3. QED
      BY <1>2, <1>4, <2>2, <3>1, <3>2
  <2>4. CASE i # 1
    <3> DEFINE j == i - 1
    <3>1. i \in 2 .. n + 2 /\ j \in 1 .. n /\ j # 0 /\ j - 1 \in 0 .. n /\ j \in 0 .. n + 1
      BY <1>1, <2>4
    <3>2. t[j] = b.size + s[j - 1]
      BY <3>1
    <3>3. q[i] = r[j] /\ r[j] # a
      BY <1>1, <1>4, <1>7, <3>1
    <3>4. s[j] = s[j - 1] + z.block[r[j]].size
      BY <1>2, <3>1
    <3>5. y.block[q[i]] = z.block[r[j]]
      BY <1>3, <3>3
    <3>6. s[j - 1] \in Int /\ z.block[r[j]].size \in Int
      <4>1. r[j] \in Addr
        BY <1>6, <3>1
      <4>2. z.block[r[j]] \in Blocks
        BY <1>4, <4>1
      <4>3. QED
        BY <1>2, <3>1, <4>2 DEF Blocks
    <3> HIDE DEF t
    <3>7. t[i] = b.size + s[j]
      BY <2>2
    <3> HIDE DEF j
    <3>8. t[i] = t[j] + z.block[r[j]].size
      BY <1>4, <3>2, <3>4, <3>6, <3>7
    <3>9. QED
      BY <3>5, <3>8 DEF j
  <2>5. QED
    BY <2>3, <2>4
<1>18. Sums(y, q, t, n + 1)
  <2> HIDE DEF t
  <2>1. QED
    BY <1>16, <1>17 DEF Sums
<1>19. QED
  <2> HIDE DEF t
  <2>1. QED
    BY <1>1, <1>5, <1>15, <1>18

LEMMA LinkInIs ==
  ASSUME NEW z \in Heaps, NEW res \in BOOLEAN, NEW wr, Sound(z, res, wr), NEW a \in Addr \ z.live, NEW b \in Blocks, Fresh(b),
         NEW y, y = LinkIn(z, a, b)
  PROVE  /\ y \in Heaps /\ Sound(y, res, wr)
         /\ y.live = z.live \cup {a} /\ y.block = [z.block EXCEPT ![a] = b] /\ y.locs = z.locs
<1>1. /\ y \in Heaps /\ y.live = z.live \cup {a} /\ y.block = [z.block EXCEPT ![a] = b] /\ y.locs = z.locs
      /\ y.err = z.err /\ y.count = z.count + 1
  <2>1. LinkedAt(z, a, b, y)
    BY LinkInTypes
  <2>2. QED
    BY <2>1 DEF LinkedAt
<1>2. PICK r, s, n : Ring(z, r, n) /\ Sums(z, r, s, n)
  BY DEF Sound
<1>3. (\E q, t : Ring(y, q, n + 1) /\ Sums(y, q, t, n + 1)) /\ Cardinality(y.live) = Cardinality(z.live) + 1
  BY <1>1, <1>2, LinkedIn
<1>4. z.block \in [Addr -> Blocks] /\ z.live \subseteq Addr /\ Oldest \in z.live
  BY OldestLives DEF Heaps
<1>5. /\ Alive(z) /\ z.count = Cardinality(z.live) /\ z.block[Oldest].tag = "server" /\ wr \subseteq z.live
      /\ \A x \in z.live : ~res /\ z.block[x].debug => z.block[x].guard
      /\ \A x \in z.live : x \in wr <=> ~z.block[x].tail
      /\ \A x \in wr : z.block[x].tag # "server"
  BY DEF Sound
<1>6. \A x \in z.live : y.block[x] = z.block[x]
  BY <1>1, <1>4
<1>7. y.block[a] = b
  BY <1>1, <1>4
<1>8. Alive(y) /\ y.count = Cardinality(y.live)
  BY <1>1, <1>3, <1>5 DEF Alive
<1>9. y.block[Oldest].tag = "server" /\ wr \subseteq y.live /\ \A x \in wr : y.block[x].tag # "server"
  BY <1>1, <1>4, <1>5, <1>6
<1>9a. b.tail /\ b.guard
  BY DEF Fresh
<1>10. \A x \in y.live : ~res /\ y.block[x].debug => y.block[x].guard
  BY <1>1, <1>5, <1>6, <1>7, <1>9a
<1>11. \A x \in y.live : x \in wr <=> ~y.block[x].tail
  BY <1>1, <1>5, <1>6, <1>7, <1>9a
<1>12. QED
  BY <1>1, <1>3, <1>8, <1>9, <1>10, <1>11 DEF Sound


(* A block is taken out of the ring. *)
UnlinkedAt(z, a, y) ==
  /\ y \in Heaps /\ y.live = z.live \ {a} /\ y.block = [z.block EXCEPT ![a] = NoBlock] /\ y.locs = z.locs /\ y.err = z.err
  /\ y.count = z.count - 1 /\ y.bytes = z.bytes - z.block[a].size
  /\ y.next = [[z.next EXCEPT ![z.prev[a]] = z.next[a]] EXCEPT ![a] = a]
  /\ y.prev = [[z.prev EXCEPT ![z.next[a]] = z.prev[a]] EXCEPT ![a] = a]
LEMMA LinkOutTypes ==
  ASSUME NEW z \in Heaps, NEW a \in Addr, NEW y, y = LinkOut(z, a)
  PROVE  UnlinkedAt(z, a, y)
<1> DEFINE nx == [[z.next EXCEPT ![z.prev[a]] = z.next[a]] EXCEPT ![a] = a]
           pv == [[z.prev EXCEPT ![z.next[a]] = z.prev[a]] EXCEPT ![a] = a]
           bl == [z.block EXCEPT ![a] = NoBlock]
<1>1. z = [next |-> z.next, prev |-> z.prev, live |-> z.live, count |-> z.count, bytes |-> z.bytes,
           block |-> z.block, locs |-> z.locs, err |-> z.err]
      /\ z.next \in [Places_ -> Places_] /\ z.prev \in [Places_ -> Places_] /\ z.live \in SUBSET Addr
      /\ z.count \in Int /\ z.bytes \in Int /\ z.block \in [Addr -> Blocks] /\ z.locs \in Seq(Addr) /\ z.err \in Ends
  BY DEF Heaps
<1>2. a \in Places_ /\ z.next[a] \in Places_ /\ z.prev[a] \in Places_ /\ z.block[a].size \in Int
  BY <1>1 DEF Places_, Blocks
<1>3. nx \in [Places_ -> Places_]
  BY <1>1, <1>2
<1>4. pv \in [Places_ -> Places_]
  BY <1>1, <1>2
<1>5. bl \in [Addr -> Blocks]
  <2>1. NoBlock \in Blocks
    BY DEF NoBlock, Blocks, Tags
  <2>2. QED
    BY <1>1, <2>1
<1>6. y = [next |-> nx, prev |-> pv, live |-> z.live \ {a}, count |-> z.count - 1,
           bytes |-> z.bytes - z.block[a].size, block |-> bl, locs |-> z.locs, err |-> z.err]
  BY <1>1 DEF LinkOut
<1>7. z.live \ {a} \in SUBSET Addr /\ z.count - 1 \in Int /\ z.bytes - z.block[a].size \in Int
  BY <1>1, <1>2
<1> HIDE DEF nx, pv, bl
<1>8. y \in Heaps
  BY <1>1, <1>3, <1>4, <1>5, <1>6, <1>7 DEF Heaps
<1>9. QED
  BY <1>6, <1>8 DEF nx, pv, bl, UnlinkedAt

LEMMA LinkedOut ==
  ASSUME NEW z \in Heaps, NEW r, NEW s, NEW n, Ring(z, r, n), Sums(z, r, s, n), NEW a \in z.live, a # Oldest,
         NEW y, y = LinkOut(z, a)
  PROVE  (\E q, t : Ring(y, q, n - 1) /\ Sums(y, q, t, n - 1)) /\ Cardinality(y.live) = Cardinality(z.live) - 1
<1>1. /\ n = Cardinality(z.live) /\ n \in Nat /\ n > 0
      /\ r \in [0 .. n + 1 -> Places_] /\ r[0] = ZChain /\ r[n + 1] = ZChain /\ r[n] = Oldest
      /\ \A i \in 1 .. n : r[i] \in z.live
      /\ \A x \in z.live : \E i \in 1 .. n : r[i] = x
      /\ \A i, j \in 1 .. n : r[i] = r[j] => i = j
      /\ \A i \in 0 .. n : z.next[r[i]] = r[i + 1] /\ z.prev[r[i + 1]] = r[i]
  BY DEF Ring
<1>2. /\ s \in [0 .. n -> Int] /\ s[0] = 0 /\ z.bytes = s[n]
      /\ \A i \in 1 .. n : s[i] = s[i-1] + z.block[r[i]].size
  BY DEF Sums
<1>3. /\ z.next \in [Places_ -> Places_] /\ z.prev \in [Places_ -> Places_] /\ z.live \subseteq Addr
      /\ z.block \in [Addr -> Blocks] /\ a \in Addr /\ a \in Places_ /\ ZChain \in Places_ /\ a # ZChain
      /\ z.block[a].size \in Int
  BY ZoneAssumption DEF Heaps, Places_, Blocks
<1>4. /\ y.live = z.live \ {a} /\ y.block = [z.block EXCEPT ![a] = NoBlock] /\ y.bytes = z.bytes - z.block[a].size
      /\ y.next = [[z.next EXCEPT ![z.prev[a]] = z.next[a]] EXCEPT ![a] = a]
      /\ y.prev = [[z.prev EXCEPT ![z.next[a]] = z.prev[a]] EXCEPT ![a] = a]
  BY <1>3, LinkOutTypes DEF UnlinkedAt
<1>5. PICK k \in 1 .. n : r[k] = a
  BY <1>1
<1>6. /\ \A i, j \in 0 .. n : r[i] = r[j] => i = j
      /\ \A i, j \in 1 .. n + 1 : r[i] = r[j] => i = j
      /\ \A i \in 1 .. n : r[i] \in Addr /\ r[i] # ZChain
  BY RingApart
<1>7. k \in Nat /\ k < n /\ k > 0
  BY <1>1, <1>5
<1>8. z.next[a] = r[k + 1] /\ z.prev[a] = r[k - 1] /\ r[k + 1] \in Places_ /\ r[k - 1] \in Places_ /\ r[k + 1] # a /\ r[k - 1] # a
  <2>1. k \in 0 .. n /\ k - 1 \in 0 .. n /\ (k - 1) + 1 = k /\ k + 1 \in 0 .. n + 1 /\ k - 1 \in 0 .. n + 1 /\ k + 1 \in 1 .. n
        /\ k + 1 # k /\ k - 1 # k
    BY <1>1, <1>7
  <2>2. r[k + 1] \in Places_ /\ r[k - 1] \in Places_
    BY <1>1, <2>1
  <2>3. z.next[r[k]] = r[k + 1] /\ z.prev[r[(k - 1) + 1]] = r[k - 1]
    BY <1>1, <2>1
  <2>4. r[k + 1] # r[k]
    BY <1>5, <1>6, <2>1
  <2>5. r[k - 1] # r[k]
    BY <1>6, <2>1
  <2>6. QED
    BY <1>5, <2>1, <2>2, <2>3, <2>4, <2>5
<1>9. Cardinality(y.live) = n - 1 /\ n - 1 \in Nat /\ n - 1 > 0
  <2>1. IsFiniteSet(z.live) /\ a \in z.live
    BY RoomForAll
  <2>2. Cardinality(z.live \ {a}) = Cardinality(z.live) - 1
    BY <2>1, FS_RemoveElement
  <2>3. QED
    BY <1>1, <1>4, <1>7, <2>2
<1> DEFINE m == n - 1
           q == [i \in 0 .. m + 1 |-> IF i < k THEN r[i] ELSE r[i + 1]]
           t == [i \in 0 .. m |-> IF i < k THEN s[i] ELSE s[i + 1] - z.block[a].size]
<1>10. m \in Nat /\ m + 1 = n /\ m > 0
  BY <1>1, <1>9
<1> HIDE DEF m
<1>11. /\ q \in [0 .. m + 1 -> Places_]
       /\ \A i \in 0 .. m + 1 : i < k => q[i] = r[i] /\ i \in 0 .. n /\ i + 1 \in 1 .. n
       /\ \A i \in 0 .. m + 1 : ~(i < k) => q[i] = r[i + 1] /\ i + 1 \in 2 .. n + 1
  <2>1. \A i \in 0 .. m + 1 : i \in 0 .. n + 1 /\ i + 1 \in 0 .. n + 1
    BY <1>1, <1>10
  <2>2. q \in [0 .. m + 1 -> Places_]
    BY <1>1, <2>1
  <2>3. \A i \in 0 .. m + 1 : i < k => i \in 0 .. n /\ i + 1 \in 1 .. n
    BY <1>1, <1>7, <1>10
  <2>4. \A i \in 0 .. m + 1 : ~(i < k) => i + 1 \in 2 .. n + 1
    BY <1>1, <1>7, <1>10
  <2>5. QED
    BY <2>2, <2>3, <2>4
<1> HIDE DEF q
<1>12. q[0] = ZChain /\ q[m + 1] = ZChain /\ q[m] = Oldest
  <2>1. 0 \in 0 .. m + 1 /\ 0 < k /\ m + 1 \in 0 .. m + 1 /\ ~(m + 1 < k) /\ m \in 0 .. m + 1 /\ ~(m < k)
    BY <1>7, <1>10
  <2>2. QED
    BY <1>1, <1>10, <1>11, <2>1
<1>13. ASSUME NEW i \in 1 .. m
       PROVE  \E x \in 1 .. n : q[i] = r[x] /\ r[x] # a /\ ((x = i /\ i < k) \/ (x = i + 1 /\ ~(i < k)))
  <2>1. i \in 0 .. m + 1 /\ i \in 1 .. n /\ i + 1 \in 1 .. n
    BY <1>1, <1>10
  <2>2. CASE i < k
    <3>1. i # k /\ q[i] = r[i]
      BY <1>11, <2>1, <2>2, <1>7
    <3>2. r[i] # a
      BY <1>1, <1>5, <2>1, <3>1
    <3>3. q[i] = r[i] /\ r[i] # a /\ i < k /\ i \in 1 .. n
      BY <2>1, <2>2, <3>1, <3>2
    <3>4. QED
      BY <3>3
  <2>3. CASE ~(i < k)
    <3>1. i + 1 # k /\ q[i] = r[i + 1]
      BY <1>11, <2>1, <2>3, <1>7
    <3>2. r[i + 1] # a
      BY <1>1, <1>5, <2>1, <3>1
    <3>3. QED
      BY <2>1, <2>3, <3>1, <3>2
  <2>4. QED
    BY <2>2, <2>3
<1>14. \A i \in 1 .. m : q[i] \in y.live
  BY <1>1, <1>4, <1>13
<1>15. ASSUME NEW x \in y.live PROVE \E i \in 1 .. m : q[i] = x
  <2>1. PICK i \in 1 .. n : r[i] = x
    BY <1>1, <1>4
  <2>2. i # k
    BY <1>4, <1>5, <2>1
  <2>3. CASE i < k
    <3>1. i \in 1 .. m /\ i \in 0 .. m + 1
      BY <1>7, <1>10, <2>3
    <3>2. QED
      BY <1>11, <2>1, <2>3, <3>1
  <2>4. CASE ~(i < k)
    <3>1. i - 1 \in 1 .. m /\ i - 1 \in 0 .. m + 1 /\ ~(i - 1 < k) /\ (i - 1) + 1 = i
      BY <1>7, <1>10, <2>2, <2>4
    <3>2. q[i - 1] = x
      BY <1>11, <2>1, <3>1
    <3>3. QED
      BY <3>1, <3>2
  <2>5. QED
    BY <2>3, <2>4
<1>16. ASSUME NEW i \in 1 .. m, NEW j \in 1 .. m, q[i] = q[j] PROVE i = j
  <2>1. PICK u \in 1 .. n : q[i] = r[u] /\ ((u = i /\ i < k) \/ (u = i + 1 /\ ~(i < k)))
    BY <1>13
  <2>2. PICK v \in 1 .. n : q[j] = r[v] /\ ((v = j /\ j < k) \/ (v = j + 1 /\ ~(j < k)))
    BY <1>13
  <2>3. \A x, w \in 1 .. n : r[x] = r[w] => x = w
    BY <1>1
  <2>4. u = v
    BY <1>16, <2>1, <2>2, <2>3
  <2>5. i \in Nat /\ j \in Nat /\ u \in Nat /\ v \in Nat
    BY <1>1, <1>10
  <2>6. QED
    BY <1>7, <2>1, <2>2, <2>4, <2>5
<1>17. ASSUME NEW i \in 0 .. m PROVE y.next[q[i]] = q[i + 1] /\ y.prev[q[i + 1]] = q[i]
  <2>0. i \in Nat /\ i \in 0 .. m + 1 /\ i + 1 \in 0 .. m + 1 /\ i \in 0 .. n /\ i + 1 \in 0 .. n
    BY <1>10
  <2>1. CASE i + 1 < k
    <3>1. i < k /\ i + 1 # k - 1 => i # k - 1
      BY <1>7, <2>0, <2>1
    <3>2. i < k /\ i # k /\ i + 1 # k /\ i # k - 1 /\ k - 1 \in 0 .. n /\ k \in 0 .. n /\ i + 1 # k + 1 /\ k + 1 \in 1 .. n + 1 /\ i + 1 \in 1 .. n + 1
          /\ i \in 0 .. n + 1 /\ i + 1 \in 0 .. n + 1
      BY <1>7, <2>0, <2>1, <1>10
    <3>3. q[i] = r[i] /\ q[i + 1] = r[i + 1]
      BY <1>11, <2>0, <2>1, <3>2
    <3>4. r[i] # a /\ r[i] # r[k - 1] /\ r[i] \in Places_
      BY <1>1, <1>5, <1>6, <2>0, <3>2
    <3>5. r[i + 1] # a /\ r[i + 1] # r[k + 1] /\ r[i + 1] \in Places_
      BY <1>1, <1>5, <1>6, <2>0, <3>2
    <3>6. y.next[r[i]] = z.next[r[i]]
      BY <1>3, <1>4, <1>8, <3>4
    <3>7. y.prev[r[i + 1]] = z.prev[r[i + 1]]
      BY <1>3, <1>4, <1>8, <3>5
    <3>8. z.next[r[i]] = r[i + 1] /\ z.prev[r[i + 1]] = r[i]
      BY <1>1, <2>0
    <3>9. QED
      BY <3>3, <3>6, <3>7, <3>8
  <2>2. CASE i + 1 = k
    <3>1. i < k /\ i = k - 1 /\ ~(i + 1 < k) /\ (i + 1) + 1 = k + 1
      BY <1>7, <2>0, <2>2
    <3>2. q[i] = r[k - 1]
      BY <1>11, <2>0, <3>1
    <3>3. q[i + 1] = r[k + 1]
      BY <1>11, <2>0, <2>2, <3>1
    <3>4. y.next[r[k - 1]] = r[k + 1]
      BY <1>3, <1>4, <1>8
    <3>5. y.prev[r[k + 1]] = r[k - 1]
      BY <1>3, <1>4, <1>8
    <3>6. QED
      BY <3>2, <3>3, <3>4, <3>5
  <2>3. CASE ~(i + 1 < k) /\ i + 1 # k
    <3> DEFINE j == i + 1
    <3>1. ~(i < k) /\ ~(j < k) /\ j \in 0 .. n /\ j # k /\ j # k - 1 /\ k - 1 \in 0 .. n /\ k \in 0 .. n /\ j + 1 # k + 1 /\ k + 1 \in 1 .. n + 1
          /\ j + 1 \in 1 .. n + 1 /\ j \in 0 .. n + 1 /\ j + 1 \in 0 .. n + 1 /\ j + 1 # k /\ k \in 1 .. n + 1 /\ j \in 0 .. m + 1
      BY <1>7, <2>0, <2>3, <1>10
    <3>2. q[i] = r[j]
      BY <1>11, <2>0, <3>1
    <3>3. q[j] = r[j + 1]
      BY <1>11, <3>1
    <3> HIDE DEF j
    <3>4. r[j] # a /\ r[j] # r[k - 1] /\ r[j] \in Places_
      BY <1>1, <1>5, <1>6, <3>1
    <3>5. r[j + 1] # a /\ r[j + 1] # r[k + 1] /\ r[j + 1] \in Places_
      BY <1>1, <1>5, <1>6, <3>1
    <3>6. y.next[r[j]] = z.next[r[j]]
      BY <1>3, <1>4, <1>8, <3>4
    <3>7. y.prev[r[j + 1]] = z.prev[r[j + 1]]
      BY <1>3, <1>4, <1>8, <3>5
    <3>8. z.next[r[j]] = r[j + 1] /\ z.prev[r[j + 1]] = r[j]
      BY <1>1, <3>1
    <3>9. QED
      BY <3>2, <3>3, <3>6, <3>7, <3>8 DEF j
  <2>4. QED
    BY <2>1, <2>2, <2>3
<1>18. Ring(y, q, m)
  <2>1. m = Cardinality(y.live)
    BY <1>9 DEF m
  <2>2. QED
    BY <1>10, <1>11, <1>12, <1>14, <1>15, <1>16, <1>17, <2>1 DEF Ring
<1>19. /\ \A i \in 0 .. m : i < k => i \in 0 .. n /\ t[i] = s[i]
       /\ \A i \in 0 .. m : ~(i < k) => i + 1 \in 0 .. n /\ t[i] = s[i + 1] - z.block[a].size
       /\ t \in [0 .. m -> Int]
  <2>1. \A i \in 0 .. m : i \in 0 .. n /\ i + 1 \in 0 .. n
    BY <1>10
  <2>2. \A i \in 0 .. m : s[i] \in Int /\ s[i + 1] - z.block[a].size \in Int
    BY <1>2, <1>3, <2>1
  <2>3. t \in [0 .. m -> Int]
    BY <2>2
  <2>4. QED
    BY <2>1, <2>3
<1> HIDE DEF t
<1>20. t[0] = 0 /\ y.bytes = t[m]
  <2>1. 0 \in 0 .. m /\ 0 < k /\ m \in 0 .. m /\ ~(m < k)
    BY <1>7, <1>10
  <2>2. QED
    BY <1>2, <1>4, <1>10, <1>19, <2>1
<1>21. ASSUME NEW i \in 1 .. m PROVE t[i] = t[i-1] + y.block[q[i]].size
  <2>0. i \in 0 .. m /\ i - 1 \in 0 .. m /\ i \in 1 .. n /\ i + 1 \in 1 .. n /\ i \in 0 .. m + 1 /\ (i - 1) + 1 = i /\ (i + 1) - 1 = i /\ i \in 0 .. n
        /\ i \in Nat /\ i - 1 \in 0 .. n /\ i + 1 \in 0 .. n
    BY <1>10
  <2>1. PICK x \in 1 .. n : q[i] = r[x] /\ r[x] # a /\ ((x = i /\ i < k) \/ (x = i + 1 /\ ~(i < k)))
    BY <1>13
  <2>2. r[x] \in Addr /\ y.block[q[i]] = z.block[r[x]]
    BY <1>3, <1>4, <1>6, <2>1
  <2>3. z.block[r[x]] \in Blocks
    BY <1>3, <2>2
  <2>4. z.block[r[x]].size \in Int
    BY <2>3 DEF Blocks
  <2>5. s[x] = s[x-1] + z.block[r[x]].size
    BY <1>2, <2>1
  <2>6. CASE i < k
    <3>1. x = i /\ i - 1 < k
      BY <1>7, <2>0, <2>1, <2>6
    <3>2. t[i] = s[i] /\ t[i-1] = s[i-1]
      BY <1>19, <2>0, <2>6, <3>1
    <3>3. QED
      BY <2>2, <2>5, <3>1, <3>2
  <2>7. CASE i = k
    <3>1. x = i + 1 /\ i - 1 < k /\ ~(i < k)
      BY <1>7, <2>0, <2>1, <2>7
    <3>2. t[i] = s[i + 1] - z.block[a].size /\ t[i-1] = s[i-1]
      BY <1>19, <2>0, <3>1
    <3>3. s[i + 1] = s[i] + z.block[r[x]].size
      BY <2>0, <2>5, <3>1
    <3>4. s[i] = s[i-1] + z.block[a].size
      BY <1>2, <1>5, <2>0, <2>7
    <3>5. s[i-1] \in Int /\ s[i] \in Int
      BY <1>2, <2>0
    <3>6. QED
      BY <1>3, <2>2, <2>4, <3>2, <3>3, <3>4, <3>5
  <2>8. CASE ~(i < k) /\ i # k
    <3>1. x = i + 1 /\ ~(i - 1 < k)
      BY <1>7, <2>0, <2>1, <2>8
    <3>2. t[i] = s[i + 1] - z.block[a].size
      BY <1>19, <2>0, <2>8
    <3>3. t[i-1] = s[i] - z.block[a].size
      <4>1. t[i-1] = s[(i-1) + 1] - z.block[a].size
        BY <1>19, <2>0, <3>1
      <4>2. QED
        BY <2>0, <4>1
    <3>4. s[i + 1] = s[i] + z.block[r[x]].size
      BY <2>0, <2>5, <3>1
    <3>5. s[i] \in Int
      BY <1>2, <2>0
    <3>6. QED
      BY <1>3, <2>2, <2>4, <3>2, <3>3, <3>4, <3>5
  <2>9. QED
    BY <2>6, <2>7, <2>8
<1>22. Sums(y, q, t, m)
  BY <1>19, <1>20, <1>21 DEF Sums
<1>23. QED
  BY <1>1, <1>9, <1>18, <1>22 DEF m

LEMMA LinkOutIs ==
  ASSUME NEW z \in Heaps, NEW res \in BOOLEAN, NEW wr, Sound(z, res, wr), NEW a \in z.live, a # Oldest, a \notin wr,
         NEW y, y = LinkOut(z, a)
  PROVE  /\ y \in Heaps /\ Sound(y, res, wr)
         /\ y.live = z.live \ {a} /\ y.block = [z.block EXCEPT ![a] = NoBlock] /\ y.locs = z.locs
<1>0. z.block \in [Addr -> Blocks] /\ z.live \subseteq Addr /\ Oldest \in z.live /\ a \in Addr
  BY OldestLives DEF Heaps
<1>1. /\ y \in Heaps /\ y.live = z.live \ {a} /\ y.block = [z.block EXCEPT ![a] = NoBlock] /\ y.locs = z.locs
      /\ y.err = z.err /\ y.count = z.count - 1
  <2>1. UnlinkedAt(z, a, y)
    BY <1>0, LinkOutTypes
  <2>2. QED
    BY <2>1 DEF UnlinkedAt
<1>2. PICK r, s, n : Ring(z, r, n) /\ Sums(z, r, s, n)
  BY DEF Sound
<1>3. (\E q, t : Ring(y, q, n - 1) /\ Sums(y, q, t, n - 1)) /\ Cardinality(y.live) = Cardinality(z.live) - 1
  BY <1>2, LinkedOut
<1>5. /\ Alive(z) /\ z.count = Cardinality(z.live) /\ z.block[Oldest].tag = "server" /\ wr \subseteq z.live
      /\ \A x \in z.live : ~res /\ z.block[x].debug => z.block[x].guard
      /\ \A x \in z.live : x \in wr <=> ~z.block[x].tail
      /\ \A x \in wr : z.block[x].tag # "server"
  BY DEF Sound
<1>6. \A x \in y.live : x \in z.live /\ y.block[x] = z.block[x]
  BY <1>0, <1>1
<1>8. Alive(y) /\ y.count = Cardinality(y.live)
  BY <1>1, <1>3, <1>5 DEF Alive
<1>9. wr \subseteq y.live
  BY <1>1, <1>5
<1>10. y.block[Oldest].tag = "server" /\ \A x \in wr : y.block[x].tag # "server"
  BY <1>0, <1>1, <1>5, <1>6, <1>9
<1>11. \A x \in y.live : ~res /\ y.block[x].debug => y.block[x].guard
  BY <1>5, <1>6
<1>12. \A x \in y.live : x \in wr <=> ~y.block[x].tail
  BY <1>5, <1>6
<1>13. QED
  BY <1>1, <1>3, <1>8, <1>9, <1>10, <1>11, <1>12 DEF Sound


(* A block is moved, and stands in the ring where it stood. *)
Remade(b, size, last) == [b EXCEPT !.size = size + Header, !.guard = last]
MovedTo(z, a, to, b, y) ==
  /\ y \in Heaps /\ y.live = (z.live \ {a}) \cup {to} /\ y.block = [[z.block EXCEPT ![a] = NoBlock] EXCEPT ![to] = b]
  /\ y.locs = z.locs /\ y.err = z.err /\ y.count = z.count /\ y.bytes = z.bytes + b.size - z.block[a].size
  /\ y.next = [[[z.next EXCEPT ![a] = a] EXCEPT ![to] = z.next[a]] EXCEPT ![z.prev[a]] = to]
  /\ y.prev = [[[z.prev EXCEPT ![a] = a] EXCEPT ![to] = z.prev[a]] EXCEPT ![z.next[a]] = to]
LEMMA RemadeIs ==
  ASSUME NEW b \in Blocks, NEW size \in Nat, NEW last \in BOOLEAN
  PROVE  /\ Remade(b, size, last) \in Blocks /\ Remade(b, size, last).size = size + Header /\ Remade(b, size, last).tail = b.tail
         /\ Remade(b, size, last).tag = b.tag /\ Remade(b, size, last).debug = b.debug
<1>1. size + Header \in Nat
  BY ZoneAssumption
<1>2. QED
  BY <1>1 DEF Remade, Blocks
LEMMA ReallocTypes ==
  ASSUME NEW z \in Heaps, NEW a \in Addr, NEW to \in Addr, NEW size \in Nat, NEW last \in BOOLEAN, NEW y, y = Realloc(z, a, to, size, last)
  PROVE  MovedTo(z, a, to, Remade(z.block[a], size, last), y)
<1> DEFINE nx == [[[z.next EXCEPT ![a] = a] EXCEPT ![to] = z.next[a]] EXCEPT ![z.prev[a]] = to]
           pv == [[[z.prev EXCEPT ![a] = a] EXCEPT ![to] = z.prev[a]] EXCEPT ![z.next[a]] = to]
           b == Remade(z.block[a], size, last)
           bl == [[z.block EXCEPT ![a] = NoBlock] EXCEPT ![to] = b]
<1>1. z = [next |-> z.next, prev |-> z.prev, live |-> z.live, count |-> z.count, bytes |-> z.bytes,
           block |-> z.block, locs |-> z.locs, err |-> z.err]
      /\ z.next \in [Places_ -> Places_] /\ z.prev \in [Places_ -> Places_] /\ z.live \in SUBSET Addr
      /\ z.count \in Int /\ z.bytes \in Int /\ z.block \in [Addr -> Blocks] /\ z.locs \in Seq(Addr) /\ z.err \in Ends
  BY DEF Heaps
<1>2. /\ a \in Places_ /\ to \in Places_ /\ z.next[a] \in Places_ /\ z.prev[a] \in Places_ /\ z.block[a].size \in Int
      /\ z.block[a] \in Blocks /\ Header \in Int
  BY <1>1, ZoneAssumption DEF Places_, Blocks
<1>3. nx \in [Places_ -> Places_]
  BY <1>1, <1>2
<1>4. pv \in [Places_ -> Places_]
  BY <1>1, <1>2
<1>5. b \in Blocks /\ b.size = size + Header
  BY <1>2, RemadeIs
<1>6. bl \in [Addr -> Blocks]
  <2>1. NoBlock \in Blocks
    BY DEF NoBlock, Blocks, Tags
  <2> HIDE DEF b
  <2>2. QED
    BY <1>1, <1>5, <2>1
<1>7. y = [next |-> nx, prev |-> pv, live |-> (z.live \ {a}) \cup {to}, count |-> z.count,
           bytes |-> z.bytes + size + Header - z.block[a].size, block |-> bl, locs |-> z.locs, err |-> z.err]
  BY <1>1 DEF Realloc, Remade
<1>8. (z.live \ {a}) \cup {to} \in SUBSET Addr /\ z.bytes + size + Header - z.block[a].size \in Int
  BY <1>1, <1>2
<1>9. z.bytes + size + Header - z.block[a].size = z.bytes + b.size - z.block[a].size
  <2> HIDE DEF b
  <2>1. QED
    BY <1>1, <1>2, <1>5
<1> HIDE DEF nx, pv, bl
<1>10. y \in Heaps
  BY <1>1, <1>3, <1>4, <1>6, <1>7, <1>8 DEF Heaps
<1>11. QED
  BY <1>7, <1>9, <1>10 DEF nx, pv, bl, MovedTo

LEMMA Moved ==
  ASSUME NEW z \in Heaps, NEW r, NEW s, NEW n, Ring(z, r, n), Sums(z, r, s, n), NEW a \in z.live, a # Oldest,
         NEW to \in Addr, to \notin z.live \/ to = a, NEW b \in Blocks, NEW y, MovedTo(z, a, to, b, y)
  PROVE  (\E q, t : Ring(y, q, n) /\ Sums(y, q, t, n)) /\ Cardinality(y.live) = Cardinality(z.live)
<1>1. /\ n = Cardinality(z.live) /\ n \in Nat /\ n > 0
      /\ r \in [0 .. n + 1 -> Places_] /\ r[0] = ZChain /\ r[n + 1] = ZChain /\ r[n] = Oldest
      /\ \A i \in 1 .. n : r[i] \in z.live
      /\ \A x \in z.live : \E i \in 1 .. n : r[i] = x
      /\ \A i, j \in 1 .. n : r[i] = r[j] => i = j
      /\ \A i \in 0 .. n : z.next[r[i]] = r[i + 1] /\ z.prev[r[i + 1]] = r[i]
  BY DEF Ring
<1>2. /\ s \in [0 .. n -> Int] /\ s[0] = 0 /\ z.bytes = s[n]
      /\ \A i \in 1 .. n : s[i] = s[i-1] + z.block[r[i]].size
  BY DEF Sums
<1>3. /\ z.next \in [Places_ -> Places_] /\ z.prev \in [Places_ -> Places_] /\ z.live \subseteq Addr
      /\ z.block \in [Addr -> Blocks] /\ a \in Addr /\ a \in Places_ /\ ZChain \in Places_ /\ a # ZChain
      /\ z.block[a].size \in Int /\ to \in Places_ /\ to # ZChain /\ b.size \in Int
  BY ZoneAssumption DEF Heaps, Places_, Blocks
<1>4. /\ y.live = (z.live \ {a}) \cup {to} /\ y.block = [[z.block EXCEPT ![a] = NoBlock] EXCEPT ![to] = b]
      /\ y.bytes = z.bytes + b.size - z.block[a].size
      /\ y.next = [[[z.next EXCEPT ![a] = a] EXCEPT ![to] = z.next[a]] EXCEPT ![z.prev[a]] = to]
      /\ y.prev = [[[z.prev EXCEPT ![a] = a] EXCEPT ![to] = z.prev[a]] EXCEPT ![z.next[a]] = to]
  BY DEF MovedTo
<1>5. PICK k \in 1 .. n : r[k] = a
  BY <1>1
<1>6. /\ \A i, j \in 0 .. n : r[i] = r[j] => i = j
      /\ \A i, j \in 1 .. n + 1 : r[i] = r[j] => i = j
      /\ \A i \in 1 .. n : r[i] \in Addr /\ r[i] # ZChain
  BY RingApart
<1>7. k \in Nat /\ k < n /\ k > 0
  BY <1>1, <1>5
<1>8. \A i \in 0 .. n + 1 : i # k => r[i] # a /\ r[i] # to /\ r[i] \in Places_
  <2>1. ASSUME NEW i \in 0 .. n + 1, i # k PROVE r[i] # a /\ r[i] # to /\ r[i] \in Places_
    <3>1. CASE i \in 1 .. n
      <4>1. r[i] # a /\ r[i] \in z.live
        BY <1>1, <1>5, <2>1, <3>1
      <4>2. r[i] \in Places_
        BY <1>1
      <4>3. QED
        BY <4>1, <4>2
    <3>2. CASE i \notin 1 .. n
      <4>1. i = 0 \/ i = n + 1
        BY <1>1, <3>2
      <4>2. r[i] = ZChain
        BY <1>1, <4>1
      <4>3. QED
        BY <1>3, <4>2
    <3>3. QED
      BY <3>1, <3>2
  <2>2. QED
    BY <2>1
<1>9. /\ z.next[a] = r[k + 1] /\ z.prev[a] = r[k - 1] /\ r[k + 1] \in Places_ /\ r[k - 1] \in Places_
      /\ r[k + 1] # a /\ r[k - 1] # a /\ r[k + 1] # to /\ r[k - 1] # to
  <2>1. k \in 0 .. n /\ k - 1 \in 0 .. n /\ (k - 1) + 1 = k /\ k + 1 \in 0 .. n + 1 /\ k - 1 \in 0 .. n + 1 /\ k + 1 # k /\ k - 1 # k
    BY <1>1, <1>7
  <2>2. z.next[r[k]] = r[k + 1] /\ z.prev[r[(k - 1) + 1]] = r[k - 1]
    BY <1>1, <2>1
  <2>3. QED
    BY <1>5, <1>8, <2>1, <2>2
<1>10. Cardinality(y.live) = n
  <2>1. IsFiniteSet(z.live) /\ a \in z.live
    BY RoomForAll
  <2>2. IsFiniteSet(z.live \ {a}) /\ Cardinality(z.live \ {a}) = Cardinality(z.live) - 1
    BY <2>1, FS_RemoveElement
  <2>3. to \notin z.live \ {a}
    OBVIOUS
  <2>4. Cardinality((z.live \ {a}) \cup {to}) = Cardinality(z.live \ {a}) + 1
    BY <2>2, <2>3, FS_AddElement
  <2>5. QED
    BY <1>1, <1>4, <2>2, <2>4
<1> DEFINE q == [i \in 0 .. n + 1 |-> IF i = k THEN to ELSE r[i]]
           t == [i \in 0 .. n |-> IF i < k THEN s[i] ELSE s[i] + b.size - z.block[a].size]
<1>11. /\ q \in [0 .. n + 1 -> Places_] /\ q[k] = to
       /\ \A i \in 0 .. n + 1 : i # k => q[i] = r[i]
  <2>1. q \in [0 .. n + 1 -> Places_]
    BY <1>1, <1>3
  <2>2. k \in 0 .. n + 1
    BY <1>1, <1>7
  <2>3. QED
    BY <2>1, <2>2
<1> HIDE DEF q
<1>12. q[0] = ZChain /\ q[n + 1] = ZChain /\ q[n] = Oldest
  <2>1. 0 \in 0 .. n + 1 /\ 0 # k /\ n + 1 \in 0 .. n + 1 /\ n + 1 # k /\ n \in 0 .. n + 1 /\ n # k
    BY <1>1, <1>7
  <2>2. QED
    BY <1>1, <1>11, <2>1
<1>13. \A i \in 1 .. n : i \in 0 .. n + 1
  BY <1>1
<1>14. \A i \in 1 .. n : q[i] \in y.live
  <2>1. ASSUME NEW i \in 1 .. n, i # k PROVE q[i] \in y.live
    <3>1. q[i] = r[i] /\ r[i] # a
      BY <1>8, <1>11, <1>13, <2>1
    <3>2. r[i] \in z.live
      BY <1>1
    <3>3. QED
      BY <1>4, <3>1, <3>2
  <2>2. q[k] \in y.live
    BY <1>4, <1>11
  <2>3. QED
    BY <2>1, <2>2
<1>15. ASSUME NEW x \in y.live PROVE \E i \in 1 .. n : q[i] = x
  <2>1. CASE x = to
    BY <1>11, <2>1
  <2>2. CASE x # to
    <3>1. x \in z.live /\ x # a
      BY <1>4, <2>2
    <3>2. PICK i \in 1 .. n : r[i] = x
      BY <1>1, <3>1
    <3>3. i # k
      BY <1>5, <3>1, <3>2
    <3>4. QED
      BY <1>11, <1>13, <3>2, <3>3
  <2>3. QED
    BY <2>1, <2>2
<1>16. ASSUME NEW i \in 1 .. n, NEW j \in 1 .. n, q[i] = q[j] PROVE i = j
  <2>1. \A u \in 1 .. n : u # k => q[u] = r[u] /\ r[u] # to
    BY <1>8, <1>11, <1>13
  <2>2. \A u, v \in 1 .. n : r[u] = r[v] => u = v
    BY <1>1
  <2>3. QED
    BY <1>11, <1>16, <2>1, <2>2
<1>17. ASSUME NEW i \in 0 .. n PROVE y.next[q[i]] = q[i + 1] /\ y.prev[q[i + 1]] = q[i]
  <2>0. i \in Nat /\ i \in 0 .. n + 1 /\ i + 1 \in 0 .. n + 1 /\ i + 1 \in 1 .. n + 1 /\ k - 1 \in 0 .. n /\ k + 1 \in 1 .. n + 1
    BY <1>1, <1>7
  <2>1. CASE i = k
    <3>1. i + 1 # k /\ i + 1 = k + 1
      BY <1>7, <2>1
    <3>2. q[i] = to /\ q[i + 1] = r[k + 1]
      BY <1>11, <2>0, <2>1, <3>1
    <3>3. y.next[to] = r[k + 1]
      BY <1>3, <1>4, <1>9
    <3>4. y.prev[r[k + 1]] = to
      BY <1>3, <1>4, <1>9
    <3>5. QED
      BY <3>2, <3>3, <3>4
  <2>2. CASE i + 1 = k
    <3>1. i # k /\ i = k - 1
      BY <1>7, <2>0, <2>2
    <3>2. q[i] = r[k - 1] /\ q[i + 1] = to
      BY <1>11, <2>0, <2>2, <3>1
    <3>3. y.next[r[k - 1]] = to
      BY <1>3, <1>4, <1>9
    <3>4. y.prev[to] = r[k - 1]
      BY <1>3, <1>4, <1>9
    <3>5. QED
      BY <3>2, <3>3, <3>4
  <2>3. CASE i # k /\ i + 1 # k
    <3>1. i # k - 1 /\ i + 1 # k + 1
      BY <1>7, <2>0, <2>3
    <3>2. q[i] = r[i] /\ q[i + 1] = r[i + 1]
      BY <1>11, <2>0, <2>3
    <3>3. r[i] # a /\ r[i] # to /\ r[i] \in Places_ /\ r[i] # r[k - 1]
      BY <1>6, <1>8, <2>0, <2>3, <3>1
    <3>4. r[i + 1] # a /\ r[i + 1] # to /\ r[i + 1] \in Places_ /\ r[i + 1] # r[k + 1]
      BY <1>6, <1>8, <2>0, <2>3, <3>1
    <3>5. y.next[r[i]] = z.next[r[i]]
      BY <1>3, <1>4, <1>9, <3>3
    <3>6. y.prev[r[i + 1]] = z.prev[r[i + 1]]
      BY <1>3, <1>4, <1>9, <3>4
    <3>7. z.next[r[i]] = r[i + 1] /\ z.prev[r[i + 1]] = r[i]
      BY <1>1
    <3>8. QED
      BY <3>2, <3>5, <3>6, <3>7
  <2>4. QED
    BY <2>1, <2>2, <2>3
<1>18. Ring(y, q, n)
  BY <1>1, <1>10, <1>11, <1>12, <1>14, <1>15, <1>16, <1>17 DEF Ring
<1>19. /\ \A i \in 0 .. n : i < k => t[i] = s[i]
       /\ \A i \in 0 .. n : ~(i < k) => t[i] = s[i] + b.size - z.block[a].size
       /\ t \in [0 .. n -> Int]
  BY <1>2, <1>3
<1> HIDE DEF t
<1>20. t[0] = 0 /\ y.bytes = t[n]
  <2>1. 0 \in 0 .. n /\ 0 < k /\ n \in 0 .. n /\ ~(n < k)
    BY <1>1, <1>7
  <2>2. QED
    BY <1>2, <1>4, <1>19, <2>1
<1>21. ASSUME NEW i \in 1 .. n PROVE t[i] = t[i-1] + y.block[q[i]].size
  <2>0. i \in 0 .. n /\ i - 1 \in 0 .. n /\ i \in Nat /\ i \in 0 .. n + 1
    BY <1>1
  <2>1. s[i] = s[i-1] + z.block[r[i]].size /\ s[i] \in Int /\ s[i-1] \in Int
    BY <1>2, <2>0
  <2>2. CASE i = k
    <3>1. y.block[q[i]] = b
      BY <1>3, <1>4, <1>11, <2>2
    <3>2. t[i] = s[i] + b.size - z.block[a].size /\ t[i-1] = s[i-1]
      <4>1. ~(i < k) /\ i - 1 < k
        BY <1>7, <2>2
      <4>2. QED
        BY <1>19, <2>0, <4>1
    <3>3. s[i] = s[i-1] + z.block[a].size
      BY <1>5, <2>1, <2>2
    <3>4. QED
      BY <1>3, <2>1, <3>1, <3>2, <3>3
  <2>3. CASE i # k
    <3>1. q[i] = r[i] /\ r[i] # a /\ r[i] # to /\ r[i] \in Addr
      BY <1>6, <1>8, <1>11, <2>0, <2>3
    <3>2. y.block[q[i]] = z.block[r[i]] /\ z.block[r[i]] \in Blocks
      BY <1>3, <1>4, <3>1
    <3>3. z.block[r[i]].size \in Int
      BY <3>2 DEF Blocks
    <3>4. CASE i < k
      <4>1. i - 1 < k
        BY <2>0, <3>4, <1>7
      <4>2. t[i] = s[i] /\ t[i-1] = s[i-1]
        BY <1>19, <2>0, <3>4, <4>1
      <4>3. QED
        BY <2>1, <3>2, <4>2
    <3>5. CASE ~(i < k)
      <4>1. ~(i - 1 < k)
        BY <2>0, <2>3, <3>5, <1>7
      <4>2. t[i] = s[i] + b.size - z.block[a].size /\ t[i-1] = s[i-1] + b.size - z.block[a].size
        BY <1>19, <2>0, <3>5, <4>1
      <4>3. QED
        BY <1>3, <2>1, <3>2, <3>3, <4>2
    <3>6. QED
      BY <3>4, <3>5
  <2>4. QED
    BY <2>2, <2>3
<1>22. Sums(y, q, t, n)
  BY <1>19, <1>20, <1>21 DEF Sums
<1>23. QED
  BY <1>1, <1>10, <1>18, <1>22

LEMMA ReallocIs ==
  ASSUME NEW z \in Heaps, NEW res \in BOOLEAN, NEW wr, Sound(z, res, wr), NEW a \in z.live, a # Oldest, a \notin wr,
         NEW to \in Addr, to \notin z.live \/ to = a, NEW size \in Nat, NEW last \in BOOLEAN, NEW y, y = Realloc(z, a, to, size, last),
         NEW more \in BOOLEAN, res => more, z.block[a].debug => more
  PROVE  /\ y \in Heaps /\ Sound(y, more, wr) /\ y.locs = z.locs /\ y.live = (z.live \ {a}) \cup {to}
         /\ y.block[to].tag = z.block[a].tag /\ \A x \in z.live \ {a} : y.block[x] = z.block[x]
<1>0. z.block \in [Addr -> Blocks] /\ z.live \subseteq Addr /\ Oldest \in z.live /\ a \in Addr /\ z.block[a] \in Blocks
  BY OldestLives DEF Heaps
<1> DEFINE b == Remade(z.block[a], size, last)
<1>1. b \in Blocks /\ b.tail = z.block[a].tail /\ b.tag = z.block[a].tag /\ b.debug = z.block[a].debug
  BY <1>0, RemadeIs
<1>2. MovedTo(z, a, to, b, y)
  BY <1>0, ReallocTypes
<1> HIDE DEF b
<1>3. /\ y \in Heaps /\ y.live = (z.live \ {a}) \cup {to} /\ y.block = [[z.block EXCEPT ![a] = NoBlock] EXCEPT ![to] = b]
      /\ y.locs = z.locs /\ y.err = z.err /\ y.count = z.count
  BY <1>2 DEF MovedTo
<1>4. PICK r, s, n : Ring(z, r, n) /\ Sums(z, r, s, n)
  BY DEF Sound
<1>5. (\E q, t : Ring(y, q, n) /\ Sums(y, q, t, n)) /\ Cardinality(y.live) = Cardinality(z.live)
  BY <1>1, <1>2, <1>4, Moved
<1>6. /\ Alive(z) /\ z.count = Cardinality(z.live) /\ z.block[Oldest].tag = "server" /\ wr \subseteq z.live
      /\ \A x \in z.live : ~res /\ z.block[x].debug => z.block[x].guard
      /\ \A x \in z.live : x \in wr <=> ~z.block[x].tail
      /\ \A x \in wr : z.block[x].tag # "server"
  BY DEF Sound
<1>7. y.block[to] = b
  BY <1>0, <1>3
<1>8. \A x \in z.live \ {a} : y.block[x] = z.block[x] /\ x # to
  BY <1>0, <1>3
<1>9. Alive(y) /\ y.count = Cardinality(y.live)
  BY <1>3, <1>5, <1>6 DEF Alive
<1>10. wr \subseteq y.live /\ to \notin wr /\ wr \subseteq z.live \ {a}
  BY <1>3, <1>6
<1>11. y.block[Oldest].tag = "server" /\ \A x \in wr : y.block[x].tag # "server"
  BY <1>0, <1>6, <1>8, <1>10
<1>12. \A x \in y.live : ~more /\ y.block[x].debug => y.block[x].guard
  <2>1. ~more => ~res /\ ~b.debug
    BY <1>1
  <2>2. QED
    BY <1>3, <1>6, <1>7, <1>8, <2>1
<1>13. \A x \in y.live : x \in wr <=> ~y.block[x].tail
  BY <1>1, <1>3, <1>6, <1>7, <1>8, <1>10
<1>14. Sound(y, more, wr)
  BY <1>5, <1>9, <1>10, <1>11, <1>12, <1>13 DEF Sound
<1>15. QED
  BY <1>1, <1>3, <1>7, <1>8, <1>14

LEMMA RemovedIs == ASSUME NEW S, NEW list \in Seq(S), NEW n \in 1 .. Len(list), NEW new, new = RemoveAt(list, n)
  PROVE new \in Seq(S) /\ Len(new) = Len(list) - 1 /\ \A i \in 1 .. Len(new) : new[i] = list[IF i < n THEN i ELSE i + 1]
<1>1. new = SubSeq(list, 1, n - 1) \o SubSeq(list, n + 1, Len(list))
  BY DEF RemoveAt
<1> DEFINE s == SubSeq(list, 1, n - 1)
           t == SubSeq(list, n + 1, Len(list))
<1>2. Len(list) \in Nat
  OBVIOUS
<1>3. s \in Seq(S) /\ t \in Seq(S)
  OBVIOUS
<1>4. Len(s) = n - 1 
  BY <1>2
<1>5. Len(t) = Len(list) - n
  BY <1>2
<1>6. \A i \in 1 .. n - 1 : s[i] = list[i]
  BY <1>2
<1>7. \A i \in 1 .. Len(list) - n : t[i] = list[i + n]
  BY <1>2
<1>8. new = s \o t
  BY <1>1
<1> HIDE DEF s, t
<1>9. Len(new) = Len(list) - 1 /\ new \in Seq(S)
  BY <1>2, <1>3, <1>4, <1>5, <1>8
<1>10. ASSUME NEW i \in 1 .. Len(new) PROVE new[i] = list[IF i < n THEN i ELSE i + 1]
  <2>1. CASE i < n
    <3>1. i \in 1 .. Len(s)
      BY <1>2, <1>4, <2>1
    <3>2. new[i] = s[i]
      BY <1>2, <1>3, <1>8, <3>1
    <3>3. QED
      BY <1>2, <1>6, <2>1, <3>2
  <2>2. CASE ~(i < n)
    <3>0. i \in 1 .. Len(list) - 1
      BY <1>9
    <3>1. i - Len(s) \in 1 .. Len(t) /\ i \in Int
      BY <1>2, <1>4, <1>5, <2>2, <3>0
    <3>2. new[i] = t[i - Len(s)]
      BY <1>2, <1>3, <1>8, <3>1
    <3>3. i - Len(s) \in 1 .. Len(list) - n /\ (i - Len(s)) + n = i + 1
      BY <1>2, <1>4, <1>5, <3>1
    <3>4. t[i - Len(s)] = list[i + 1]
      BY <1>7, <3>3
    <3>5. QED
      BY <2>2, <3>2, <3>4
  <2>3. QED
    BY <2>1, <2>2
<1>11. QED
  BY <1>9, <1>10


(* A block is allocated, or freed, or the program ends. *)
Got(z, a, tag, res, wr, y) ==
  /\ After(y, res, wr)
  /\ Alive(y) => /\ y.live = z.live \cup {a} /\ y.locs = z.locs /\ y.block[a].tag = tag
                 /\ \A x \in z.live : y.block[x] = z.block[x]
Gone(z, a, res, wr, y) ==
  /\ After(y, res, wr)
  /\ Alive(y) => /\ y.live = z.live \ {a} /\ y.locs = z.locs
                 /\ \A x \in z.live \ {a} : y.block[x] = z.block[x]

LEMMA MadeIs ==
  ASSUME NEW z \in Heaps, NEW res \in BOOLEAN, NEW wr, Sound(z, res, wr), NEW a \in Addr \ z.live, NEW b \in Blocks, Fresh(b),
         NEW y, y = LinkIn(z, a, b)
  PROVE  Got(z, a, b.tag, res, wr, y)
<1>1. /\ y \in Heaps /\ Sound(y, res, wr)
      /\ y.live = z.live \cup {a} /\ y.block = [z.block EXCEPT ![a] = b] /\ y.locs = z.locs
  BY LinkInIs
<1>2. z.block \in [Addr -> Blocks] /\ z.live \subseteq Addr /\ a \in Addr /\ a \notin z.live
  BY DEF Heaps
<1>3. y.block[a] = b /\ \A x \in z.live : y.block[x] = z.block[x]
  BY <1>1, <1>2
<1>4. Alive(y)
  BY <1>1 DEF Sound
<1>5. QED
  BY <1>1, <1>3, <1>4 DEF Got, After

LEMMA TagMallocIs ==
  ASSUME NEW z \in Heaps, NEW res \in BOOLEAN, NEW wr, Sound(z, res, wr), NEW a \in Addr \ z.live, NEW size \in Nat, NEW tag \in Tags,
         NEW y, y = TagMalloc(z, a, size, tag)
  PROVE  Got(z, a, tag, res, wr, y)
<1>1. CASE ~zdebug
  <2> DEFINE b == [NoBlock EXCEPT !.tag = tag, !.size = size + Header]
  <2>1. size + Header \in Nat
    BY ZoneAssumption
  <2>2. b \in Blocks /\ Fresh(b) /\ b.tag = tag
    BY <2>1 DEF Blocks, Fresh, NoBlock
  <2>3. y = LinkIn(z, a, b)
    BY <1>1 DEF TagMalloc, TagMallocRelease
  <2> HIDE DEF b
  <2>4. Got(z, a, b.tag, res, wr, y)
    BY <2>2, <2>3, MadeIs
  <2>5. QED
    BY <2>2, <2>4
<1>2. CASE zdebug
  <2> DEFINE b == [NoBlock EXCEPT !.tag = tag, !.size = size + Header + 1, !.debug = TRUE]
             before == Verify(z)
             made == LinkIn(z, a, b)
  <2>1. size + Header + 1 \in Nat
    BY ZoneAssumption
  <2>2. b \in Blocks /\ Fresh(b) /\ b.tag = tag
    BY <2>1 DEF Blocks, Fresh, NoBlock
  <2>3. After(before, res, wr) /\ (Alive(before) => before = z)
    BY Verified
  <2>4. y = IF ~Alive(before) THEN before ELSE IF size = 0 /\ tag = "server" THEN Die(before, "size") ELSE Verify(LinkIn(before, a, b))
    BY <1>2 DEF TagMalloc, TagMallocDebug
  <2> HIDE DEF b, before
  <2>5. CASE ~Alive(before)
    BY <2>3, <2>4, <2>5 DEF Got
  <2>6. CASE Alive(before) /\ size = 0 /\ tag = "server"
    <3>1. y = Die(z, "size")
      BY <2>3, <2>4, <2>6
    <3>2. "size" \in Ends
      BY DEF Ends
    <3>3. y \in Heaps /\ y.err = "size"
      BY <3>1, <3>2, DieIs
    <3>4. QED
      BY <3>3 DEF Got, After, Fair, Alive
  <2>7. CASE Alive(before) /\ ~(size = 0 /\ tag = "server")
    <3>1. y = Verify(made)
      BY <2>3, <2>4, <2>7
    <3>2. Got(z, a, b.tag, res, wr, made) /\ Alive(made) /\ made \in Heaps /\ Sound(made, res, wr)
      <4>1. made = LinkIn(z, a, b)
        OBVIOUS
      <4> HIDE DEF made
      <4>2. Got(z, a, b.tag, res, wr, made)
        BY <2>2, <4>1, MadeIs
      <4>3. made \in Heaps /\ Sound(made, res, wr)
        BY <2>2, <4>1, LinkInIs
      <4>4. QED
        BY <4>2, <4>3 DEF Sound
    <3> HIDE DEF made
    <3>3. After(y, res, wr) /\ (Alive(y) => y = made)
      BY <3>1, <3>2, Verified
    <3>4. QED
      BY <2>2, <3>2, <3>3 DEF Got
  <2>8. QED
    BY <2>5, <2>6, <2>7
<1>3. QED
  BY <1>1, <1>2

LEMMA ZFreeIs ==
  ASSUME NEW z \in Heaps, NEW res \in BOOLEAN, NEW wr, Sound(z, res, wr), NEW a \in z.live, a # Oldest, a \notin wr,
         NEW y, y = ZFree(z, a)
  PROVE  Gone(z, a, res, wr, y)
<1> DEFINE out == LinkOut(z, a)
           before == Verify(z)
<1>1. out \in Heaps /\ Sound(out, res, wr) /\ Gone(z, a, res, wr, out)
  <2>1. out = LinkOut(z, a)
    OBVIOUS
  <2> HIDE DEF out
  <2>2. /\ out \in Heaps /\ Sound(out, res, wr)
        /\ out.live = z.live \ {a} /\ out.block = [z.block EXCEPT ![a] = NoBlock] /\ out.locs = z.locs
    BY <2>1, LinkOutIs
  <2>3. z.block \in [Addr -> Blocks] /\ z.live \subseteq Addr
    BY DEF Heaps
  <2>4. \A x \in z.live \ {a} : out.block[x] = z.block[x]
    BY <2>2, <2>3
  <2>5. Alive(out)
    BY <2>2 DEF Sound
  <2>6. QED
    BY <2>2, <2>4, <2>5 DEF Gone, After
<1>2. Alive(z)
  BY DEF Sound
<1>3. CASE ~zdebug
  <2>1. y = out
    BY <1>2, <1>3 DEF ZFree, FreeRelease
  <2>2. QED
    BY <1>1, <2>1
<1>4. CASE zdebug
  <2>1. After(before, res, wr) /\ (Alive(before) => before = z)
    BY Verified
  <2>2. z.next[a] \in z.live
    <3>1. PICK r, s, n : Ring(z, r, n)
      BY DEF Sound
    <3>2. PICK k \in 1 .. n : r[k] = a
      BY <3>1 DEF Ring
    <3>3. n \in Nat /\ r[n] = Oldest /\ (\A i \in 1 .. n : r[i] \in z.live) /\ \A i \in 0 .. n : z.next[r[i]] = r[i + 1]
      BY <3>1 DEF Ring
    <3>4. k # n
      BY <3>2, <3>3
    <3>5. k \in 0 .. n /\ k + 1 \in 1 .. n
      BY <3>3, <3>4
    <3>6. QED
      BY <3>2, <3>3, <3>5
  <2>3. y = IF ~Alive(before) THEN before ELSE Verify(out)
    BY <1>2, <1>4, <2>1, <2>2 DEF ZFree, FreeDebug
  <2> HIDE DEF before, out
  <2>4. CASE ~Alive(before)
    BY <2>1, <2>3, <2>4 DEF Gone
  <2>5. CASE Alive(before)
    <3>1. After(y, res, wr) /\ (Alive(y) => y = out)
      BY <1>1, <2>3, <2>5, Verified
    <3>2. QED
      BY <1>1, <3>1 DEF Gone, Sound
  <2>6. QED
    BY <2>4, <2>5
<1>5. QED
  BY <1>3, <1>4

(* The list of the game: its blocks, each once. *)
Booked(z) == /\ ToSet(z.locs) = {a \in z.live : z.block[a].tag # "server"}
             /\ \A i, j \in 1 .. Len(z.locs) : z.locs[i] = z.locs[j] => i = j

LEMMA LocsIs ==
  ASSUME NEW z \in Heaps, NEW list \in Seq(Addr), NEW y, y = [z EXCEPT !.locs = list]
  PROVE  /\ y \in Heaps /\ y.live = z.live /\ y.block = z.block /\ y.next = z.next /\ y.prev = z.prev /\ y.count = z.count
         /\ y.bytes = z.bytes /\ y.err = z.err /\ y.locs = list
<1>1. z = [next |-> z.next, prev |-> z.prev, live |-> z.live, count |-> z.count, bytes |-> z.bytes,
           block |-> z.block, locs |-> z.locs, err |-> z.err]
  BY DEF Heaps
<1>2. QED
  BY <1>1 DEF Heaps

LEMMA LocsKeep ==
  ASSUME NEW z \in Heaps, NEW res, NEW wr, Sound(z, res, wr), NEW list \in Seq(Addr), NEW y, y = [z EXCEPT !.locs = list]
  PROVE  Sound(y, res, wr)
<1>1. /\ y \in Heaps /\ y.live = z.live /\ y.block = z.block /\ y.next = z.next /\ y.prev = z.prev /\ y.count = z.count
      /\ y.bytes = z.bytes /\ y.err = z.err
  BY LocsIs
<1>2. PICK r, s, n : Ring(z, r, n) /\ Sums(z, r, s, n)
  BY DEF Sound
<1>3. Ring(y, r, n)
  BY <1>1, <1>2 DEF Ring
<1>4. Sums(y, r, s, n)
  BY <1>1, <1>2 DEF Sums
<1>5. QED
  BY <1>1, <1>3, <1>4 DEF Sound, Alive

(* The game gets a block. *)
GameGot(z, a, tag, res, wr, y) ==
  /\ After(y, res, wr)
  /\ Alive(y) => /\ Booked(y) /\ y.live = z.live \cup {a} /\ y.block[a].tag = tag
                 /\ \A x \in z.live : y.block[x] = z.block[x]
LEMMA TagMallocGameIs ==
  ASSUME NEW z \in Heaps, NEW res \in BOOLEAN, NEW wr, Sound(z, res, wr), Booked(z), NEW a \in Addr \ z.live, NEW size \in Nat,
         NEW tag \in {"level", "game"}, NEW y, y = TagMallocGame(z, a, size, tag)
  PROVE  GameGot(z, a, tag, res, wr, y)
<1>1. CASE size = 0
  <2>1. y = Die(z, "zero")
    BY <1>1 DEF TagMallocGame
  <2>2. "zero" \in Ends
    BY DEF Ends
  <2>3. y \in Heaps /\ y.err = "zero"
    BY <2>1, <2>2, DieIs
  <2>4. QED
    BY <2>3 DEF GameGot, After, Fair, Alive
<1>2. CASE size # 0
  <2> DEFINE got == TagMalloc(z, a, size + 4, tag)
             list == <<a>> \o got.locs
  <2>1. y = IF Alive(got) THEN [got EXCEPT !.locs = list] ELSE got
    BY <1>2 DEF TagMallocGame
  <2>2. Got(z, a, tag, res, wr, got)
    <3>1. got = TagMalloc(z, a, size + 4, tag) /\ tag \in Tags /\ size + 4 \in Nat
      BY DEF Tags
    <3> HIDE DEF got
    <3>2. QED
      BY <3>1, TagMallocIs
  <2> HIDE DEF got
  <2>3. CASE ~Alive(got)
    BY <2>1, <2>2, <2>3 DEF Got, GameGot
  <2>4. CASE Alive(got)
    <3>1. /\ got \in Heaps /\ Sound(got, res, wr) /\ got.live = z.live \cup {a} /\ got.locs = z.locs /\ got.block[a].tag = tag
          /\ \A x \in z.live : got.block[x] = z.block[x]
      BY <2>2, <2>4 DEF Got, After
    <3>2. z.locs \in Seq(Addr) /\ a \in Addr /\ a \notin z.live
      BY DEF Heaps
    <3>3. list \in Seq(Addr) /\ Len(list) = Len(z.locs) + 1 /\ list[1] = a /\ \A i \in 2 .. Len(list) : list[i] = z.locs[i-1] /\ i - 1 \in 1 .. Len(z.locs)
      <4>1. list = <<a>> \o z.locs
        BY <3>1
      <4> HIDE DEF list
      <4>2. QED
        BY <3>2, <4>1
    <3> HIDE DEF list
    <3>4. y = [got EXCEPT !.locs = list]
      BY <2>1, <2>4
    <3>5. y \in Heaps /\ y.live = got.live /\ y.block = got.block /\ y.err = got.err /\ y.locs = list
      BY <3>1, <3>3, <3>4, LocsIs
    <3>6. Sound(y, res, wr)
      BY <3>1, <3>3, <3>4, LocsKeep
    <3>7. ToSet(z.locs) = {x \in z.live : z.block[x].tag # "server"} /\ \A i, j \in 1 .. Len(z.locs) : z.locs[i] = z.locs[j] => i = j
      BY DEF Booked
    <3>8. ToSet(list) = {a} \cup ToSet(z.locs)
      <4>1. DOMAIN list = 1 .. Len(list) /\ DOMAIN z.locs = 1 .. Len(z.locs) /\ Len(z.locs) \in Nat
        BY <3>2, <3>3
      <4>2. \A i \in 1 .. Len(list) : i = 1 \/ i \in 2 .. Len(list)
        BY <3>3, <4>1
      <4>3. \A i \in 1 .. Len(z.locs) : i + 1 \in 2 .. Len(list) /\ (i + 1) - 1 = i /\ i + 1 \in 1 .. Len(list)
        BY <3>3, <4>1
      <4>4. 1 \in 1 .. Len(list)
        BY <3>3, <4>1
      <4>5. \A i \in 1 .. Len(z.locs) : list[i + 1] = z.locs[i]
        BY <3>3, <4>3
      <4>6. ASSUME NEW x \in ToSet(list) PROVE x = a \/ x \in ToSet(z.locs)
        <5>1. PICK i \in 1 .. Len(list) : list[i] = x
          BY <4>1 DEF ToSet
        <5>2. CASE i = 1
          BY <3>3, <5>1, <5>2
        <5>3. CASE i \in 2 .. Len(list)
          <6>1. z.locs[i-1] = x /\ i - 1 \in 1 .. Len(z.locs)
            BY <3>3, <5>1, <5>3
          <6>2. QED
            BY <4>1, <6>1 DEF ToSet
        <5>4. QED
          BY <4>2, <5>2, <5>3
      <4>7. a \in ToSet(list)
        BY <3>3, <4>1, <4>4 DEF ToSet
      <4>8. ASSUME NEW x \in ToSet(z.locs) PROVE x \in ToSet(list)
        <5>1. PICK i \in 1 .. Len(z.locs) : z.locs[i] = x
          BY <4>1 DEF ToSet
        <5>2. list[i + 1] = x /\ i + 1 \in 1 .. Len(list)
          BY <4>3, <4>5, <5>1
        <5>3. QED
          BY <4>1, <5>2 DEF ToSet
      <4>9. QED
        BY <4>6, <4>7, <4>8
    <3>9. a \notin ToSet(z.locs)
      BY <3>2, <3>7
    <3>10. ASSUME NEW i \in 1 .. Len(list), NEW j \in 1 .. Len(list), list[i] = list[j] PROVE i = j
      <4>1. \A k \in 2 .. Len(list) : list[k] # a
        <5>1. ASSUME NEW k \in 2 .. Len(list) PROVE list[k] # a
          <6>1. z.locs[k-1] \in ToSet(z.locs)
            BY <3>2, <3>3 DEF ToSet
          <6>2. QED
            BY <3>3, <3>9, <6>1
        <5>2. QED
          BY <5>1
      <4>2. \A k \in 1 .. Len(list) : k = 1 \/ k \in 2 .. Len(list)
        BY <3>3
      <4>3. CASE i = 1 \/ j = 1
        BY <3>3, <3>10, <4>1, <4>2, <4>3
      <4>4. CASE i # 1 /\ j # 1
        <5>1. i \in 2 .. Len(list) /\ j \in 2 .. Len(list)
          BY <4>2, <4>4
        <5>2. z.locs[i-1] = z.locs[j-1] /\ i - 1 \in 1 .. Len(z.locs) /\ j - 1 \in 1 .. Len(z.locs)
          BY <3>3, <3>10, <5>1
        <5>3. i - 1 = j - 1
          BY <3>7, <5>2
        <5>4. QED
          BY <5>3
      <4>5. QED
        BY <4>3, <4>4
    <3>11. {x \in y.live : y.block[x].tag # "server"} = {a} \cup ToSet(z.locs)
      BY <3>1, <3>5, <3>7
    <3>12. Booked(y)
      BY <3>5, <3>8, <3>10, <3>11 DEF Booked
    <3>13. QED
      BY <3>1, <3>5, <3>6, <3>12 DEF GameGot, After, Sound
  <2>5. QED
    BY <2>3, <2>4
<1>3. QED
  BY <1>1, <1>2


(* The first of a list goes. *)
LEMMA FirstGoes ==
  ASSUME NEW S, NEW list \in Seq(S), NEW a, NEW new, new = RemoveFirst(list, a)
  PROVE  /\ new \in Seq(S)
         /\ Contains(list, a) => \E k \in 1 .. Len(list) :
              /\ list[k] = a /\ Len(new) = Len(list) - 1
              /\ \A i \in 1 .. Len(new) : new[i] = list[IF i < k THEN i ELSE i + 1]
<1> DEFINE at == {i \in 1 .. Len(list) : list[i] = a}
<1>1. CASE ~Contains(list, a)
  BY <1>1 DEF Contains, RemoveFirst
<1>2. CASE Contains(list, a)
  <2>1. at # {} /\ at \in SUBSET Nat
    BY <1>2 DEF Contains
  <2>2. Min(at) \in at
    <3> HIDE DEF at
    <3>1. QED
      BY <2>1, MinIsLeast
  <2>3. new = RemoveAt(list, IF at # {} THEN Min(at) ELSE 0)
    BY <1>2 DEF Contains, RemoveFirst, SelectInSeq
  <2> DEFINE k == Min(at)
  <2>4. k \in 1 .. Len(list) /\ list[k] = a
    BY <2>2
  <2>5. new = RemoveAt(list, k)
    BY <2>1, <2>3
  <2> HIDE DEF k
  <2>6. new \in Seq(S) /\ Len(new) = Len(list) - 1 /\ \A i \in 1 .. Len(new) : new[i] = list[IF i < k THEN i ELSE i + 1]
    BY <2>4, <2>5, RemovedIs
  <2>7. QED
    BY <2>4, <2>6
<1>3. QED
  BY <1>1, <1>2

LEMMA OneGoes ==
  ASSUME NEW S, NEW list \in Seq(S), NEW a \in ToSet(list), \A i, j \in 1 .. Len(list) : list[i] = list[j] => i = j,
         NEW new, new = RemoveFirst(list, a)
  PROVE  new \in Seq(S) /\ ToSet(new) = ToSet(list) \ {a} /\ \A i, j \in 1 .. Len(new) : new[i] = new[j] => i = j
<1>1. DOMAIN list = 1 .. Len(list) /\ Len(list) \in Nat
  OBVIOUS
<1>2. Contains(list, a)
  BY <1>1 DEF ToSet, Contains
<1>3. PICK k \in 1 .. Len(list) : list[k] = a /\ Len(new) = Len(list) - 1 /\ \A i \in 1 .. Len(new) : new[i] = list[IF i < k THEN i ELSE i + 1]
  BY <1>2, FirstGoes
<1>4. new \in Seq(S)
  BY FirstGoes
<1>5. DOMAIN new = 1 .. Len(new) /\ Len(new) \in Nat
  BY <1>4
<1> DEFINE Was(i) == IF i < k THEN i ELSE i + 1
<1>6. \A i \in 1 .. Len(new) : Was(i) \in 1 .. Len(list) /\ Was(i) # k /\ new[i] = list[Was(i)]
  BY <1>1, <1>3, <1>5
<1>7. \A i, j \in 1 .. Len(new) : Was(i) = Was(j) => i = j
  BY <1>1, <1>5
<1>8. ASSUME NEW j \in 1 .. Len(list), j # k PROVE \E i \in 1 .. Len(new) : Was(i) = j
  <2>1. CASE j < k
    <3>1. j \in 1 .. Len(new) /\ Was(j) = j
      BY <1>1, <1>3, <2>1
    <3>2. QED
      BY <3>1
  <2>2. CASE ~(j < k)
    <3>1. j - 1 \in 1 .. Len(new) /\ Was(j - 1) = j
      BY <1>1, <1>3, <1>8, <2>2
    <3>2. QED
      BY <3>1
  <2>3. QED
    BY <2>1, <2>2
<1> HIDE DEF Was
<1>9. ASSUME NEW x \in ToSet(new) PROVE x \in ToSet(list) \ {a}
  <2>1. PICK i \in 1 .. Len(new) : new[i] = x
    BY <1>5 DEF ToSet
  <2>2. Was(i) \in 1 .. Len(list) /\ Was(i) # k /\ list[Was(i)] = x
    BY <1>6, <2>1
  <2>3. x # a
    BY <1>3, <2>2
  <2>4. QED
    BY <1>1, <2>2, <2>3 DEF ToSet
<1>10. ASSUME NEW x \in ToSet(list) \ {a} PROVE x \in ToSet(new)
  <2>1. PICK j \in 1 .. Len(list) : list[j] = x
    BY <1>1 DEF ToSet
  <2>2. j # k
    BY <1>3, <2>1
  <2>3. PICK i \in 1 .. Len(new) : Was(i) = j
    BY <1>8, <2>2
  <2>4. new[i] = x
    BY <1>6, <2>1, <2>3
  <2>5. QED
    BY <1>5, <2>4 DEF ToSet
<1>11. \A i, j \in 1 .. Len(new) : new[i] = new[j] => i = j
  BY <1>6, <1>7
<1>12. QED
  BY <1>4, <1>9, <1>10, <1>11

LEMMA FreeTypes == ASSUME NEW z \in Heaps, NEW a \in Addr, NEW y, y = ZFree(z, a) PROVE y \in Heaps
<1> DEFINE before == Verify(z)
<1>1. before \in Heaps
  BY VerifyTypes
<1>2. "magic" \in Ends /\ "corruption" \in Ends
  BY DEF Ends
<1>3. LinkOut(z, a) \in Heaps
  BY LinkOutTypes DEF UnlinkedAt
<1>4. /\ Verify(LinkOut(z, a)) \in Heaps /\ Die(LinkOut(z, a), "corruption") \in Heaps
      /\ Die(z, "magic") \in Heaps /\ Die(before, "magic") \in Heaps
  BY <1>1, <1>2, <1>3, VerifyTypes, DieIs
<1>5. \/ y = z \/ y = before \/ y = LinkOut(z, a) \/ y = Verify(LinkOut(z, a)) \/ y = Die(LinkOut(z, a), "corruption")
      \/ y = Die(z, "magic") \/ y = Die(before, "magic")
  BY DEF ZFree, FreeRelease, FreeDebug
<1>6. QED
  BY <1>1, <1>3, <1>4, <1>5

LEMMA FreeGameTypes == ASSUME NEW z \in Heaps, NEW a \in Addr, NEW y, y = FreeGame(z, a) PROVE y \in Heaps
<1> DEFINE freed == ZFree(z, a)
           list == RemoveFirst(freed.locs, a)
<1>1. freed \in Heaps
  BY FreeTypes
<1>2. freed.locs \in Seq(Addr)
  BY <1>1 DEF Heaps
<1>3. list \in Seq(Addr)
  BY <1>2, FirstGoes
<1>4. "unknown" \in Ends /\ "corrupted" \in Ends
  BY DEF Ends
<1>5. Die(z, "unknown") \in Heaps /\ Die(z, "corrupted") \in Heaps
  BY <1>4, DieIs
<1>6. y = z \/ y = Die(z, "unknown") \/ y = Die(z, "corrupted") \/ y = freed \/ y = [freed EXCEPT !.locs = list]
  BY DEF FreeGame
<1> HIDE DEF freed, list
<1>7. [freed EXCEPT !.locs = list] \in Heaps
  BY <1>1, <1>3, LocsIs
<1>8. QED
  BY <1>1, <1>5, <1>6, <1>7

(* The game frees one of its blocks. *)
GameGone(z, a, res, wr, y) ==
  /\ After(y, res, wr)
  /\ Alive(y) => Booked(y) /\ y.live = z.live \ {a} /\ \A x \in z.live \ {a} : y.block[x] = z.block[x]
LEMMA FreeGameIs ==
  ASSUME NEW z \in Heaps, NEW res \in BOOLEAN, NEW wr, Sound(z, res, wr), Booked(z), NEW a \in z.live, z.block[a].tag # "server",
         NEW y, y = FreeGame(z, a)
  PROVE  GameGone(z, a, res, wr, y)
<1>1. /\ Alive(z) /\ z.block[Oldest].tag = "server" /\ \A x \in z.live : x \in wr <=> ~z.block[x].tail
  BY DEF Sound
<1>2. z.locs \in Seq(Addr) /\ Len(z.locs) \in Nat /\ DOMAIN z.locs = 1 .. Len(z.locs)
  BY DEF Heaps
<1>3. /\ ToSet(z.locs) = {x \in z.live : z.block[x].tag # "server"}
      /\ \A i, j \in 1 .. Len(z.locs) : z.locs[i] = z.locs[j] => i = j
  BY DEF Booked
<1>4. a \in ToSet(z.locs) /\ Contains(z.locs, a)
  BY <1>2, <1>3 DEF ToSet, Contains
<1>5. CASE ~z.block[a].tail
  <2>1. y = Die(z, "corrupted")
    BY <1>1, <1>4, <1>5 DEF FreeGame
  <2>2. "corrupted" \in Ends
    BY DEF Ends
  <2>3. y \in Heaps /\ y.err = "corrupted"
    BY <2>1, <2>2, DieIs
  <2>4. wr # {}
    BY <1>1, <1>5
  <2>5. QED
    BY <2>3, <2>4 DEF GameGone, After, Fair, Alive
<1>6. CASE z.block[a].tail
  <2> DEFINE freed == ZFree(z, a)
             list == RemoveFirst(freed.locs, a)
  <2>1. y = IF Alive(freed) THEN [freed EXCEPT !.locs = list] ELSE freed
    BY <1>1, <1>4, <1>6 DEF FreeGame
  <2>2. Gone(z, a, res, wr, freed)
    <3>1. freed = ZFree(z, a) /\ a \notin wr /\ a # Oldest
      BY <1>1, <1>6
    <3> HIDE DEF freed
    <3>2. QED
      BY <3>1, ZFreeIs
  <2>3. list = RemoveFirst(freed.locs, a)
    OBVIOUS
  <2> HIDE DEF freed, list
  <2>4. CASE ~Alive(freed)
    BY <2>1, <2>2, <2>4 DEF Gone, GameGone
  <2>5. CASE Alive(freed)
    <3>1. /\ freed \in Heaps /\ Sound(freed, res, wr) /\ freed.live = z.live \ {a} /\ freed.locs = z.locs
          /\ \A x \in z.live \ {a} : freed.block[x] = z.block[x]
      BY <2>2, <2>5 DEF Gone, After
    <3>2. list \in Seq(Addr) /\ ToSet(list) = ToSet(z.locs) \ {a} /\ \A i, j \in 1 .. Len(list) : list[i] = list[j] => i = j
      BY <1>2, <1>3, <1>4, <2>3, <3>1, OneGoes
    <3>3. y = [freed EXCEPT !.locs = list]
      BY <2>1, <2>5
    <3>4. y \in Heaps /\ y.live = freed.live /\ y.block = freed.block /\ y.locs = list
      BY <3>1, <3>2, <3>3, LocsIs
    <3>5. Sound(y, res, wr)
      BY <3>1, <3>2, <3>3, LocsKeep
    <3>6. {x \in y.live : y.block[x].tag # "server"} = ToSet(z.locs) \ {a}
      BY <1>3, <3>1, <3>4
    <3>7. Booked(y)
      BY <3>2, <3>4, <3>6 DEF Booked
    <3>8. QED
      BY <3>1, <3>4, <3>5, <3>7 DEF GameGone, After, Sound
  <2>6. QED
    BY <2>4, <2>5
<1>7. QED
  BY <1>5, <1>6

(* All blocks of a tag are freed. *)
TagGone(z, tag, res, wr, y) ==
  /\ After(y, res, wr)
  /\ Alive(y) => Booked(y) /\ y.live = {x \in z.live : z.block[x].tag # tag} /\ \A x \in y.live : y.block[x] = z.block[x]
(* i blocks of the ring have been looked at. *)
Freed(z, tag, r, i, res, wr, y) ==
  /\ After(y, res, wr)
  /\ Alive(y) => /\ Booked(y) /\ \A x \in y.live : y.block[x] = z.block[x]
                 /\ y.live = z.live \ {r[j] : j \in {k \in 1 .. i : z.block[r[k]].tag = tag}}
LEMMA DeadStays == ASSUME NEW z, NEW a, ~Alive(z) PROVE FreeGame(z, a) = z
BY DEF FreeGame

LEMMA FreedStep ==
  ASSUME NEW z \in Heaps, NEW tag \in {"level", "game"}, NEW r, NEW n, Ring(z, r, n), NEW i \in 1 .. n, NEW res \in BOOLEAN, NEW wr,
         NEW h, Freed(z, tag, r, i - 1, res, wr, h), NEW y,
         y = IF z.block[r[i]].tag = tag THEN FreeGame(h, r[i]) ELSE h
  PROVE  Freed(z, tag, r, i, res, wr, y)
<1> DEFINE Of(k) == {r[j] : j \in {l \in 1 .. k : z.block[r[l]].tag = tag}}
<1>1. n \in Nat /\ i \in Nat /\ (\A j \in 1 .. n : r[j] \in z.live) /\ \A j, k \in 1 .. n : r[j] = r[k] => j = k
  BY DEF Ring
<1>2. h \in Heaps /\ After(h, res, wr)
  BY DEF Freed, After
<1>3. 1 .. i = (1 .. (i - 1)) \cup {i}
  BY <1>1
<1>4. CASE ~Alive(h)
  <2>1. y = h
    BY <1>4, DeadStays
  <2>2. QED
    BY <1>2, <1>4, <2>1 DEF Freed
<1>5. CASE Alive(h) /\ z.block[r[i]].tag # tag
  <2>1. y = h /\ Of(i) = Of(i - 1)
    BY <1>3, <1>5
  <2>2. QED
    BY <1>5, <2>1 DEF Freed
<1>6. CASE Alive(h) /\ z.block[r[i]].tag = tag
  <2>1. Sound(h, res, wr) /\ Booked(h) /\ h.live = z.live \ Of(i - 1) /\ \A x \in h.live : h.block[x] = z.block[x]
    BY <1>6 DEF Freed, After
  <2>2. Of(i) = Of(i - 1) \cup {r[i]}
    BY <1>3, <1>6
  <2>3. r[i] \notin Of(i - 1)
    <3>1. ASSUME NEW j \in 1 .. i - 1 PROVE r[j] # r[i]
      <4>1. j \in 1 .. n /\ j # i
        BY <1>1
      <4>2. QED
        BY <1>1, <4>1
    <3>2. QED
      BY <3>1
  <2> HIDE DEF Of
  <2>4. r[i] \in h.live /\ h.block[r[i]].tag # "server"
    BY <1>1, <1>6, <2>1, <2>3
  <2>5. y = FreeGame(h, r[i])
    BY <1>6
  <2>6. GameGone(h, r[i], res, wr, y)
    BY <1>2, <2>1, <2>4, <2>5, FreeGameIs
  <2>7. Alive(y) => Booked(y) /\ y.live = z.live \ Of(i) /\ \A x \in y.live : y.block[x] = z.block[x]
    BY <2>1, <2>2, <2>6 DEF GameGone
  <2>8. After(y, res, wr)
    BY <2>6 DEF GameGone
  <2>9. QED
    BY <2>7, <2>8 DEF Freed, Of
<1>7. QED
  BY <1>4, <1>5, <1>6

LEMMA FreeTagsGameIs ==
  ASSUME NEW z \in Heaps, NEW res \in BOOLEAN, NEW wr, Sound(z, res, wr), Booked(z), NEW tag \in {"level", "game"},
         NEW y, y = FreeTagsGame(z, tag)
  PROVE  TagGone(z, tag, res, wr, y)
<1>1. /\ Alive(z) /\ wr \subseteq z.live /\ (\A x \in z.live : x \in wr <=> ~z.block[x].tail)
  BY DEF Sound
<1>2. ToSet(z.locs) \subseteq z.live
  BY DEF Booked
<1>3. CASE \E a \in ToSet(z.locs) : ~z.block[a].tail
  <2>1. y = Die(z, "corrupted")
    BY <1>1, <1>3 DEF FreeTagsGame
  <2>2. "corrupted" \in Ends
    BY DEF Ends
  <2>3. y \in Heaps /\ y.err = "corrupted"
    BY <2>1, <2>2, DieIs
  <2>4. wr # {}
    BY <1>1, <1>2, <1>3
  <2>5. QED
    BY <2>3, <2>4 DEF TagGone, After, Fair, Alive
<1>4. CASE ~\E a \in ToSet(z.locs) : ~z.block[a].tail
  <2>1. PICK r, s, n : Ring(z, r, n)
    BY DEF Sound
  <2> DEFINE w == Chain(z)
             Step(h, i) == IF z.block[w[i]].tag = tag THEN FreeGame(h, w[i]) ELSE h
             Body(g) == [i \in 0 .. Len(w) |-> IF i = 0 THEN z
                                    ELSE IF z.block[w[i]].tag = tag THEN FreeGame(g[i-1], w[i]) ELSE g[i-1]]
             freed == CHOOSE g : g = Body(g)
  <2>2. y = IF zdebug THEN Verify(freed[Len(w)]) ELSE freed[Len(w)]
    BY <1>1, <1>4 DEF FreeTagsGame
  <2>3. w = [i \in 1 .. n |-> r[i]] /\ Len(w) = n /\ n \in Nat /\ n > 0 /\ \A i \in 1 .. n : r[i] \in z.live
    <3>1. n \in Nat /\ n > 0 /\ \A i \in 1 .. n : r[i] \in z.live
      BY <2>1 DEF Ring
    <3>2. QED
      BY <2>1, <3>1, ChainIs
  <2>4. \A i \in 1 .. n : w[i] = r[i] /\ r[i] \in Addr
    <3>1. z.live \subseteq Addr
      BY DEF Heaps
    <3> HIDE DEF w
    <3>2. QED
      BY <2>3, <3>1
  <2> HIDE DEF w
  <2>5. \E g : g = Body(g)
    <3> DEFINE st == [i \in 1 .. n |-> [h \in Heaps |-> Step(h, i)]]
    <3>1. ASSUME NEW i \in 1 .. n, NEW h \in Heaps PROVE Step(h, i) \in Heaps
      BY <2>4, FreeGameTypes
    <3>2. st \in [1 .. n -> [Heaps -> Heaps]]
      <4> HIDE DEF Step
      <4>1. QED
        BY <3>1
    <3>3. \A i \in 1 .. n, h \in Heaps : st[i][h] = Step(h, i)
      OBVIOUS
    <3> HIDE DEF st
    <3>4. PICK f : Recurs(f, n, Heaps, z, st)
      BY <2>3, <3>2, Recursion
    <3>5. f \in [0 .. n -> Heaps] /\ f[0] = z /\ \A i \in 1 .. n : f[i] = st[i][f[i-1]]
      BY <3>4 DEF Recurs
    <3>6. \A i \in 0 .. n : f[i] = IF i = 0 THEN z ELSE Step(f[i-1], i)
      <4>1. ASSUME NEW i \in 1 .. n PROVE f[i] = Step(f[i-1], i)
        <5>1. i - 1 \in 0 .. n
          BY <2>3
        <5>2. f[i-1] \in Heaps
          BY <3>5, <5>1
        <5> HIDE DEF Step
        <5>3. QED
          BY <3>3, <3>5, <5>2
      <4>2. \A i \in 0 .. n : i # 0 => i \in 1 .. n
        BY <2>3
      <4> HIDE DEF Step
      <4>3. QED
        BY <3>5, <4>1, <4>2
    <3>7. f = Body(f)
      BY <2>3, <3>5, <3>6
    <3>8. QED
      <4> HIDE DEF Body
      <4>1. QED
        BY <3>7
  <2>6. freed = Body(freed)
    <3> HIDE DEF Body
    <3>1. QED
      BY <2>5
  <2> HIDE DEF freed
  <2>7. freed[0] = z /\ \A i \in 1 .. n : freed[i] = IF z.block[r[i]].tag = tag THEN FreeGame(freed[i-1], r[i]) ELSE freed[i-1]
    <3>1. 0 \in 0 .. n /\ \A i \in 1 .. n : i # 0 /\ i \in 0 .. n
      BY <2>3
    <3>2. QED
      BY <2>3, <2>4, <2>6, <3>1
  <2>8. \A i \in 0 .. n : Freed(z, tag, r, i, res, wr, freed[i])
    <3> DEFINE P == [i \in 0 .. n |-> Freed(z, tag, r, i, res, wr, freed[i])]
    <3>0. 0 \in 0 .. n
      BY <2>3
    <3>1. P[0]
      <4>1. {r[j] : j \in {k \in 1 .. 0 : z.block[r[k]].tag = tag}} = {}
        OBVIOUS
      <4>2. Freed(z, tag, r, 0, res, wr, z)
        BY <1>1, <4>1 DEF Freed, After
      <4>3. QED
        BY <2>7, <3>0, <4>2
    <3>2. ASSUME NEW i \in 1 .. n, P[i-1] PROVE P[i]
      <4>1. i \in 0 .. n /\ i - 1 \in 0 .. n
        BY <2>3
      <4>2. Freed(z, tag, r, i - 1, res, wr, freed[i-1])
        BY <3>2, <4>1
      <4>3. freed[i] = IF z.block[r[i]].tag = tag THEN FreeGame(freed[i-1], r[i]) ELSE freed[i-1]
        BY <2>7
      <4>4. Freed(z, tag, r, i, res, wr, freed[i])
        BY <2>1, <4>2, <4>3, FreedStep
      <4>5. QED
        BY <4>1, <4>4
    <3>3. P \in [0 .. n -> BOOLEAN]
      BY DEF Freed
    <3>4. \A i \in 0 .. n : P[i]
      <4> HIDE DEF P
      <4>1. QED
        BY <2>3, <3>1, <3>2, <3>3, ByInduction
    <3>5. QED
      BY <3>4
  <2> DEFINE last == freed[n]
  <2>9. Freed(z, tag, r, n, res, wr, last)
    BY <2>3, <2>8
  <2>10. y = IF zdebug THEN Verify(last) ELSE last
    BY <2>2, <2>3
  <2> HIDE DEF last
  <2>11. z.live \ {r[j] : j \in {k \in 1 .. n : z.block[r[k]].tag = tag}} = {x \in z.live : z.block[x].tag # tag}
    <3>1. \A a \in z.live : \E i \in 1 .. n : r[i] = a
      BY <2>1 DEF Ring
    <3>2. QED
      BY <3>1
  <2>12. TagGone(z, tag, res, wr, last)
    BY <2>9, <2>11 DEF Freed, TagGone
  <2>13. last \in Heaps /\ (Alive(last) => Sound(last, res, wr))
    BY <2>12 DEF TagGone, After
  <2>14. After(y, res, wr) /\ (Alive(y) => y = last)
    <3>1. CASE ~zdebug
      BY <2>10, <2>12, <3>1 DEF TagGone
    <3>2. CASE zdebug /\ Alive(last)
      <4>1. After(Verify(last), res, wr) /\ (Alive(Verify(last)) => Verify(last) = last)
        BY <2>13, <3>2, Verified
      <4>2. QED
        BY <2>10, <3>2, <4>1
    <3>3. CASE zdebug /\ ~Alive(last)
      <4>1. y = last
        BY <2>10, <3>3 DEF Verify
      <4>2. QED
        BY <2>12, <4>1 DEF TagGone
    <3>4. QED
      BY <3>1, <3>2, <3>3
  <2>15. QED
    BY <2>12, <2>14 DEF TagGone
<1>5. QED
  BY <1>3, <1>4


(* What is so between the operations. *)
Known == [name : Models, at : Addr, data : Addr, ids : SUBSET Int]
HeldFor(z, list, many) ==
  \A b \in ToSet(list) : /\ b.at \in z.live /\ b.data \in z.live
                         /\ z.block[b.at].tag = "level" /\ z.block[b.data].tag = "level" /\ b.ids \subseteq 1 .. many
Whole(z, res, wr, list, many) ==
  /\ After(z, res, wr)
  /\ Alive(z) => Booked(z) /\ HeldFor(z, list, many)
ZoneInv ==
  /\ bounds \in Seq(Known) /\ numBounds \in Nat /\ resized \in BOOLEAN /\ zdebug \in BOOLEAN
  /\ Whole(heap, resized, written, bounds, numBounds)

LEMMA ZoneStarts == ZInit => ZoneInv
<1>1. SUFFICES ASSUME ZInit PROVE ZoneInv
  OBVIOUS
<1>2. /\ heap = [next |-> Swapped, prev |-> Swapped, live |-> {Oldest}, count |-> 1, bytes |-> Header,
             block |-> [a \in Addr |-> IF a = Oldest THEN [NoBlock EXCEPT !.size = Header] ELSE NoBlock],
             locs |-> <<>>, err |-> "none"]
      /\ zdebug \in BOOLEAN /\ bounds = <<>> /\ numBounds = 0 /\ written = {} /\ resized = FALSE
  BY <1>1 DEF ZInit
<1>3. Oldest \in Addr /\ ZChain \notin Addr /\ Header \in Nat
  BY ZoneAssumption
<1>4. Swapped \in [Places_ -> Places_] /\ Swapped[ZChain] = Oldest /\ Swapped[Oldest] = ZChain
  BY <1>3 DEF Swapped, Places_
<1> DEFINE b == [NoBlock EXCEPT !.size = Header]
           bl == [a \in Addr |-> IF a = Oldest THEN b ELSE NoBlock]
<1>5. b \in Blocks /\ NoBlock \in Blocks /\ b.tag = "server" /\ b.guard /\ b.tail /\ b.size = Header /\ ~b.debug
  BY <1>3 DEF NoBlock, Blocks, Tags
<1> HIDE DEF b
<1>6. bl \in [Addr -> Blocks] /\ bl[Oldest] = b
  BY <1>3, <1>5
<1>7. heap.block = bl /\ heap.next = Swapped /\ heap.prev = Swapped /\ heap.live = {Oldest} /\ heap.count = 1 /\ heap.bytes = Header
      /\ heap.locs = <<>> /\ heap.err = "none"
  BY <1>2 DEF b
<1> HIDE DEF bl
<1>8. heap \in Heaps
  <2>1. heap = [next |-> Swapped, prev |-> Swapped, live |-> {Oldest}, count |-> 1, bytes |-> Header,
                block |-> bl, locs |-> <<>>, err |-> "none"]
    BY <1>2 DEF bl, b
  <2>2. <<>> \in Seq(Addr) /\ "none" \in Ends /\ {Oldest} \in SUBSET Addr /\ 1 \in Int /\ Header \in Int
    BY <1>3 DEF Ends
  <2>3. QED
    BY <1>4, <1>6, <2>1, <2>2 DEF Heaps
<1> DEFINE r == [i \in 0 .. 2 |-> IF i = 1 THEN Oldest ELSE ZChain]
           s == [i \in 0 .. 1 |-> IF i = 0 THEN 0 ELSE Header]
<1>9. Cardinality(heap.live) = 1
  BY <1>7, FS_Singleton
<1>10. Ring(heap, r, 1)
  <2>1. r \in [0 .. 1 + 1 -> Places_] /\ r[0] = ZChain /\ r[1] = Oldest /\ r[1 + 1] = ZChain
    BY <1>3 DEF Places_
  <2> HIDE DEF r
  <2>2. \A i \in 0 .. 1 : heap.next[r[i]] = r[i + 1] /\ heap.prev[r[i + 1]] = r[i]
    <3>1. \A i \in 0 .. 1 : i = 0 \/ i = 1
      OBVIOUS
    <3>2. r[0 + 1] = Oldest /\ r[1 + 1] = ZChain
      BY <2>1
    <3>3. QED
      BY <1>4, <1>7, <2>1, <3>1, <3>2
  <2>3. \A i \in 1 .. 1 : i = 1
    OBVIOUS
  <2>4. (\A i \in 1 .. 1 : r[i] \in heap.live) /\ (\A i, j \in 1 .. 1 : r[i] = r[j] => i = j)
    BY <1>7, <2>1, <2>3
  <2>5. \A a \in heap.live : \E i \in 1 .. 1 : r[i] = a
    <3>1. 1 \in 1 .. 1
      OBVIOUS
    <3>2. QED
      BY <1>7, <2>1, <3>1
  <2>6. 1 \in Nat /\ 1 > 0
    OBVIOUS
  <2>7. QED
    BY <1>9, <2>1, <2>2, <2>4, <2>5, <2>6 DEF Ring
<1>11. Sums(heap, r, s, 1)
  <2>1. s \in [0 .. 1 -> Int] /\ s[0] = 0 /\ s[1] = Header
    BY <1>3
  <2>2. \A i \in 1 .. 1 : i = 1 /\ i - 1 = 0
    OBVIOUS
  <2>3. r[1] = Oldest
    OBVIOUS
  <2> HIDE DEF r, s
  <2>4. \A i \in 1 .. 1 : s[i] = s[i-1] + heap.block[r[i]].size
    BY <1>3, <1>5, <1>6, <1>7, <2>1, <2>2, <2>3
  <2>5. QED
    BY <1>7, <2>1, <2>4 DEF Sums
<1> HIDE DEF r, s
<1>12. Sound(heap, resized, written)
  <2>1. \A a \in heap.live : heap.block[a] = b
    BY <1>6, <1>7
  <2>2. Alive(heap) /\ heap.count = Cardinality(heap.live)
    BY <1>7, <1>9 DEF Alive
  <2>3. QED
    BY <1>2, <1>5, <1>6, <1>7, <1>10, <1>11, <2>1, <2>2 DEF Sound
<1>13. Booked(heap)
  <2>1. Len(heap.locs) = 0 /\ DOMAIN heap.locs = {} /\ 1 .. 0 = {}
    BY <1>7
  <2>2. {a \in heap.live : heap.block[a].tag # "server"} = {}
    BY <1>5, <1>6, <1>7
  <2>3. QED
    BY <2>1, <2>2 DEF Booked, ToSet
<1>14. HeldFor(heap, bounds, numBounds)
  BY <1>2 DEF HeldFor, ToSet
<1>15. bounds \in Seq(Known) /\ numBounds \in Nat
  BY <1>2
<1>16. QED
  BY <1>2, <1>8, <1>12, <1>13, <1>14, <1>15 DEF ZoneInv, Whole, After, Sound

LEMMA HeldMore ==
  ASSUME NEW z, NEW y, NEW list, NEW many, HeldFor(z, list, many),
         \A b \in ToSet(list) : /\ b.at \in z.live => b.at \in y.live /\ y.block[b.at].tag = z.block[b.at].tag
                                /\ b.data \in z.live => b.data \in y.live /\ y.block[b.data].tag = z.block[b.data].tag
  PROVE  HeldFor(y, list, many)
BY DEF HeldFor

LEMMA ServerAllocates == ASSUME ZoneInv, NEW size \in Sizes, Alloc(size) PROVE ZoneInv'
<1>1. /\ Alive(heap) /\ heap \in Heaps /\ Sound(heap, resized, written) /\ Booked(heap) /\ HeldFor(heap, bounds, numBounds)
      /\ resized \in BOOLEAN
  BY DEF ZoneInv, Whole, After, Alloc, Running
<1>2. PICK a \in Addr \ heap.live : heap' = TagMalloc(heap, a, size, "server")
  BY DEF Alloc, Free
<1>3. UNCHANGED <<zdebug, bounds, numBounds, written, resized>>
  BY DEF Alloc
<1> DEFINE y == heap'
<1>4. Got(heap, a, "server", resized, written, y)
  <2>1. size \in Nat /\ "server" \in Tags
    BY ZoneAssumption DEF Tags
  <2> HIDE DEF y
  <2>2. y = TagMalloc(heap, a, size, "server")
    BY <1>2 DEF y
  <2>3. QED
    BY <1>1, <2>1, <2>2, TagMallocIs
<1> HIDE DEF y
<1>5. ASSUME Alive(y) PROVE Booked(y) /\ HeldFor(y, bounds, numBounds)
  <2>1. /\ y.live = heap.live \cup {a} /\ y.locs = heap.locs /\ y.block[a].tag = "server"
        /\ \A x \in heap.live : y.block[x] = heap.block[x]
    BY <1>4, <1>5 DEF Got
  <2>2. Booked(y)
    BY <1>1, <2>1 DEF Booked
  <2>3. HeldFor(y, bounds, numBounds)
    BY <1>1, <2>1, HeldMore
  <2>4. QED
    BY <2>2, <2>3
<1>6. Whole(y, resized, written, bounds, numBounds)
  BY <1>4, <1>5 DEF Got, Whole
<1>7. QED
  BY <1>3, <1>6 DEF ZoneInv, y

LEMMA ServerFrees == ASSUME ZoneInv, NEW a \in heap.live, Release(a) PROVE ZoneInv'
<1>1. /\ Alive(heap) /\ heap \in Heaps /\ Sound(heap, resized, written) /\ Booked(heap) /\ HeldFor(heap, bounds, numBounds)
      /\ resized \in BOOLEAN
  BY DEF ZoneInv, Whole, After, Release, Running
<1>2. heap' = ZFree(heap, a) /\ heap.block[a].tag = "server" /\ a # Oldest /\ UNCHANGED <<zdebug, bounds, numBounds, written, resized>>
  BY DEF Release
<1>3. a \notin written
  BY <1>1, <1>2 DEF Sound
<1> DEFINE y == heap'
<1>4. Gone(heap, a, resized, written, y)
  <2>1. y = ZFree(heap, a)
    BY <1>2
  <2> HIDE DEF y
  <2>2. QED
    BY <1>1, <1>2, <1>3, <2>1, ZFreeIs
<1> HIDE DEF y
<1>5. ASSUME Alive(y) PROVE Booked(y) /\ HeldFor(y, bounds, numBounds)
  <2>1. y.live = heap.live \ {a} /\ y.locs = heap.locs /\ \A x \in heap.live \ {a} : y.block[x] = heap.block[x]
    BY <1>4, <1>5 DEF Gone
  <2>2. Booked(y)
    BY <1>1, <1>2, <2>1 DEF Booked
  <2>3. HeldFor(y, bounds, numBounds)
    BY <1>1, <1>2, <2>1 DEF HeldFor
  <2>4. QED
    BY <2>2, <2>3
<1>6. Whole(y, resized, written, bounds, numBounds)
  BY <1>4, <1>5 DEF Gone, Whole
<1>7. QED
  BY <1>2, <1>6 DEF ZoneInv, y

LEMMA ServerResizes == ASSUME ZoneInv, NEW size \in Sizes, NEW a \in heap.live, Resize(a, size) PROVE ZoneInv'
<1>1. /\ Alive(heap) /\ heap \in Heaps /\ Sound(heap, resized, written) /\ Booked(heap) /\ HeldFor(heap, bounds, numBounds)
      /\ resized \in BOOLEAN
  BY DEF ZoneInv, Whole, After, Resize, Running
<1>2. /\ heap.block[a].tag = "server" /\ a # Oldest /\ UNCHANGED <<zdebug, bounds, numBounds, written>>
      /\ resized' = (resized \/ heap.block[a].debug)
  BY DEF Resize
<1>3. PICK to \in (Addr \ heap.live) \cup {a}, last \in BOOLEAN : heap' = Realloc(heap, a, to, size, last)
  BY DEF Resize, Free
<1>4. a \in Addr /\ to \in Addr /\ (to \notin heap.live \/ to = a) /\ size \in Nat /\ heap.block[a].debug \in BOOLEAN
  <2>1. heap.live \subseteq Addr /\ heap.block \in [Addr -> Blocks]
    BY <1>1 DEF Heaps
  <2>2. a \in Addr /\ heap.block[a] \in Blocks
    BY <2>1
  <2>3. size \in Nat
    BY ZoneAssumption
  <2>4. QED
    BY <2>2, <2>3 DEF Blocks
<1>5. a \notin written
  BY <1>1, <1>2 DEF Sound
<1> DEFINE y == heap'
           more == resized'
<1>6. more \in BOOLEAN /\ (resized => more) /\ (heap.block[a].debug => more) /\ y = Realloc(heap, a, to, size, last)
  BY <1>1, <1>2, <1>3, <1>4
<1> HIDE DEF y, more
<1>7. /\ y \in Heaps /\ Sound(y, more, written) /\ y.locs = heap.locs /\ y.live = (heap.live \ {a}) \cup {to}
      /\ y.block[to].tag = heap.block[a].tag /\ \A x \in heap.live \ {a} : y.block[x] = heap.block[x]
  BY <1>1, <1>2, <1>4, <1>5, <1>6, ReallocIs
<1>8. Booked(y)
  <2>1. {x \in y.live : y.block[x].tag # "server"} = {x \in heap.live : heap.block[x].tag # "server"}
    BY <1>2, <1>4, <1>7
  <2>2. QED
    BY <1>1, <1>7, <2>1 DEF Booked
<1>9. HeldFor(y, bounds, numBounds)
  BY <1>1, <1>2, <1>7 DEF HeldFor
<1>10. Whole(y, more, written, bounds, numBounds)
  BY <1>7, <1>8, <1>9 DEF Whole, After, Sound
<1>11. QED
  BY <1>2, <1>6, <1>10 DEF ZoneInv, y, more

LEMMA GameAllocates == ASSUME ZoneInv, NEW size \in Sizes, NEW tag \in {"level", "game"}, GameAlloc(size, tag) PROVE ZoneInv'
<1>1. /\ Alive(heap) /\ heap \in Heaps /\ Sound(heap, resized, written) /\ Booked(heap) /\ HeldFor(heap, bounds, numBounds)
      /\ resized \in BOOLEAN
  BY DEF ZoneInv, Whole, After, GameAlloc, Running
<1>2. PICK a \in Addr \ heap.live : heap' = TagMallocGame(heap, a, size, tag)
  BY DEF GameAlloc, Free
<1>3. UNCHANGED <<zdebug, bounds, numBounds, written, resized>>
  BY DEF GameAlloc
<1> DEFINE y == heap'
<1>4. GameGot(heap, a, tag, resized, written, y)
  <2>1. size \in Nat
    BY ZoneAssumption
  <2>2. y = TagMallocGame(heap, a, size, tag)
    BY <1>2
  <2> HIDE DEF y
  <2>3. QED
    BY <1>1, <2>1, <2>2, TagMallocGameIs
<1> HIDE DEF y
<1>5. ASSUME Alive(y) PROVE HeldFor(y, bounds, numBounds)
  BY <1>1, <1>4, <1>5 DEF HeldFor, GameGot
<1>6. Whole(y, resized, written, bounds, numBounds)
  BY <1>4, <1>5 DEF GameGot, Whole
<1>7. QED
  BY <1>3, <1>6 DEF ZoneInv, y

LEMMA GameFrees == ASSUME ZoneInv, NEW a \in heap.live, GameFree(a) PROVE ZoneInv'
<1>1. /\ Alive(heap) /\ heap \in Heaps /\ Sound(heap, resized, written) /\ Booked(heap) /\ HeldFor(heap, bounds, numBounds)
      /\ resized \in BOOLEAN
  BY DEF ZoneInv, Whole, After, GameFree, Running
<1>2. heap' = FreeGame(heap, a) /\ a \in ToSet(heap.locs) \ Cached /\ UNCHANGED <<zdebug, bounds, numBounds, written, resized>>
  BY DEF GameFree
<1>3. heap.block[a].tag # "server"
  BY <1>1, <1>2 DEF Booked
<1> DEFINE y == heap'
<1>4. GameGone(heap, a, resized, written, y)
  <2>1. y = FreeGame(heap, a)
    BY <1>2
  <2> HIDE DEF y
  <2>2. QED
    BY <1>1, <1>3, <2>1, FreeGameIs
<1> HIDE DEF y
<1>5. ASSUME Alive(y) PROVE HeldFor(y, bounds, numBounds)
  <2>1. \A b \in ToSet(bounds) : b.at # a /\ b.data # a
    BY <1>2 DEF Cached
  <2>2. y.live = heap.live \ {a} /\ \A x \in heap.live \ {a} : y.block[x] = heap.block[x]
    BY <1>4, <1>5 DEF GameGone
  <2>3. QED
    BY <1>1, <2>1, <2>2 DEF HeldFor
<1>6. Whole(y, resized, written, bounds, numBounds)
  BY <1>4, <1>5 DEF GameGone, Whole
<1>7. QED
  BY <1>2, <1>6 DEF ZoneInv, y

(* The game writes over the end of a block. *)
WriteOver(z, a) == [z EXCEPT !.block[a].tail = FALSE]
WroteAt(z, a, y) ==
  /\ y \in Heaps /\ y.live = z.live /\ y.next = z.next /\ y.prev = z.prev /\ y.count = z.count /\ y.bytes = z.bytes
  /\ y.err = z.err /\ y.locs = z.locs /\ y.block = [z.block EXCEPT ![a] = [z.block[a] EXCEPT !.tail = FALSE]]
LEMMA WriteIs ==
  ASSUME NEW z \in Heaps, NEW a \in Addr, NEW y, y = WriteOver(z, a)
  PROVE  WroteAt(z, a, y)
<1> DEFINE bl == [z.block EXCEPT ![a] = [z.block[a] EXCEPT !.tail = FALSE]]
<1>1. z = [next |-> z.next, prev |-> z.prev, live |-> z.live, count |-> z.count, bytes |-> z.bytes,
           block |-> z.block, locs |-> z.locs, err |-> z.err]
      /\ z.next \in [Places_ -> Places_] /\ z.prev \in [Places_ -> Places_] /\ z.live \in SUBSET Addr
      /\ z.count \in Int /\ z.bytes \in Int /\ z.block \in [Addr -> Blocks] /\ z.locs \in Seq(Addr) /\ z.err \in Ends
  BY DEF Heaps
<1>2. z.block[a] \in Blocks
  BY <1>1
<1>3. [z.block[a] EXCEPT !.tail = FALSE] \in Blocks
  BY <1>2 DEF Blocks
<1>4. bl \in [Addr -> Blocks]
  BY <1>1, <1>3
<1>5. y = [next |-> z.next, prev |-> z.prev, live |-> z.live, count |-> z.count, bytes |-> z.bytes,
           block |-> bl, locs |-> z.locs, err |-> z.err]
  BY <1>1 DEF WriteOver
<1> HIDE DEF bl
<1>6. y \in Heaps
  BY <1>1, <1>4, <1>5 DEF Heaps
<1>7. QED
  BY <1>5, <1>6 DEF bl, WroteAt

LEMMA GameWrites == ASSUME ZoneInv, NEW a \in heap.live, GameWritesOver(a) PROVE ZoneInv'
<1>1. /\ Alive(heap) /\ heap \in Heaps /\ Sound(heap, resized, written) /\ Booked(heap) /\ HeldFor(heap, bounds, numBounds)
      /\ resized \in BOOLEAN
  BY DEF ZoneInv, Whole, After, GameWritesOver, Running
<1>2. /\ heap' = [heap EXCEPT !.block[a].tail = FALSE] /\ a \in ToSet(heap.locs) /\ written = {} /\ written' = written \cup {a}
      /\ UNCHANGED <<zdebug, bounds, numBounds, resized>>
  BY DEF GameWritesOver
<1> DEFINE y == heap'
           wr == written'
<1>3. a \in Addr /\ heap.block \in [Addr -> Blocks] /\ heap.live \subseteq Addr /\ heap.block[a] \in Blocks /\ Oldest \in heap.live
  <2>1. heap.live \subseteq Addr /\ heap.block \in [Addr -> Blocks]
    BY <1>1 DEF Heaps
  <2>2. Oldest \in heap.live
    BY <1>1, OldestLives
  <2>3. QED
    BY <2>1, <2>2
<1>4. heap.block[a].tag # "server"
  BY <1>1, <1>2 DEF Booked
<1>5. y = WriteOver(heap, a) /\ wr = {a}
  BY <1>2 DEF WriteOver
<1> HIDE DEF y, wr
<1>6. /\ y \in Heaps /\ y.live = heap.live /\ y.next = heap.next /\ y.prev = heap.prev /\ y.count = heap.count /\ y.bytes = heap.bytes /\ y.err = heap.err
      /\ y.locs = heap.locs /\ y.block = [heap.block EXCEPT ![a] = [heap.block[a] EXCEPT !.tail = FALSE]]
  <2>1. WroteAt(heap, a, y)
    BY <1>1, <1>3, <1>5, WriteIs
  <2>2. QED
    BY <2>1 DEF WroteAt
<1>7. \A x \in heap.live : /\ y.block[x].tag = heap.block[x].tag /\ y.block[x].size = heap.block[x].size
                           /\ y.block[x].debug = heap.block[x].debug /\ y.block[x].guard = heap.block[x].guard
                           /\ y.block[x].tail = IF x = a THEN FALSE ELSE heap.block[x].tail
  <2>1. ASSUME NEW x \in heap.live, x # a PROVE y.block[x] = heap.block[x]
    BY <1>3, <1>6, <2>1
  <2>2. y.block[a] = [heap.block[a] EXCEPT !.tail = FALSE]
    BY <1>3, <1>6
  <2>3. /\ y.block[a].tag = heap.block[a].tag /\ y.block[a].size = heap.block[a].size /\ y.block[a].debug = heap.block[a].debug
        /\ y.block[a].guard = heap.block[a].guard /\ y.block[a].tail = FALSE
    BY <1>3, <2>2 DEF Blocks
  <2>4. QED
    BY <2>1, <2>3
<1>8. PICK r, s, n : Ring(heap, r, n) /\ Sums(heap, r, s, n)
  BY <1>1 DEF Sound
<1>9. Ring(y, r, n)
  BY <1>6, <1>8 DEF Ring
<1>10. Sums(y, r, s, n)
  <2>1. \A i \in 1 .. n : r[i] \in heap.live
    BY <1>8 DEF Ring
  <2>2. \A i \in 1 .. n : y.block[r[i]].size = heap.block[r[i]].size
    BY <1>7, <2>1
  <2>3. QED
    BY <1>6, <1>8, <2>2 DEF Sums
<1>11. Sound(y, resized, wr)
  <2>1. /\ heap.block[Oldest].tag = "server" /\ heap.count = Cardinality(heap.live)
        /\ \A x \in heap.live : ~resized /\ heap.block[x].debug => heap.block[x].guard
    BY <1>1 DEF Sound
  <2>2. \A x \in heap.live : heap.block[x].tail
    BY <1>1, <1>2 DEF Sound
  <2>3. \A x \in y.live : ~resized /\ y.block[x].debug => y.block[x].guard
    BY <1>6, <1>7, <2>1
  <2>4. \A x \in y.live : x \in wr <=> ~y.block[x].tail
    BY <1>5, <1>6, <1>7, <2>2
  <2>5. wr \subseteq y.live /\ \A x \in wr : y.block[x].tag # "server"
    BY <1>4, <1>5, <1>6, <1>7
  <2>6. y.block[Oldest].tag = "server"
    BY <1>3, <1>7, <2>1
  <2>7. Alive(y) /\ y.count = Cardinality(y.live)
    BY <1>1, <1>6, <2>1 DEF Alive
  <2>8. QED
    BY <1>9, <1>10, <2>3, <2>4, <2>5, <2>6, <2>7 DEF Sound
<1>12. Booked(y)
  BY <1>1, <1>6, <1>7 DEF Booked
<1>13. HeldFor(y, bounds, numBounds)
  BY <1>1, <1>6, <1>7 DEF HeldFor
<1>14. Whole(y, resized, wr, bounds, numBounds)
  BY <1>6, <1>11, <1>12, <1>13 DEF Whole, After, Sound
<1>15. QED
  BY <1>2, <1>14 DEF ZoneInv, y, wr

LEMMA ModelHeld == ASSUME ZoneInv, NEW m \in Models, GetObjectBounds(m) PROVE ZoneInv'
<1>1. /\ Alive(heap) /\ heap \in Heaps /\ Sound(heap, resized, written) /\ Booked(heap) /\ HeldFor(heap, bounds, numBounds)
      /\ resized \in BOOLEAN /\ bounds \in Seq(Known) /\ numBounds \in Nat
  BY DEF ZoneInv, Whole, After, GetObjectBounds, Running
<1> DEFINE new(a, d) == [name |-> m, at |-> a, data |-> d, ids |-> (numBounds + 1) .. (numBounds + SubObjects[m])]
<1>2. PICK a \in Addr \ heap.live, d \in Addr \ heap.live :
        LET named == TagMallocGame(heap, a, 1, "level") IN
        /\ a # d /\ heap' = IF Alive(named) THEN TagMallocGame(named, d, SubObjects[m], "level") ELSE named
        /\ bounds' = Append(bounds, new(a, d)) /\ numBounds' = numBounds + SubObjects[m]
  BY DEF GetObjectBounds, Free
<1>3. UNCHANGED <<zdebug, written, resized>>
  BY DEF GetObjectBounds
<1> DEFINE named == TagMallocGame(heap, a, 1, "level")
           y == heap'
           list == bounds'
           many == numBounds'
           b == new(a, d)
<1>4. a # d /\ y = IF Alive(named) THEN TagMallocGame(named, d, SubObjects[m], "level") ELSE named
  BY <1>2
<1>5. GameGot(heap, a, "level", resized, written, named)
  <2>1. named = TagMallocGame(heap, a, 1, "level") /\ 1 \in Nat
    OBVIOUS
  <2> HIDE DEF named
  <2>2. QED
    BY <1>1, <2>1, TagMallocGameIs
<1>6. SubObjects[m] \in Nat
  BY ZoneAssumption
<1>7. list = Append(bounds, b) /\ many = numBounds + SubObjects[m]
  BY <1>2
<1>8. b.at = a /\ b.data = d /\ b.ids = (numBounds + 1) .. (numBounds + SubObjects[m])
  OBVIOUS
<1>9. b \in Known
  <2>1. (numBounds + 1) .. (numBounds + SubObjects[m]) \in SUBSET Int
    OBVIOUS
  <2>2. QED
    BY <2>1 DEF Known
<1> HIDE DEF named, y, list, many, b, new
<1>10. list \in Seq(Known) /\ many \in Nat
  BY <1>1, <1>6, <1>7, <1>9
<1>11. Whole(y, resized, written, list, many)
  <2>1. CASE ~Alive(named)
    BY <1>4, <1>5, <2>1 DEF GameGot, Whole
  <2>2. CASE Alive(named)
    <3>1. /\ named \in Heaps /\ Sound(named, resized, written) /\ Booked(named) /\ named.live = heap.live \cup {a} /\ named.block[a].tag = "level"
          /\ \A x \in heap.live : named.block[x] = heap.block[x]
      BY <1>5, <2>2 DEF GameGot, After
    <3>2. d \in Addr \ named.live /\ y = TagMallocGame(named, d, SubObjects[m], "level")
      BY <1>4, <2>2, <3>1
    <3>3. GameGot(named, d, "level", resized, written, y)
      BY <1>1, <1>6, <3>1, <3>2, TagMallocGameIs
    <3>4. ASSUME Alive(y) PROVE HeldFor(y, list, many)
      <4>1. /\ y.live = named.live \cup {d} /\ y.block[d].tag = "level" /\ \A x \in named.live : y.block[x] = named.block[x]
        BY <3>3, <3>4 DEF GameGot
      <4>2. \A x \in heap.live : y.block[x] = heap.block[x] /\ x \in y.live
        BY <3>1, <4>1
      <4>3. a \in y.live /\ d \in y.live /\ y.block[a].tag = "level"
        BY <3>1, <4>1
      <4>4. ToSet(list) = ToSet(bounds) \cup {b}
        <5>1. list \in Seq(Known) /\ Len(list) = Len(bounds) + 1 /\ list[Len(list)] = b /\ \A i \in 1 .. Len(bounds) : list[i] = bounds[i]
          BY <1>1, <1>7, <1>9, <1>10
        <5>2. DOMAIN list = 1 .. Len(list) /\ DOMAIN bounds = 1 .. Len(bounds) /\ Len(bounds) \in Nat
          BY <1>1, <1>10
        <5>3. \A i \in 1 .. Len(list) : i = Len(list) \/ i \in 1 .. Len(bounds)
          BY <5>1, <5>2
        <5>4. Len(list) \in 1 .. Len(list) /\ \A i \in 1 .. Len(bounds) : i \in 1 .. Len(list)
          BY <5>1, <5>2
        <5>5. \A x \in ToSet(list) : x = b \/ x \in ToSet(bounds)
          BY <5>1, <5>2, <5>3 DEF ToSet
        <5>6. b \in ToSet(list)
          BY <5>1, <5>2, <5>4 DEF ToSet
        <5>7. \A x \in ToSet(bounds) : x \in ToSet(list)
          BY <5>1, <5>2, <5>4 DEF ToSet
        <5>8. QED
          BY <5>5, <5>6, <5>7
      <4>5. 1 .. numBounds \subseteq 1 .. many /\ (numBounds + 1) .. (numBounds + SubObjects[m]) \subseteq 1 .. many
        BY <1>1, <1>6, <1>7
      <4>6. ASSUME NEW x \in ToSet(bounds)
            PROVE  x.at \in y.live /\ x.data \in y.live /\ y.block[x.at].tag = "level" /\ y.block[x.data].tag = "level" /\ x.ids \subseteq 1 .. many
        <5>1. /\ x.at \in heap.live /\ x.data \in heap.live
              /\ heap.block[x.at].tag = "level" /\ heap.block[x.data].tag = "level" /\ x.ids \subseteq 1 .. numBounds
          BY <1>1 DEF HeldFor
        <5>2. QED
          BY <4>2, <4>5, <5>1
      <4>7. QED
        BY <1>8, <4>1, <4>3, <4>4, <4>5, <4>6 DEF HeldFor
    <3>5. QED
      BY <3>3, <3>4 DEF GameGot, Whole
  <2>3. QED
    BY <2>1, <2>2
<1>12. QED
  BY <1>3, <1>10, <1>11 DEF ZoneInv, y, list, many

LEMMA NothingHeld == ASSUME NEW z, NEW res, NEW wr, After(z, res, wr), Alive(z) => Booked(z) PROVE Whole(z, res, wr, <<>>, 0)
BY DEF Whole, HeldFor, ToSet

LEMMA LevelEnds == ASSUME ZoneInv, NewLevel PROVE ZoneInv'
<1>1. /\ Alive(heap) /\ heap \in Heaps /\ Sound(heap, resized, written) /\ Booked(heap) /\ resized \in BOOLEAN
  BY DEF ZoneInv, Whole, After, NewLevel, Running
<1>2. heap' = FreeTagsGame(heap, "level") /\ bounds' = <<>> /\ numBounds' = 0 /\ UNCHANGED <<zdebug, written, resized>>
  BY DEF NewLevel
<1> DEFINE y == heap'
<1>3. y = FreeTagsGame(heap, "level")
  BY <1>2
<1> HIDE DEF y
<1>4. TagGone(heap, "level", resized, written, y)
  BY <1>1, <1>3, FreeTagsGameIs
<1>5. Whole(y, resized, written, <<>>, 0)
  BY <1>4, NothingHeld DEF TagGone
<1>6. <<>> \in Seq(Known) /\ 0 \in Nat
  OBVIOUS
<1>7. QED
  BY <1>2, <1>5, <1>6 DEF ZoneInv, y

LEMMA GameLeaves ==
  ASSUME ZoneInv, Unload
  PROVE  /\ ZoneInv'
         /\ Alive(heap') => Leaks(heap') = {} /\ \A a \in heap.live : heap.block[a].tag = "server" => a \in heap'.live
<1>1. /\ Alive(heap) /\ heap \in Heaps /\ Sound(heap, resized, written) /\ Booked(heap) /\ resized \in BOOLEAN
  BY DEF ZoneInv, Whole, After, Unload, Running
<1>2. heap' = FreeTagsGame(FreeTagsGame(heap, "level"), "game") /\ bounds' = <<>> /\ numBounds' = 0 /\ UNCHANGED <<zdebug, written, resized>>
  BY DEF Unload
<1> DEFINE y == heap'
           half == FreeTagsGame(heap, "level")
<1>3. y = FreeTagsGame(half, "game") /\ half = FreeTagsGame(heap, "level")
  BY <1>2
<1> HIDE DEF y, half
<1>4. TagGone(heap, "level", resized, written, half)
  BY <1>1, <1>3, FreeTagsGameIs
<1>5. /\ After(y, resized, written)
      /\ Alive(y) => Booked(y) /\ Leaks(y) = {} /\ \A a \in heap.live : heap.block[a].tag = "server" => a \in y.live
  <2>1. CASE ~Alive(half)
    <3>1. y = half
      BY <1>3, <2>1 DEF FreeTagsGame
    <3>2. QED
      BY <1>4, <2>1, <3>1 DEF TagGone
  <2>2. CASE Alive(half)
    <3>1. half \in Heaps /\ Sound(half, resized, written) /\ Booked(half) /\ half.live = {x \in heap.live : heap.block[x].tag # "level"}
          /\ \A x \in half.live : half.block[x] = heap.block[x]
      BY <1>4, <2>2 DEF TagGone, After
    <3>2. TagGone(half, "game", resized, written, y)
      BY <1>1, <1>3, <3>1, FreeTagsGameIs
    <3>3. ASSUME Alive(y) PROVE Leaks(y) = {} /\ \A a \in heap.live : heap.block[a].tag = "server" => a \in y.live
      <4>1. Booked(y) /\ y.live = {x \in half.live : half.block[x].tag # "game"} /\ \A x \in y.live : y.block[x] = half.block[x]
        BY <3>2, <3>3 DEF TagGone
      <4>2. heap.block \in [Addr -> Blocks] /\ heap.live \subseteq Addr
        BY <1>1 DEF Heaps
      <4>3. \A x \in heap.live : heap.block[x].tag \in Tags
        BY <4>2 DEF Blocks
      <4>4. \A x \in y.live : y.block[x].tag = "server"
        BY <3>1, <4>1, <4>3 DEF Tags
      <4>5. Leaks(y) = {}
        BY <4>1, <4>4 DEF Leaks, Booked
      <4>6. \A a \in heap.live : heap.block[a].tag = "server" => a \in y.live
        BY <3>1, <4>1
      <4>7. QED
        BY <4>5, <4>6
    <3>4. QED
      BY <3>2, <3>3 DEF TagGone
  <2>3. QED
    BY <2>1, <2>2
<1>6. Whole(y, resized, written, <<>>, 0)
  BY <1>5, NothingHeld
<1>7. <<>> \in Seq(Known) /\ 0 \in Nat
  OBVIOUS
<1>8. QED
  BY <1>2, <1>5, <1>6, <1>7 DEF ZoneInv, y

LEMMA ZoneStep == ZoneInv /\ [ZNext]_zVars => ZoneInv'
<1>1. SUFFICES ASSUME ZoneInv, [ZNext]_zVars PROVE ZoneInv'
  OBVIOUS
<1>2. CASE UNCHANGED zVars
  BY <1>1, <1>2 DEF zVars, ZoneInv
<1>3. ASSUME NEW s \in Sizes, Alloc(s) PROVE ZoneInv'
  BY <1>1, <1>3, ServerAllocates
<1>4. ASSUME NEW s \in Sizes, NEW a \in heap.live, Resize(a, s) PROVE ZoneInv'
  BY <1>1, <1>4, ServerResizes
<1>5. ASSUME NEW s \in Sizes, NEW t \in {"level", "game"}, GameAlloc(s, t) PROVE ZoneInv'
  BY <1>1, <1>5, GameAllocates
<1>6. ASSUME NEW a \in heap.live, Release(a) PROVE ZoneInv'
  BY <1>1, <1>6, ServerFrees
<1>7. ASSUME NEW a \in heap.live, GameFree(a) PROVE ZoneInv'
  BY <1>1, <1>7, GameFrees
<1>8. ASSUME NEW a \in heap.live, GameWritesOver(a) PROVE ZoneInv'
  BY <1>1, <1>8, GameWrites
<1>9. ASSUME NEW m \in Models, GetObjectBounds(m) PROVE ZoneInv'
  BY <1>1, <1>9, ModelHeld
<1>10. ASSUME SetDebug PROVE ZoneInv'
  <2>1. UNCHANGED <<heap, bounds, numBounds, written, resized>> /\ zdebug' = ~zdebug
    BY <1>10 DEF SetDebug
  <2>2. QED
    BY <1>1, <2>1 DEF ZoneInv
<1>11. ASSUME NewLevel PROVE ZoneInv'
  BY <1>1, <1>11, LevelEnds
<1>12. ASSUME Unload PROVE ZoneInv'
  BY <1>1, <1>12, GameLeaves
<1>13. QED
  BY <1>1, <1>2, <1>3, <1>4, <1>5, <1>6, <1>7, <1>8, <1>9, <1>10, <1>11, <1>12 DEF ZNext

(* The ring read forwards and backwards, and what its blocks add up to. *)
LEMMA RingIsWhole == ZoneInv => ChainIsWhole
<1>1. SUFFICES ASSUME ZoneInv, Running PROVE ChainIsWhole
  BY DEF ChainIsWhole
<1> DEFINE z == heap
<1>2. z \in Heaps /\ Sound(z, resized, written)
  BY <1>1 DEF ZoneInv, Whole, After, Running
<1>3. PICK r, s, n : Ring(z, r, n) /\ Sums(z, r, s, n)
  BY <1>2 DEF Sound
<1> HIDE DEF z
<1>4. /\ n = Cardinality(z.live) /\ n \in Nat /\ n > 0
      /\ r \in [0 .. n + 1 -> Places_] /\ r[0] = ZChain /\ r[n + 1] = ZChain
      /\ \A i \in 1 .. n : r[i] \in z.live
      /\ \A x \in z.live : \E i \in 1 .. n : r[i] = x
      /\ \A i \in 0 .. n : z.next[r[i]] = r[i + 1] /\ z.prev[r[i + 1]] = r[i]
  BY <1>3 DEF Ring
<1>5. \A i \in 1 .. n + 1 : z.next[r[i-1]] = r[i]
  <2>1. \A i \in 1 .. n + 1 : i - 1 \in 0 .. n /\ (i - 1) + 1 = i
    BY <1>4
  <2>2. QED
    BY <1>4, <2>1
<1>6. Walk(z.next, n) = [i \in 1 .. n |-> r[i]]
  <2> DEFINE link == z.next
  <2>1. \A i \in 1 .. n : link[r[i-1]] = r[i]
    BY <1>4, <1>5
  <2>2. Walk(link, n) = [i \in 1 .. n |-> r[i]]
    <3> HIDE DEF link
    <3>1. n \in Nat /\ r[0] = ZChain
      BY <1>4
    <3>2. Follows(link, n, r)
      BY <2>1, <3>1 DEF Follows
    <3>3. QED
      BY <3>1, <3>2, WalkIs
  <2>3. QED
    BY <2>2
<1>7. Walk(z.next, n + 1) = [i \in 1 .. n + 1 |-> r[i]]
  <2> DEFINE link == z.next
             m == n + 1
  <2>1. \A i \in 1 .. m : link[r[i-1]] = r[i]
    BY <1>5
  <2>2. m \in Nat /\ r[0] = ZChain
    BY <1>4
  <2>3. Walk(link, m) = [i \in 1 .. m |-> r[i]]
    <3> HIDE DEF link, m
    <3>1. Follows(link, m, r)
      BY <2>1, <2>2 DEF Follows
    <3>2. QED
      BY <2>2, <3>1, WalkIs
  <2>4. QED
    BY <2>3
<1> DEFINE back == [i \in 0 .. n + 1 |-> r[(n + 1) - i]]
<1>8. Walk(z.prev, n) = [i \in 1 .. n |-> back[i]]
  <2> DEFINE link == z.prev
  <2>1. \A i \in 1 .. n : link[back[i-1]] = back[i]
    <3>1. ASSUME NEW i \in 1 .. n PROVE link[back[i-1]] = back[i]
      <4> DEFINE j == (n + 1) - i
      <4>1. j \in 0 .. n /\ (n + 1) - (i - 1) = j + 1 /\ i \in 0 .. n + 1 /\ i - 1 \in 0 .. n + 1
        BY <1>4
      <4>2. back[i-1] = r[j + 1] /\ back[i] = r[j]
        BY <4>1
      <4> HIDE DEF j
      <4>3. z.prev[r[j + 1]] = r[j]
        BY <1>4, <4>1
      <4>4. QED
        BY <4>2, <4>3
    <3>2. QED
      BY <3>1
  <2>2. n \in Nat /\ back[0] = ZChain
    <3>1. 0 \in 0 .. n + 1 /\ (n + 1) - 0 = n + 1
      BY <1>4
    <3>2. QED
      BY <1>4, <3>1
  <2> HIDE DEF link, back
  <2>3. Walk(link, n) = [i \in 1 .. n |-> back[i]]
    <3>1. Follows(link, n, back)
      BY <2>1, <2>2 DEF Follows
    <3>2. QED
      BY <2>2, <3>1, WalkIs
  <2>4. QED
    BY <2>3 DEF link
<1>9. ToSet(Walk(z.next, n)) = z.live
  <2>1. ToSet([i \in 1 .. n |-> r[i]]) = {r[i] : i \in 1 .. n}
    BY DEF ToSet
  <2>2. {r[i] : i \in 1 .. n} = z.live
    BY <1>4
  <2>3. QED
    BY <1>6, <2>1, <2>2
<1>10. Walk(z.next, n + 1)[n + 1] = ZChain
  <2>1. n + 1 \in 1 .. n + 1
    BY <1>4
  <2>2. QED
    BY <1>4, <1>7, <2>1
<1>11. \A i \in 1 .. n : Walk(z.prev, n)[i] = Walk(z.next, n)[n + 1 - i]
  <2>1. ASSUME NEW i \in 1 .. n PROVE Walk(z.prev, n)[i] = Walk(z.next, n)[n + 1 - i]
    <3>1. i \in 0 .. n + 1 /\ (n + 1) - i \in 1 .. n
      BY <1>4
    <3>2. Walk(z.prev, n)[i] = r[(n + 1) - i]
      BY <1>8, <3>1
    <3>3. Walk(z.next, n)[(n + 1) - i] = r[(n + 1) - i]
      BY <1>6, <3>1
    <3>4. (n + 1) - i = n + 1 - i
      BY <1>4
    <3>5. QED
      BY <3>2, <3>3, <3>4
  <2>2. QED
    BY <2>1
<1>12. z.count = n
  BY <1>2, <1>4 DEF Sound
<1>13. z.bytes = StatsTotal(z)
  <2>1. /\ s \in [0 .. n -> Int] /\ s[0] = 0 /\ z.bytes = s[n]
        /\ \A i \in 1 .. n : s[i] = s[i-1] + z.block[r[i]].size
    BY <1>3 DEF Sums
  <2> DEFINE w == Chain(z)
             Body(g) == [i \in 0 .. Len(w) |-> IF i = 0 THEN 0 ELSE g[i-1] + z.block[w[i]].size]
             sum == CHOOSE g : g = Body(g)
  <2>2. StatsTotal(z) = sum[Len(w)]
    BY DEF StatsTotal
  <2>3. w = [i \in 1 .. n |-> r[i]] /\ Len(w) = n
    BY <1>2, <1>3, ChainIs
  <2> HIDE DEF w
  <2>4. s = Body(s)
    <3>1. \A i \in 0 .. n : s[i] = IF i = 0 THEN 0 ELSE s[i-1] + z.block[w[i]].size
      <4>1. \A i \in 0 .. n : i # 0 => i \in 1 .. n
        BY <1>4
      <4>2. \A i \in 1 .. n : w[i] = r[i]
        BY <2>3
      <4>3. QED
        BY <2>1, <4>1, <4>2
    <3>2. QED
      BY <2>1, <2>3, <3>1
  <2>5. sum = Body(sum)
    <3> HIDE DEF Body
    <3>1. QED
      BY <2>4
  <2> HIDE DEF sum
  <2>6. sum[0] = 0 /\ \A i \in 1 .. n : sum[i] = sum[i-1] + z.block[r[i]].size
    <3>1. 0 \in 0 .. n /\ \A i \in 1 .. n : i # 0 /\ i \in 0 .. n
      BY <1>4
    <3>2. \A i \in 1 .. n : w[i] = r[i]
      BY <2>3
    <3>3. QED
      BY <2>3, <2>5, <3>1, <3>2
  <2>7. \A i \in 0 .. n : sum[i] = s[i]
    <3> DEFINE P == [i \in 0 .. n |-> sum[i] = s[i]]
    <3>0. 0 \in 0 .. n
      BY <1>4
    <3>1. P[0]
      BY <2>1, <2>6, <3>0
    <3>2. ASSUME NEW i \in 1 .. n, P[i-1] PROVE P[i]
      <4>1. i \in 0 .. n /\ i - 1 \in 0 .. n
        BY <1>4
      <4>2. sum[i-1] = s[i-1]
        BY <3>2, <4>1
      <4>3. sum[i] = s[i]
        BY <2>1, <2>6, <4>2
      <4>4. QED
        BY <4>1, <4>3
    <3>3. P \in [0 .. n -> BOOLEAN]
      OBVIOUS
    <3>4. \A i \in 0 .. n : P[i]
      <4> HIDE DEF P
      <4>1. QED
        BY <1>4, <3>1, <3>2, <3>3, ByInduction
    <3>5. QED
      BY <3>4
  <2>8. n \in 0 .. n
    BY <1>4
  <2>9. QED
    BY <2>1, <2>2, <2>3, <2>7, <2>8
<1>14. QED
  BY <1>4, <1>9, <1>10, <1>11, <1>12, <1>13 DEF ChainIsWhole, z

LEMMA ZoneInvImplies == ZoneInv => ChainIsWhole /\ GameListIsExact /\ BoundsAreLive /\ OverrunsAreFound /\ AlarmsAreTrueElse
<1>1. SUFFICES ASSUME ZoneInv PROVE ChainIsWhole /\ GameListIsExact /\ BoundsAreLive /\ OverrunsAreFound /\ AlarmsAreTrueElse
  OBVIOUS
<1>2. heap \in Heaps /\ (Running => Sound(heap, resized, written) /\ Booked(heap) /\ HeldFor(heap, bounds, numBounds))
      /\ (~Running => Fair(heap, resized, written))
  BY <1>1 DEF ZoneInv, Whole, After, Running
<1>3. GameListIsExact
  <2>1. SUFFICES ASSUME Running PROVE /\ ToSet(heap.locs) = {a \in heap.live : heap.block[a].tag # "server"}
                                      /\ Cardinality(ToSet(heap.locs)) = Len(heap.locs)
    BY DEF GameListIsExact
  <2> DEFINE list == heap.locs
             n == Len(list)
  <2>2. list \in Seq(Addr) /\ n \in Nat /\ DOMAIN list = 1 .. n
    BY <1>2 DEF Heaps
  <2>3. ToSet(list) = {a \in heap.live : heap.block[a].tag # "server"} /\ \A i, j \in 1 .. n : list[i] = list[j] => i = j
    BY <1>2, <2>1 DEF Booked
  <2> HIDE DEF list, n
  <2>4. ExistsBijection(1 .. n, ToSet(list))
    <3> DEFINE f == [i \in 1 .. n |-> list[i]]
    <3>1. f \in [1 .. n -> ToSet(list)]
      BY <2>2 DEF ToSet
    <3>2. \A x \in ToSet(list) : \E i \in 1 .. n : f[i] = x
      BY <2>2 DEF ToSet
    <3>3. \A i, j \in 1 .. n : f[i] = f[j] => i = j
      BY <2>3
    <3> HIDE DEF f
    <3>4. QED
      <4>1. f \in Injection(1 .. n, ToSet(list))
        BY <3>1, <3>3 DEF Injection, IsInjective
      <4>2. f \in Surjection(1 .. n, ToSet(list))
        BY <3>1, <3>2 DEF Surjection
      <4>3. QED
        BY <4>1, <4>2 DEF ExistsBijection, Bijection
  <2>5. Cardinality(ToSet(list)) = n
    BY <2>2, <2>4, FS_CountingElements
  <2>6. QED
    BY <2>3, <2>5 DEF list, n
<1>4. BoundsAreLive
  BY <1>2 DEF BoundsAreLive, HeldFor
<1>5. OverrunsAreFound
  <2>1. heap.err = "corrupted" => written # {}
    BY <1>2 DEF Fair, Running, Alive
  <2>2. Running => written \subseteq heap.live
    BY <1>2 DEF Sound
  <2>3. QED
    BY <2>1, <2>2 DEF OverrunsAreFound
<1>6. AlarmsAreTrueElse
  BY <1>2 DEF AlarmsAreTrueElse, Fair, Running, Alive
<1>7. QED
  BY <1>1, <1>3, <1>4, <1>5, <1>6, RingIsWhole

(* However the server and the game allocate, free and resize, the ring goes once through every block
   both ways and the counts are its own, the list of the game is its blocks, the bounds of models stay,
   the game is blamed when it wrote over the end of a block, and when it is gone nothing of it is left. *)
THEOREM MemoryStaysSound == ZSpec => MemoryIsSound
<1>1. ZSpec => []ZoneInv
  BY ZoneStarts, ZoneStep, PTL DEF ZSpec
<1>2. ZoneInv /\ [ZNext]_zVars => [(Unload /\ Alive(heap')) => Leaks(heap') = {} /\ \A a \in heap.live : heap.block[a].tag = "server" => a \in heap'.live]_zVars
  BY GameLeaves
<1>3. ZSpec => GameGoesClean
  BY <1>1, <1>2, PTL DEF ZSpec, GameGoesClean
<1>4. ZSpec => [](ChainIsWhole /\ GameListIsExact /\ BoundsAreLive /\ OverrunsAreFound /\ AlarmsAreTrueElse)
  BY <1>1, ZoneInvImplies, PTL
<1>5. QED
  BY <1>3, <1>4 DEF MemoryIsSound
=============================================================================
