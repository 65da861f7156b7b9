------------------------------- MODULE Files -------------------------------
(***************************************************************************)
(* files.c: the search path of directories and numbered paks, the links,   *)
(* and the cache of names that were found, or not found, before. A file is *)
(* known by where it comes from: its directory, the number of its pak (or  *)
(* Dir) and its spelling. fs_cache is a set of the bits "pak" (1),     *)
(* "missing" (2) and "loose" (4). What an operator does to the disk while  *)
(* the server runs is part of the model.                                   *)
(***************************************************************************)
EXTENDS Integers, Sequences, FiniteSets, SequencesExt

CONSTANTS FileNames,        \* spellings clients and the server ask for
          LowerCase(_),     \* fast_strlwr
          Base, Mods,   \* BASEDIRNAME, and the other game directories
          PakList(_),   \* per directory, the pak files found: [num, plain, holds]
          Loose,        \* loose files an operator may add or delete: <<dir, spelling>>
          CacheBits,    \* fs_cache
          Links         \* links that may be made: [from, to], both a spelling

ASSUME FsAssumption ==
  /\ Base \notin Mods /\ {"missing", "fault", "none"} \intersect (Mods \union {Base}) = {}
  /\ Loose \subseteq ((Mods \union {Base}) \X FileNames)
  /\ \A d \in Mods \union {Base} : IsFiniteSet(PakList(d)) /\ \A p \in PakList(d) :
       p.num \in Nat /\ \A n \in p.holds : LowerCase(n) = n
  /\ \A f \in FileNames : LowerCase(LowerCase(f)) = LowerCase(f)

VARIABLES searchpaths,  \* head first: [dir, pak], pak = Dir for the directory itself
          gamedir, cache, fsLinks, noextern,
          disk,         \* the loose files there are
          gone,         \* paks deleted under the server: <<dir, num>>
          crashed,      \* the server has read through a NULL file
          changed       \* the disk or fs_noextern changed since the last flush
fsVars == <<searchpaths, gamedir, cache, fsLinks, noextern, disk, gone, crashed, changed>>

Dir == -1
At(d, p, n) == [dir |-> d, pak |-> p, name |-> n]
Missing == At("missing", Dir, "")
Fault == At("fault", Dir, "")    \* fseek on the NULL of a failed fopen
NoEntry == At("none", Dir, "")
Dirs == Mods \union {Base}

-----------------------------------------------------------------------------
(* FS_LoadPaks: the names are reduced to their number, sorted, and the path is
   made again from the number, so pak07.pak stands for pak7.pak. *)
PakHolds(d, n) == UNION {p.holds : p \in {q \in PakList(d) : q.num = n /\ q.plain}}

PakNumbers(d) == {p.num : p \in {q \in PakList(d) : q.plain /\ <<d, q.num>> \notin gone}}
Descending(numbers) ==
  CHOOSE s \in [1..Cardinality(numbers) -> numbers] :
    ToSet(s) = numbers /\ \A i, j \in DOMAIN s : i < j => s[i] > s[j]
LoadPaks(d) == Descending(PakNumbers(d))

(* FS_AddGameDirectory: the directory, then each pak in front of it. *)
AddGameDirectory(d, path) ==
  [i \in 1..Len(LoadPaks(d)) |-> [dir |-> d, pak |-> LoadPaks(d)[i]]] \o <<[dir |-> d, pak |-> Dir]>> \o path
BasePath ==      \* fs_base_searchpaths
  SubSeq(searchpaths, Min({i \in DOMAIN searchpaths : searchpaths[i].dir = Base}), Len(searchpaths))

(* The spelling tried in a directory: the one asked for, or it in lower case. *)
Spelling(d, f) == IF LowerCase(f) # f /\ <<d, f>> \notin disk THEN LowerCase(f) ELSE f

(* The loop of FS_FOpenFile over the search path, links and cache aside. *)
Hits(f) == {i \in DOMAIN searchpaths : LET s == searchpaths[i] IN
  IF s.pak # Dir THEN LowerCase(f) \in PakHolds(s.dir, s.pak)
  ELSE ~noextern /\ <<s.dir, Spelling(s.dir, f)>> \in disk}
Search(f) ==
  IF Hits(f) = {} THEN Missing
  ELSE LET s == searchpaths[Min(Hits(f))]
       IN At(s.dir, s.pak, IF s.pak # Dir THEN LowerCase(f) ELSE Spelling(s.dir, f))

InPak(src) == src.pak # Dir
PakOf(src) == <<src.dir, src.pak>>

LinkFor(f) == {i \in 1..Len(fsLinks) : ~noextern /\ fsLinks[i].from = f}

(* FS_WhereIs_f answers without the cache. *)
WhereIs(f) == IF LinkFor(f) = {} THEN Search(f)
              ELSE LET to == fsLinks[CHOOSE i \in LinkFor(f) : \A j \in LinkFor(f) : i <= j].to
                   IN IF <<Base, to>> \in disk THEN At(Base, Dir, to) ELSE Missing

MutFromCache(f, mode) ==   \* a name not found is kept as an empty file
  [src |-> IF cache[f] = Missing THEN At(gamedir, Dir, f) ELSE cache[f], keep |-> TRUE]

(* What a cached name gives, by the way it is opened; FALSE: the entry is deleted. *)
FromCache(f, mode) ==
  LET e == cache[f] IN
  CASE e = Missing -> [src |-> Missing, keep |-> TRUE]
    [] mode = "NONE" -> [src |-> e, keep |-> TRUE]
    [] InPak(e) /\ mode = "DUPE" /\ PakOf(e) \in gone -> [src |-> Missing, keep |-> FALSE]
    [] ~InPak(e) /\ <<e.dir, e.name>> \notin disk -> [src |-> Missing, keep |-> FALSE]
    [] OTHER -> [src |-> e, keep |-> TRUE]

(* FS_AddToCache, for the kinds of result that fs_cache asks to keep. *)
AddToCache(c, f, src) ==
  LET kind == IF src = Missing THEN "missing" ELSE IF InPak(src) THEN "pak" ELSE "loose"
  IN IF kind \in CacheBits THEN [c EXCEPT ![f] = src] ELSE c

(* FS_FOpenFile: links, then the cache, then the search path. *)
Find(f, mode) ==
  IF LinkFor(f) # {} THEN [src |-> WhereIs(f), cache |-> cache]
  ELSE IF cache[f] # NoEntry
       THEN LET r == FromCache(f, mode)
            IN [src |-> r.src, cache |-> IF r.keep THEN cache ELSE [cache EXCEPT ![f] = NoEntry]]
  ELSE LET src == Search(f)
       IN IF mode = "DUPE" /\ InPak(src) /\ PakOf(src) \in gone
          THEN [src |-> Fault, cache |-> cache]
          ELSE [src |-> src, cache |-> AddToCache(cache, f, src)]

NoCache == [f \in FileNames |-> NoEntry]
ServerRuns == ~crashed

FsInit ==
  /\ gone = {} /\ searchpaths = AddGameDirectory(Base, <<>>) /\ gamedir = Base /\ cache = NoCache /\ fsLinks = <<>>
  /\ noextern = FALSE /\ disk = Loose /\ crashed = FALSE /\ changed = FALSE

Open(f, mode) ==
  /\ ServerRuns
  /\ LET r == Find(f, mode) IN crashed' = (r.src = Fault) /\ cache' = r.cache
  /\ UNCHANGED <<searchpaths, gamedir, fsLinks, noextern, disk, gone, changed>>

FlushCache ==
  /\ ServerRuns
  /\ cache' = NoCache /\ changed' = FALSE
  /\ UNCHANGED <<searchpaths, gamedir, fsLinks, noextern, disk, gone, crashed>>

(* CM_LoadMap: a level that is missing empties the cache, in case it is installed now. *)
LoadMapFile(f) ==
  /\ ServerRuns
  /\ LET r == Find(f, "OPEN") IN
       /\ cache' = IF r.src = Missing THEN NoCache ELSE r.cache
       /\ changed' = IF r.src = Missing THEN FALSE ELSE changed
  /\ UNCHANGED <<searchpaths, gamedir, fsLinks, noextern, disk, gone, crashed>>

(* FS_SetGamedir: back to the base paths, empty the cache, add the new directory. *)
SetGamedir(d) ==
  /\ ServerRuns
  /\ gamedir' = d
  /\ searchpaths' = IF d = Base THEN BasePath ELSE AddGameDirectory(d, BasePath)
  /\ cache' = NoCache /\ changed' = FALSE
  /\ UNCHANGED <<fsLinks, noextern, disk, gone, crashed>>

(* FS_Link_f: a link with the same source is replaced, or deleted when there is no target. *)
Link(l) ==
  /\ ServerRuns
  /\ fsLinks' = IF \E i \in 1..Len(fsLinks) : fsLinks[i].from = l.from
                THEN [i \in 1..Len(fsLinks) |-> IF fsLinks[i].from = l.from THEN l ELSE fsLinks[i]]
                ELSE <<l>> \o fsLinks
  /\ UNCHANGED <<searchpaths, gamedir, cache, noextern, disk, gone, crashed, changed>>
Unlink(from) ==
  /\ ServerRuns
  /\ \E i \in 1..Len(fsLinks) : fsLinks[i].from = from
  /\ fsLinks' = SelectSeq(fsLinks, LAMBDA l : l.from # from)
  /\ UNCHANGED <<searchpaths, gamedir, cache, noextern, disk, gone, crashed, changed>>

(* The operator: sets fs_noextern, adds or deletes a file, deletes a pak. *)
SetNoextern ==
  /\ ServerRuns /\ noextern' = ~noextern /\ changed' = TRUE
  /\ UNCHANGED <<searchpaths, gamedir, cache, fsLinks, disk, gone, crashed>>
ChangeDisk ==
  /\ ServerRuns /\ changed' = TRUE
  /\ \/ \E x \in Loose : disk' = (IF x \in disk THEN disk \ {x} ELSE disk \union {x}) /\ UNCHANGED gone
     \/ \E i \in 1..Len(searchpaths) :
          /\ searchpaths[i].pak # Dir
          /\ gone' = gone \union {PakOf(searchpaths[i])}
          /\ UNCHANGED disk
  /\ UNCHANGED <<searchpaths, gamedir, cache, fsLinks, noextern, crashed>>

(* A directory that is left has its paks opened again when it is set again. *)
FsNext ==
  \/ \E f \in FileNames, mode \in {"NONE", "OPEN", "DUPE"} : Open(f, mode)
  \/ \E f \in FileNames : LoadMapFile(f) \/ Unlink(f)
  \/ \E d \in Dirs : SetGamedir(d)
  \/ \E l \in Links : Link(l)
  \/ FlushCache \/ SetNoextern \/ ChangeDisk
FsSpec == FsInit /\ [][FsNext]_fsVars

-----------------------------------------------------------------------------
(* FS_ListPakFiles, and the names of a directory; each listed in lower case. *)
NamesIn(i) == IF searchpaths[i].pak # Dir THEN PakHolds(searchpaths[i].dir, searchpaths[i].pak)
              ELSE {LowerCase(x[2]) : x \in {y \in disk : y[1] = searchpaths[i].dir}}

(* Of the places with one name, the first in the search path is listed. *)
Origin(n) == Min({i \in DOMAIN searchpaths : n \in NamesIn(i)})

(* FS_Maps_f; loose files are listed whatever fs_noextern says. *)
MapsListed ==
  [n \in UNION {NamesIn(i) : i \in DOMAIN searchpaths} |-> PakOf(searchpaths[Origin(n)])]

(* No cached name points into a pak that was closed and freed with its directory. *)
CachedPakIsOpen == \A f \in FileNames : InPak(cache[f]) =>
  \E i \in 1..Len(searchpaths) : PakOf(searchpaths[i]) = PakOf(cache[f])

(* Until somebody changes the disk the cache cannot be told from the search: a name
   opens as what "whereis" says, whatever was asked, linked or set in between. *)
CacheTransparent == ~changed =>
  \A f \in FileNames, mode \in {"NONE", "OPEN"} : Find(f, mode).src = WhereIs(f)

(* The game directory goes before the base one; in each, the pak of the highest
   number that holds the name, and only then a loose file. *)
Before(s, t) == IF s.dir = t.dir THEN s.pak >= t.pak ELSE s.dir = gamedir
StillOpen(s) == PakOf(s) \in gone => \E i \in DOMAIN searchpaths : PakOf(searchpaths[i]) = PakOf(s)
InPaks(f) == {s \in {At(d, p.num, LowerCase(f)) : d \in {gamedir, Base}, p \in UNION {PakList(e) : e \in Dirs}} :
                LowerCase(f) \in PakHolds(s.dir, s.pak) /\ StillOpen(s)}
OnDisk(f) == {s \in {At(d, Dir, Spelling(d, f)) : d \in {gamedir, Base}} : ~noextern /\ <<s.dir, s.name>> \in disk}
SearchOrder == \A f \in FileNames :
  IF InPaks(f) \union OnDisk(f) = {} THEN Search(f) = Missing
  ELSE Search(f) \in InPaks(f) \union OnDisk(f) /\ \A s \in InPaks(f) \union OnDisk(f) : Before(Search(f), s)

(* The "maps" command names the place a level would be loaded from, when the disk
   spells it in lower case and loose files are allowed. *)
ListedAsFound == ~noextern => \A n \in DOMAIN MapsListed :
  (\A x \in disk : LowerCase(x[2]) = n => x[2] = n) =>
    LET src == Search(n) IN
    /\ src # Missing
    /\ PakOf(src) = MapsListed[n]

(* A name means one file: the one the search path says, from the cache and in lists too.            *)
FilesAreFound == CachedPakIsOpen /\ CacheTransparent /\ SearchOrder /\ ListedAsFound
=============================================================================
