-------------------------------- MODULE Zone --------------------------------
(***************************************************************************)
(* The zone memory (common.c): every block is in one ring of links, with a tag,  *)
(* a size and a magic number, and with z_debug a guard byte at its end; blocks   *)
(* of the game are in a second list and have the game's magic behind them. The   *)
(* bounds of model objects (sv_game.c) are cached in blocks of the level, which   *)
(* the game frees by tag. An address is a place of the heap; ZChain is z_chain.     *)
(***************************************************************************)
EXTENDS Integers, Sequences, FiniteSets, SequencesExt, FiniteSetsExt

CONSTANTS Addr, ZChain,       \* places of the heap, and z_chain
          Oldest,           \* where the first block is: a command, never freed
          Sizes,            \* sizes asked for
          Header,           \* sizeof (zhead_t)
          Models, SubObjects, MaxBounds, MaxModels   \* mdx files, the objects of each; limits
ASSUME ZoneAssumption == ZChain \notin Addr /\ Oldest \in Addr /\ IsFiniteSet(Addr) /\ Sizes \subseteq Nat /\ Header \in Nat
                  /\ SubObjects \in [Models -> Nat]

Tags == {"server", "level", "game"}
VARIABLES heap,             \* the ring and the blocks, see ZInit
          zdebug,           \* z_debug
          bounds,           \* cached models: [name, at, data, ids]
          numBounds,        \* objects the game holds
          written,          \* ghost: blocks whose end the game wrote over
          resized           \* ghost: some block with a guard was resized
zVars == <<heap, zdebug, bounds, numBounds, written, resized>>

NoBlock == [tag |-> "server", size |-> 0, debug |-> FALSE, guard |-> TRUE, tail |-> TRUE]
Swapped == [a \in Addr \union {ZChain} |-> IF a = ZChain THEN Oldest ELSE IF a = Oldest THEN ZChain ELSE a]
ZInit ==
  /\ heap = [next |-> Swapped, prev |-> Swapped, live |-> {Oldest}, count |-> 1, bytes |-> Header,
             block |-> [a \in Addr |-> IF a = Oldest THEN [NoBlock EXCEPT !.size = Header] ELSE NoBlock],
             locs |-> <<>>, err |-> "none"]
  /\ zdebug \in BOOLEAN /\ bounds = <<>> /\ numBounds = 0 /\ written = {} /\ resized = FALSE

-----------------------------------------------------------------------------
(* Com_Error (ERR_DIE): the program ends, and nothing after it happens. *)
Die(z, why) == [z EXCEPT !.err = why]
Alive(z) == z.err = "none"

(* The first n links of the ring from z_chain. *)
Walk(link, n) == LET at[i \in 0..n] == IF i = 0 THEN ZChain ELSE link[at[i - 1]] IN [i \in 1..n |-> at[i]]
(* for (z = z_chain.next; z != &z_chain; z = z->next) *)
Chain(z) == LET w == Walk(z.next, Cardinality(Addr) + 1)
                e == SelectInSeq(w, LAMBDA a : a = ZChain)
            IN SubSeq(w, 1, (IF e = 0 THEN Len(w) ELSE e) - 1)

Verify(z) ==
  IF ~Alive(z) THEN z
  ELSE IF \E a \in ToSet(Chain(z)) : a \notin z.live THEN Die(z, "corruption")
  ELSE IF \E a \in ToSet(Chain(z)) : z.block[a].debug /\ ~z.block[a].guard THEN Die(z, "overrun")
  ELSE z

LinkIn(z, a, b) ==     \* b: the block at a
  [z EXCEPT !.next = [[@ EXCEPT ![a] = z.next[ZChain]] EXCEPT ![ZChain] = a],
            !.prev = [[@ EXCEPT ![a] = ZChain] EXCEPT ![z.next[ZChain]] = a],
            !.live = @ \union {a}, !.block[a] = b, !.count = @ + 1, !.bytes = @ + b.size]
LinkOut(z, a) ==
  [z EXCEPT !.next = [[@ EXCEPT ![z.prev[a]] = z.next[a]] EXCEPT ![a] = a],
            !.prev = [[@ EXCEPT ![z.next[a]] = z.prev[a]] EXCEPT ![a] = a],
            !.live = @ \ {a}, !.block[a] = NoBlock, !.count = @ - 1, !.bytes = @ - z.block[a].size]

TagMallocRelease(z, a, size, tag) == LinkIn(z, a, [NoBlock EXCEPT !.tag = tag, !.size = size + Header])
TagMallocDebug(z, a, size, tag) ==
  LET before == Verify(z) IN
  IF ~Alive(before) THEN before
  ELSE IF size = 0 /\ tag = "server" THEN Die(before, "size")
  ELSE Verify(LinkIn(before, a, [NoBlock EXCEPT !.tag = tag, !.size = size + Header + 1, !.debug = TRUE]))
TagMalloc(z, a, size, tag) == IF zdebug THEN TagMallocDebug(z, a, size, tag) ELSE TagMallocRelease(z, a, size, tag)

FreeRelease(z, a) == IF a \notin z.live THEN Die(z, "magic") ELSE LinkOut(z, a)
FreeDebug(z, a) ==
  LET before == Verify(z) IN
  IF ~Alive(before) THEN before
  ELSE IF a \notin z.live THEN Die(before, "magic")
  ELSE IF z.next[a] \notin z.live THEN Die(LinkOut(z, a), "corruption")    \* z_chain has no magic itself
  ELSE Verify(LinkOut(z, a))
ZFree(z, a) == IF ~Alive(z) THEN z ELSE IF zdebug THEN FreeDebug(z, a) ELSE FreeRelease(z, a)

(* Z_Realloc: the heap may move the block to `to`; its links and its magic come along. The
   last byte is then what the caller had there (shrunk) or anything (grown): never
   known to be the guard. *)
Realloc(z, a, to, size, last) ==
  LET before == z.prev[a]
      after == z.next[a]
  IN [z EXCEPT !.next = [[[@ EXCEPT ![a] = a] EXCEPT ![to] = after] EXCEPT ![before] = to],
               !.prev = [[[@ EXCEPT ![a] = a] EXCEPT ![to] = before] EXCEPT ![after] = to],
               !.live = (@ \ {a}) \union {to},
               !.block = [[@ EXCEPT ![a] = NoBlock] EXCEPT ![to] = [z.block[a] EXCEPT !.size = size + Header, !.guard = last]],
               !.bytes = @ + size + Header - z.block[a].size]

(* Blocks of the game: four bytes of magic behind them, and an entry at the front of
   z_game_locations. *)
TagMallocGame(z, a, size, tag) ==
  IF size = 0 THEN Die(z, "zero")
  ELSE LET got == TagMalloc(z, a, size + 4, tag)
       IN IF Alive(got) THEN [got EXCEPT !.locs = <<a>> \o @] ELSE got
MutFreeGame(z, a) == IF Alive(z) THEN ZFree(z, a) ELSE z      \* the entry stays in the list
FreeGame(z, a) ==
  IF ~Alive(z) THEN z
  ELSE IF ~Contains(z.locs, a) THEN Die(z, "unknown")
  ELSE IF ~z.block[a].tail THEN Die(z, "corrupted")
  ELSE LET freed == ZFree(z, a) IN
       IF Alive(freed) THEN [freed EXCEPT !.locs = RemoveFirst(@, a)] ELSE freed
(* Z_FreeTagsGame: all blocks of the game are looked at first. *)
FreeTagsGame(z, tag) ==
  IF ~Alive(z) THEN z
  ELSE IF \E a \in ToSet(z.locs) : ~z.block[a].tail THEN Die(z, "corrupted")
  ELSE LET w == Chain(z)
           freed[i \in 0..Len(w)] == IF i = 0 THEN z
                                     ELSE IF z.block[w[i]].tag = tag THEN FreeGame(freed[i - 1], w[i]) ELSE freed[i - 1]
       IN IF zdebug THEN Verify(freed[Len(w)]) ELSE freed[Len(w)]

(* Z_Stats_f: what the blocks add up to. *)
StatsTotal(z) ==
  LET w == Chain(z)
      sum[i \in 0..Len(w)] == IF i = 0 THEN 0 ELSE sum[i - 1] + z.block[w[i]].size
  IN sum[Len(w)]
(* Z_CheckGameLeaks: what it lists once the game is gone. *)
Leaks(z) == ToSet(z.locs)

-----------------------------------------------------------------------------
Free == Addr \ heap.live
Running == Alive(heap)
Alloc(size) == Running /\ (\E a \in Free : heap' = TagMalloc(heap, a, size, "server")) /\ UNCHANGED <<zdebug, bounds, numBounds, written, resized>>
Release(a) == Running /\ heap.block[a].tag = "server" /\ a # Oldest /\ heap' = ZFree(heap, a)
              /\ UNCHANGED <<zdebug, bounds, numBounds, written, resized>>
Resize(a, size) ==       \* the caches of downloads do
  /\ Running /\ heap.block[a].tag = "server" /\ a # Oldest
  /\ \E to \in Free \union {a}, last \in BOOLEAN : heap' = Realloc(heap, a, to, size, last)
  /\ resized' = (resized \/ heap.block[a].debug) /\ UNCHANGED <<zdebug, bounds, numBounds, written>>
SetDebug == Running /\ zdebug' = ~zdebug /\ UNCHANGED <<heap, bounds, numBounds, written, resized>>

GameAlloc(size, tag) == Running /\ (\E a \in Free : heap' = TagMallocGame(heap, a, size, tag)) /\ UNCHANGED <<zdebug, bounds, numBounds, written, resized>>
Cached == UNION {{b.at, b.data} : b \in ToSet(bounds)}
GameFree(a) ==           \* only what the game allocated itself
  Running /\ a \in ToSet(heap.locs) \ Cached /\ heap' = FreeGame(heap, a) /\ UNCHANGED <<zdebug, bounds, numBounds, written, resized>>
GameWritesOver(a) ==      \* bound: one block
  /\ Running /\ written = {} /\ a \in ToSet(heap.locs) /\ heap' = [heap EXCEPT !.block[a].tail = FALSE] /\ written' = written \union {a}
  /\ UNCHANGED <<zdebug, bounds, numBounds, resized>>

(* MDX_GetObjectBounds, for a file that can be read. *)
GetObjectBounds(m) ==
  /\ Running /\ \A b \in ToSet(bounds) : b.name # m
  /\ Len(bounds) < MaxModels /\ numBounds + SubObjects[m] < MaxBounds
  /\ \E a, d \in Free :
       LET named == TagMallocGame(heap, a, 1, "level") IN
       /\ a # d /\ heap' = IF Alive(named) THEN TagMallocGame(named, d, SubObjects[m], "level") ELSE named
       /\ bounds' = Append(bounds, [name |-> m, at |-> a, data |-> d, ids |-> (numBounds + 1)..(numBounds + SubObjects[m])])
       /\ numBounds' = numBounds + SubObjects[m]
  /\ UNCHANGED <<zdebug, written, resized>>

(* The game starts a level: it frees the blocks of the last one and forgets the bounds. *)
NewLevel ==
  /\ Running /\ heap' = FreeTagsGame(heap, "level")
  /\ bounds' = <<>> /\ numBounds' = 0 /\ UNCHANGED <<zdebug, written, resized>>
(* The game is unloaded: it frees what it has by tag, and what is left is listed. *)
Unload ==
  /\ Running /\ heap' = FreeTagsGame(FreeTagsGame(heap, "level"), "game")
  /\ bounds' = <<>> /\ numBounds' = 0 /\ UNCHANGED <<zdebug, written, resized>>

ZNext ==
  \/ \E s \in Sizes : Alloc(s) \/ (\E a \in heap.live : Resize(a, s)) \/ (\E t \in {"level", "game"} : GameAlloc(s, t))
  \/ \E a \in heap.live : Release(a) \/ GameFree(a) \/ GameWritesOver(a)
  \/ \E m \in Models : GetObjectBounds(m)
  \/ SetDebug \/ NewLevel \/ Unload
ZSpec == ZInit /\ [][ZNext]_zVars

-----------------------------------------------------------------------------
(* Forwards and backwards the ring goes once through every block and no other place, whatever
   was moved, and the counts are those of its blocks: also what Z_Stats_f adds up. *)
ChainIsWhole ==
  Running =>
  LET n == Cardinality(heap.live) IN
  /\ ToSet(Walk(heap.next, n)) = heap.live /\ Walk(heap.next, n + 1)[n + 1] = ZChain
  /\ \A i \in 1..n : Walk(heap.prev, n)[i] = Walk(heap.next, n)[n + 1 - i]
  /\ heap.count = n /\ heap.bytes = StatsTotal(heap)

(* The list of the game is exactly its blocks, each once, whatever way they went: freeing by tag
   leaves those of the other tag, and when the game is gone none is left. *)
GameListIsExact ==
  Running =>
  /\ ToSet(heap.locs) = {a \in heap.live : heap.block[a].tag # "server"}
  /\ Cardinality(ToSet(heap.locs)) = Len(heap.locs)
GameGoesClean == [][(Unload /\ Alive(heap')) => Leaks(heap') = {} /\ \A a \in heap.live : heap.block[a].tag = "server" => a \in heap'.live]_zVars

(* What a model was found to have stays there as long as it is remembered. *)
BoundsAreLive ==
  Running => \A b \in ToSet(bounds) :
    /\ {b.at, b.data} \subseteq heap.live /\ heap.block[b.at].tag = "level" /\ heap.block[b.data].tag = "level"
    /\ b.ids \subseteq 1..numBounds

(* The game is blamed for writing over the end of a block exactly when it did: no such block is
   quietly freed. *)
OverrunsAreFound ==
  /\ heap.err = "corrupted" => written # {}
  /\ Running => written \subseteq heap.live
(* The server stops over its memory only when somebody wrote where he should not, as long as no block
   with a guard byte is resized, which loses the byte (common.c:2171). *)
AlarmsAreTrueElse ==
  ~resized /\ heap.err \in {"overrun", "corruption", "magic", "unknown"} => written # {}

(* The memory is whole, whoever frees what, and blames the game exactly when it should.             *)
MemoryIsSound ==
  /\ [](ChainIsWhole /\ GameListIsExact /\ BoundsAreLive /\ OverrunsAreFound /\ AlarmsAreTrueElse)
  /\ GameGoesClean
=============================================================================
