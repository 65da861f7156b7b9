--------------------------- MODULE DownloadCache ---------------------------
(***************************************************************************)
(* Downloads from the server and the cache they share (server/sv_user.c).  *)
(* For a large file the main thread starts a worker that compresses it     *)
(* into a buffer of a cache entry, or only reads it ahead; the download    *)
(* starts when the worker is done, and several clients may wait for one    *)
(* entry.                                                                  *)
(*                                                                         *)
(* Sizes are in blocks, the unit in which data is sent and asked for; the  *)
(* contents of a file are a version, which is its modification time too.   *)
(* The list of entries is a function of those listed, each with its place, *)
(* the newest first.                                                       *)
(* A worker tells the main thread that it is done by setting fd to -1, a   *)
(* plain int: on the machines the server is built for, the store is seen   *)
(* after those before it, and the model takes it so.  Bandwidth limits     *)
(* only delay requests; paks that make the client reconnect, and the       *)
(* refusals that leave the download alone, are left out.                   *)
(***************************************************************************)
EXTENDS Naturals, FiniteSets, SequencesExt

CONSTANTS
  MaxClients,  \* maxclients
  Patched,     \* clients that understand compressed downloads (patched >= 4)
  Files,
  SizeOf,      \* size of each version of a file, in blocks
  Offsets,     \* what a client may have of a file already
  MinCompress, \* blocks from which a download is compressed (100000 bytes)
  Precache,    \* files read ahead: sv_download_precache, maps apart
  MaxEntries   \* bound: cache entries

ASSUME SizesArePositive ==
  /\ SizeOf \in [DOMAIN SizeOf -> Nat \ {0}]
  /\ DOMAIN SizeOf \subseteq Nat /\ 1 \in DOMAIN SizeOf
  /\ Offsets \subseteq Nat /\ MaxClients \in Nat \ {0} /\ MaxEntries \in Nat

Clients == 1 .. MaxClients
Versions == DOMAIN SizeOf
EntryId == 1 .. MaxEntries
None == 0

VARIABLES
  disk,     \* version of each file
  client,   \* the part of client_t that is about downloads
  cache,    \* the list downloads
  worker,   \* thread of each entry: "none", "running", "stored", "done"
  sending   \* next client of SV_SendClientMessages, None outside of it

vars == <<disk, client, cache, worker, sending>>

Unused == [state |-> "cs_free", current |-> FALSE, download |-> FALSE,
           file |-> None, version |-> 1, size |-> 0,
           offset |-> 0, pos |-> 0, count |-> 0, entry |-> None]

Init ==
  /\ disk = [f \in Files |-> 1]
  /\ client = [c \in Clients |-> Unused]
  /\ cache = [i \in {} |-> None]
  /\ worker = [i \in EntryId |-> "none"]
  /\ sending = None

----------------------------------------------------------------------------
(* The cache.  An operator takes and gives w, the client concerned, the    *)
(* list and the entries whose worker was started: [me, list, begun].       *)

Listed(list) == DOMAIN list

(* The first of some entries. *)
FirstOf(list, S) == CHOOSE i \in S : \A j \in S : list[i].place <= list[j].place

(* The list without the entries that are not in S. *)
Only(list, S) ==
  [i \in S |-> [list[i] EXCEPT !.place =
     Cardinality({j \in S : list[j].place <= list[i].place})]]

With(c) == [me |-> client[c], list |-> cache, begun |-> {}]
Put(w, me) == [w EXCEPT !.me = me]

(* fd is -1. *)
Done(i) == worker[i] = "done"

(* Mutants: an entry is ready only when it is first found so; memory is    *)
(* freed without waiting for the worker.                                   *)
MutReady(w) == Done(w.me.entry) /\ ~w.list[w.me.entry].finished
MutWaitThread(before, after) == TRUE

(* What CachedDownloadReady tells of the entry of the client ... *)
Ready(w) == Done(w.me.entry) /\ w.me.entry \notin w.begun

(* ... and what it does when the worker is done: the buffer is shrunk to   *)
(* what was compressed, or freed if that failed.                           *)
Finish(i, d) ==
  IF Done(i) /\ ~d.finished
  THEN [d EXCEPT !.finished = TRUE, !.compbuf = @ /\ d.compsize > 0] ELSE d

(* Sys_WaitThread: no entry is freed before its worker is done. *)
WaitThread(before, after) == \A i \in Listed(before) \ Listed(after) : Done(i)

(* ReleaseCachedDownload: what was compressed from an offset is not kept. *)
Release(w) ==
  LET i == w.me.entry
      d == [w.list[i] EXCEPT !.refc = @ - 1]
  IN  [w EXCEPT !.me.entry = None,
                !.list = IF d.refc = 0 /\ d.compbuf /\ d.offset # 0
                         THEN Only(@, Listed(@) \ {i}) ELSE [@ EXCEPT ![i] = d]]

(* SV_CloseDownload *)
Close(w) ==
  IF ~w.me.download THEN w
  ELSE LET closed == Put(w, [w.me EXCEPT !.download = FALSE, !.size = 0])
       IN  IF w.me.entry = None THEN closed ELSE Release(closed)

(* ClearCachedDownloads *)
Cleared(list) == Only(list, {i \in Listed(list) : list[i].refc # 0})

(* Mutants: the modification time is not compared; an entry in use is      *)
(* rebuilt; a client that joins is not counted.                            *)
MutCurrent(d, me) == TRUE
MutReusable(i, d) == Done(i)
MutJoin(d) == d

Current(d, me) == d.mtime = me.version
Reusable(i, d) == d.refc = 0 /\ Done(i)
Join(d) == [d EXCEPT !.refc = @ + 1]

(* An entry for what the client asked for, on which a worker is started. *)
New(me, compress, place) ==
  [file |-> me.file, offset |-> me.offset, mtime |-> me.version,
   size |-> me.size, compbuf |-> compress, compsize |-> 0,
   finished |-> FALSE, refc |-> 1, place |-> place]

Added(w, i, compress) ==
  [me |-> [w.me EXCEPT !.entry = i], begun |-> {i},
   list |-> [j \in Listed(w.list) \cup {i} |->
               IF j = i THEN New(w.me, compress, 1)
               ELSE [w.list[j] EXCEPT !.place = @ + 1]]]

Joined(w, i) ==
  [w EXCEPT !.me.entry = i, !.list[i] = Join(@)]

Rebuilt(w, i) ==
  [me |-> [w.me EXCEPT !.entry = i], begun |-> {i},
   list |-> [w.list EXCEPT ![i] = New(w.me, TRUE, @.place)]]

(* NewCachedDownload (cl, true): the first entry that is current, or can   *)
(* be rebuilt; else a new one.                                             *)
Compressed(w, new) ==
  LET same(d) == d.file = w.me.file /\ d.compbuf /\ d.offset = w.me.offset
      usable == {i \in Listed(w.list) :
                   /\ same(w.list[i])
                   /\ Current(w.list[i], w.me) \/ Reusable(i, w.list[i])}
      i == FirstOf(w.list, usable)
  IN  IF usable = {} THEN Added(w, new, TRUE)
      ELSE IF Current(w.list[i], w.me) THEN Joined(w, i) ELSE Rebuilt(w, i)

(* NewCachedDownload (cl, false): the first entry that covers the rest of  *)
(* the file; nothing is to be done if it was read already.                 *)
ReadAhead(w, new) ==
  LET covers == {i \in Listed(w.list) : /\ w.list[i].file = w.me.file
                                        /\ w.list[i].offset <= w.me.offset}
      i == FirstOf(w.list, covers)
  IN  IF covers = {} THEN Added(w, new, FALSE)
      ELSE IF Done(i) THEN w
      ELSE Joined(w, i)

----------------------------------------------------------------------------
(* Sending.                                                                *)

(* The download has an entry and did not start yet. *)
Waits(me, list) == me.entry # None /\ me.size # list[me.entry].compsize

(* One block is sent; the last one ends the download. *)
Block(w) ==
  LET n == w.me.pos + 1
      s == Put(w, [w.me EXCEPT !.pos = n, !.count = IF @ < n THEN n ELSE @])
  IN  IF s.me.count = s.me.size THEN Close(s) ELSE s

(* PushDownload (cl, true): from the compressed data, or else the file. *)
Start(w) ==
  IF w.me.entry = None THEN Block(w)
  ELSE LET d == w.list[w.me.entry]
       IN  IF d.compbuf
           THEN Block(Put(w, [w.me EXCEPT !.size = d.compsize, !.pos = 0, !.count = 0]))
           ELSE Block(Release(w))

(* An entry that is ready is finished, and the download starts. *)
StartFinished(w) ==
  Start([w EXCEPT !.list[w.me.entry] = Finish(w.me.entry, @)])

Became(c, w) ==
  /\ client' = [client EXCEPT ![c] = w.me]
  /\ cache' = w.list
  /\ worker' = [i \in EntryId |-> IF i \in w.begun THEN "running" ELSE worker[i]]
  /\ WaitThread(cache, cache')

----------------------------------------------------------------------------
(* Commands of the clients.                                                *)

FreeIds(list) == {i \in EntryId \ Listed(list) : worker[i] \in {"none", "done"}}

Opened(w, f, offset) ==
  Put(w, [w.me EXCEPT !.download = TRUE, !.file = f, !.version = disk[f],
                      !.size = SizeOf[disk[f]], !.offset = offset,
                      !.pos = offset, !.count = offset])

Cached(w, c, i) ==
  IF c \in Patched /\ w.me.size - w.me.offset >= MinCompress THEN Compressed(w, i)
  ELSE IF w.me.file \in Precache THEN ReadAhead(w, i)
  ELSE w

(* SV_BeginDownload_f.  A client that has the whole file is told so. *)
BeginDownload(c, f, offset) ==
  /\ sending = None
  /\ client[c].state = "cs_spawning" /\ client[c].current
  /\ LET closed == Close(With(c))
     IN  IF offset >= SizeOf[disk[f]]
         THEN Became(c, Put(closed, [closed.me EXCEPT !.size = SizeOf[disk[f]]]))
         ELSE /\ FreeIds(closed.list) # {}
              /\ LET w == Cached(Opened(closed, f, offset), c, Min(FreeIds(closed.list)))
                 IN  Became(c, IF w.me.entry = None THEN Start(w)
                               ELSE IF Ready(w) THEN StartFinished(w)
                               ELSE w)
  /\ UNCHANGED <<disk, sending>>

(* The download started: requests are answered. *)
Serves(me, list) == me.download /\ ~Waits(me, list)

(* SV_NextPushDownload_f for one block of the download; the offset that a  *)
(* patched client asked from is that of its first block.                   *)
NextPushDownload(c, p) ==
  /\ sending = None /\ client[c].state \in {"cs_connected", "cs_spawning", "cs_spawned"}
  /\ Serves(client[c], cache)
  /\ c \in Patched /\ client[c].entry = None => p >= client[c].offset
  /\ Became(c, Block(Put(With(c), [client[c] EXCEPT !.pos = p])))
  /\ UNCHANGED <<disk, sending>>

----------------------------------------------------------------------------
(* A frame: the entries are looked at, then each client is served.         *)

(* PollCachedDownloads *)
Poll ==
  /\ sending = None
  /\ sending' = 1
  /\ cache' = [i \in Listed(cache) |-> Finish(i, cache[i])]
  /\ UNCHANGED <<disk, client, worker>>

(* SV_SendClientMessages, for one client that is not in the game. *)
Send(c) ==
  /\ sending = c
  /\ sending' = IF c < MaxClients THEN c + 1 ELSE None
  /\ IF /\ client[c].state \notin {"cs_free", "cs_spawned"}
        /\ Waits(client[c], cache) /\ Ready(With(c))
     THEN Became(c, StartFinished(With(c)))
     ELSE UNCHANGED <<client, cache, worker>>
  /\ UNCHANGED disk

(* The worker: what it compressed is known, or 0 if it does not get        *)
(* smaller or fails; then fd is cleared.                                   *)
Store(i) ==
  /\ worker[i] = "running" /\ i \in Listed(cache)
  /\ worker' = [worker EXCEPT ![i] = "stored"]
  /\ \E n \in IF cache[i].compbuf THEN 0 .. cache[i].size - cache[i].offset - 1 ELSE {0} :
       cache' = [cache EXCEPT ![i].compsize = n]
  /\ UNCHANGED <<disk, client, sending>>

Exit(i) ==
  /\ worker[i] = "stored"
  /\ worker' = [worker EXCEPT ![i] = "done"]
  /\ UNCHANGED <<disk, client, cache, sending>>

----------------------------------------------------------------------------
(* The rest of the server, as far as it touches downloads.                 *)

Connect(c) ==
  /\ sending = None /\ client[c].state = "cs_free"
  /\ client' = [client EXCEPT ![c] = [Unused EXCEPT !.state = "cs_connected"]]
  /\ UNCHANGED <<disk, cache, worker, sending>>

(* "new", or a command that finds the client to be of an earlier map. *)
Restart(c) ==
  /\ sending = None
  /\ \/ client[c].state = "cs_connected"
     \/ client[c].state = "cs_spawning" /\ ~client[c].current
  /\ client' = [client EXCEPT ![c].state = "cs_spawning", ![c].current = TRUE]
  /\ UNCHANGED <<disk, cache, worker, sending>>

(* "begin" *)
Begin(c) ==
  /\ sending = None /\ client[c].state = "cs_spawning" /\ client[c].current
  /\ LET w == Close(With(c))
     IN  Became(c, Put(w, [w.me EXCEPT !.state = "cs_spawned", !.size = 0]))
  /\ UNCHANGED <<disk, sending>>

(* SV_DropClient, and SV_CleanClient once the zombie is let go of. *)
Drop(c) ==
  /\ sending = None
  /\ client[c].state \in {"cs_connected", "cs_spawning", "cs_spawned"}
  /\ client' = [client EXCEPT ![c].state = "cs_zombie"]
  /\ UNCHANGED <<disk, cache, worker, sending>>

Clean(c) ==
  /\ sending = None /\ client[c].state = "cs_zombie"
  /\ LET w == Close(With(c)) IN Became(c, Put(w, [w.me EXCEPT !.state = "cs_free"]))
  /\ UNCHANGED <<disk, sending>>

Clear ==
  /\ cache' = Cleared(cache)
  /\ WaitThread(cache, cache')

(* SV_SpawnServer *)
SpawnServer ==
  /\ sending = None
  /\ Clear
  /\ client' = [c \in Clients |->
       [client[c] EXCEPT !.current = FALSE,
                         !.state = IF @ = "cs_spawned" THEN "cs_connected" ELSE @]]
  /\ UNCHANGED <<disk, worker, sending>>

(* SV_MinimizeMemory *)
MinimizeMemory ==
  /\ sending = None /\ Listed(cache) # {}
  /\ \A c \in Clients : client[c].state = "cs_free"
  /\ Clear
  /\ UNCHANGED <<disk, client, worker, sending>>

(* The file is replaced while the server runs. *)
Replace(f) ==
  /\ disk[f] + 1 \in Versions
  /\ disk' = [disk EXCEPT ![f] = @ + 1]
  /\ UNCHANGED <<client, cache, worker, sending>>

Next ==
  \/ \E c \in Clients :
       \/ \E f \in Files, offset \in Offsets : BeginDownload(c, f, offset)
       \/ \E p \in 0 .. client[c].size - 1 : NextPushDownload(c, p)
       \/ Send(c) \/ Connect(c) \/ Restart(c) \/ Begin(c) \/ Drop(c) \/ Clean(c)
  \/ \E i \in EntryId : Store(i) \/ Exit(i)
  \/ Poll \/ SpawnServer \/ MinimizeMemory
  \/ \E f \in Files : Replace(f)

(* The frame loop never stops, and the system runs the threads. *)
Fairness ==
  /\ WF_vars(Poll) /\ \A c \in Clients : WF_vars(Send(c))
  /\ \A i \in EntryId : WF_vars(Store(i)) /\ WF_vars(Exit(i))

Spec == Init /\ [][Next]_vars /\ Fairness

----------------------------------------------------------------------------
Downloads ==
  [state : {"cs_free", "cs_zombie", "cs_connected", "cs_spawning", "cs_spawned"},
   current : BOOLEAN, download : BOOLEAN, file : Files \cup {None}, version : Versions,
   size : Nat, offset : Nat, pos : Nat, count : Nat, entry : EntryId \cup {None}]

Entries ==
  [file : Files, offset : Nat, mtime : Versions, size : Nat, compbuf : BOOLEAN,
   compsize : Nat, finished : BOOLEAN, refc : Nat, place : Nat]

(* Downloads and entries have values of their types, and only a download   *)
(* that is under way has an entry, which is listed.                        *)
TypeOK ==
  /\ disk \in [Files -> Versions]
  /\ client \in [Clients -> Downloads]
  /\ \A c \in Clients :
       /\ client[c].entry \in Listed(cache) \cup {None}
       /\ client[c].entry # None => client[c].download
       /\ client[c].download => /\ client[c].pos <= client[c].size
                                /\ client[c].count < client[c].size
                                /\ client[c].file \in Files
  /\ Listed(cache) \subseteq EntryId /\ cache \in [Listed(cache) -> Entries]
  /\ worker \in [EntryId -> {"none", "running", "stored", "done"}]
  /\ sending \in Clients \cup {None}

----------------------------------------------------------------------------
(* An entry is counted once for each client that refers to it, across      *)
(* joins, drops, the end of a download and the return to the plain file    *)
(* when compression failed (sv_user.c:154, 175, 221, 1566, 2355): none is  *)
(* freed under a client and none stays in use for ever.                    *)
CountIsExact ==
  \A i \in Listed(cache) :
    cache[i].refc = Cardinality({c \in Clients : client[c].entry = i})

(* A worker never outlives the entry it works for: "reusing the entry      *)
(* before then would realloc the buffer that thread is still compressing   *)
(* into" (sv_user.c:157), and freeing it likewise (sv_user.c:226, 254).    *)
WorkerHasItsEntry ==
  \A i \in EntryId : worker[i] \in {"running", "stored"} => i \in Listed(cache)

(* What a client is sent from an entry is the file it opened, from where   *)
(* it asked for it: entries are shared by name, offset and modification    *)
(* time, and rebuilt when the file changes (sv_user.c:150-171).            *)
SendsWhatWasAsked ==
  \A c \in Clients :
    LET me == client[c]
        d == cache[me.entry]
    IN  me.entry # None /\ Serves(me, cache) =>
          d.mtime = me.version /\ d.offset = me.offset /\ d.file = me.file

(* An entry does not change under the clients it serves: its data is only  *)
(* replaced while nobody refers to it (sv_user.c:159).                     *)
StaysWhileInUse ==
  [][\A c \in Clients :
       LET i == client[c].entry
       IN  i # None /\ Serves(client[c], cache) /\ client'[c] = client[c]
           => /\ cache'[i].compsize = cache[i].compsize
              /\ cache'[i].mtime = cache[i].mtime]_vars

(* Nobody waits for ever: once the worker is done, a download that waits  *)
(* for it starts, from the file if compression failed, or ends with its    *)
(* client, or is asked for anew (sv_user.c:104-128, sv_send.c:1630).  A    *)
(* client that asks again and again may keep itself waiting.               *)
CouldStart(c) ==
  client[c].entry # None /\ Waits(client[c], cache) /\ Done(client[c].entry)

WaitEnds == \A c \in Clients : CouldStart(c) ~> ~CouldStart(c)
=============================================================================
