------------------------------ MODULE Handshake ------------------------------
(***************************************************************************)
(* How a client gets into a level and stays in it: the commands "new",     *)
(* "begin", "download" and "nextserver" of server/sv_user.c, the level     *)
(* change of server/sv_init.c, and the configstrings that the game sets at *)
(* any moment (server/sv_game.c, server/sv_send.c).                        *)
(*                                                                         *)
(* Reliable messages arrive in order (module Netchan), so each direction   *)
(* of a connection is a sequence.  The remote client is external: it does  *)
(* what the stuffed commands "precache", "changing" and "reconnect" make a *)
(* client do.  A configstring index is in Plain or in Images; the server   *)
(* sends the names of downloadable files in place of the images until the  *)
(* client begins.                                                          *)
(***************************************************************************)
EXTENDS Naturals, Sequences, SequencesExt, FiniteSets

CONSTANTS Clients, Plain, Images, Values,
          MaxCount,     \* bound on svs.spawncount
          MaxSets,      \* bound on what the game changes in all
          MaxFiles,     \* bound on the files a client asks for in one loading
          MaxSkips      \* bound on the "nextserver" commands under way
ASSUME HsAssumption == IsFiniteSet(Plain) /\ IsFiniteSet(Images) /\ Plain \cap Images = {} /\ MaxCount \in Nat \ {0}

Indices == Plain \union Images
Empty == "empty"        \* configstring[0] = 0
File == "file"          \* the name of a downloadable file
Strings == Values \union {Empty}

VARIABLES
  lv,       \* svs.spawncount, sv.state, sv.configstrings, sv.dlconfigstrings, the state of an edict
  cl,       \* per slot: state, spawncount, lastlines, msgListStart; and the ClientBegin calls of this level
  rc,       \* the remote clients: commands under way, what they know of the level, what they load
  nextmap,  \* "gamemap" is in the command buffer, put there by SV_Nextserver
  sets,     \* changes by the game so far
  blamed    \* clients that were dropped for an illegal "begin"
vars == <<lv, cl, rc, nextmap, sets, blamed>>

MutWanted(c, m) == cl[c].state = "spawned"

(* What SV_Multicast lets through to a client that is not spawned. *)
Wanted(c, m) ==
  \/ cl[c].state = "spawned"
  \/ m.type # "configstring"
  \/ m.index \notin Images

Active(c) == cl[c].state \notin {"free", "zombie"}

(* SV_Multicast (NULL, MULTICAST_ALL_R): a message to every client. *)
Multicast(m, slots) ==
  [c \in Clients |-> IF Active(c) /\ Wanted(c, m)
                     THEN [slots[c] EXCEPT !.down = Append(@, m)] ELSE slots[c]]

Command(name) == [type |-> name]
Configstring(i, v) == [type |-> "configstring", index |-> i, value |-> v]

(* A remote client that has just connected asks for the level. *)
Fresh == [up |-> <<Command("new")>>, count |-> 0, strings |-> [i \in Indices |-> Empty],
          base |-> Empty, loading |-> 0, files |-> 0, waiting |-> FALSE]
Slot(s) == [state |-> s, count |-> 0, lastlines |-> Empty, down |-> <<>>, begins |-> 0]

HsInit ==
  /\ lv \in [count : {1}, state : {"game"}, strings : [Indices -> Strings],
             files : [Images -> {Empty, File}], edict : Strings]
  /\ cl = [c \in Clients |-> Slot("free")]
  /\ rc = [c \in Clients |-> [Fresh EXCEPT !.up = <<>>]]
  /\ nextmap = FALSE
  /\ sets = 0
  /\ blamed = {}

-----------------------------------------------------------------------------
(* A connect is accepted into the slot; the slot is wiped. *)
Connect(c) ==
  /\ cl[c].state \in {"free", "zombie"}
  /\ cl' = [cl EXCEPT ![c] = Slot("connected")]
  /\ rc' = [rc EXCEPT ![c] = Fresh]
  /\ UNCHANGED <<lv, nextmap, sets, blamed>>

(* The strings of AddConfigstrings: downloadable files in place of images. *)
AddConfigstrings ==
  LET sent == [i \in Indices |-> IF i \in Images THEN lv.files[i] ELSE lv.strings[i]]
      some == {i \in Indices : sent[i] # Empty}
  IN SetToSeq({Configstring(i, sent[i]) : i \in some})

BaselinesMessage ==
  (IF lv.edict = Empty THEN <<>> ELSE <<[type |-> "baseline", value |-> lv.edict]>>)
    \o <<[type |-> "precache", count |-> lv.count]>>

(* SV_New_f for a client that is connected: the data of the level. *)
SendLevel(c) ==
  [cl[c] EXCEPT !.state = "spawning", !.count = lv.count,
                !.lastlines = IF lv.state = "game" THEN lv.edict ELSE @,
                !.down = @ \o <<[type |-> "serverdata", count |-> lv.count]>>
                           \o (IF lv.state = "game" THEN AddConfigstrings \o BaselinesMessage
                               ELSE <<[type |-> "cmd begin", count |-> lv.count]>>)]

Drop(c, ms) == [cl EXCEPT ![c].state = "zombie", ![c].down = @ \o ms]

New(c) ==
  cl' = CASE cl[c].state = "connected" -> [cl EXCEPT ![c] = SendLevel(c)]
          [] cl[c].state = "spawning"  -> Drop(c, <<Command("disconnect")>>)
          [] OTHER                     -> cl

(* SV_ClientBegin: the images follow now, and the game is told. *)
ImageStrings == SetToSeq({Configstring(i, lv.strings[i]) : i \in {j \in Images : lv.strings[j] # Empty}})

ClientBegin(c) ==
  [cl[c] EXCEPT !.state = "spawned", !.count = lv.count, !.down = @ \o ImageStrings,
                !.begins = IF lv.state = "game" THEN @ + 1 ELSE @]

MutBegin(c, count) ==
  /\ cl' = IF count # lv.count THEN cl ELSE [cl EXCEPT ![c] = ClientBegin(c)]
  /\ UNCHANGED blamed

Begin(c, count) ==
  /\ cl' = CASE cl[c].state # "spawning" -> Drop(c, <<Command("disconnect")>>)
             [] cl[c].state = "spawning" /\ count # lv.count -> [cl EXCEPT ![c] = SendLevel(c)]
             [] OTHER -> [cl EXCEPT ![c] = ClientBegin(c)]
  /\ blamed' = IF cl[c].state # "spawning" THEN blamed \union {c} ELSE blamed

(* SV_BeginDownload_f: a file of a level that is gone is not worth sending. *)
Download(c) ==
  cl' = IF cl[c].count # lv.count THEN [cl EXCEPT ![c] = SendLevel(c)]
        ELSE [cl EXCEPT ![c].down = Append(@, Command("file"))]

(* SV_Nextserver: the pictures and cinematics end once. *)
Nextserver(count) ==
  IF count = lv.count /\ lv.state # "game"
  THEN /\ lv' = [lv EXCEPT !.count = @ + 1]
       /\ nextmap' = TRUE
  ELSE UNCHANGED <<lv, nextmap>>

(* The server executes the next command of a client. *)
Execute(c) ==
  /\ Active(c)
  /\ rc[c].up # <<>>
  /\ LET m == Head(rc[c].up) IN
     \/ m.type = "new" /\ New(c) /\ UNCHANGED <<lv, nextmap, blamed>>
     \/ m.type = "begin" /\ Begin(c, m.count) /\ UNCHANGED <<lv, nextmap>>
     \/ m.type = "download" /\ Download(c) /\ UNCHANGED <<lv, nextmap, blamed>>
     \/ m.type = "nextserver" /\ Nextserver(m.count) /\ UNCHANGED <<cl, blamed>>
  /\ rc' = [rc EXCEPT ![c].up = Tail(@)]
  /\ UNCHANGED sets

-----------------------------------------------------------------------------
(* PF_Configstring, SV_FindIndex: the new value goes to everyone at once. *)
SetString(i, v) ==
  /\ sets < MaxSets
  /\ lv.strings[i] # v
  /\ i \in Images => lv.strings[i] = Empty
  /\ lv' = [lv EXCEPT !.strings[i] = v]
  /\ cl' = Multicast(Configstring(i, v), cl)
  /\ sets' = sets + 1
  /\ UNCHANGED <<rc, nextmap, blamed>>

(* An edict changes; the baselines of clients do not. *)
MoveEdict(v) ==
  /\ sets < MaxSets
  /\ v # lv.edict
  /\ lv' = [lv EXCEPT !.edict = v]
  /\ sets' = sets + 1
  /\ UNCHANGED <<cl, rc, nextmap, blamed>>

(* SV_Map for a server that goes on: spawned clients lose what is queued   *)
(* for them, all are told, and the level is wiped.                         *)
ClearSpawned ==
  [c \in Clients |-> IF cl[c].state = "spawned"
                     THEN [cl[c] EXCEPT !.state = "connected", !.down = <<>>] ELSE cl[c]]

SpawnServer(state, strings, files) ==
  /\ lv' = [lv EXCEPT !.count = @ + 1, !.state = state, !.strings = strings, !.files = files]
  /\ cl' = [c \in Clients |->
              LET slot == ClearSpawned[c] IN
              [slot EXCEPT !.begins = 0,
                           !.down = IF Active(c) THEN @ \o <<Command("changing"), Command("reconnect")>> ELSE @]]

Map ==
  /\ lv.count < MaxCount
  /\ \E state \in {"game", "pic"}, strings \in [Indices -> Strings], files \in [Images -> {Empty, File}] :
        /\ state = "pic" => strings = [i \in Indices |-> Empty]
        /\ SpawnServer(state, strings, files)
  /\ nextmap' = FALSE
  /\ UNCHANGED <<rc, sets, blamed>>

(* SV_Map with a game to reload: SV_InitGame drops everyone and frees the  *)
(* slots before the level is spawned.                                      *)
Restart ==
  /\ lv.count < MaxCount
  /\ \E strings \in [Indices -> Strings] :
       lv' = [lv EXCEPT !.count = @ + 1, !.state = "game", !.strings = strings]
  /\ cl' = [c \in Clients |-> Slot("free")]
  /\ rc' = [c \in Clients |-> [Fresh EXCEPT !.up = <<>>]]
  /\ nextmap' = FALSE
  /\ UNCHANGED <<sets, blamed>>

-----------------------------------------------------------------------------
(* The remote client. *)
Say(r, m) == [r EXCEPT !.up = Append(@, m)]

Reactions(r, m) ==
  CASE m.type = "serverdata"   -> {[Fresh EXCEPT !.up = r.up, !.count = m.count]}
    [] m.type = "configstring" -> {[r EXCEPT !.strings[m.index] = m.value]}
    [] m.type = "baseline"     -> {[r EXCEPT !.base = m.value]}
    [] m.type = "precache"     -> {[r EXCEPT !.loading = m.count]}
    [] m.type = "cmd begin"    -> {Say(r, [type |-> "begin", count |-> m.count])}
    [] m.type = "reconnect"    -> {Say(r, Command("new"))} \union {x \in {r} : r.loading # 0}
    [] m.type = "file"         -> {[r EXCEPT !.waiting = FALSE]}
    [] OTHER                   -> {r}

(* While the server has "gamemap" in its command buffer no answer to what  *)
(* it sends arrives: the buffer is executed in the same frame.             *)
Receive(c) ==
  /\ ~nextmap
  /\ cl[c].down # <<>>
  /\ cl' = [cl EXCEPT ![c].down = Tail(@)]
  /\ \E r \in Reactions(rc[c], Head(cl[c].down)) : rc' = [rc EXCEPT ![c] = r]
  /\ UNCHANGED <<lv, nextmap, sets, blamed>>

AskFile(c) ==
  /\ ~nextmap
  /\ rc[c].loading # 0 /\ ~rc[c].waiting /\ rc[c].files < MaxFiles
  /\ rc' = [rc EXCEPT ![c] = [Say(@, Command("download")) EXCEPT !.files = rc[c].files + 1, !.waiting = TRUE]]
  /\ UNCHANGED <<lv, cl, nextmap, sets, blamed>>

Loaded(c) ==
  /\ ~nextmap
  /\ rc[c].loading # 0 /\ ~rc[c].waiting
  /\ rc' = [rc EXCEPT ![c] = [Say(@, [type |-> "begin", count |-> rc[c].loading]) EXCEPT !.loading = 0]]
  /\ UNCHANGED <<lv, cl, nextmap, sets, blamed>>

(* The picture ends, or is skipped again and again, at a client that began *)
(* in it.                                                                  *)
EndPicture(c) ==
  /\ ~nextmap
  /\ lv.count + 1 < MaxCount
  /\ cl[c].state = "spawned" /\ lv.state = "pic" /\ cl[c].down = <<>> /\ Len(rc[c].up) < MaxSkips
  /\ rc' = [rc EXCEPT ![c] = Say(@, [type |-> "nextserver", count |-> rc[c].count])]
  /\ UNCHANGED <<lv, cl, nextmap, sets, blamed>>

HsNext ==
  \/ \E c \in Clients : Connect(c) \/ Execute(c) \/ Receive(c) \/ AskFile(c) \/ Loaded(c) \/ EndPicture(c)
  \/ \E i \in Indices, v \in Strings : SetString(i, v)
  \/ \E v \in Strings : MoveEdict(v)
  \/ Map
  \/ Restart

(* Reliable messages get through and clients load and reconnect; levels    *)
(* and the game owe nothing.                                               *)
HsFairness ==
  /\ \A c \in Clients : WF_vars(Connect(c)) /\ WF_vars(Execute(c)) /\ WF_vars(Receive(c)) /\ WF_vars(Loaded(c))
  /\ WF_vars(nextmap /\ Map)

HsSpec == HsInit /\ [][HsNext]_vars /\ HsFairness

-----------------------------------------------------------------------------
Messages == [type : {"serverdata", "precache", "cmd begin"}, count : 1..MaxCount]
              \union [type : {"configstring"}, index : Indices, value : Strings \union {File}]
              \union [type : {"baseline"}, value : Values]
              \union [type : {"changing", "reconnect", "disconnect", "file"}]

(* A slot has a known state and a spawn count that was used, and its list  *)
(* holds messages the handlers write.                                      *)
HsTypeOK ==
  /\ lv.count \in 1..MaxCount /\ lv.strings \in [Indices -> Strings]
  /\ \A c \in Clients :
       /\ cl[c].state \in {"free", "zombie", "connected", "spawning", "spawned"}
       /\ cl[c].count \in 0..lv.count
       /\ Range(cl[c].down) \subseteq Messages
       /\ rc[c].count \in 0..lv.count

Settled(c) == lv.state = "game" /\ cl[c].state = "spawned" /\ cl[c].down = <<>>

(* Whatever the game set while the client was loading, and however many    *)
(* levels it was sent: a client in a level that has read its messages has  *)
(* the configstrings of that level, the images instead of the files that   *)
(* SV_AddConfigstrings sent in their place.                                *)
StringsAgree ==
  \A c \in Clients : Settled(c) =>
    /\ rc[c].count = lv.count
    /\ \A i \in Plain : rc[c].strings[i] = lv.strings[i]
    /\ \A i \in Images : lv.strings[i] # Empty => rc[c].strings[i] = lv.strings[i]

(* The baselines SV_CreateBaseline keeps, from which entities are          *)
(* delta-compressed, are the ones the client was sent.                     *)
BaselinesAgree == \A c \in Clients : Settled(c) => rc[c].base = cl[c].lastlines

(* In a level the game had exactly one ClientBegin for each client that is *)
(* spawned and none for the others, whatever "new", "begin" and level      *)
(* changes went before.                                                    *)
BegunOnce ==
  lv.state = "game" => \A c \in Clients : Active(c) => cl[c].begins = IF cl[c].state = "spawned" THEN 1 ELSE 0

(* SV_Begin_f drops a client for a begin it had no right to send; one that *)
(* only follows the commands of the server is never dropped for it.        *)
NoneBlamed == blamed = {}

(* While the next map of a picture is queued no client can skip it: only   *)
(* one SV_Nextserver counts.                                               *)
SkipsOnce == [][nextmap /\ nextmap' => lv'.count = lv.count]_vars

(* Level changes, restarts and drops only delay a client: when they stop,  *)
(* it gets into the level and stays there.                                 *)
GetsIn == <>[](\A c \in Clients : cl[c].state = "spawned")

(* What a client is told while it loads: the strings and baselines of the level it is in, "begin"   *)
(* once, and no blame for what the server did (SV_New_f, SV_Begin_f, SV_Nextserver).                *)
TellsTheLevel == [](HsTypeOK /\ StringsAgree /\ BaselinesAgree /\ BegunOnce /\ NoneBlamed) /\ SkipsOnce
=============================================================================
