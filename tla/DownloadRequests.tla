-------------------------- MODULE DownloadRequests --------------------------
(***************************************************************************)
(* How a client gets the files of a level: it asks for one after the other,  *)
(* the server refuses, sends, or makes it come again to load a pak it has    *)
(* just downloaded, while levels change and the operator allows and forbids   *)
(* downloads. Messages are in order on reliable channels (Netchan); the      *)
(* blocks of one file are DownloadCache's subject, here there are Blocks of   *)
(* them. The client is external.                                             *)
(***************************************************************************)
EXTENDS Integers, Sequences, FiniteSets, SequencesExt

CONSTANTS Paks, PlainFiles,       \* files the client lacks: paks that are listed as downloadable, others
          InPak,             \* [PlainFiles -> Paks \union {None}]: the pak the server has a file in
          None, Blocks,
          MaxLevels, MaxToggles
Files == Paks \union PlainFiles
ASSUME DrAssumption == Blocks > 0 /\ None \notin Files /\ InPak \in [PlainFiles -> Paks \union {None}]

VARIABLES spawncount, allowed,   \* svs.spawncount; files whose category, size and presence let them go
          slot,                  \* [state, spawncount, download, pos, downloadpak]
          up, down,              \* commands of the client, messages to it
          dlc,                    \* the client: [phase, level, have, loaded, skipped, file]
          toggles
drVars == <<spawncount, allowed, slot, up, down, dlc, toggles>>

Msg(type) == [type |-> type]
DrFresh == [state |-> "connected", spawncount |-> 0, download |-> None, pos |-> 0, downloadpak |-> FALSE]
DrInit ==
  /\ spawncount = 1 /\ toggles = 0 /\ allowed \in SUBSET Files
  /\ slot = DrFresh /\ up = <<Msg("new")>> /\ down = <<>>
  /\ dlc = [phase |-> "asks", level |-> 0, have |-> [f \in Files |-> 0], loaded |-> {}, skipped |-> {}, file |-> None]

Replies(ms) == down' = down \o ms
Keeps == UNCHANGED <<spawncount, allowed, dlc, toggles>>

(* SV_DropClient, with what makes the client come again. *)
Gone(m) == slot' = [slot EXCEPT !.state = "zombie", !.download = None] /\ Replies(<<m>>)

(* ClientLoadNewPAK: "game main" makes the client look for paks. *)
ClientLoadNewPAK == Gone(Msg("reload"))

(* SV_New_f *)
MutDrNew(s) ==   \* a client that asks while it loads is left alone
  IF s.state = "connected" THEN /\ slot' = [s EXCEPT !.state = "spawning", !.spawncount = spawncount]
                                /\ Replies(<<[type |-> "serverdata", level |-> spawncount]>>)
  ELSE UNCHANGED <<slot, down>>
DrNew(s) ==
  CASE s.state = "connected" -> /\ slot' = [s EXCEPT !.state = "spawning", !.spawncount = spawncount]
                                /\ Replies(<<[type |-> "serverdata", level |-> spawncount]>>)
    [] s.state = "spawning"  -> Gone(Msg("reconnect now"))
    [] s.state = "spawned"   -> UNCHANGED <<slot, down>>

(* PushDownload: the next block; with the last one the file is closed. *)
PushDownload(s) ==
  IF s.pos + 1 = Blocks
  THEN slot' = [s EXCEPT !.download = None, !.pos = 0] /\ Replies(<<[type |-> "block", last |-> TRUE]>>)
  ELSE slot' = [s EXCEPT !.pos = @ + 1] /\ Replies(<<[type |-> "block", last |-> FALSE]>>)

Refuses == Replies(<<Msg("refused")>>) /\ UNCHANGED slot
InListedPak(f) == f \in PlainFiles /\ InPak[f] # None

(* What becomes of a file that may be downloaded. One that is in a listed pak is refused;
   one the client has whole is not sent. *)
SendFile(f, offset) ==
  IF InListedPak(f) THEN Refuses
  ELSE IF offset = Blocks THEN Replies(<<Msg("full")>>) /\ UNCHANGED slot
  ELSE PushDownload([slot EXCEPT !.download = f, !.pos = offset, !.downloadpak = f \in Paks])

(* A pak that was got is loaded before the next file, whether that is allowed or not. *)
Requested(f, offset) ==
  IF f \notin Paks /\ slot.downloadpak /\ slot.download = None THEN ClientLoadNewPAK
  ELSE IF f \notin allowed THEN Refuses
  ELSE SendFile(f, offset)

(* SV_BeginDownload_f *)
BeginDownload(f, offset) ==
  IF slot.spawncount # spawncount THEN DrNew([slot EXCEPT !.state = "connected"])
  ELSE IF slot.state # "spawning" THEN Refuses
  ELSE Requested(f, offset)

(* SV_Begin_f and SV_ClientBegin *)
MutDrBegin(level) ==   \* the level is looked at, and the pak is not
  IF slot.state # "spawning" THEN Gone(Msg("reconnect now"))
  ELSE IF level # spawncount THEN DrNew([slot EXCEPT !.state = "connected"])
  ELSE slot' = [slot EXCEPT !.state = "spawned", !.download = None] /\ Replies(<<Msg("frame")>>)
DrBegin(level) ==
  IF slot.state # "spawning" THEN Gone(Msg("reconnect now"))
  ELSE IF slot.downloadpak /\ slot.download = None THEN ClientLoadNewPAK
  ELSE IF level # spawncount THEN DrNew([slot EXCEPT !.state = "connected"])
  ELSE slot' = [slot EXCEPT !.state = "spawned", !.download = None] /\ Replies(<<Msg("frame")>>)

Server ==
  /\ up # <<>> /\ slot.state # "zombie" /\ up' = Tail(up) /\ Keeps
  /\ LET m == Head(up) IN
     CASE m.type = "new"      -> DrNew(slot)
       [] m.type = "download" -> BeginDownload(m.file, m.offset)
       [] m.type = "nextdl"   -> IF slot.download = None THEN UNCHANGED <<slot, down>> ELSE PushDownload(slot)
       [] m.type = "begin"    -> DrBegin(m.level)

(* SV_Map: a client that plays loses what waits for it; a file that is being sent goes on. *)
LevelChange ==
  /\ spawncount < MaxLevels /\ spawncount' = spawncount + 1
  /\ slot' = IF slot.state = "spawned" THEN [slot EXCEPT !.state = "connected"] ELSE slot
  /\ down' = IF slot.state = "zombie" THEN down
             ELSE Append(IF slot.state = "spawned" THEN <<>> ELSE down, Msg("reconnect"))
  /\ UNCHANGED <<allowed, up, dlc, toggles>>

(* allow_download and its kind, sv_download_refuselimit, sv_max_download_size. *)
Toggle(f) ==
  /\ toggles < MaxToggles /\ toggles' = toggles + 1
  /\ allowed' = IF f \in allowed THEN allowed \ {f} ELSE allowed \union {f}
  /\ UNCHANGED <<spawncount, slot, up, down, dlc>>

-----------------------------------------------------------------------------
(* The client: it needs what it neither has nor was refused, nor has in a pak it loaded. *)
Needs == {f \in Files : dlc.have[f] < Blocks /\ f \notin dlc.skipped /\ (f \in PlainFiles => InPak[f] \notin dlc.loaded)}
Asks ==
  /\ dlc.phase = "loads"
  /\ IF Needs # {}
     THEN \E f \in Needs : /\ dlc' = [dlc EXCEPT !.phase = "waits", !.file = f]
                           /\ up' = Append(up, [type |-> "download", file |-> f, offset |-> dlc.have[f]])
     ELSE dlc' = [dlc EXCEPT !.phase = "begins"] /\ up' = Append(up, [type |-> "begin", level |-> dlc.level])
  /\ UNCHANGED <<spawncount, allowed, slot, down, toggles>>

(* It comes again: a new slot, and with "game main" the paks it has whole are loaded. *)
Again(m) ==
  /\ slot' = DrFresh /\ up' = <<Msg("new")>> /\ down' = <<>>
  /\ dlc' = [dlc EXCEPT !.phase = "asks", !.skipped = {}, !.file = None,
                      !.loaded = IF m.type = "reload" THEN {p \in Paks : dlc.have[p] = Blocks} ELSE @]
Client ==
  /\ down # <<>> /\ UNCHANGED <<spawncount, allowed, toggles>>
  /\ LET m == Head(down) IN
     IF m.type \in {"reload", "reconnect now"} THEN Again(m)
     ELSE /\ down' = Tail(down) /\ UNCHANGED slot
          /\ CASE m.type = "serverdata" -> /\ dlc' = [dlc EXCEPT !.phase = "loads", !.level = m.level, !.skipped = {}, !.file = None]
                                           /\ UNCHANGED up
               [] m.type = "reconnect" /\ dlc.phase # "gets" -> /\ dlc' = [dlc EXCEPT !.phase = "asks"]
                                                               /\ up' = Append(up, Msg("new"))
               [] m.type \in {"refused", "full"} /\ dlc.phase = "waits" ->
                    /\ dlc' = [dlc EXCEPT !.phase = "loads", !.skipped = @ \union {dlc.file}] /\ UNCHANGED up
               [] m.type = "block" /\ dlc.phase \in {"waits", "gets"} ->
                    /\ dlc' = [dlc EXCEPT !.phase = IF m.last THEN "loads" ELSE "gets", !.have[dlc.file] = @ + 1]
                    /\ up' = IF m.last THEN up ELSE Append(up, Msg("nextdl"))
               [] m.type = "frame" -> dlc' = [dlc EXCEPT !.phase = "in"] /\ UNCHANGED up
               [] OTHER -> UNCHANGED <<dlc, up>>

DrNext == Server \/ Client \/ Asks \/ LevelChange \/ \E f \in Files : Toggle(f)
DrSpec == DrInit /\ [][DrNext]_drVars /\ WF_drVars(Server) /\ WF_drVars(Client) /\ WF_drVars(Asks)

-----------------------------------------------------------------------------
(* A client that waits for a file has one answer coming, or is told to load the level
   anew, and never two: a second one would be taken for that of the next file. *)
Coming(seq, types) == Cardinality({i \in DOMAIN seq : seq[i].type \in types})
Answers == Coming(up, {"download"}) + Coming(down, {"refused", "full"})
           + (IF slot.download # None \/ \E i \in DOMAIN down : down[i].type = "block" THEN 1 ELSE 0)
AnsweredOnce ==
  /\ Answers <= 1
  /\ dlc.phase \in {"waits", "gets"} => Answers + Coming(down, {"serverdata", "reload", "reconnect now"}) >= 1

(* The slot that a pak went to does not get into the game: its client is made to load it. *)
SlotLoadsPaks == slot.state = "spawned" => ~slot.downloadpak

(* When levels no longer change the client gets in, and stays in. *)
LoaderGetsIn == <>[](slot.state = "spawned" /\ dlc.phase = "in")

(* Each request is answered, and a pak that was sent is loaded before the level is played.          *)
RequestsEnd == AnsweredOnce /\ SlotLoadsPaks
=============================================================================
