------------------------------ MODULE Settings ------------------------------
(***************************************************************************)
(* What the server borrows from an unpatched client while it downloads: a   *)
(* client asks for one block per frame, so its cl_maxfps, gl_swapinterval   *)
(* and rate are raised for the download and put back when it begins. The    *)
(* client's own value is kept by the server in the slot (cl_maxfps) and by  *)
(* the client in kpded2_fps, for the case that it comes back in another     *)
(* slot. The same slot field serves the limit on packets per second.        *)
(***************************************************************************)
EXTENDS Integers, Sequences, SequencesExt

CONSTANTS Fps,        \* the frames per second the user has set
          Swap,       \* whether the user has gl_swapinterval on
          Rate,       \* the user's rate; DownRate is the rate for downloads
          DownRate, DownFps,   \* DownFps: what GetDownloadRate may return
          Limit,      \* sv_fpsflood, 0 for none
          MaxLevel    \* level changes are bounded

ASSUME SeAssumption ==
  /\ Fps \in Nat /\ Fps > 1 /\ Swap \in BOOLEAN /\ Limit \in Nat
  /\ Rate \in Nat /\ DownRate \in Nat /\ Rate < DownRate /\ DownFps \subseteq Nat \ {Fps}

VARIABLES phase, heard, fps, swap, saved, rate, modified,   \* the client, the level it heard of, and its cvars
          state, known, measured, srvRate, dl, dlrate, downloadpak, spawncount,   \* its slot
          level, list, wire, replies,   \* the message list, what was sent of it, and the way back
          lost                          \* "list": settings, or the question for them, were in a cleared list;
                                        \* "slot": the client was thrown out while it had loaded;
                                        \* "twice": it was asked again before it had answered
client == <<phase, heard, fps, swap, saved, rate, modified>>
slot == <<state, known, measured, srvRate, dl, dlrate, downloadpak, spawncount>>
seVars == <<client, slot, level, list, wire, replies, lost>>

SeInit ==
  /\ phase = "off" /\ heard = 0 /\ fps = Fps /\ swap = Swap /\ saved = 0 /\ rate = Rate /\ modified = FALSE
  /\ state = "none" /\ known = 0 /\ measured = FALSE /\ srvRate = Rate /\ dl = FALSE /\ dlrate = 0
  /\ downloadpak = FALSE /\ spawncount = 0
  /\ level = 1 /\ list = <<>> /\ wire = <<>> /\ replies = <<>> /\ lost = {}

Op(o) == <<[op |-> o]>>
SetFps(f) == <<[op |-> "set", fps |-> f]>>
SetRate(r) == <<[op |-> "rate", rate |-> r]>>
Abs(n) == IF n < 0 THEN -n ELSE n
Settings == {"set", "rate", "restore", "borrow", "d2"}
Asked(ms) == \E i \in DOMAIN ms : ms[i].op = "d1"   \* in the question or in its answer
AsksMore == Len(list') > Len(list) /\ Last(list').op \in {"d1", "d2"}

-----------------------------------------------------------------------------
(* SV_New_f in a connected slot; a second new while it loads throws the client out. *)
New(now) ==
  IF now = "connected"
  THEN state' = "spawning" /\ spawncount' = level /\ list' = list \o <<[op |-> "level", level |-> level]>>
  ELSE IF now = "spawning" THEN state' = "none" /\ list' = list \o Op("again") /\ UNCHANGED spawncount
  ELSE UNCHANGED <<state, spawncount, list>>

(* ClientLoadNewPAK: the rate is put back, the frame rate is left to kpded2_fps. *)
LoadNewPAK ==
  /\ state' = "none" /\ dl' = FALSE
  /\ list' = list \o (IF srvRate < DownRate THEN SetRate(srvRate) ELSE <<>>) \o Op("again")

(* The part of SV_ClientBegin that puts the settings back. *)
MutRestore ==   \* a client whose frame rate was measured is not asked what it keeps
  IF known \notin {0, -1} THEN <<[op |-> "restore", fps |-> Abs(known), swap |-> known < 0]>> ELSE <<>>
Restore ==
  IF known \notin {0, -1}
  THEN <<[op |-> "restore", fps |-> Abs(known), swap |-> known < 0]>> \o
       (IF srvRate < DownRate THEN SetRate(srvRate) ELSE <<>>)
  ELSE IF ~measured THEN Op("d2") ELSE <<>>

Begin(l) ==
  CASE state # "spawning" -> state' = "none" /\ list' = <<>> /\ UNCHANGED <<known, dl, spawncount>>
    [] state = "spawning" /\ downloadpak /\ ~dl -> LoadNewPAK /\ UNCHANGED <<known, spawncount>>
    [] state = "spawning" /\ ~(downloadpak /\ ~dl) /\ l # level -> New("connected") /\ UNCHANGED <<known, dl>>
    [] OTHER -> /\ state' = "spawned" /\ spawncount' = l /\ dl' = FALSE
                /\ list' = list \o Restore
                /\ known' = IF known \notin {0, -1} THEN 0 ELSE known

(* SV_BeginDownload_f: of another level, unexpected, after a pak, or started. *)
BeginDownload(pak) ==
  CASE spawncount # level -> New("connected") /\ UNCHANGED <<dl, dlrate, downloadpak>>
    [] spawncount = level /\ state # "spawning" -> list' = list \o Op("file") /\ UNCHANGED <<state, spawncount, dl, dlrate, downloadpak>>
    [] spawncount = level /\ state = "spawning" /\ ~pak /\ downloadpak /\ ~dl ->
         LoadNewPAK /\ UNCHANGED <<spawncount, dlrate, downloadpak>>
    [] OTHER -> /\ dl' = TRUE /\ downloadpak' = pak
                /\ \E asks \in BOOLEAN :   \* whether it has been seen above 60 frames a second
                     /\ asks \/ measured
                     /\ list' = IF known = 0 THEN list \o <<[op |-> "d1", asks |-> asks]>> ELSE list
                /\ UNCHANGED <<state, spawncount, dlrate>>

(* SV_CvarResult_f: what the client answered to the three questions. *)
ResultD1(v, asked, on) ==
  IF state = "spawning" /\ v = 0 THEN known' = -1 /\ UNCHANGED <<list, dlrate>>
  ELSE IF state = "spawning"
  THEN LET k == IF v > 0 /\ asked /\ on THEN -v ELSE v IN
       \E r \in DownFps :
         /\ known' = k /\ dlrate' = r
         /\ list' = list \o <<[op |-> "borrow", saved |-> k, fps |-> r, off |-> k < 0 \/ asked]>>
                         \o (IF srvRate < DownRate THEN SetRate(DownRate) ELSE <<>>)
  ELSE UNCHANGED <<known, dlrate, list>>
ResultD2(v) == list' = IF v # 0 THEN list \o <<[op |-> "restore", fps |-> Abs(v), swap |-> v < 0]>> ELSE list
ResultFps(v) == known' = v /\ list' = IF Limit > 0 /\ v > Limit THEN list \o SetFps(Limit) ELSE list

(* A client that was thrown out is not listened to. *)
ServerIgnores ==
  /\ replies # <<>> /\ replies' = Tail(replies) /\ state = "none"
  /\ UNCHANGED <<client, slot, level, list, wire, lost>>

ServerReceives ==
  /\ replies # <<>> /\ replies' = Tail(replies) /\ state # "none"
  /\ LET r == Head(replies) IN
     /\ \/ r.op = "new" /\ New(state) /\ UNCHANGED <<known, srvRate, dl, dlrate, downloadpak>>
        \/ r.op = "begin" /\ Begin(r.level) /\ UNCHANGED <<srvRate, dlrate, downloadpak>>
        \/ r.op = "download" /\ BeginDownload(r.pak) /\ UNCHANGED <<known, srvRate>>
        \/ r.op = "d1" /\ ResultD1(r.v, r.asked, r.on) /\ UNCHANGED <<state, srvRate, dl, downloadpak, spawncount>>
        \/ r.op = "d2" /\ ResultD2(r.v) /\ UNCHANGED <<state, known, srvRate, dl, dlrate, downloadpak, spawncount>>
        \/ r.op = "fps" /\ ResultFps(r.v) /\ UNCHANGED <<state, srvRate, dl, dlrate, downloadpak, spawncount>>
        \/ r.op = "info" /\ srvRate' = r.rate /\ UNCHANGED <<state, known, dl, dlrate, downloadpak, spawncount, list>>
     /\ lost' = lost \union {x \in {"slot"} : (r.op = "new" \/ (r.op = "begin" /\ state # "spawning")) /\ state' = "none"}
                      \union {x \in {"twice"} : Asked(wire \o list \o replies) /\ AsksMore}
  /\ UNCHANGED <<client, measured, level, wire>>

(* The last block goes out. *)
FileDone ==
  /\ dl /\ state # "none" /\ dl' = FALSE /\ list' = list \o Op("file")
  /\ UNCHANGED <<client, state, known, measured, srvRate, dlrate, downloadpak, spawncount, level, wire, replies, lost>>

(* SV_CheckTimeouts with sv_bandwidth: the share of a client that downloads has changed. *)
Bandwidth ==
  /\ dl /\ known \notin {0, -1} /\ state # "none"
  /\ \E r \in DownFps : dlrate # r /\ dlrate' = r /\ list' = list \o SetFps(r)
  /\ UNCHANGED <<client, state, known, measured, srvRate, dl, downloadpak, spawncount, level, wire, replies, lost>>

(* SV_CheckTimeouts, five seconds into the game: too many packets are asked about once,
   then punished. What was in the list before has long been sent. *)
Measure ==
  /\ state = "spawned" /\ phase = "playing" /\ list = <<>> /\ wire = <<>> /\ replies = <<>> /\ measured' = TRUE
  /\ IF Limit > 0 /\ fps > Limit
     THEN IF known = 0 THEN list' = list \o Op("fps") /\ UNCHANGED <<state, known>>
          ELSE state' = "none" /\ list' = list \o Op("kicked") /\ UNCHANGED known
     ELSE known' = 0 /\ UNCHANGED <<state, list>>
  /\ UNCHANGED <<client, srvRate, dl, dlrate, downloadpak, spawncount, level, wire, replies, lost>>

(* SV_Map and SV_SpawnServer: the list of a client that plays is cleared; then all are told to come. *)
LevelChange ==
  /\ level < MaxLevel /\ level' = level + 1
  /\ state' = IF state \in {"spawning", "spawned"} THEN "connected" ELSE state
  /\ list' = (IF state = "spawned" THEN <<>> ELSE list) \o (IF state = "none" THEN <<>> ELSE Op("reconnect"))
  /\ lost' = lost \union {x \in {"list"} : state = "spawned" /\ \E i \in 1..Len(list) : list[i].op \in Settings}
  /\ UNCHANGED <<client, known, measured, srvRate, dl, dlrate, downloadpak, spawncount, wire, replies>>

Flush ==
  /\ list # <<>> /\ wire' = wire \o list /\ list' = <<>>
  /\ UNCHANGED <<client, slot, level, replies, lost>>

-----------------------------------------------------------------------------
(* The client, as its answers show it. It comes again by itself when told to. *)
Connect ==
  /\ phase = "off" /\ state = "none" /\ list = <<>> /\ wire = <<>>
  /\ phase' = "connecting" /\ modified' = FALSE /\ replies' = Op("new")
  /\ state' = "connected" /\ known' = 0 /\ measured' = FALSE /\ srvRate' = rate /\ dl' = FALSE /\ dlrate' = 0
  /\ downloadpak' = FALSE /\ spawncount' = 0
  /\ UNCHANGED <<heard, fps, swap, saved, rate, level, list, wire, lost>>

Say(r) == replies' = replies \o <<r>>
ClientReceives ==
  /\ wire # <<>> /\ wire' = Tail(wire) /\ phase # "off"
  /\ LET m == Head(wire) IN
     \/ m.op = "level" /\ phase' = "loading" /\ heard' = m.level /\ UNCHANGED <<fps, swap, saved, rate, modified, replies>>
     \/ m.op = "file" /\ phase' = (IF phase = "downloading" THEN "loading" ELSE phase)
        /\ UNCHANGED <<heard, fps, swap, saved, rate, modified, replies>>
     \/ m.op = "reconnect" /\ UNCHANGED <<heard, fps, swap, saved, rate, modified>>
        /\ IF phase = "downloading" THEN UNCHANGED <<phase, replies>> ELSE phase' = "connecting" /\ Say([op |-> "new"])
     \/ m.op \in {"again", "kicked"} /\ phase' = "off" /\ replies' = <<>> /\ UNCHANGED <<heard, fps, swap, saved, rate, modified>>
     \/ m.op = "d1" /\ Say([op |-> "d1", v |-> IF saved # 0 THEN saved ELSE fps, asked |-> m.asks, on |-> swap])
        /\ UNCHANGED client
     \/ m.op = "d2" /\ Say([op |-> "d2", v |-> saved]) /\ UNCHANGED client
     \/ m.op = "fps" /\ Say([op |-> "fps", v |-> fps]) /\ UNCHANGED client
     \/ m.op = "borrow" /\ saved' = m.saved /\ fps' = m.fps /\ swap' = (swap /\ ~m.off) /\ UNCHANGED <<phase, heard, rate, modified, replies>>
     \/ m.op = "restore" /\ fps' = m.fps /\ saved' = 0 /\ swap' = (m.swap \/ swap) /\ UNCHANGED <<phase, heard, rate, modified, replies>>
     \/ m.op = "set" /\ fps' = m.fps /\ UNCHANGED <<phase, heard, swap, saved, rate, modified, replies>>
     \/ m.op = "rate" /\ rate' = m.rate /\ UNCHANGED <<phase, heard, fps, swap, saved>>
        /\ IF phase = "playing" THEN Say([op |-> "info", rate |-> m.rate]) /\ UNCHANGED modified
           ELSE modified' = TRUE /\ UNCHANGED replies
  /\ UNCHANGED <<slot, level, list, lost>>

(* The client starts to play with the first frame, and only then tells a changed rate. *)
Active ==
  /\ phase = "begun" /\ state = "spawned" /\ phase' = "playing" /\ modified' = FALSE
  /\ IF modified THEN Say([op |-> "info", rate |-> rate]) ELSE UNCHANGED replies
  /\ UNCHANGED <<heard, fps, swap, saved, rate, slot, level, list, wire, lost>>

(* Nothing comes any more: it was thrown out and not told. *)
GiveUp ==
  /\ phase # "off" /\ state = "none" /\ list = <<>> /\ wire = <<>>
  /\ phase' = "off" /\ replies' = <<>>
  /\ UNCHANGED <<heard, fps, swap, saved, rate, modified, slot, level, list, wire, lost>>

Precache ==
  /\ phase = "loading"
  /\ \/ phase' = "begun" /\ Say([op |-> "begin", level |-> heard])
     \/ \E pak \in BOOLEAN : phase' = "downloading" /\ Say([op |-> "download", pak |-> pak])
  /\ UNCHANGED <<heard, fps, swap, saved, rate, modified, slot, level, list, wire, lost>>

SeNext == ServerReceives \/ ServerIgnores \/ FileDone \/ Bandwidth \/ Measure \/ LevelChange \/ Flush
          \/ Connect \/ ClientReceives \/ Active \/ Precache \/ GiveUp
SeSpec == SeInit /\ [][SeNext]_seVars

-----------------------------------------------------------------------------
Quiet == phase = "playing" /\ state = "spawned" /\ list = <<>> /\ wire = <<>> /\ replies = <<>>

(* Who plays and has read everything has the frame rate and the interval it came with,
   whatever was downloaded and however often the level changed or a pak made it come
   again, unless a cleared message list took its settings, or the question, along, or it
   was asked again for what it was about to answer. *)
FpsAndSwapBack == Quiet /\ lost \cap {"list", "twice"} = {} => fps = Fps /\ swap = Swap /\ saved = 0
(* The rate only if it was not thrown out in between, which makes the rate for downloads its own. *)
RateBack == Quiet /\ lost = {} => rate = Rate
OwnSettingsBack == FpsAndSwapBack /\ RateBack
=============================================================================
