---------------------------- MODULE MCHandshake ----------------------------
(***************************************************************************)
(* Clients that load a level, for TLC: a behaviour is about what they are  *)
(* told of the level, or about the files they lack.                        *)
(***************************************************************************)
EXTENDS Handshake, DownloadRequests

VARIABLE part
loadVars == <<vars, drVars, part>>

(* Where each starts while the other moves. *)
HsIdle == lv.edict = Empty /\ (\A k \in Indices : lv.strings[k] = Empty) /\ \A n \in Images : lv.files[n] = Empty
DrIdle == allowed = Paks \union PlainFiles

Init == /\ HsInit /\ DrInit
        /\ \/ part = "level" /\ DrIdle
           \/ part = "files" /\ HsIdle
Level(A) == part = "level" /\ A /\ UNCHANGED <<drVars, part>>
Lacking(A) == part = "files" /\ A /\ UNCHANGED <<vars, part>>
Next == Level(HsNext) \/ Lacking(DrNext)

(* The fairness of both. *)
Fairness ==
  /\ \A c \in Clients : /\ WF_loadVars(Level(Connect(c))) /\ WF_loadVars(Level(Execute(c)))
                        /\ WF_loadVars(Level(Receive(c))) /\ WF_loadVars(Level(Loaded(c)))
  /\ WF_loadVars(Level(nextmap /\ Map))
  /\ WF_loadVars(Lacking(Server)) /\ WF_loadVars(Lacking(Client)) /\ WF_loadVars(Lacking(Asks))
Spec == Init /\ [][Next]_loadVars /\ Fairness

(* One file that is in a pak as well, one that is not. *)
SomeFiles == [f \in {"skin", "map"} |-> IF f = "skin" THEN "pak" ELSE None]

(* A client gets into the level in the end, however often it changes       *)
(* (SV_New_f, SV_Begin_f), also one that lacks files (SV_BeginDownload_f). *)
PlayerGetsIn == part = "level" => GetsIn
LoaderIsIn == part = "files" => LoaderGetsIn
=============================================================================
