------------------------------ MODULE MCWaits ------------------------------
(***************************************************************************)
(* Waits that have to end, for TLC: slots whose players may end without a  *)
(* word, and downloads that are compressed for one client and read ahead   *)
(* for another.  A behaviour is about the one or the other.                *)
(***************************************************************************)
EXTENDS ClientSlots, TLC

(* Two players of one name behind one router, and a limit of one           *)
(* connection.                                                             *)
CONSTANTS p1, p3, a, b
MCIpOf == p1 :> 10 @@ p3 :> 10
MCQportOf == p1 :> 7 @@ p3 :> 8
MCNameOf == p1 :> "a" @@ p3 :> "a"

(* Two clients, one of them patched, and a file that does not change. *)
VARIABLES disk, client, cache, worker, sending
Cache == INSTANCE DownloadCache WITH
  MaxClients <- 2, Patched <- {1}, Files <- {1}, SizeOf <- <<2>>, Offsets <- {0},
  MinCompress <- 2, Precache <- {1}, MaxEntries <- 2
cacheVars == <<disk, client, cache, worker, sending>>

VARIABLE part
waitVars == <<vars, cacheVars, part>>

MCInit == part \in {"slots", "downloads"} /\ Init /\ Cache!Init /\ port = p1 :> a @@ p3 :> b
Connects(A) == part = "slots" /\ A /\ UNCHANGED <<cacheVars, part>>
Loads(A) == part = "downloads" /\ A /\ UNCHANGED <<vars, part>>
MCNext == Connects(Next) \/ Loads(Cache!Next)

(* The fairness of both. *)
Fairness ==
  /\ WF_waitVars(Connects(Tick(1)))
  /\ WF_waitVars(Loads(Cache!Poll)) /\ \A c \in Cache!Clients : WF_waitVars(Loads(Cache!Send(c)))
  /\ \A i \in Cache!EntryId : WF_waitVars(Loads(Cache!Store(i))) /\ WF_waitVars(Loads(Cache!Exit(i)))
MCSpec == MCInit /\ [][MCNext]_waitVars /\ Fairness

(* A download that waits for a worker that is done starts or ends           *)
(* (SV_SendClientMessages).                                                 *)
DownloadWaitEnds == Cache!WaitEnds
=============================================================================
