----------------------------- MODULE MCServer ------------------------------
(***************************************************************************)
(* What the server keeps and does besides the level, for TLC: a behaviour is *)
(* about one of Parts, and the others stay as they start.                  *)
(***************************************************************************)
EXTENDS CommandBuffer, Cvars, Commands, Queries, Settings, UserChecks, UserMoves, RedBlack, DeltaEncoding, TLC

CONSTANT Parts     \* the parts a behaviour may be about
VARIABLE part
serverVars == <<cbVars, cvVars, cmVars, quVars, seVars, ucVars, umVars, rbVars, vars, part>>

(* Where the parts that start in several ways are kept while others move. *)
UmIdle == netdrop = 1 /\ ~predict
DeIdle == kind = "usercmd" /\ group = CHOOSE g \in Groups["usercmd"] : TRUE

Init ==
  /\ part \in Parts
  /\ CbInit /\ CvInit /\ CmInit /\ QuInit /\ SeInit /\ UcInit /\ RbInit
  /\ UmInit /\ (part = "moves" \/ UmIdle)
  /\ DeInit /\ (part = "encoding" \/ DeIdle)
Next ==
  \/ part = "buffer" /\ CbNext /\ UNCHANGED <<cvVars, cmVars, quVars, seVars, ucVars, umVars, rbVars, vars, part>>
  \/ part = "variables" /\ CvNext /\ UNCHANGED <<cbVars, cmVars, quVars, seVars, ucVars, umVars, rbVars, vars, part>>
  \/ part = "commands" /\ CmNext /\ UNCHANGED <<cbVars, cvVars, quVars, seVars, ucVars, umVars, rbVars, vars, part>>
  \/ part = "queries" /\ QuNext /\ UNCHANGED <<cbVars, cvVars, cmVars, seVars, ucVars, umVars, rbVars, vars, part>>
  \/ part = "settings" /\ SeNext /\ UNCHANGED <<cbVars, cvVars, cmVars, quVars, ucVars, umVars, rbVars, vars, part>>
  \/ part = "checks" /\ UcNext /\ UNCHANGED <<cbVars, cvVars, cmVars, quVars, seVars, umVars, rbVars, vars, part>>
  \/ part = "moves" /\ UmNext /\ UNCHANGED <<cbVars, cvVars, cmVars, quVars, seVars, ucVars, rbVars, vars, part>>
  \/ part = "trees" /\ RbNext /\ UNCHANGED <<cbVars, cvVars, cmVars, quVars, seVars, ucVars, umVars, vars, part>>
  \/ part = "encoding" /\ DeNext /\ UNCHANGED <<cbVars, cvVars, cmVars, quVars, seVars, ucVars, umVars, rbVars, part>>
Spec == Init /\ [][Next]_serverVars

-----------------------------------------------------------------------------
(* CommandBuffer and Cvars *)
Alias(n, t) == [do |-> "alias", arg |-> [name |-> n, text |-> t]]
SomeCmds == {Do(d) : d \in {"map", "echo", "wait", "killserver", "error", "a"}}
            \cup {[do |-> "set", arg |-> v] : v \in {"line", "config"}} \cup {[do |-> "exec", arg |-> "config"]}
            \cup {Alias("a", <<Do("echo"), Do("a")>>)}
SomeFiles == "config" :> <<[do |-> "set", arg |-> "config"], Do("wait"), Do("echo")>>
SomeHooks == {<<>>, <<Do("killserver")>>, <<Do("wait"), Do("a")>>, <<Do("error")>>}
SomeLines == {<<Do("map"), Do("echo")>>, <<Alias("a", <<Do("echo"), Do("a")>>), Do("a")>>,
              <<[do |-> "exec", arg |-> "config"]>>, <<Do("error")>>, <<Do("a"), Do("map")>>}

SomeFlags == ("maxclients" :> {"LATCH", "SERVERINFO"}) @@ ("timelimit" :> {"LATCH", "NORELOAD"})
             @@ ("sv_rcon_buffsize" :> {}) @@ ("g_idle" :> {"NOSET"})

-----------------------------------------------------------------------------
(* Commands *)
(* A command that begins another, and one that ends it. *)
SomeText == {<<1>>, <<1, 2>>, <<2>>}

-----------------------------------------------------------------------------
(* Queries *)
SomeMasters == {<<>>, <<1>>}
(* Followed further only while one of the limits is in use. *)
OneLimit ==
  Cardinality({x \in {"status", "masters", "rcon", "holes", "exempt", "notices"} :
        CASE x = "status" -> statusRate # NewRate
          [] x = "masters" -> masters # <<>> \/ lastBeat # 0
          [] x = "rcon" -> rconRate # NewRate
          [] x = "holes" -> Len(holes) > 1
          [] x = "exempt" -> exempt # <<>>
          [] x = "notices" -> \E n \in DOMAIN notices : notices[n] # <<>>}) <= 1

-----------------------------------------------------------------------------
(* Settings *)
(* Followed further only while few messages are under way. *)
FewMessages == Len(list) + Len(wire) + Len(replies) <= 4

-----------------------------------------------------------------------------
(* UserChecks *)
(* Names within the letters that are compared, one name with a number in it. *)
SomeNames == {<<1>>, <<1, 2>>, <<1, 3>>}

-----------------------------------------------------------------------------
(* DeltaEncoding *)
(* Bytes of four values: every width and both signs occur. *)

MCDomain ==
  [entity |-> [f \in Fields("entity") |->
      CASE f \in {"origin", "angle"} -> {-6, -5, -3, -1, 0, 2, 4, 6}
        [] f = "old_origin" -> {-3, 0, 2}
        [] f \in {"skin", "effects"} -> {0, 3, 4, 8, 15, 100}
        [] f \in {"frame", "sound"} -> {0, 3, 4, 7}
        [] f \in {"renderfx", "renderfx2"} -> {0, 3, 4, 8}
        [] f = "solid" -> {0, 3, 7}
        [] OTHER -> {0, 1, 3}],
   player |-> [f \in Fields("player") |->
      CASE f \in {"pm_origin", "pm_origin2", "viewangles", "viewangle2", "stat"} -> {-8, -1, 0, 2, 7}
        [] f \in {"kick", "gunoffset"} -> {-6, -5, -3, -1, 0, 2, 4, 6}
        [] f = "viewoffset" -> {-4, -1, 0, 3}
        [] f \in {"blend", "fov"} -> IF f = "fov" THEN {0, 3, 7} ELSE {0, 1, 4, 8}
        [] OTHER -> 0..3],
   usercmd |-> [f \in Fields("usercmd") |->
      IF f \in {"angle", "forward"} THEN {-8, -5, -1, 0, 3, 7} ELSE 0..3]]

-----------------------------------------------------------------------------
(* Things that have nothing to do with each other are followed apart: a client's
   packets and stuffed text, a variable that is only forced and the others, the checks
   of variables and those of names. *)
Apart ==
  /\ stuffString # <<>> => packets = <<>> /\ bannedcommands = <<>> /\ ~sv.missed
  /\ cvars["g_idle"].string.v # Floor => \A n \in CvarNames \ {"g_idle"} : cvars[n].string.v = Floor /\ cvars[n].latched = NoString
  /\ edits > 0 => live \subseteq {Slots[1]} /\ name[Slots[1]] \in {<<>>, <<1>>}
(* What is said of every lookup is looked at where it matters. *)
TreesLookUp == part = "trees" /\ ~purging => LookupsAgree

(* A tree is a set to its callers, its links are a balanced search tree between two operations, and   *)
(* what is deleted while a list is open does not end the list too early (redblack.c).               *)
TreesAreSets == [](Balanced /\ SearchTree /\ PurgeIsComplete /\ TreesLookUp) /\ IsKeySet /\ AsAsked

Followed == Apart /\ OneLimit /\ FewMessages

=============================================================================
