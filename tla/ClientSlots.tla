---------------------------- MODULE ClientSlots ----------------------------
(***************************************************************************)
(* The client slots of the server: challenges, connection requests, the    *)
(* reuse of slots, packets and their senders, drops, zombies and timeouts  *)
(* (server/sv_main.c), and what the game library is told of them.          *)
(*                                                                         *)
(* Players are processes behind routers: each has an address, a qport that *)
(* its packets carry, and a port that its router may change.  UDP delays   *)
(* and duplicates connection requests.  Times are kept as ages, in a unit  *)
(* that preserves the order of the limits; a frame takes one unit or none. *)
(* Clients on the server's own host, idle mode (every slot is free then),  *)
(* sv_force_reconnect and bans are left out, and the packets of a client   *)
(* whose list overflowed (see MsgQueue), which the server ignores.         *)
(***************************************************************************)
EXTENDS Integers, FiniteSets, FiniteSetsExt

CONSTANTS
  MaxClients,    \* maxclients
  Players,
  Leavers,       \* players whose process may end
  IpOf, QportOf, NameOf,  \* of each player
  Ports,
  ReservedSlots, \* sv_reserved_slots
  Reserved,      \* players who know sv_reserved_password
  IpLimit,       \* sv_iplimit
  MaxChallenges, \* MAX_CHALLENGES
  Timeout,       \* timeout
  ZombieTime,    \* zombietime
  Grace,         \* 5 seconds to answer, or without contact
  IcmpSpawned,   \* 1.5 seconds
  IcmpLoading,   \* 10 seconds
  WantAll,       \* GMF_WANT_ALL_DISCONNECTS
  Flood,         \* sv_maxpps or sv_minpps is set
  NewPorts,      \* routers change ports
  ReusePorts,    \* ... to ports the server has on record for someone else
  MaxIssued,     \* bound: challenges
  MaxLevels      \* bound: level changes

ASSUME Ages == /\ {Timeout, ZombieTime, Grace, IcmpSpawned, IcmpLoading} \subseteq Nat
               /\ Grace < Timeout /\ ZombieTime < Timeout
ASSUME Limits == /\ {MaxClients, IpLimit, MaxChallenges} \subseteq Nat \ {0}
                 /\ ReservedSlots \in 0 .. MaxClients
                 /\ {MaxIssued, MaxLevels} \subseteq Nat
                 /\ {WantAll, Flood, NewPorts, ReusePorts} \subseteq BOOLEAN

Slots == 1 .. MaxClients
Ips == {IpOf[p] : p \in Players}
Nobody == "nobody"
NoName == ""
NoIp == 0
NoPort == 0

(* Nobody, and the zeros that memset leaves, stand for none of them. *)
ASSUME Identities == Nobody \notin Players /\ NoIp \notin Ips /\ NoPort \notin Ports

VARIABLES
  slot,        \* svs.clients
  challenges,  \* svs.challenges
  issued,      \* number of challenges given so far
  net,         \* connection requests sent
  port,        \* port of each player at its router
  gone,        \* players whose process has ended
  levels       \* level changes

vars == <<slot, challenges, issued, net, port, gone, levels>>

Unused == [state |-> "cs_free", ip |-> NoIp, port |-> NoPort, qport |-> 0,
           name |-> NoName, challenge |-> 0,
           silence |-> 0,        \* svs.realtime - lastmessage
           quiet |-> 0,          \* curtime - netchan.last_received
           dropme |-> FALSE,     \* NOTE_DROPME
           game |-> "out",       \* history: what the game was told
           owner |-> Nobody,     \* history: who connected
           foreign |-> FALSE]    \* history: took a packet of someone else

Init ==
  /\ slot = [i \in Slots |-> Unused]
  /\ challenges = [k \in 1 .. MaxChallenges |-> [ip |-> NoIp, challenge |-> 0, time |-> 0]]
  /\ issued = 0
  /\ net = {}
  /\ port \in [Players -> Ports]
  /\ \A p, q \in Players : p # q /\ IpOf[p] = IpOf[q] => port[p] # port[q]
  /\ gone = {}
  /\ levels = 0

Live(s) == s.state \notin {"cs_free", "cs_zombie"}
At(s, p) == s.ip = IpOf[p] /\ s.port = port[p]

----------------------------------------------------------------------------
(* The game library hears of a client in three calls.  A disconnect of     *)
(* somebody it does not know, or a connect over somebody who did not       *)
(* leave, is recorded as an error.                                         *)
ClientConnect(g) == IF WantAll /\ g # "out" THEN "error" ELSE "in"
ClientBegin(g) == IF g = "error" THEN g ELSE "begun"
ClientDisconnect(g) == IF g \in {"out", "error"} THEN "error" ELSE "out"

(* SV_DropClient *)
DropClient(s) ==
  [s EXCEPT !.state = "cs_zombie", !.name = NoName,
            !.game = IF WantAll \/ s.state = "cs_spawned"
                     THEN ClientDisconnect(@) ELSE @]

(* SV_CleanClient.  What a free slot still holds is never read. *)
CleanClient(s) == [Unused EXCEPT !.game = s.game]

----------------------------------------------------------------------------
(* The challenge that was given longest ago, the first of those never given. *)
Oldest ==
  Min({k \in DOMAIN challenges :
         \A j \in DOMAIN challenges : challenges[k].time <= challenges[j].time})

(* SVC_GetChallenge.  The address has a challenge already, or takes the    *)
(* place of the oldest.  The random number is one not given before, which  *)
(* tells the time too.  If the answer arrives, the player sends a          *)
(* connection request.                                                     *)
GetChallenge(p) ==
  /\ p \notin gone
  /\ issued < MaxIssued
  /\ LET own == {k \in DOMAIN challenges : challenges[k].ip = IpOf[p]}
         k == IF own # {} THEN Min(own) ELSE Oldest
         n == issued + 1
     IN  /\ challenges' = [challenges EXCEPT
                             ![k] = [ip |-> IpOf[p], challenge |-> n, time |-> n]]
         /\ issued' = n
         /\ \E answered \in BOOLEAN :
              net' = IF answered
                     THEN net \cup {[from |-> p, port |-> port[p], challenge |-> n]}
                     ELSE net
  /\ UNCHANGED <<slot, port, gone, levels>>

(* Mutant: the challenge stays good. *)
MutSpend(k) == challenges

(* "r1: reset challenge" *)
Spend(k) == [challenges EXCEPT ![k].challenge = 0]

(* The slot that a request takes: that of its address, that of a silent    *)
(* client of its name, or a free one that is not kept for others.          *)
ByAddress(c) ==
  {i \in Slots : /\ slot[i].state # "cs_free"
                 /\ slot[i].ip = IpOf[c.from] /\ slot[i].port = c.port}

ByName(c) ==
  {i \in Slots : /\ Live(slot[i])
                 /\ slot[i].name = NameOf[c.from] /\ slot[i].quiet > Grace}

Open(c) ==
  {i \in Slots : /\ slot[i].state = "cs_free"
                 /\ i + (IF c.from \in Reserved THEN 0 ELSE ReservedSlots) <= MaxClients}

Suitable(c) ==
  IF ByAddress(c) # {} THEN ByAddress(c)
  ELSE IF ByName(c) # {} THEN ByName(c) ELSE Open(c)

(* Mutant: a zombie is dropped again. *)
MutEmptied(s) == CleanClient(DropClient(s))

(* The slot once its ghost was dropped and cleaned. *)
Emptied(s) == CleanClient(IF Live(s) THEN DropClient(s) ELSE s)

(* Mutant: everyone counts for one of twice the limit. *)
MutConnections(s) == 1

(* "zombies are less dangerous" *)
Connections(s) == IF s.state = "cs_zombie" THEN 1 ELSE 2

TooMany(c, slots) ==
  LET same == {i \in Slots : slots[i].state # "cs_free" /\ slots[i].ip = IpOf[c.from]}
  IN  Cardinality({x \in same \X (1 .. 2) : x[2] <= Connections(slots[x[1]])})
        >= 2 * IpLimit

(* SV_NameClash: a name that somebody plays under is changed to another. *)
UniqueName(c, slots) ==
  IF \E i \in Slots : Live(slots[i]) /\ slots[i].name = NameOf[c.from]
  THEN NoName ELSE NameOf[c.from]

NewClient(c, slots, s) ==
  [Unused EXCEPT !.state = "cs_connected", !.ip = IpOf[c.from], !.port = c.port,
                 !.qport = QportOf[c.from], !.name = UniqueName(c, slots),
                 !.challenge = c.challenge, !.silence = Timeout - Grace,
                 !.game = ClientConnect(s.game), !.owner = c.from]

(* The slots after a request that passed the first checks.  The game may   *)
(* refuse it.                                                              *)
Connect(c, allowed) ==
  IF Suitable(c) = {} THEN slot
  ELSE LET i == Min(Suitable(c))
           slots == [slot EXCEPT ![i] = Emptied(@)]
       IN  IF TooMany(c, slots) \/ ~allowed THEN slots
           ELSE [slots EXCEPT ![i] = NewClient(c, slots, @)]

(* SVC_DirectConnect.  A request whose challenge is not the current one of *)
(* its address changes nothing; one refused for its contents (version,     *)
(* userinfo, password, locked server) has spent its challenge.             *)
DirectConnect(c) ==
  /\ \E k \in DOMAIN challenges :
       /\ challenges[k].ip = IpOf[c.from] /\ challenges[k].challenge = c.challenge
       /\ challenges' = Spend(k)
  /\ \/ slot' = slot
     \/ \E allowed \in BOOLEAN : slot' = Connect(c, allowed)
  /\ UNCHANGED <<issued, net, port, gone, levels>>

----------------------------------------------------------------------------
(* What SV_ExecuteClientMessage does with a message: a move, SV_New_f,     *)
(* SV_Begin_f for this or another level, or one of the many that drop the  *)
(* client, "disconnect" among them.                                        *)
Messages == {"move", "new", "begin", "begin other", "drop"}
OutOfOrder == "out of order"   \* a packet that Netchan_Process refuses

ExecuteClientMessage(s, m) ==
  CASE m = "new" /\ s.state = "cs_connected" -> [s EXCEPT !.state = "cs_spawning"]
    [] m = "begin" /\ s.state = "cs_spawning" ->
         [s EXCEPT !.state = "cs_spawned", !.game = ClientBegin(@)]
    [] \/ m = "new" /\ s.state = "cs_spawning"
       \/ m \in {"begin", "begin other"} /\ s.state # "cs_spawning"
       \/ m = "drop" -> DropClient(s)
    [] OTHER -> s

(* Mutant: the packets of a zombie count as a sign of life. *)
MutTake(s, p, m) ==
  LET heard == [s EXCEPT !.quiet = 0, !.silence = 0]
  IN  IF Live(s)
      THEN ExecuteClientMessage([heard EXCEPT !.foreign = @ \/ s.owner # p], m)
      ELSE heard

(* A packet of player p that Netchan_Process took as new. *)
Take(s, p, m) ==
  LET heard == [s EXCEPT !.quiet = 0]
  IN  IF Live(s)
      THEN ExecuteClientMessage(
             [heard EXCEPT !.silence = 0, !.foreign = @ \/ s.owner # p], m)
      ELSE heard

(* Mutant: the qport is not compared. *)
MutMatching(p) ==
  {i \in Slots : slot[i].state # "cs_free" /\ slot[i].ip = IpOf[p]}

(* Slots of this address and qport, from any port. *)
Matching(p) ==
  {i \in Slots : /\ slot[i].state # "cs_free"
                 /\ slot[i].ip = IpOf[p] /\ slot[i].qport = QportOf[p]}

(* "verify user isn't misusing qport" *)
Exact(p) == {i \in Slots : Live(slot[i]) /\ At(slot[i], p)}

(* Zombies that are freed because the packet comes from another port. *)
Stale(p) ==
  {i \in Matching(p) : /\ slot[i].state = "cs_zombie" /\ ~At(slot[i], p)
                       /\ Exact(p) = {}}

(* SV_ReadPackets for a packet of player p: the first slot that matches    *)
(* and is not stale, or the live one with the very address if the port is  *)
(* another, gets it, and a translated port is fixed.                       *)
ReadPacket(p, m) ==
  /\ p \notin gone
  /\ Matching(p) # {}
  /\ LET good == Matching(p) \ Stale(p)
         first == Min(good)
         i == IF At(slot[first], p) \/ Exact(p) = {} THEN first ELSE Min(Exact(p))
         freed == {j \in Stale(p) : good = {} \/ j < first}
         fixed == [slot[i] EXCEPT !.port = port[p]]
     IN  slot' = [j \in Slots |->
                    IF j \in freed THEN CleanClient(slot[j])
                    ELSE IF good # {} /\ j = i
                    THEN IF m = OutOfOrder THEN fixed ELSE Take(fixed, p, m)
                    ELSE slot[j]]
  /\ UNCHANGED <<challenges, issued, net, port, gone, levels>>

(* SV_ReadPackets when the system reports that a client's port is closed,  *)
(* or that something at its address is: the first of that address that was *)
(* not heard of lately is freed at once.                                   *)
Reset(ip, prt) ==
  /\ LET unheard(s) == CASE s.state = "cs_spawned" -> s.silence >= IcmpSpawned
                         [] s.state = "cs_zombie" -> TRUE
                         [] OTHER -> s.silence >= IcmpLoading
         hit == {i \in Slots : /\ slot[i].state # "cs_free" /\ slot[i].ip = ip
                               /\ prt \in {NoPort, slot[i].port} /\ unheard(slot[i])}
     IN  /\ hit # {}
         /\ slot' = [slot EXCEPT ![Min(hit)] = Emptied(@)]
  /\ UNCHANGED <<challenges, issued, net, port, gone, levels>>

----------------------------------------------------------------------------
Older(n, dt, limit) == IF n + dt > limit THEN limit ELSE n + dt

Aged(s, dt) ==
  IF s.state = "cs_free" THEN s
  ELSE [s EXCEPT !.silence = Older(@, dt, Timeout + 1),
                 !.quiet = Older(@, dt, Grace + 1)]

(* Clients that send too many or too few packets were heard of lately. *)
Flooding(dt) ==
  IF Flood THEN {i \in Slots : /\ slot[i].state = "cs_spawned"
                               /\ slot[i].silence + dt <= Grace}
  ELSE {}

(* One turn of the loop of SV_CheckTimeouts. *)
CheckTimeout(s, flooding, idling) ==
  LET t == IF flooding THEN DropClient(s) ELSE s
  IN  CASE s.state = "cs_zombie" /\ s.silence > ZombieTime -> CleanClient(s)
        [] Live(s) /\ s.dropme -> DropClient(t)
        [] t.state = "cs_spawned" /\ idling -> DropClient(t)
        [] Live(s) /\ s.silence > Timeout -> DropClient(t)
        [] OTHER -> t

(* The loop returns after the first client the game wants dropped. *)
Reached(slots) ==
  {i \in Slots : \A j \in Slots : j < i => ~(Live(slots[j]) /\ slots[j].dropme)}

(* A frame: time passes and SV_CheckTimeouts looks at every slot. *)
Frame(dt, flooding, idling) ==
  /\ LET slots == [i \in Slots |-> Aged(slot[i], dt)]
     IN  slot' = [i \in Slots |->
                    IF i \in Reached(slots)
                    THEN CheckTimeout(slots[i], i \in flooding, i \in idling)
                    ELSE slots[i]]
  /\ UNCHANGED <<challenges, issued, net, port, gone, levels>>

(* PF_Unicast of svc_disconnect, with sv_disconnect_hack. *)
DropMe(i) ==
  /\ slot[i].state = "cs_spawned"
  /\ slot' = [slot EXCEPT ![i].dropme = TRUE]
  /\ UNCHANGED <<challenges, issued, net, port, gone, levels>>

(* SV_KickClient by an administrator, for irregular timing or overflow. *)
Kick(i) ==
  /\ Live(slot[i])
  /\ slot' = [slot EXCEPT ![i] = DropClient(@)]
  /\ UNCHANGED <<challenges, issued, net, port, gone, levels>>

(* SV_SendClientDatagram cannot send. *)
SendFailed(i) ==
  /\ slot[i].state = "cs_spawned"
  /\ slot' = [slot EXCEPT ![i] = Emptied(@)]
  /\ UNCHANGED <<challenges, issued, net, port, gone, levels>>

(* An age when svs.realtime goes from t to 0, once it is clamped. *)
Restarted(n, t) == IF n > t THEN n - t ELSE 0

(* SV_Map and SV_SpawnServer: svs.realtime, which was t, starts at 0, and  *)
(* the next SV_CheckTimeouts clamps what was heard later.                  *)
SpawnServer(t) ==
  /\ levels < MaxLevels
  /\ levels' = levels + 1
  /\ slot' = [i \in Slots |->
                [slot[i] EXCEPT
                   !.state = IF @ = "cs_spawned" THEN "cs_connected" ELSE @,
                   !.game = IF @ = "begun" THEN "in" ELSE @,
                   !.silence = Restarted(@, t)]]
  /\ UNCHANGED <<challenges, issued, net, port, gone>>

----------------------------------------------------------------------------
(* A router gives a player another port. *)
Translate(p, prt) ==
  /\ NewPorts
  /\ p \notin gone
  /\ \A q \in Players \ gone : IpOf[q] = IpOf[p] => port[q] # prt
  /\ ReusePorts \/
       /\ \A i \in Slots : slot[i].ip = IpOf[p] /\ slot[i].owner # p => slot[i].port # prt
       /\ \A c \in net : IpOf[c.from] = IpOf[p] /\ c.from # p => c.port # prt
  /\ port' = [port EXCEPT ![p] = prt]
  /\ UNCHANGED <<slot, challenges, issued, net, gone, levels>>

(* A player's process ends without a word. *)
Leave(p) ==
  /\ p \in Leavers \ gone
  /\ gone' = gone \cup {p}
  /\ UNCHANGED <<slot, challenges, issued, net, port, levels>>

Tick(dt) ==
  \E flooding \in SUBSET Flooding(dt),
     idling \in SUBSET {i \in Slots : slot[i].state = "cs_spawned"} :
    Frame(dt, flooding, idling)

Next ==
  \/ \E p \in Players : GetChallenge(p)
  \/ \E c \in net : DirectConnect(c)
  \/ \E p \in Players, m \in {OutOfOrder} \cup Messages : ReadPacket(p, m)
  \/ \E ip \in Ips, prt \in {NoPort} \cup Ports : Reset(ip, prt)
  \/ \E dt \in 0 .. 1 : Tick(dt)
  \/ \E i \in Slots : DropMe(i) \/ Kick(i) \/ SendFailed(i)
  \/ \E t \in 0 .. Timeout + 1 : SpawnServer(t)
  \/ \E p \in Players, prt \in Ports : Translate(p, prt)
  \/ \E p \in Players : Leave(p)

Spec == Init /\ [][Next]_vars /\ WF_vars(Tick(1))

----------------------------------------------------------------------------
States == {"cs_free", "cs_zombie", "cs_connected", "cs_spawning", "cs_spawned"}

Clients ==
  [state : States, ip : {NoIp} \cup Ips, port : {NoPort} \cup Ports,
   qport : {0} \cup {QportOf[p] : p \in Players},
   name : {NoName} \cup {NameOf[p] : p \in Players},
   challenge : 0 .. MaxIssued, silence : 0 .. Timeout + 1,
   quiet : 0 .. Grace + 1, dropme : BOOLEAN,
   game : {"out", "in", "begun", "error"},
   owner : {Nobody} \cup Players, foreign : BOOLEAN]

(* Slots, challenges and requests have values of their types; a free slot  *)
(* has nothing of a client, so that memset has nothing to leak.            *)
TypeOK ==
  /\ slot \in [Slots -> Clients]
  /\ \A i \in Slots : slot[i].state = "cs_free" <=> slot[i].owner = Nobody
  /\ challenges \in [1 .. MaxChallenges ->
                      [ip : {NoIp} \cup Ips, challenge : 0 .. MaxIssued, time : 0 .. MaxIssued]]
  /\ issued \in 0 .. MaxIssued
  /\ net \subseteq [from : Players, port : Ports, challenge : 1 .. MaxIssued]
  /\ levels \in 0 .. MaxLevels
  /\ gone \subseteq Players
  /\ port \in [Players -> Ports]

(* "Maximum number of connections allowed from a single IP", although the  *)
(* check comes after a ghost was dropped and counts zombies by half.       *)
ConnectionsLimited ==
  \A p \in Players :
    Cardinality({i \in Slots : Live(slot[i]) /\ slot[i].ip = IpOf[p]}) <= IpLimit

(* A connection request that arrives late or twice cannot end a connection *)
(* of its address: only one with a newer challenge takes a live slot over. *)
OnlyNewerTakesOver ==
  [][\A c \in net, i \in DOMAIN slot :
       Live(slot[i]) /\ slot[i].ip = IpOf[c.from] /\ slot'[i] # slot[i] /\ DirectConnect(c)
         => c.challenge > slot[i].challenge]_vars

(* What the server does for a client, that client asked for: no slot takes *)
(* a packet of another player, whatever ports the routers give; and no two *)
(* clients in the game have one address, although ports are fixed up while *)
(* others connect.                                                         *)
AddressesDiffer ==
  \A i, j \in DOMAIN slot :
    i # j /\ Live(slot[i]) /\ Live(slot[j]) /\ slot[i].ip = slot[j].ip => slot[i].port # slot[j].port

RoutedToOwner == AddressesDiffer /\ \A i \in DOMAIN slot : ~slot[i].foreign

(* The game is told once of everyone who leaves and who was told of, and   *)
(* it has a body for a client exactly while that is spawned.               *)
BodyHasClient == \A i \in DOMAIN slot : slot[i].game = "begun" <=> slot[i].state = "cs_spawned"

GameToldOnce == BodyHasClient /\ \A i \in DOMAIN slot : slot[i].game # "error"

(* A zombie's slot is free in the end, whatever its player still sends,    *)
(* and that of a player who fell silent for good is given up, whatever     *)
(* else the pass over the slots does (SV_CheckTimeouts).                   *)
Abandoned(i) == slot[i].state = "cs_zombie" \/ slot[i].owner \in gone
SlotsComeFree == \A i \in Slots : Abandoned(i) ~> ~Abandoned(i)
=============================================================================
