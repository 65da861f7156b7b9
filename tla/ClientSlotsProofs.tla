-------------------------- MODULE ClientSlotsProofs --------------------------
(***************************************************************************)
(* Proofs about ClientSlots, for any number of slots, players, addresses   *)
(* and challenges: what a packet reaches, what the game is told, which     *)
(* request takes a slot over, and the limit of connections.                *)
(***************************************************************************)
EXTENDS ClientSlots, FiniteSetTheorems, WellFoundedInduction, TLAPS

(* A set of natural numbers has its least element.                         *)
LEMMA MinIsLeast ==
  ASSUME NEW S \in SUBSET Nat, S # {}
  PROVE  Min(S) \in S /\ \A y \in S : Min(S) <= y
<1> DEFINE T == {0 .. y : y \in S}
<1>1. T \subseteq FiniteSubsetsOf(Nat) /\ T # {}
  <2>1. ASSUME NEW y \in S PROVE 0 .. y \in FiniteSubsetsOf(Nat)
    <3>1. y \in Nat /\ 0 \in Int /\ y \in Int
      OBVIOUS
    <3>2. IsFiniteSet(0 .. y)
      BY <3>1, FS_Interval
    <3>3. 0 .. y \subseteq Nat
      BY <3>1
    <3>4. QED
      BY <3>2, <3>3 DEF FiniteSubsetsOf
  <2>2. QED
    BY <2>1
<1>2. PICK low \in T : \A t \in T : <<t, low>> \notin StrictSubsetOrdering(Nat)
  BY <1>1, WFMin, FS_StrictSubsetOrderingWellFounded
<1>3. PICK x \in S : low = 0 .. x
  BY <1>2
<1>4. ASSUME NEW y \in S PROVE x <= y
  <2>1. <<0 .. y, 0 .. x>> \notin StrictSubsetOrdering(Nat)
    BY <1>2, <1>3
  <2>2. ~(0 .. y \subseteq 0 .. x /\ 0 .. y # 0 .. x)
    BY <2>1 DEF StrictSubsetOrdering
  <2>3. x \in Nat /\ y \in Nat
    OBVIOUS
  <2>4. SUFFICES ASSUME y < x PROVE FALSE
    BY <2>3
  <2>5. 0 .. y \subseteq 0 .. x /\ x \in 0 .. x /\ x \notin 0 .. y
    BY <2>3, <2>4
  <2>6. QED
    BY <2>2, <2>5
<1>5. QED
  BY <1>4 DEF Min

----------------------------------------------------------------------------
(* One slot                                                                *)

(* The type of a slot that is free or somebody's. *)
SlotOK(s) == s \in Clients /\ (s.state = "cs_free" <=> s.owner = Nobody)

(* What the game knows of a slot: a body while it is spawned, and every    *)
(* client in the server if it wants all disconnects.                       *)
GameOK(s) ==
  /\ s.game # "error"
  /\ s.game = "begun" <=> s.state = "cs_spawned"
  /\ WantAll => (Live(s) <=> s.game # "out")

(* The client in a slot stays who it is; a zombie does not come to life.   *)
Same(s, t) ==
  /\ t.ip = s.ip /\ t.port = s.port /\ t.qport = s.qport /\ t.owner = s.owner
  /\ t.challenge = s.challenge /\ t.foreign = s.foreign
  /\ Live(t) => Live(s)
  /\ t.state = "cs_free" <=> s.state = "cs_free"

Freed(t) ==
  /\ t.ip = NoIp /\ t.port = NoPort /\ t.owner = Nobody
  /\ t.challenge = 0 /\ ~t.foreign /\ t.state = "cs_free"

(* What most handlers may make of a slot. *)
Ends(s, t) ==
  /\ SlotOK(t) /\ (Same(s, t) \/ Freed(t))
  /\ ~(WantAll /\ Flood) /\ GameOK(s) => GameOK(t)

LEMMA UnusedOK == SlotOK(Unused) /\ GameOK(Unused) /\ Freed(Unused)
BY Ages, Limits DEF SlotOK, GameOK, Freed, Unused, Clients, States, Live, NoName

LEMMA SameItself ==
  ASSUME NEW s, SlotOK(s)
  PROVE  Ends(s, s)
BY DEF Ends, Same

LEMMA DropOK ==
  ASSUME NEW s, SlotOK(s), s.state # "cs_free"
  PROVE  /\ SlotOK(DropClient(s)) /\ Same(s, DropClient(s))
         /\ DropClient(s).state = "cs_zombie"
         /\ Live(s) /\ GameOK(s) => GameOK(DropClient(s))
         /\ ~WantAll /\ GameOK(s) => GameOK(DropClient(s))
BY DEF SlotOK, GameOK, Same, Live, DropClient, ClientDisconnect, Clients, States, NoName

LEMMA CleanOK ==
  ASSUME NEW s, SlotOK(s)
  PROVE  /\ SlotOK(CleanClient(s)) /\ Freed(CleanClient(s))
         /\ ~Live(s) /\ GameOK(s) => GameOK(CleanClient(s))
         /\ ~Live(s) /\ GameOK(s) => CleanClient(s).game # "begun" /\ (WantAll => CleanClient(s).game = "out")
<1> DEFINE t == CleanClient(s)
<1>1. t = [Unused EXCEPT !.game = s.game]
  BY DEF CleanClient
<1>2. SlotOK(t) /\ Freed(t) /\ t.game = s.game /\ t.state = "cs_free"
  BY <1>1, UnusedOK DEF SlotOK, Freed, Clients
<1>3. ~Live(s) /\ GameOK(s) => s.game # "begun" /\ (WantAll => s.game = "out") /\ s.game # "error"
  BY DEF GameOK, Live
<1>4. ~Live(s) /\ GameOK(s) => GameOK(t)
  BY <1>2, <1>3 DEF GameOK, Live
<1>5. QED
  BY <1>2, <1>3, <1>4

LEMMA EmptiedOK ==
  ASSUME NEW s, SlotOK(s)
  PROVE  /\ SlotOK(Emptied(s)) /\ Freed(Emptied(s))
         /\ GameOK(s) => GameOK(Emptied(s))
<1>1. CASE Live(s)
  <2>1. s.state # "cs_free"
    BY <1>1 DEF Live
  <2>2. SlotOK(DropClient(s)) /\ ~Live(DropClient(s)) /\ (GameOK(s) => GameOK(DropClient(s)))
    BY <1>1, <2>1, DropOK DEF Live
  <2>3. QED
    BY <1>1, <2>2, CleanOK DEF Emptied
<1>2. CASE ~Live(s)
  BY <1>2, CleanOK DEF Emptied
<1>3. QED
  BY <1>1, <1>2

LEMMA EmptiedEnds ==
  ASSUME NEW s, SlotOK(s)
  PROVE  Ends(s, Emptied(s))
BY EmptiedOK DEF Ends

LEMMA MessageOK ==
  ASSUME NEW s, SlotOK(s), Live(s), NEW m
  PROVE  LET t == ExecuteClientMessage(s, m)
         IN  SlotOK(t) /\ (GameOK(s) => GameOK(t)) /\ Same(s, t)
<1> DEFINE t == ExecuteClientMessage(s, m)
           spawning == [s EXCEPT !.state = "cs_spawning"]
           spawned == [s EXCEPT !.state = "cs_spawned", !.game = ClientBegin(@)]
<1>1. \/ t = s
      \/ s.state = "cs_connected" /\ t = spawning
      \/ s.state = "cs_spawning" /\ t = spawned
      \/ t = DropClient(s)
  BY DEF ExecuteClientMessage
<1>2. s.state = "cs_connected" => SlotOK(spawning) /\ (GameOK(s) => GameOK(spawning)) /\ Same(s, spawning)
  BY DEF SlotOK, GameOK, Same, Live, Clients, States
<1>3. s.state = "cs_spawning" => SlotOK(spawned) /\ (GameOK(s) => GameOK(spawned)) /\ Same(s, spawned)
  BY DEF SlotOK, GameOK, Same, Live, Clients, States, ClientBegin
<1>4. s.state # "cs_free"
  BY DEF Live
<1>5. QED
  BY <1>1, <1>2, <1>3, <1>4, DropOK DEF Same

LEMMA AgedOK ==
  ASSUME NEW s, SlotOK(s), NEW dt \in 0 .. 1
  PROVE  LET t == Aged(s, dt)
         IN  /\ SlotOK(t) /\ (GameOK(s) => GameOK(t)) /\ Same(s, t)
             /\ t.state = s.state /\ t.game = s.game
<1> DEFINE t == [s EXCEPT !.silence = Older(@, dt, Timeout + 1), !.quiet = Older(@, dt, Grace + 1)]
<1>1. Older(s.silence, dt, Timeout + 1) \in 0 .. Timeout + 1
  BY Ages DEF SlotOK, Clients, Older
<1>2. Older(s.quiet, dt, Grace + 1) \in 0 .. Grace + 1
  BY Ages DEF SlotOK, Clients, Older
<1>3. SlotOK(t) /\ Same(s, t) /\ t.state = s.state /\ t.game = s.game
  BY <1>1, <1>2 DEF SlotOK, Same, Live, Clients
<1>4. GameOK(s) => GameOK(t)
  BY <1>3 DEF GameOK, Live
<1>5. QED
  BY <1>3, <1>4 DEF Aged, Same

LEMMA CheckTimeoutOK ==
  ASSUME NEW s, SlotOK(s), NEW flooding \in BOOLEAN, NEW idling \in BOOLEAN,
         flooding => Flood /\ s.state = "cs_spawned"
  PROVE  Ends(s, CheckTimeout(s, flooding, idling))
<1> DEFINE u == IF flooding THEN DropClient(s) ELSE s
           t == CheckTimeout(s, flooding, idling)
           safe == ~(WantAll /\ Flood) /\ GameOK(s)
<1>1. SlotOK(u) /\ Same(s, u) /\ (safe => GameOK(u))
  <2>1. CASE flooding
    BY <2>1, DropOK DEF Live
  <2>2. CASE ~flooding
    BY <2>2 DEF Same
  <2>3. QED
    BY <2>1, <2>2
<1>2. Live(s) => u.state # "cs_free"
  BY <1>1 DEF Same, Live
<1>3. \/ t = CleanClient(s) /\ s.state = "cs_zombie"
      \/ t = DropClient(u) /\ u.state # "cs_free" /\ (flooding => ~WantAll \/ ~safe) /\ (~flooding => Live(u))
      \/ t = u
  <2>1. flooding => ~WantAll \/ ~safe
    OBVIOUS
  <2>2. ~flooding => u = s
    OBVIOUS
  <2>3. u.state = "cs_spawned" => u.state # "cs_free" /\ Live(u)
    BY DEF Live
  <2>4. QED
    BY <1>2, <2>1, <2>2, <2>3 DEF CheckTimeout
<1>4. CASE t = CleanClient(s) /\ s.state = "cs_zombie"
  BY <1>4, CleanOK DEF Live, Ends
<1>5. CASE t = DropClient(u) /\ u.state # "cs_free" /\ (flooding => ~WantAll \/ ~safe) /\ (~flooding => Live(u))
  <2>1. SlotOK(t) /\ Same(u, t) /\ (safe => GameOK(t))
    BY <1>1, <1>5, DropOK
  <2>2. QED
    BY <1>1, <2>1 DEF Same, Ends
<1>6. CASE t = u
  BY <1>1, <1>6 DEF Ends
<1>7. QED
  BY <1>3, <1>4, <1>5, <1>6 DEF Ends

----------------------------------------------------------------------------
(* Steps that only end what is in the slots                                *)

LEMMA SlotsOK ==
  ASSUME TypeOK
  PROVE  \A i \in Slots : SlotOK(slot[i])
BY DEF TypeOK, SlotOK

LEMMA SlotsAreNat == Slots \subseteq Nat
BY Limits DEF Slots

Ending ==
  \/ \E ip \in Ips, prt \in {NoPort} \cup Ports : Reset(ip, prt)
  \/ \E dt \in 0 .. 1 : Tick(dt)
  \/ \E i \in Slots : DropMe(i) \/ Kick(i) \/ SendFailed(i)
  \/ \E t \in 0 .. Timeout + 1 : SpawnServer(t)

AllEnd ==
  /\ DOMAIN slot' = Slots /\ slot' = [i \in Slots |-> slot'[i]]
  /\ \A i \in Slots : Ends(slot[i], slot'[i])

(* One slot that ends, and the others as they were. *)
LEMMA OneEnds ==
  ASSUME TypeOK, NEW k \in Slots, NEW t, slot' = [slot EXCEPT ![k] = t], Ends(slot[k], t)
  PROVE  AllEnd
<1>1. \A i \in Slots : Ends(slot[i], slot[i])
  BY SlotsOK, SameItself
<1>2. \A i \in Slots : slot'[i] = IF i = k THEN t ELSE slot[i]
  BY DEF TypeOK
<1>3. QED
  BY <1>1, <1>2 DEF AllEnd, TypeOK

LEMMA TickEnds ==
  ASSUME TypeOK, NEW dt \in 0 .. 1, Tick(dt)
  PROVE  AllEnd /\ UNCHANGED <<challenges, issued, net, port, gone, levels>>
<1>1. PICK flooding \in SUBSET Flooding(dt), idling \in SUBSET {i \in Slots : slot[i].state = "cs_spawned"} :
        Frame(dt, flooding, idling)
  BY DEF Tick
<1> DEFINE aged == [i \in Slots |-> Aged(slot[i], dt)]
<1>2. slot' = [i \in Slots |->
                 IF i \in Reached(aged)
                 THEN CheckTimeout(aged[i], i \in flooding, i \in idling)
                 ELSE aged[i]]
  BY <1>1 DEF Frame
<1>3. ASSUME NEW i \in Slots PROVE Ends(slot[i], slot'[i])
  <2> DEFINE s == slot[i]
             a == Aged(s, dt)
  <2>1. SlotOK(s)
    BY SlotsOK
  <2>2. SlotOK(a) /\ (GameOK(s) => GameOK(a)) /\ Same(s, a) /\ a.state = s.state
    BY <2>1, AgedOK
  <2>3. i \in flooding => Flood /\ a.state = "cs_spawned"
    BY <2>2 DEF Flooding
  <2>4. Ends(a, CheckTimeout(a, i \in flooding, i \in idling))
    <3> DEFINE f == i \in flooding
               g == i \in idling
    <3>1. f \in BOOLEAN /\ g \in BOOLEAN
      OBVIOUS
    <3>2. f => Flood /\ a.state = "cs_spawned"
      BY <2>3
    <3> HIDE DEF f, g, a
    <3>3. Ends(a, CheckTimeout(a, f, g))
      BY <2>2, <3>1, <3>2, CheckTimeoutOK
    <3>4. QED
      BY <3>3 DEF f, g
  <2>5. Ends(a, a)
    BY <2>2, SameItself
  <2>6. slot'[i] = a \/ slot'[i] = CheckTimeout(a, i \in flooding, i \in idling)
    BY <1>2
  <2>7. Ends(a, slot'[i])
    BY <2>4, <2>5, <2>6
  <2>8. QED
    BY <2>2, <2>7 DEF Ends, Same
<1>4. QED
  BY <1>1, <1>2, <1>3 DEF AllEnd, Frame

LEMMA SpawnEnds ==
  ASSUME TypeOK, NEW t \in 0 .. Timeout + 1, SpawnServer(t)
  PROVE  AllEnd
<1> DEFINE new(s) == [s EXCEPT !.state = IF @ = "cs_spawned" THEN "cs_connected" ELSE @,
                               !.game = IF @ = "begun" THEN "in" ELSE @,
                               !.silence = Restarted(@, t)]
<1>1. ASSUME NEW i \in Slots PROVE Ends(slot[i], new(slot[i]))
  <2>1. SlotOK(slot[i])
    BY SlotsOK
  <2>2. Restarted(slot[i].silence, t) \in 0 .. Timeout + 1
    BY <2>1, Ages DEF SlotOK, Clients, Restarted
  <2>3. SlotOK(new(slot[i])) /\ Same(slot[i], new(slot[i]))
    BY <2>1, <2>2 DEF SlotOK, Same, Live, Clients, States
  <2>4. /\ new(slot[i]).game = (IF slot[i].game = "begun" THEN "in" ELSE slot[i].game)
        /\ new(slot[i]).state = (IF slot[i].state = "cs_spawned" THEN "cs_connected" ELSE slot[i].state)
    BY <2>1 DEF SlotOK, Clients
  <2>5. GameOK(slot[i]) => GameOK(new(slot[i]))
    BY <2>4 DEF GameOK, Live
  <2>6. QED
    BY <2>3, <2>5 DEF Ends
<1>2. slot' = [i \in Slots |-> new(slot[i])]
  BY DEF SpawnServer
<1>3. QED
  BY <1>1, <1>2 DEF AllEnd

LEMMA EndingEnds ==
  ASSUME TypeOK, Ending
  PROVE  /\ AllEnd
         /\ levels' \in 0 .. MaxLevels
         /\ UNCHANGED <<challenges, issued, net, port, gone>>
<1>1. ASSUME NEW ip \in Ips, NEW prt \in {NoPort} \cup Ports, Reset(ip, prt) PROVE AllEnd
  <2>1. PICK hit \in SUBSET Slots : hit # {} /\ slot' = [slot EXCEPT ![Min(hit)] = Emptied(@)]
    BY <1>1 DEF Reset
  <2>2. Min(hit) \in Slots
    BY <2>1, SlotsAreNat, MinIsLeast
  <2>3. QED
    BY <2>1, <2>2, SlotsOK, EmptiedEnds, OneEnds
<1>2. ASSUME NEW i \in Slots, DropMe(i) PROVE AllEnd
  <2>1. Ends(slot[i], [slot[i] EXCEPT !.dropme = TRUE])
    BY SlotsOK DEF SlotOK, Ends, Same, Live, GameOK, Clients
  <2>2. QED
    BY <1>2, <2>1, OneEnds DEF DropMe
<1>3. ASSUME NEW i \in Slots, Kick(i) PROVE AllEnd
  <2>1. Live(slot[i]) /\ slot[i].state # "cs_free"
    BY <1>3 DEF Kick, Live
  <2>2. Ends(slot[i], DropClient(slot[i]))
    BY <2>1, SlotsOK, DropOK DEF Ends
  <2>3. QED
    BY <1>3, <2>2, OneEnds DEF Kick
<1>4. ASSUME NEW i \in Slots, SendFailed(i) PROVE AllEnd
  BY <1>4, SlotsOK, EmptiedEnds, OneEnds DEF SendFailed
<1>5. AllEnd
  BY <1>1, <1>2, <1>3, <1>4, TickEnds, SpawnEnds DEF Ending
<1>6. levels' \in 0 .. MaxLevels
  <2>1. levels' = levels \/ \E t \in 0 .. Timeout + 1 : SpawnServer(t)
    BY DEF Ending, Reset, Tick, Frame, DropMe, Kick, SendFailed
  <2>2. levels' = levels \/ (levels < MaxLevels /\ levels' = levels + 1)
    <3>1. CASE levels' = levels
      BY <3>1
    <3>2. ASSUME NEW t \in 0 .. Timeout + 1, SpawnServer(t)
          PROVE  levels < MaxLevels /\ levels' = levels + 1
      BY <3>2, Zenon DEF SpawnServer
    <3>3. QED
      BY <2>1, <3>1, <3>2
  <2>3. levels \in 0 .. MaxLevels /\ MaxLevels \in Nat
    BY Limits DEF TypeOK
  <2>4. QED
    BY <2>2, <2>3
<1>7. UNCHANGED <<challenges, issued, net, port, gone>>
  BY DEF Ending, Reset, Tick, Frame, DropMe, Kick, SendFailed, SpawnServer
<1>8. QED
  BY <1>5, <1>6, <1>7

----------------------------------------------------------------------------
(* Requests and packets                                                    *)

(* The slots once a request of c has slot i. *)
Admitted(c, i) ==
  [[slot EXCEPT ![i] = Emptied(@)] EXCEPT
     ![i] = NewClient(c, [slot EXCEPT ![i] = Emptied(@)], @)]

LEMMA ConnectCases ==
  ASSUME TypeOK, NEW c \in net, DirectConnect(c), slot' # slot
  PROVE  \E i \in Slots :
           /\ i \in Suitable(c) /\ \A j \in Suitable(c) : i <= j
           /\ \/ slot' = [slot EXCEPT ![i] = Emptied(@)]
              \/ /\ ~TooMany(c, [slot EXCEPT ![i] = Emptied(@)])
                 /\ slot' = Admitted(c, i)
<1>1. PICK allowed \in BOOLEAN : slot' = Connect(c, allowed)
  BY DEF DirectConnect
<1>2. Suitable(c) # {}
  BY <1>1 DEF Connect
<1>3. Suitable(c) \subseteq Slots
  BY DEF Suitable, ByAddress, ByName, Open
<1> DEFINE i == Min(Suitable(c))
<1>4. i \in Suitable(c) /\ \A j \in Suitable(c) : i <= j
  BY <1>2, <1>3, SlotsAreNat, MinIsLeast
<1>5. \/ slot' = [slot EXCEPT ![i] = Emptied(@)]
      \/ /\ ~TooMany(c, [slot EXCEPT ![i] = Emptied(@)])
         /\ slot' = Admitted(c, i)
  BY <1>1, <1>2 DEF Connect, Admitted
<1>6. QED
  BY <1>3, <1>4, <1>5

LEMMA AdmittedOK ==
  ASSUME TypeOK, NEW c \in net, NEW i \in Slots
  PROVE  LET t == Admitted(c, i)[i]
         IN  /\ SlotOK(t) /\ (GameOK(slot[i]) => GameOK(t))
             /\ t.state = "cs_connected" /\ t.owner = c.from /\ ~t.foreign
             /\ t.ip = IpOf[c.from] /\ t.port = c.port /\ t.qport = QportOf[c.from]
             /\ t.challenge = c.challenge
<1> DEFINE s == Emptied(slot[i])
           slots == [slot EXCEPT ![i] = s]
           t == NewClient(c, slots, s)
<1>1. Admitted(c, i)[i] = t
  BY DEF Admitted, TypeOK
<1>2. SlotOK(s) /\ Freed(s) /\ (GameOK(slot[i]) => GameOK(s))
  BY SlotsOK, EmptiedOK
<1> HIDE DEF slots
<1>3. /\ c.from \in Players /\ c.from # Nobody /\ c.port \in Ports
      /\ c.challenge \in 0 .. MaxIssued
  BY Identities DEF TypeOK
<1>4. UniqueName(c, slots) \in {NoName} \cup {NameOf[p] : p \in Players}
  BY <1>3 DEF UniqueName
<1>5. IpOf[c.from] \in Ips /\ Timeout - Grace \in 0 .. Timeout + 1
  BY <1>3, Ages DEF Ips
<1>6. ClientConnect(s.game) \in {"in", "error"} /\ (GameOK(slot[i]) => ClientConnect(s.game) = "in")
  BY <1>2 DEF ClientConnect, GameOK, Freed, Live
<1>7. SlotOK(t) /\ t.game = ClientConnect(s.game) /\ t.state = "cs_connected"
      /\ t.owner = c.from /\ ~t.foreign
  BY <1>3, <1>4, <1>5, <1>6, UnusedOK DEF NewClient, SlotOK, Clients, States, Freed
<1>8. /\ t.ip = IpOf[c.from] /\ t.port = c.port /\ t.qport = QportOf[c.from]
      /\ t.challenge = c.challenge
  BY UnusedOK DEF NewClient, SlotOK, Clients
<1>9. GameOK(slot[i]) => GameOK(t)
  BY <1>6, <1>7 DEF GameOK, Live
<1>10. QED
  BY <1>1, <1>7, <1>8, <1>9

(* A packet of player p heard at slot s. *)
Heard(s, t, p) ==
  /\ SlotOK(t) /\ (GameOK(s) => GameOK(t))
  /\ t.ip = s.ip /\ t.qport = s.qport /\ t.owner = s.owner /\ t.challenge = s.challenge
  /\ t.port = port[p]
  /\ t.foreign => s.foreign \/ s.owner # p
  /\ Live(t) => Live(s)
  /\ t.state # "cs_free"

LEMMA HeardOK ==
  ASSUME TypeOK, NEW s, SlotOK(s), s.state # "cs_free", NEW p \in Players, NEW m
  PROVE  LET fixed == [s EXCEPT !.port = port[p]]
         IN  Heard(s, fixed, p) /\ Heard(s, Take(fixed, p, m), p)
<1> DEFINE fixed == [s EXCEPT !.port = port[p]]
           heard == [fixed EXCEPT !.quiet = 0]
           taken == [heard EXCEPT !.silence = 0, !.foreign = @ \/ fixed.owner # p]
<1>1. /\ port[p] \in Ports /\ 0 \in 0 .. Grace + 1 /\ 0 \in 0 .. Timeout + 1
      /\ (s.foreign \/ s.owner # p) \in BOOLEAN
  BY Ages DEF TypeOK
<1>2. Heard(s, fixed, p)
  BY <1>1 DEF Heard, SlotOK, GameOK, Live, Clients
<1>3. Heard(s, heard, p)
  BY <1>1 DEF Heard, SlotOK, GameOK, Live, Clients
<1>4. CASE ~Live(fixed)
  BY <1>2, <1>3, <1>4 DEF Take
<1>5. CASE Live(fixed)
  <2>1. SlotOK(taken) /\ Live(taken)
    <3>1. SlotOK(heard) /\ heard.foreign = s.foreign /\ fixed.owner = s.owner /\ Live(heard)
      BY <1>3, <1>5 DEF Heard, SlotOK, Clients, Live
    <3> DEFINE b == heard.foreign \/ fixed.owner # p
    <3>2. b \in BOOLEAN
      OBVIOUS
    <3>3. taken = [heard EXCEPT !.silence = 0, !.foreign = b]
      OBVIOUS
    <3> HIDE DEF heard, taken, b
    <3>4. QED
      BY <1>1, <3>1, <3>2, <3>3 DEF SlotOK, Clients, Live
  <2>2. Heard(s, taken, p)
    BY <1>1, <2>1 DEF Heard, SlotOK, GameOK, Live, Clients
  <2>3. Take(fixed, p, m) = ExecuteClientMessage(taken, m)
    BY <1>5 DEF Take
  <2> HIDE DEF taken
  <2>4. LET t == ExecuteClientMessage(taken, m)
        IN  SlotOK(t) /\ (GameOK(taken) => GameOK(t)) /\ Same(taken, t)
    BY <2>1, MessageOK
  <2>5. Heard(s, ExecuteClientMessage(taken, m), p)
    BY <2>1, <2>2, <2>4 DEF Heard, Same, Live
  <2>6. QED
    BY <1>2, <2>3, <2>5
<1>6. QED
  BY <1>4, <1>5

(* A slot that a packet does not reach, or a zombie that it frees. *)
Aside(s, t) ==
  \/ t = s
  \/ s.state = "cs_zombie" /\ t = CleanClient(s)

(* The slot i that a packet of p reaches has its very address, or nobody   *)
(* in the game has, and i is the first of those left.                      *)
Reaches(p, i) ==
  /\ i \in Matching(p) \cup Exact(p)
  /\ \/ At(slot[i], p)
     \/ /\ i \in Matching(p) /\ Exact(p) = {}
        /\ \A j \in Matching(p) : At(slot[j], p) => i <= j

LEMMA ReadCases ==
  ASSUME TypeOK, NEW p \in Players, NEW m, ReadPacket(p, m)
  PROVE  /\ slot' = [j \in Slots |-> slot'[j]]
         /\ \/ \A j \in Slots : Aside(slot[j], slot'[j])
            \/ \E i \in Slots :
                 /\ Reaches(p, i) /\ Heard(slot[i], slot'[i], p)
                 /\ \A j \in Slots \ {i} : Aside(slot[j], slot'[j])
<1> DEFINE good == Matching(p) \ Stale(p)
           first == Min(good)
           i == IF At(slot[first], p) \/ Exact(p) = {} THEN first ELSE Min(Exact(p))
           freed == {j \in Stale(p) : good = {} \/ j < first}
           fixed == [slot[i] EXCEPT !.port = port[p]]
           t == IF m = OutOfOrder THEN fixed ELSE Take(fixed, p, m)
<1>1. slot' = [j \in Slots |->
                 IF j \in freed THEN CleanClient(slot[j])
                 ELSE IF good # {} /\ j = i THEN t ELSE slot[j]]
  BY DEF ReadPacket
<1>2. \A j \in freed : slot[j].state = "cs_zombie" /\ ~At(slot[j], p) /\ Exact(p) = {}
  BY DEF Stale
<1>3. good \subseteq Slots /\ Exact(p) \subseteq Slots
  BY DEF Matching, Exact
<1>4. CASE good = {}
  <2>1. \A j \in Slots : Aside(slot[j], slot'[j])
    BY <1>1, <1>2, <1>4 DEF Aside
  <2>2. QED
    BY <1>1, <2>1
<1>5. CASE good # {}
  <2>1. first \in good /\ \A j \in good : first <= j
    BY <1>3, <1>5, SlotsAreNat, MinIsLeast
  <2>2. Exact(p) # {} => Min(Exact(p)) \in Exact(p)
    BY <1>3, SlotsAreNat, MinIsLeast
  <2>3. i \in good \cup Exact(p) /\ i \in Slots
    BY <1>3, <2>1, <2>2
  <2>4. At(slot[i], p) \/ (i = first /\ Exact(p) = {})
    BY <2>2 DEF Exact
  <2>5. Reaches(p, i)
    <3>1. \A j \in Matching(p) : At(slot[j], p) => j \in good
      BY DEF Stale
    <3>2. QED
      BY <2>1, <2>3, <2>4, <3>1 DEF Reaches
  <2>6. i \notin freed
    <3>1. SUFFICES ASSUME i \in freed PROVE FALSE
      OBVIOUS
    <3>2. i = first /\ i < first
      BY <1>2, <1>5, <2>4, <3>1
    <3>3. first \in Nat
      BY <2>1, <1>3, SlotsAreNat
    <3> HIDE DEF i, first
    <3>4. QED
      BY <3>2, <3>3
  <2>7. slot[i].state # "cs_free"
    BY <2>3 DEF Matching, Exact, Live
  <2>8. SlotOK(slot[i])
    BY <2>3, SlotsOK
  <2>9. Heard(slot[i], t, p)
    BY <2>7, <2>8, HeardOK
  <2>10. slot'[i] = t
    BY <1>1, <1>5, <2>3, <2>6
  <2>11. \A j \in Slots \ {i} : Aside(slot[j], slot'[j])
    BY <1>1, <1>2 DEF Aside
  <2>12. QED
    BY <1>1, <2>3, <2>5, <2>9, <2>10, <2>11
<1>6. QED
  BY <1>4, <1>5

LEMMA OldestIsOne ==
  ASSUME TypeOK
  PROVE  Oldest \in DOMAIN challenges
<1> DEFINE times == {challenges[k].time : k \in DOMAIN challenges}
           first == {k \in DOMAIN challenges :
                       \A j \in DOMAIN challenges : challenges[k].time <= challenges[j].time}
<1>1. DOMAIN challenges = 1 .. MaxChallenges /\ DOMAIN challenges \subseteq Nat /\ 1 \in DOMAIN challenges
  BY Limits DEF TypeOK
<1>2. times \subseteq Nat /\ times # {}
  BY <1>1, Limits DEF TypeOK
<1>3. Min(times) \in times /\ \A t \in times : Min(times) <= t
  BY <1>2, MinIsLeast
<1>4. first # {} /\ first \subseteq Nat
  <2>1. PICK k \in DOMAIN challenges : Min(times) = challenges[k].time
    BY <1>3
  <2>2. \A j \in DOMAIN challenges : challenges[j].time \in times
    OBVIOUS
  <2>3. k \in first
    BY <1>3, <2>1, <2>2
  <2>4. QED
    BY <1>1, <2>3
<1>5. Min(first) \in first
  BY <1>4, MinIsLeast
<1>6. QED
  BY <1>5 DEF Oldest

Given(p) == [ip |-> IpOf[p], challenge |-> issued + 1, time |-> issued + 1]

LEMMA ChallengeCases ==
  ASSUME TypeOK, NEW p \in Players, GetChallenge(p)
  PROVE  /\ \E k \in DOMAIN challenges :
              /\ challenges' = [challenges EXCEPT ![k] = Given(p)]
              /\ \/ challenges[k].ip = IpOf[p]
                 \/ \A j \in DOMAIN challenges : challenges[j].ip # IpOf[p]
         /\ issued < MaxIssued /\ issued' = issued + 1
         /\ net' \subseteq net \cup {[from |-> p, port |-> port[p], challenge |-> issued + 1]}
<1> DEFINE own == {k \in DOMAIN challenges : challenges[k].ip = IpOf[p]}
           k == IF own # {} THEN Min(own) ELSE Oldest
<1>1. own \subseteq Nat
  BY Limits DEF TypeOK
<1>2. own # {} => Min(own) \in own
  BY <1>1, MinIsLeast
<1>3. k \in DOMAIN challenges
  BY <1>2, OldestIsOne
<1>4. challenges[k].ip = IpOf[p] \/ \A j \in DOMAIN challenges : challenges[j].ip # IpOf[p]
  BY <1>2
<1>5. challenges' = [challenges EXCEPT ![k] = Given(p)]
  BY DEF GetChallenge, Given
<1>6. issued < MaxIssued /\ issued' = issued + 1
  BY DEF GetChallenge
<1>7. net' \subseteq net \cup {[from |-> p, port |-> port[p], challenge |-> issued + 1]}
  BY DEF GetChallenge
<1>8. QED
  BY <1>3, <1>4, <1>5, <1>6, <1>7

----------------------------------------------------------------------------
(* Types                                                                   *)

SlotsTyped == slot \in [Slots -> Clients] /\ \A i \in Slots : SlotOK(slot[i])

LEMMA TypedSlots ==
  ASSUME slot' = [i \in Slots |-> slot'[i]], \A i \in Slots : SlotOK(slot'[i])
  PROVE  SlotsTyped'
BY DEF SlotsTyped, SlotOK

LEMMA ConnectSlots ==
  ASSUME TypeOK, NEW c \in net, DirectConnect(c)
  PROVE  SlotsTyped'
<1>1. CASE slot' = slot
  BY <1>1, SlotsOK DEF SlotsTyped, TypeOK
<1>2. CASE slot' # slot
  <2>1. PICK i \in Slots : slot' = [slot EXCEPT ![i] = Emptied(@)] \/ slot' = Admitted(c, i)
    BY <1>2, ConnectCases
  <2>2. \A j \in Slots \ {i} : slot'[j] = slot[j]
    BY <2>1 DEF Admitted, TypeOK
  <2>3. slot'[i] = Emptied(slot[i]) \/ slot'[i] = Admitted(c, i)[i]
    BY <2>1 DEF TypeOK
  <2>4. SlotOK(slot'[i])
    BY <2>3, SlotsOK, EmptiedOK, AdmittedOK
  <2>5. slot' = [j \in Slots |-> slot'[j]]
    BY <2>1 DEF Admitted, TypeOK
  <2>6. QED
    BY <2>2, <2>4, <2>5, SlotsOK, TypedSlots
<1>3. QED
  BY <1>1, <1>2

LEMMA ReadSlots ==
  ASSUME TypeOK, NEW p \in Players, NEW m, ReadPacket(p, m)
  PROVE  SlotsTyped'
<1>1. \A j \in Slots : SlotOK(slot'[j])
  <2>1. \A j \in Slots : Aside(slot[j], slot'[j]) => SlotOK(slot'[j])
    BY SlotsOK, CleanOK DEF Aside
  <2>2. QED
    BY <2>1, ReadCases DEF Heard
<1>2. QED
  BY <1>1, ReadCases, TypedSlots

LEMMA TypeInit == Init => TypeOK
<1> SUFFICES ASSUME Init PROVE TypeOK
  OBVIOUS
<1>1. slot \in [Slots -> Clients] /\ \A i \in Slots : slot[i].state = "cs_free" <=> slot[i].owner = Nobody
  BY UnusedOK DEF Init, SlotOK
<1>2. QED
  BY <1>1, Limits DEF Init, TypeOK

LEMMA TypeStep ==
  ASSUME TypeOK, [Next]_vars
  PROVE  TypeOK'
<1> DEFINE Rest == /\ challenges \in [1 .. MaxChallenges ->
                         [ip : {NoIp} \cup Ips, challenge : 0 .. MaxIssued, time : 0 .. MaxIssued]]
                   /\ issued \in 0 .. MaxIssued
                   /\ net \subseteq [from : Players, port : Ports, challenge : 1 .. MaxIssued]
                   /\ levels \in 0 .. MaxLevels
                   /\ gone \subseteq Players
                   /\ port \in [Players -> Ports]
<1>1. SlotsTyped' /\ Rest' => TypeOK'
  BY DEF SlotsTyped, SlotOK, TypeOK
<1>2. SlotsTyped /\ Rest
  BY SlotsOK DEF SlotsTyped, TypeOK
<1>3. ASSUME NEW p \in Players, GetChallenge(p) PROVE TypeOK'
  <2>1. PICK k \in DOMAIN challenges : challenges' = [challenges EXCEPT ![k] = Given(p)]
    BY <1>3, ChallengeCases
  <2>2. issued < MaxIssued /\ issued' = issued + 1
    BY <1>3, ChallengeCases
  <2>3. net' \subseteq net \cup {[from |-> p, port |-> port[p], challenge |-> issued + 1]}
    BY <1>3, ChallengeCases
  <2>4. issued + 1 \in 1 .. MaxIssued /\ issued + 1 \in 0 .. MaxIssued
    BY <1>2, <2>2, Limits
  <2>5. Given(p) \in [ip : {NoIp} \cup Ips, challenge : 0 .. MaxIssued, time : 0 .. MaxIssued]
    BY <2>4 DEF Given, Ips
  <2>6. UNCHANGED <<slot, port, gone, levels>>
    BY <1>3 DEF GetChallenge
  <2>7. Rest'
    BY <1>2, <2>1, <2>2, <2>3, <2>4, <2>5, <2>6
  <2>8. QED
    BY <1>1, <1>2, <2>6, <2>7 DEF SlotsTyped
<1>4. ASSUME NEW c \in net, DirectConnect(c) PROVE TypeOK'
  <2>1. SlotsTyped'
    BY <1>4, ConnectSlots
  <2>2. PICK k \in DOMAIN challenges : challenges' = Spend(k)
    BY <1>4 DEF DirectConnect
  <2>3. challenges' \in [1 .. MaxChallenges ->
                         [ip : {NoIp} \cup Ips, challenge : 0 .. MaxIssued, time : 0 .. MaxIssued]]
    <3>1. 0 \in 0 .. MaxIssued
      BY Limits
    <3>2. challenges' = [challenges EXCEPT ![k] = [challenges[k] EXCEPT !.challenge = 0]]
      BY <2>2 DEF Spend
    <3>3. [challenges[k] EXCEPT !.challenge = 0]
             \in [ip : {NoIp} \cup Ips, challenge : 0 .. MaxIssued, time : 0 .. MaxIssued]
      BY <1>2, <3>1
    <3>4. QED
      BY <1>2, <3>2, <3>3
  <2>4. QED
    BY <1>1, <1>2, <1>4, <2>1, <2>3 DEF DirectConnect
<1>5. ASSUME NEW p \in Players, NEW m, ReadPacket(p, m) PROVE TypeOK'
  BY <1>1, <1>2, <1>5, ReadSlots DEF ReadPacket
<1>6. CASE Ending
  BY <1>1, <1>2, <1>6, EndingEnds, TypedSlots DEF AllEnd, Ends
<1>7. ASSUME NEW p \in Players, NEW prt \in Ports, Translate(p, prt) PROVE TypeOK'
  BY <1>1, <1>2, <1>7 DEF Translate, SlotsTyped
<1>8. ASSUME NEW p \in Players, Leave(p) PROVE TypeOK'
  BY <1>1, <1>2, <1>8 DEF Leave, SlotsTyped
<1>9. CASE UNCHANGED vars
  BY <1>1, <1>2, <1>9 DEF vars, SlotsTyped
<1>10. QED
  BY <1>3, <1>4, <1>5, <1>6, <1>7, <1>8, <1>9 DEF Next, Ending

(* Slots, challenges and requests have values of their types in every      *)
(* behaviour, and a free slot is nobody's (SV_CleanClient).                *)
THEOREM TypeCorrect == Spec => []TypeOK
BY TypeInit, TypeStep, PTL DEF Spec

----------------------------------------------------------------------------
(* What the game is told                                                   *)

GameInv == \A i \in Slots : GameOK(slot[i])

LEMMA GameStep ==
  ASSUME TypeOK, GameInv, ~(WantAll /\ Flood), [Next]_vars
  PROVE  GameInv'
<1>1. ASSUME slot' = slot PROVE GameInv'
  BY <1>1 DEF GameInv
<1>2. ASSUME NEW c \in net, DirectConnect(c), slot' # slot PROVE GameInv'
  <2>1. PICK i \in Slots : slot' = [slot EXCEPT ![i] = Emptied(@)] \/ slot' = Admitted(c, i)
    BY <1>2, ConnectCases
  <2>2. \A j \in Slots \ {i} : slot'[j] = slot[j]
    BY <2>1 DEF Admitted, TypeOK
  <2>3. slot'[i] = Emptied(slot[i]) \/ slot'[i] = Admitted(c, i)[i]
    BY <2>1 DEF TypeOK
  <2>4. GameOK(slot'[i])
    BY <2>3, SlotsOK, EmptiedOK, AdmittedOK DEF GameInv
  <2>5. QED
    BY <2>2, <2>4 DEF GameInv
<1>3. ASSUME NEW p \in Players, NEW m, ReadPacket(p, m) PROVE GameInv'
  <2>1. ASSUME NEW j \in Slots, Aside(slot[j], slot'[j]) PROVE GameOK(slot'[j])
    BY <2>1, SlotsOK, CleanOK DEF Aside, GameInv, Live
  <2>2. ASSUME NEW j \in Slots, Heard(slot[j], slot'[j], p) PROVE GameOK(slot'[j])
    BY <2>2 DEF Heard, GameInv
  <2>3. QED
    BY <1>3, <2>1, <2>2, ReadCases DEF GameInv
<1>4. CASE Ending
  BY <1>4, EndingEnds DEF AllEnd, Ends, GameInv
<1>5. QED
  BY <1>1, <1>2, <1>3, <1>4
     DEF Next, Ending, vars, GetChallenge, Translate, Leave

(* The game hears once of every client that leaves and of which it heard,  *)
(* however slots are dropped, cleaned and given to others                  *)
(* (SV_DropClient, SVC_DirectConnect).  A game that wants all disconnects  *)
(* is told twice of a client that SV_CheckTimeouts throws out for its      *)
(* packets and then for another reason: hence the hypothesis.              *)
THEOREM GameIsToldOnce ==
  ASSUME ~(WantAll /\ Flood)
  PROVE  Spec => []GameToldOnce
<1>1. Init => GameInv
  BY UnusedOK DEF Init, GameInv
<1>2. TypeOK /\ GameInv /\ [Next]_vars => GameInv'
  BY GameStep
<1>3. TypeOK /\ GameInv => GameToldOnce
  BY DEF TypeOK, GameInv, GameOK, GameToldOnce, BodyHasClient
<1>4. QED
  BY TypeCorrect, <1>1, <1>2, <1>3, PTL DEF Spec

----------------------------------------------------------------------------
(* Whose packets a slot takes                                              *)

Neighbours(p, q) == p # q /\ IpOf[p] = IpOf[q]

(* The qport is drawn by the client so that those behind one router differ. *)
DistinctQports == \A p, q \in Players : Neighbours(p, q) => QportOf[p] # QportOf[q]

OwnersKnown ==
  \A i \in Slots : slot[i].state # "cs_free" =>
    /\ slot[i].owner \in Players
    /\ slot[i].ip = IpOf[slot[i].owner] /\ slot[i].qport = QportOf[slot[i].owner]

(* A player uses one port at a time, and nobody else's; what the server    *)
(* has on record for a player, and what the player sent, no other player   *)
(* of the same router uses.                                                *)
PortsDiffer == \A p, q \in Players \ gone : Neighbours(p, q) => port[p] # port[q]

SlotPortsOwn ==
  \A i \in Slots, p \in Players \ gone :
    slot[i].state # "cs_free" /\ Neighbours(slot[i].owner, p) => slot[i].port # port[p]

NetPortsOwn ==
  \A c \in net, p \in Players \ gone : Neighbours(c.from, p) => c.port # port[p]

(* Of the slots of one address, only the first may be live.                *)
SameAddress(s, t) ==
  /\ s.state # "cs_free" /\ t.state # "cs_free"
  /\ s.ip = t.ip /\ s.port = t.port

FirstIsLive ==
  \A i, j \in Slots :
    i < j /\ SameAddress(slot[i], slot[j]) => slot[j].state = "cs_zombie"

NoneForeign == \A i \in Slots : ~slot[i].foreign

RouteInv ==
  /\ OwnersKnown /\ PortsDiffer /\ SlotPortsOwn /\ NetPortsOwn
  /\ FirstIsLive /\ NoneForeign

(* Slots that end keep to the invariant.                                   *)
LEMMA EndingRoutes ==
  ASSUME TypeOK, RouteInv, AllEnd, UNCHANGED <<net, port, gone>>
  PROVE  RouteInv'
<1>1. \A i \in Slots : Same(slot[i], slot'[i]) \/ Freed(slot'[i])
  BY DEF AllEnd, Ends
<1>2. \A i \in Slots : SlotOK(slot'[i])
  BY DEF AllEnd, Ends
<1>3. OwnersKnown' /\ SlotPortsOwn' /\ NoneForeign'
  BY <1>1 DEF RouteInv, OwnersKnown, SlotPortsOwn, NoneForeign, Same, Freed
<1>4. FirstIsLive'
  <2>1. SUFFICES ASSUME NEW i \in Slots, NEW j \in Slots, i < j, SameAddress(slot'[i], slot'[j])
                 PROVE  slot'[j].state = "cs_zombie"
    BY DEF FirstIsLive
  <2>2. Same(slot[i], slot'[i]) /\ Same(slot[j], slot'[j])
    BY <1>1, <2>1 DEF SameAddress, Freed
  <2>3. slot[j].state = "cs_zombie"
    BY <2>1, <2>2 DEF RouteInv, FirstIsLive, SameAddress, Same
  <2>4. QED
    BY <2>1, <2>2, <2>3 DEF Same, Live, SameAddress
<1>5. QED
  BY <1>3, <1>4 DEF RouteInv, PortsDiffer, NetPortsOwn

(* A request's slot: its sender's, and no live one of the same address is left. *)
LEMMA ConnectRoutes ==
  ASSUME TypeOK, RouteInv, NEW c \in net, DirectConnect(c), slot' # slot
  PROVE  RouteInv'
<1>1. PICK i \in Slots :
        /\ i \in Suitable(c) /\ \A j \in Suitable(c) : i <= j
        /\ \/ slot' = [slot EXCEPT ![i] = Emptied(@)]
           \/ slot' = Admitted(c, i)
  BY ConnectCases
<1>2. UNCHANGED <<net, port, gone>>
  BY DEF DirectConnect
<1>3. CASE slot' = [slot EXCEPT ![i] = Emptied(@)]
  BY <1>2, <1>3, SlotsOK, EmptiedEnds, OneEnds, EndingRoutes
<1>4. CASE slot' = Admitted(c, i)
  <2> DEFINE t == slot'[i]
  <2>1. /\ t.state = "cs_connected" /\ t.owner = c.from /\ ~t.foreign
        /\ t.ip = IpOf[c.from] /\ t.port = c.port /\ t.qport = QportOf[c.from]
    BY <1>4, AdmittedOK
  <2>2. \A j \in Slots \ {i} : slot'[j] = slot[j]
    BY <1>4 DEF Admitted, TypeOK
  <2>3. c.from \in Players
    BY DEF TypeOK
  <2>4. OwnersKnown' /\ NoneForeign'
    BY <2>1, <2>2, <2>3 DEF RouteInv, OwnersKnown, NoneForeign
  <2>5. SlotPortsOwn'
    <3>1. ASSUME NEW p \in Players \ gone, Neighbours(c.from, p) PROVE t.port # port[p]
      BY <2>1, <3>1 DEF RouteInv, NetPortsOwn
    <3>2. QED
      BY <1>2, <2>1, <2>2, <3>1 DEF RouteInv, SlotPortsOwn
  <2>6. ASSUME NEW j \in Slots \ {i}, SameAddress(slot[j], t)
        PROVE  slot[j].state = "cs_zombie" /\ i < j
    <3>1. j \in ByAddress(c)
      BY <2>1, <2>6 DEF ByAddress, SameAddress
    <3>2. i \in ByAddress(c) /\ i <= j
      BY <1>1, <3>1 DEF Suitable
    <3>3. i < j
      BY <3>2, <2>6, SlotsAreNat
    <3>4. SameAddress(slot[i], slot[j])
      BY <3>1, <3>2 DEF ByAddress, SameAddress
    <3>5. QED
      BY <3>3, <3>4 DEF RouteInv, FirstIsLive
  <2>7. FirstIsLive'
    <3>1. SUFFICES ASSUME NEW k \in Slots, NEW j \in Slots, k < j, SameAddress(slot'[k], slot'[j])
                   PROVE  slot'[j].state = "cs_zombie"
      BY DEF FirstIsLive
    <3>2. CASE k = i
      BY <2>2, <2>6, <3>1, <3>2, SlotsAreNat DEF SameAddress
    <3>3. CASE j = i
      BY <2>2, <2>6, <3>1, <3>3, SlotsAreNat DEF SameAddress
    <3>4. CASE k # i /\ j # i
      BY <2>2, <3>1, <3>4 DEF RouteInv, FirstIsLive
    <3>5. QED
      BY <3>2, <3>3, <3>4
  <2>8. QED
    BY <1>2, <2>4, <2>5, <2>7 DEF RouteInv, PortsDiffer, NetPortsOwn
<1>5. QED
  BY <1>1, <1>3, <1>4

(* A packet reaches a slot of its sender, and the port that is put on      *)
(* record is no live client's.                                             *)
LEMMA ReadRoutes ==
  ASSUME TypeOK, RouteInv, DistinctQports, NEW p \in Players, NEW m, ReadPacket(p, m)
  PROVE  RouteInv'
<1>1. UNCHANGED <<net, port, gone>> /\ p \in Players \ gone
  BY DEF ReadPacket
<1>2. \A j \in Slots : Aside(slot[j], slot'[j]) => slot'[j] = slot[j] \/ Freed(slot'[j])
  BY SlotsOK, CleanOK DEF Aside
<1>3. \A j \in Matching(p) \cup Exact(p) : slot[j].owner = p
  <2>1. ASSUME NEW j \in Matching(p) PROVE slot[j].owner = p
    BY DEF Matching, RouteInv, OwnersKnown, DistinctQports, Neighbours
  <2>2. ASSUME NEW j \in Exact(p) PROVE slot[j].owner = p
    BY <1>1 DEF Exact, Live, At, RouteInv, OwnersKnown, SlotPortsOwn, Neighbours
  <2>3. QED
    BY <2>1, <2>2
<1>4. CASE \A j \in Slots : Aside(slot[j], slot'[j])
  <2>1. \A j \in Slots : slot'[j] = slot[j] \/ Freed(slot'[j])
    BY <1>2, <1>4
  <2>2. OwnersKnown' /\ SlotPortsOwn' /\ NoneForeign'
    BY <1>1, <2>1 DEF RouteInv, OwnersKnown, SlotPortsOwn, NoneForeign, Freed
  <2>3. FirstIsLive'
    BY <2>1 DEF RouteInv, FirstIsLive, SameAddress, Freed
  <2>4. QED
    BY <1>1, <2>2, <2>3 DEF RouteInv, PortsDiffer, NetPortsOwn
<1>5. ASSUME NEW i \in Slots, Reaches(p, i), Heard(slot[i], slot'[i], p),
             \A j \in Slots \ {i} : Aside(slot[j], slot'[j])
      PROVE  RouteInv'
  <2>1. \A j \in Slots \ {i} : slot'[j] = slot[j] \/ Freed(slot'[j])
    BY <1>2, <1>5
  <2>2. slot[i].owner = p /\ slot[i].state # "cs_free"
    BY <1>3, <1>5 DEF Reaches, Matching, Exact, Live
  <2>3. /\ slot'[i].owner = p /\ slot'[i].ip = slot[i].ip /\ slot'[i].qport = slot[i].qport
        /\ slot'[i].port = port[p] /\ ~slot'[i].foreign /\ slot'[i].state # "cs_free"
        /\ (Live(slot'[i]) => Live(slot[i]))
    BY <1>5, <2>2 DEF Heard, RouteInv, NoneForeign
  <2>4. OwnersKnown' /\ NoneForeign'
    BY <2>1, <2>2, <2>3 DEF RouteInv, OwnersKnown, NoneForeign, Freed
  <2>5. SlotPortsOwn'
    BY <1>1, <2>1, <2>3 DEF RouteInv, SlotPortsOwn, PortsDiffer, Freed, Neighbours
  <2>6. slot[i].ip = IpOf[p]
    BY <2>2 DEF RouteInv, OwnersKnown
  <2>7. ASSUME NEW j \in Slots \ {i}, SameAddress(slot'[i], slot'[j])
        PROVE  /\ j < i => slot'[i].state = "cs_zombie"
               /\ i < j => slot'[j].state = "cs_zombie"
    <3>1. slot'[j] = slot[j] /\ slot[j].state # "cs_free"
      BY <2>1, <2>7 DEF SameAddress, Freed
    <3>2. At(slot[j], p)
      BY <2>3, <2>6, <2>7, <3>1 DEF SameAddress, At
    <3>3. CASE At(slot[i], p)
      <4>1. SameAddress(slot[i], slot[j]) /\ SameAddress(slot[j], slot[i])
        BY <2>2, <3>1, <3>2, <3>3 DEF SameAddress, At
      <4>2. (j < i => slot[i].state = "cs_zombie") /\ (i < j => slot[j].state = "cs_zombie")
        BY <4>1 DEF RouteInv, FirstIsLive
      <4>3. slot[i].state = "cs_zombie" => slot'[i].state = "cs_zombie"
        BY <2>3 DEF Live
      <4>4. QED
        BY <3>1, <4>2, <4>3
    <3>4. CASE ~At(slot[i], p)
      <4>1. Exact(p) = {} /\ \A k \in Matching(p) : At(slot[k], p) => i <= k
        BY <1>5, <3>4 DEF Reaches
      <4>2. slot[j].state = "cs_zombie"
        BY <3>1, <3>2, <4>1 DEF Exact, Live
      <4>3. slot[j].owner \in Players /\ slot[j].ip = IpOf[slot[j].owner]
            /\ slot[j].qport = QportOf[slot[j].owner]
        BY <3>1 DEF RouteInv, OwnersKnown
      <4>4. slot[j].owner = p
        BY <1>1, <3>1, <3>2, <4>3 DEF RouteInv, SlotPortsOwn, Neighbours, At
      <4>5. j \in Matching(p)
        BY <3>1, <4>3, <4>4 DEF Matching
      <4>6. ~(j < i)
        BY <3>2, <4>1, <4>5, SlotsAreNat
      <4>7. QED
        BY <3>1, <4>2, <4>6
    <3>5. QED
      BY <3>3, <3>4
  <2>8. FirstIsLive'
    <3>1. SUFFICES ASSUME NEW k \in Slots, NEW j \in Slots, k < j, SameAddress(slot'[k], slot'[j])
                   PROVE  slot'[j].state = "cs_zombie"
      BY DEF FirstIsLive
    <3>2. k # j
      BY <3>1, SlotsAreNat
    <3>3. CASE k = i
      BY <2>7, <3>1, <3>2, <3>3
    <3>4. CASE j = i
      <4>1. SameAddress(slot'[i], slot'[k])
        BY <3>1, <3>4 DEF SameAddress
      <4>2. QED
        BY <2>7, <3>1, <3>2, <3>4, <4>1
    <3>5. CASE k # i /\ j # i
      BY <2>1, <3>1, <3>5 DEF RouteInv, FirstIsLive, SameAddress, Freed
    <3>6. QED
      BY <3>3, <3>4, <3>5
  <2>9. QED
    BY <1>1, <2>4, <2>5, <2>8 DEF RouteInv, PortsDiffer, NetPortsOwn
<1>6. QED
  BY <1>4, <1>5, ReadCases

LEMMA RouteStep ==
  ASSUME TypeOK, RouteInv, DistinctQports, ~ReusePorts, [Next]_vars
  PROVE  RouteInv'
<1>1. ASSUME NEW p \in Players, GetChallenge(p) PROVE RouteInv'
  <2>1. net' \subseteq net \cup {[from |-> p, port |-> port[p], challenge |-> issued + 1]}
    BY <1>1, ChallengeCases
  <2>2. p \in Players \ gone /\ UNCHANGED <<slot, port, gone>>
    BY <1>1 DEF GetChallenge
  <2>3. NetPortsOwn'
    BY <2>1, <2>2 DEF RouteInv, NetPortsOwn, PortsDiffer
  <2>4. QED
    BY <2>2, <2>3 DEF RouteInv, OwnersKnown, PortsDiffer, SlotPortsOwn, FirstIsLive, NoneForeign
<1>2. ASSUME NEW c \in net, DirectConnect(c) PROVE RouteInv'
  <2>1. CASE slot' = slot
    BY <1>2, <2>1 DEF DirectConnect, RouteInv, OwnersKnown, PortsDiffer, SlotPortsOwn,
                      NetPortsOwn, FirstIsLive, NoneForeign
  <2>2. CASE slot' # slot
    BY <1>2, <2>2, ConnectRoutes
  <2>3. QED
    BY <2>1, <2>2
<1>3. ASSUME NEW p \in Players, NEW m, ReadPacket(p, m) PROVE RouteInv'
  BY <1>3, ReadRoutes
<1>4. CASE Ending
  BY <1>4, EndingEnds, EndingRoutes
<1>5. ASSUME NEW p \in Players, NEW prt \in Ports, Translate(p, prt) PROVE RouteInv'
  <2>1. /\ p \in Players \ gone /\ UNCHANGED <<slot, net, gone>>
        /\ port' = [port EXCEPT ![p] = prt]
        /\ \A q \in Players \ gone : IpOf[q] = IpOf[p] => port[q] # prt
        /\ \A i \in Slots : slot[i].ip = IpOf[p] /\ slot[i].owner # p => slot[i].port # prt
        /\ \A c \in net : IpOf[c.from] = IpOf[p] /\ c.from # p => c.port # prt
    BY <1>5 DEF Translate
  <2>2. \A q \in Players : port'[q] = IF q = p THEN prt ELSE port[q]
    BY <2>1 DEF TypeOK
  <2>3. PortsDiffer' /\ NetPortsOwn'
    BY <2>1, <2>2 DEF RouteInv, PortsDiffer, NetPortsOwn, Neighbours
  <2>4. SlotPortsOwn'
    BY <2>1, <2>2 DEF RouteInv, SlotPortsOwn, OwnersKnown, Neighbours
  <2>5. QED
    BY <2>1, <2>3, <2>4 DEF RouteInv, OwnersKnown, FirstIsLive, NoneForeign
<1>6. ASSUME NEW p \in Players, Leave(p) PROVE RouteInv'
  BY <1>6 DEF Leave, RouteInv, OwnersKnown, PortsDiffer, SlotPortsOwn, NetPortsOwn,
              FirstIsLive, NoneForeign
<1>7. CASE UNCHANGED vars
  BY <1>7 DEF vars, RouteInv, OwnersKnown, PortsDiffer, SlotPortsOwn, NetPortsOwn,
              FirstIsLive, NoneForeign
<1>8. QED
  BY <1>1, <1>2, <1>3, <1>4, <1>5, <1>6, <1>7 DEF Next, Ending

(* No slot takes a packet of another player, and no two clients in the     *)
(* game have one address (SV_ReadPackets, SVC_DirectConnect), as long as   *)
(* no router gives a player a port that the server has on record for       *)
(* another and the qports behind a router differ: of the slots of one      *)
(* address only the first may be live, and no other player uses it.        *)
THEOREM PacketsReachTheirOwner ==
  ASSUME DistinctQports, ~ReusePorts
  PROVE  Spec => []RoutedToOwner
<1>1. Init => RouteInv
  BY DEF Init, Unused, RouteInv, OwnersKnown, PortsDiffer, SlotPortsOwn, NetPortsOwn,
         FirstIsLive, NoneForeign, SameAddress, Neighbours
<1>2. TypeOK /\ RouteInv /\ [Next]_vars => RouteInv'
  BY RouteStep
<1>3. TypeOK /\ RouteInv => RoutedToOwner
  <2> SUFFICES ASSUME TypeOK, RouteInv PROVE RoutedToOwner
    OBVIOUS
  <2>1. DOMAIN slot = Slots
    BY DEF TypeOK
  <2>2. ASSUME NEW i \in Slots, NEW j \in Slots, i < j, Live(slot[i]), Live(slot[j]),
               slot[i].ip = slot[j].ip
        PROVE  slot[i].port # slot[j].port
    BY <2>2 DEF RouteInv, FirstIsLive, SameAddress, Live
  <2>3. \A i, j \in Slots : i # j => i < j \/ j < i
    BY SlotsAreNat
  <2>4. AddressesDiffer
    BY <2>1, <2>2, <2>3 DEF AddressesDiffer
  <2>5. QED
    BY <2>1, <2>4 DEF RoutedToOwner, RouteInv, NoneForeign
<1>4. QED
  BY TypeCorrect, <1>1, <1>2, <1>3, PTL DEF Spec

----------------------------------------------------------------------------
(* Which request takes a slot over                                         *)

(* An address has one challenge, newer than those its clients came with.   *)
OnePerAddress ==
  \A k, j \in DOMAIN challenges :
    challenges[k].ip = challenges[j].ip /\ challenges[k].ip # NoIp => k = j

WereIssued ==
  /\ \A c \in net : c.challenge <= issued
  /\ \A i \in Slots : slot[i].challenge <= issued

NewerIsOpen ==
  \A k \in DOMAIN challenges, i \in Slots :
    challenges[k].challenge # 0 /\ challenges[k].ip = slot[i].ip
      => challenges[k].challenge > slot[i].challenge

ChallengeInv == OnePerAddress /\ WereIssued /\ NewerIsOpen

(* Slots that keep their client's challenge, or are freed.                 *)
Keeps(s, t) == (t.ip = s.ip /\ t.challenge = s.challenge) \/ (t.ip = NoIp /\ t.challenge = 0)

LEMMA KeepsChallenges ==
  ASSUME TypeOK, ChallengeInv, UNCHANGED <<challenges, issued, net>>,
         \A i \in Slots : Keeps(slot[i], slot'[i])
  PROVE  ChallengeInv'
<1>1. issued \in Nat /\ \A k \in DOMAIN challenges : challenges[k].challenge \in Nat
  BY Limits DEF TypeOK
<1>2. QED
  BY <1>1 DEF ChallengeInv, OnePerAddress, WereIssued, NewerIsOpen, Keeps

LEMMA ReadKeeps ==
  ASSUME TypeOK, NEW p \in Players, NEW m, ReadPacket(p, m)
  PROVE  \A i \in Slots : Keeps(slot[i], slot'[i])
<1>1. \A i \in Slots : Aside(slot[i], slot'[i]) => Keeps(slot[i], slot'[i])
  BY SlotsOK, CleanOK DEF Aside, Keeps, Freed
<1>2. \A i \in Slots : Heard(slot[i], slot'[i], p) => Keeps(slot[i], slot'[i])
  BY DEF Heard, Keeps
<1>3. QED
  BY <1>1, <1>2, ReadCases

LEMMA ConnectChallenges ==
  ASSUME TypeOK, ChallengeInv, NEW c \in net, DirectConnect(c)
  PROVE  ChallengeInv'
<1>1. PICK k \in DOMAIN challenges :
        /\ challenges[k].ip = IpOf[c.from] /\ challenges[k].challenge = c.challenge
        /\ challenges' = [challenges EXCEPT ![k].challenge = 0]
  BY DEF DirectConnect, Spend
<1>2. UNCHANGED <<issued, net>>
  BY DEF DirectConnect
<1>3. /\ c.challenge \in Nat /\ issued \in Nat /\ c.challenge <= issued
      /\ \A j \in DOMAIN challenges : challenges[j].challenge \in Nat
      /\ \A i \in Slots : slot[i].challenge \in Nat
  BY Limits DEF TypeOK, ChallengeInv, WereIssued, Clients
<1>4. /\ DOMAIN challenges' = DOMAIN challenges
      /\ challenges'[k].ip = challenges[k].ip /\ challenges'[k].challenge = 0
      /\ \A j \in DOMAIN challenges : j # k => challenges'[j] = challenges[j]
  BY <1>1 DEF TypeOK
<1>5. OnePerAddress'
  BY <1>4 DEF ChallengeInv, OnePerAddress
<1>6. \A i \in Slots :
        Keeps(slot[i], slot'[i]) \/ (slot'[i].ip = IpOf[c.from] /\ slot'[i].challenge = c.challenge)
  <2>1. CASE slot' = slot
    BY <2>1 DEF Keeps
  <2>2. CASE slot' # slot
    <3>1. PICK i \in Slots : slot' = [slot EXCEPT ![i] = Emptied(@)] \/ slot' = Admitted(c, i)
      BY <2>2, ConnectCases
    <3>2. \A j \in Slots \ {i} : slot'[j] = slot[j]
      BY <3>1 DEF Admitted, TypeOK
    <3>3. slot'[i] = Emptied(slot[i]) \/ slot'[i] = Admitted(c, i)[i]
      BY <3>1 DEF TypeOK
    <3>4. QED
      BY <3>2, <3>3, SlotsOK, EmptiedOK, AdmittedOK DEF Keeps, Freed
  <2>3. QED
    BY <2>1, <2>2
<1>7. WereIssued'
  BY <1>2, <1>3, <1>6 DEF ChallengeInv, WereIssued, Keeps
<1>8. NewerIsOpen'
  <2>1. SUFFICES ASSUME NEW j \in DOMAIN challenges, NEW i \in Slots,
                        challenges'[j].challenge # 0, challenges'[j].ip = slot'[i].ip
                 PROVE  challenges'[j].challenge > slot'[i].challenge
    BY <1>4 DEF NewerIsOpen
  <2>2. j # k /\ challenges'[j] = challenges[j]
    BY <1>4, <2>1
  <2>3. CASE Keeps(slot[i], slot'[i])
    BY <1>3, <2>1, <2>2, <2>3 DEF ChallengeInv, NewerIsOpen, Keeps
  <2>4. CASE slot'[i].ip = IpOf[c.from]
    <3>1. IpOf[c.from] # NoIp
      BY Identities DEF TypeOK, Ips
    <3>2. QED
      BY <1>1, <2>1, <2>2, <2>4, <3>1 DEF ChallengeInv, OnePerAddress
  <2>5. QED
    BY <1>6, <2>3, <2>4
<1>9. QED
  BY <1>5, <1>7, <1>8 DEF ChallengeInv

LEMMA ChallengeStep ==
  ASSUME TypeOK, ChallengeInv, [Next]_vars
  PROVE  ChallengeInv'
<1>1. ASSUME NEW p \in Players, GetChallenge(p) PROVE ChallengeInv'
  <2>1. PICK k \in DOMAIN challenges :
          /\ challenges' = [challenges EXCEPT ![k] = Given(p)]
          /\ \/ challenges[k].ip = IpOf[p]
             \/ \A j \in DOMAIN challenges : challenges[j].ip # IpOf[p]
    BY <1>1, ChallengeCases
  <2>2. /\ issued' = issued + 1 /\ slot' = slot
        /\ net' \subseteq net \cup {[from |-> p, port |-> port[p], challenge |-> issued + 1]}
    BY <1>1, ChallengeCases DEF GetChallenge
  <2>3. /\ issued \in Nat /\ \A i \in Slots : slot[i].challenge \in Nat
        /\ \A c \in net : c.challenge \in Nat
    BY Limits DEF TypeOK, Clients
  <2>4. /\ DOMAIN challenges' = DOMAIN challenges
        /\ challenges'[k].ip = IpOf[p] /\ challenges'[k].challenge = issued + 1
        /\ \A j \in DOMAIN challenges : j # k => challenges'[j] = challenges[j]
    BY <2>1 DEF TypeOK, Given
  <2>5. OnePerAddress'
    BY <2>1, <2>4 DEF ChallengeInv, OnePerAddress
  <2>6. WereIssued'
    BY <2>2, <2>3 DEF ChallengeInv, WereIssued
  <2>7. NewerIsOpen'
    BY <2>2, <2>3, <2>4 DEF ChallengeInv, WereIssued, NewerIsOpen
  <2>8. QED
    BY <2>5, <2>6, <2>7 DEF ChallengeInv
<1>2. ASSUME NEW c \in net, DirectConnect(c) PROVE ChallengeInv'
  BY <1>2, ConnectChallenges
<1>3. ASSUME NEW p \in Players, NEW m, ReadPacket(p, m) PROVE ChallengeInv'
  BY <1>3, ReadKeeps, KeepsChallenges DEF ReadPacket
<1>4. CASE Ending
  <2>1. \A i \in Slots : Keeps(slot[i], slot'[i])
    BY <1>4, EndingEnds DEF AllEnd, Ends, Same, Freed, Keeps
  <2>2. QED
    BY <1>4, <2>1, EndingEnds, KeepsChallenges
<1>5. ASSUME UNCHANGED <<slot, challenges, issued, net>> PROVE ChallengeInv'
  BY <1>5, KeepsChallenges DEF Keeps
<1>6. QED
  BY <1>1, <1>2, <1>3, <1>4, <1>5 DEF Next, Ending, vars, Translate, Leave

(* A connection request that arrives late or twice cannot end a connection *)
(* of its address: only one with a newer challenge takes a live slot over  *)
(* (SVC_DirectConnect spends the challenge).                               *)
THEOREM OnlyNewerRequestsTakeOver == Spec => OnlyNewerTakesOver
<1>1. Init => ChallengeInv
  BY Limits DEF Init, Unused, ChallengeInv, OnePerAddress, WereIssued, NewerIsOpen
<1>2. TypeOK /\ ChallengeInv /\ [Next]_vars => ChallengeInv'
  BY ChallengeStep
<1>3. TypeOK /\ ChallengeInv =>
        \A c \in net, i \in DOMAIN slot :
          Live(slot[i]) /\ slot[i].ip = IpOf[c.from] /\ slot'[i] # slot[i] /\ DirectConnect(c)
            => c.challenge > slot[i].challenge
  <2> SUFFICES ASSUME TypeOK, ChallengeInv, NEW c \in net, NEW i \in DOMAIN slot,
                      slot[i].ip = IpOf[c.from], DirectConnect(c)
               PROVE  c.challenge > slot[i].challenge
    OBVIOUS
  <2>1. PICK k \in DOMAIN challenges :
          challenges[k].ip = IpOf[c.from] /\ challenges[k].challenge = c.challenge
    BY DEF DirectConnect
  <2>2. c.challenge # 0 /\ i \in Slots
    BY DEF TypeOK
  <2>3. QED
    BY <2>1, <2>2 DEF ChallengeInv, NewerIsOpen
<1>4. QED
  BY TypeCorrect, <1>1, <1>2, <1>3, PTL DEF Spec, OnlyNewerTakesOver

----------------------------------------------------------------------------
(* How many connect from one address                                       *)

LiveAt(p) == {i \in Slots : Live(slot[i]) /\ slot[i].ip = IpOf[p]}

LEMMA SlotsFinite == \A S \in SUBSET Slots : IsFiniteSet(S) /\ Cardinality(S) \in Nat
<1>1. IsFiniteSet(Slots)
  BY Limits, FS_Interval DEF Slots
<1>2. QED
  BY <1>1, FS_Subset, FS_CardinalityType

(* Steps that bring nobody in keep to the limit.                           *)
LEMMA NobodyIn ==
  ASSUME TypeOK, ConnectionsLimited, NEW p \in Players, LiveAt(p)' \subseteq LiveAt(p)
  PROVE  Cardinality(LiveAt(p)') <= IpLimit
<1>1. LiveAt(p) \in SUBSET Slots /\ LiveAt(p)' \in SUBSET Slots
  BY DEF LiveAt
<1>2. Cardinality(LiveAt(p)') <= Cardinality(LiveAt(p))
  BY <1>1, SlotsFinite, FS_Subset
<1>3. Cardinality(LiveAt(p)) <= IpLimit
  BY DEF ConnectionsLimited, LiveAt
<1>4. QED
  BY <1>1, <1>2, <1>3, SlotsFinite, Limits

(* A client counts twice, a zombie once: while the count is below twice    *)
(* the limit, fewer clients than the limit are in.                         *)
LEMMA RoomForOne ==
  ASSUME TypeOK, NEW c \in net, NEW slots, slots \in [Slots -> Clients], ~TooMany(c, slots)
  PROVE  Cardinality({i \in Slots : Live(slots[i]) /\ slots[i].ip = IpOf[c.from]}) < IpLimit
<1> DEFINE L == {i \in Slots : Live(slots[i]) /\ slots[i].ip = IpOf[c.from]}
           same == {i \in Slots : slots[i].state # "cs_free" /\ slots[i].ip = IpOf[c.from]}
           counted == {x \in same \X (1 .. 2) : x[2] <= Connections(slots[x[1]])}
<1>1. L \X (1 .. 2) \subseteq counted
  BY DEF Connections, Live
<1>2. IsFiniteSet(1 .. 2) /\ Cardinality(1 .. 2) = 2
  <2>1. 1 \in Int /\ 2 \in Int
    OBVIOUS
  <2>2. IsFiniteSet(1 .. 2) /\ Cardinality(1 .. 2) = IF 1 > 2 THEN 0 ELSE 2 - 1 + 1
    BY <2>1, FS_Interval
  <2>3. QED
    BY <2>2
<1>3. IsFiniteSet(L) /\ IsFiniteSet(same) /\ Cardinality(L) \in Nat
  BY SlotsFinite
<1>4. IsFiniteSet(L \X (1 .. 2)) /\ Cardinality(L \X (1 .. 2)) = Cardinality(L) * 2
  BY <1>2, <1>3, FS_Product
<1>5. IsFiniteSet(same \X (1 .. 2))
  BY <1>2, <1>3, FS_Product
<1>6. IsFiniteSet(counted)
  BY <1>5, FS_Subset
<1>7. Cardinality(L \X (1 .. 2)) <= Cardinality(counted) /\ Cardinality(counted) \in Nat
  BY <1>1, <1>6, FS_Subset, FS_CardinalityType
<1>8. Cardinality(counted) < 2 * IpLimit
  BY <1>7, Limits DEF TooMany
<1>9. QED
  BY <1>3, <1>4, <1>7, <1>8, Limits

LEMMA LimitStep ==
  ASSUME TypeOK, ConnectionsLimited, [Next]_vars
  PROVE  ConnectionsLimited'
<1> SUFFICES ASSUME NEW p \in Players PROVE Cardinality(LiveAt(p)') <= IpLimit
  BY DEF ConnectionsLimited, LiveAt
<1>1. ASSUME slot' = slot PROVE Cardinality(LiveAt(p)') <= IpLimit
  BY <1>1, NobodyIn DEF LiveAt
<1>2. ASSUME NEW c \in net, DirectConnect(c), slot' # slot
      PROVE  Cardinality(LiveAt(p)') <= IpLimit
  <2>1. PICK i \in Slots :
          \/ slot' = [slot EXCEPT ![i] = Emptied(@)]
          \/ /\ ~TooMany(c, [slot EXCEPT ![i] = Emptied(@)])
             /\ slot' = Admitted(c, i)
    BY <1>2, ConnectCases
  <2> DEFINE slots == [slot EXCEPT ![i] = Emptied(@)]
  <2>2. SlotOK(Emptied(slot[i])) /\ Freed(Emptied(slot[i]))
    BY SlotsOK, EmptiedOK
  <2>3. slots \in [Slots -> Clients] /\ ~Live(slots[i]) /\ \A j \in Slots \ {i} : slots[j] = slot[j]
    BY <2>2 DEF TypeOK, SlotOK, Freed, Live
  <2> DEFINE before == {j \in Slots : Live(slots[j]) /\ slots[j].ip = IpOf[p]}
  <2>4. before \subseteq LiveAt(p)
    BY <2>3 DEF LiveAt
  <2>5. CASE slot' = slots
    <3>1. LiveAt(p)' = before
      BY <2>5 DEF LiveAt
    <3>2. QED
      BY <2>4, <3>1, NobodyIn
  <2>6. CASE ~TooMany(c, slots) /\ slot' = Admitted(c, i)
    <3>1. (\A j \in Slots \ {i} : slot'[j] = slots[j]) /\ slot'[i].ip = IpOf[c.from]
      BY <2>3, <2>6, AdmittedOK DEF Admitted, TypeOK
    <3>2. LiveAt(p)' \subseteq before \cup {i}
      BY <3>1 DEF LiveAt
    <3>3. CASE IpOf[p] # IpOf[c.from]
      <4>1. LiveAt(p)' \subseteq before
        BY <3>1, <3>2, <3>3 DEF LiveAt
      <4>2. QED
        BY <2>4, <4>1, NobodyIn
    <3>4. CASE IpOf[p] = IpOf[c.from]
      <4> HIDE DEF slots
      <4>1. Cardinality(before) < IpLimit
        BY <2>3, <2>6, <3>4, RoomForOne
      <4>2. before \in SUBSET Slots /\ before \cup {i} \in SUBSET Slots /\ LiveAt(p)' \in SUBSET Slots
        BY DEF LiveAt
      <4>3. Cardinality(before \cup {i}) <= Cardinality(before) + 1
        BY <4>2, SlotsFinite, FS_AddElement
      <4>4. Cardinality(LiveAt(p)') <= Cardinality(before \cup {i})
        BY <3>2, <4>2, SlotsFinite, FS_Subset
      <4> HIDE DEF before
      <4>5. /\ Cardinality(before) \in Nat /\ Cardinality(before \cup {i}) \in Nat
            /\ Cardinality(LiveAt(p)') \in Nat
        BY <4>2, SlotsFinite
      <4>6. QED
        BY <4>1, <4>3, <4>4, <4>5, Limits
    <3>5. QED
      BY <3>3, <3>4
  <2>7. QED
    BY <2>1, <2>5, <2>6
<1>3. ASSUME NEW q \in Players, NEW m, ReadPacket(q, m) PROVE Cardinality(LiveAt(p)') <= IpLimit
  <2>1. \A j \in Slots : Aside(slot[j], slot'[j]) => slot'[j] = slot[j] \/ ~Live(slot'[j])
    BY SlotsOK, CleanOK DEF Aside, Freed, Live
  <2>2. \A j \in Slots : Heard(slot[j], slot'[j], q) => slot'[j].ip = slot[j].ip /\ (Live(slot'[j]) => Live(slot[j]))
    BY DEF Heard
  <2>3. LiveAt(p)' \subseteq LiveAt(p)
    BY <1>3, <2>1, <2>2, ReadCases DEF LiveAt
  <2>4. QED
    BY <2>3, NobodyIn
<1>4. CASE Ending
  <2>1. LiveAt(p)' \subseteq LiveAt(p)
    BY <1>4, EndingEnds DEF AllEnd, Ends, Same, Freed, Live, LiveAt
  <2>2. QED
    BY <2>1, NobodyIn
<1>5. QED
  BY <1>1, <1>2, <1>3, <1>4
     DEF Next, Ending, vars, GetChallenge, Translate, Leave

(* "Maximum number of connections allowed from a single IP": however slots *)
(* are left, taken over and cleaned, no more clients of one address are in *)
(* than sv_iplimit, although zombies count by half (SVC_DirectConnect).    *)
THEOREM LimitHolds == Spec => []ConnectionsLimited
<1>1. Init => ConnectionsLimited
  <2> SUFFICES ASSUME Init, NEW p \in Players PROVE Cardinality(LiveAt(p)) <= IpLimit
    BY DEF ConnectionsLimited, LiveAt
  <2>1. LiveAt(p) = {}
    BY DEF Init, Unused, Live, LiveAt
  <2>2. QED
    BY <2>1, FS_EmptySet, Limits
<1>2. TypeOK /\ ConnectionsLimited /\ [Next]_vars => ConnectionsLimited'
  BY LimitStep
<1>3. QED
  BY TypeCorrect, <1>1, <1>2, PTL DEF Spec
=============================================================================
