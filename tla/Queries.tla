------------------------------ MODULE Queries ------------------------------
(***************************************************************************)
(* Packets from outside any connection: the lists of addresses that are    *)
(* shut out and of their exceptions, with the commands that edit them; the *)
(* sampling periods that limit status replies, notices and wrong rcon      *)
(* passwords; rcon and limited rcon; the Gamespy queries; the masters and  *)
(* their heartbeats. An address is a number of AdrBits bits, a block an    *)
(* address with the number of leading bits that count.                     *)
(***************************************************************************)
EXTENDS Integers, Sequences, FiniteSets, SequencesExt

CONSTANTS AdrBits, Hosts,     \* the width of an address, and who sends packets
          Period,             \* ratelimit.period
          StatusMax, RconMax, \* sv_ratelimit_status, sv_rcon_ratelimit
          HeartbeatTime,
          MasterLists,        \* what setmaster may be given
          MaxNow, MaxHoles,
          CountCap            \* counts above every limit are taken as one

ASSUME QuAssumption ==
  /\ AdrBits \in 1 .. 32 /\ Hosts \subseteq 0 .. (2^AdrBits - 1)
  /\ Period \in Nat /\ StatusMax \in Nat \ {0} /\ RconMax \in Nat \ {0} /\ MaxNow \in Nat /\ MaxHoles \in Nat
  /\ CountCap \in Nat /\ CountCap > StatusMax /\ CountCap > RconMax /\ CountCap > 2

VARIABLES now, holes, exempt, statusRate, rconRate,
          masters, masterGs, lastBeat,
          answers,   \* history: times of the status answers of the last Period, those to masters left out
          guesses,   \* history: times of the wrong passwords that were looked at in it
          notices    \* history: for each hole, times of the notices to addresses it shuts out
quVars == <<now, holes, exempt, statusRate, rconRate, masters, masterGs, lastBeat, answers, guesses, notices>>

Covers(b, a) == a \div 2^(AdrBits - b.bits) = b.ip \div 2^(AdrBits - b.bits)

NewRate == [time |-> 0, count |-> 0]

QuInit ==
  /\ now = 0 /\ holes = <<>> /\ exempt = <<>> /\ statusRate = NewRate /\ rconRate = NewRate
  /\ masters = <<>> /\ masterGs = {} /\ lastBeat = 0
  /\ answers = <<>> /\ guesses = <<>> /\ notices = [n \in 1 .. MaxHoles |-> <<>>]

-----------------------------------------------------------------------------
(* RateSample counts an event and RateLimited asks; both may start a period. *)
RateSample(r) == IF now - r.time > Period THEN [time |-> now, count |-> 1] ELSE [r EXCEPT !.count = IF @ < CountCap THEN @ + 1 ELSE @]
RateStart(r) == IF now - r.time > Period THEN [time |-> now, count |-> 0] ELSE r
RateLimited(r, max) == now - r.time <= Period /\ r.count >= max

(* CheckBlackholes: an exception beats every hole, the first hole that covers counts. *)
HoleFor(a) == IF \E e \in ToSet(exempt) : Covers(e, a) THEN 0
              ELSE LET hit == {i \in 1..Len(holes) : Covers(holes[i], a)}
                   IN IF hit = {} THEN 0 ELSE CHOOSE i \in hit : \A j \in hit : i <= j

MutShutOut(a, reply) ==   \* the sample is taken only when a notice is sent
  LET h == HoleFor(a) IN
  /\ h # 0
  /\ IF holes[h].notice /\ reply
     THEN LET r == RateStart(holes[h].rate)
          IN /\ holes' = [holes EXCEPT ![h] = [@ EXCEPT !.rate = r]]
             /\ notices' = [notices EXCEPT ![holes[h].id] = Append(@, now)]
     ELSE UNCHANGED <<holes, notices>>
ShutOut(a, reply) ==
  LET h == HoleFor(a) IN
  /\ h # 0
  /\ IF holes[h].notice /\ reply
     THEN LET r == RateSample(holes[h].rate)
          IN /\ holes' = [holes EXCEPT ![h] = [@ EXCEPT !.rate = r]]
             /\ notices' = IF RateLimited(r, 2) THEN notices ELSE [notices EXCEPT ![holes[h].id] = Append(@, now)]
     ELSE UNCHANGED <<holes, notices>>

Blocked(a) ==
  /\ \E reply \in BOOLEAN : ShutOut(a, reply)
  /\ UNCHANGED <<now, exempt, statusRate, rconRate, masters, masterGs, lastBeat, answers, guesses>>

(* SVC_Status. SVC_Ping, SVC_Info and SVC_Ack only answer, and keep no state. *)
Status(a) ==
  /\ HoleFor(a) = 0
  /\ LET r == RateSample(statusRate) IN
       /\ statusRate' = r
       /\ answers' = IF RateLimited(r, StatusMax) THEN answers ELSE Append(answers, now)
  /\ UNCHANGED <<now, holes, exempt, rconRate, masters, masterGs, lastBeat, guesses, notices>>

(* SV_GamespyPacket: a master is answered whatever the limit, and is known for one. *)
FromMaster(a) == a \in ToSet(masters)
Gamespy(a) ==
  /\ HoleFor(a) = 0
  /\ LET r == RateSample(statusRate)
         answered == FromMaster(a) \/ ~RateLimited(r, StatusMax)
     IN /\ statusRate' = r
        /\ answers' = IF answered /\ ~FromMaster(a) THEN Append(answers, now) ELSE answers
        /\ masterGs' = IF FromMaster(a) THEN masterGs \union {a} ELSE masterGs
  /\ UNCHANGED <<now, holes, exempt, rconRate, masters, lastBeat, guesses, notices>>

(* SVC_RemoteCommand. Only wrong passwords are counted; once there were too many
   every rcon is dropped, the right password too. *)
Rcon(a, right) ==
  /\ HoleFor(a) = 0
  /\ IF RateLimited(rconRate, RconMax) THEN UNCHANGED <<rconRate, guesses>>
     ELSE LET r == RateStart(rconRate) IN
          /\ rconRate' = IF right THEN r ELSE RateSample(r)
          /\ guesses' = IF right THEN guesses ELSE Append(guesses, now)
  /\ UNCHANGED <<now, holes, exempt, statusRate, masters, masterGs, lastBeat, answers, notices>>

-----------------------------------------------------------------------------
(* The lists. A hole's id stands for its text. *)
Blackhole(a, bits, notice) ==
  LET id == CHOOSE n \in 1..MaxHoles : \A i \in 1..Len(holes) : holes[i].id # n IN
  /\ Len(holes) < MaxHoles
  /\ holes' = Append(holes, [ip |-> a, bits |-> bits, notice |-> notice, rate |-> NewRate, id |-> id])
  /\ notices' = [notices EXCEPT ![id] = <<>>]
  /\ UNCHANGED <<now, exempt, statusRate, rconRate, masters, masterGs, lastBeat, answers, guesses>>

(* UnBlackhole: counts down while it walks; fails when the list ends first. *)
Walk(len, index) ==
  LET left[n \in 0..len] == IF n = 0 THEN index ELSE IF left[n-1] <= 0 THEN left[n-1] ELSE left[n-1] - 1 IN left
UnBlackhole(list, index) ==
  LET left == Walk(Len(list), index)
      at == {n \in 1..Len(list) : left[n] = 0 /\ left[n-1] # 0}
  IN IF at = {} THEN list ELSE RemoveAt(list, CHOOSE n \in at : TRUE)

DelHole ==
  /\ \/ \E x \in 1..MaxHoles : holes' = UnBlackhole(holes, x)
     \/ \E a \in Hosts : LET hit == {i \in 1..Len(holes) : holes[i].ip = a}
                         IN hit # {} /\ holes' = UnBlackhole(holes, CHOOSE i \in hit : \A j \in hit : i <= j)
     \/ holes' = <<>>
  /\ UNCHANGED <<now, exempt, statusRate, rconRate, masters, masterGs, lastBeat, answers, guesses, notices>>

(* Adding and removing an exception, by address and mask, or all of them. *)
EditExempt(a, bits) ==
  /\ \/ Len(exempt) = 0 /\ exempt' = Append(exempt, [ip |-> a, bits |-> bits])
     \/ LET hit == {i \in 1..Len(exempt) : exempt[i] = [ip |-> a, bits |-> bits]}
        IN hit # {} /\ exempt' = RemoveAt(exempt, CHOOSE i \in hit : \A j \in hit : i <= j)
     \/ exempt # <<>> /\ exempt' = <<>>
  /\ UNCHANGED <<now, holes, statusRate, rconRate, masters, masterGs, lastBeat, answers, guesses, notices>>

(* SV_SetMaster_f forgets which masters speak Gamespy and asks for a heartbeat. *)
SetMaster(list) ==
  /\ masters' = list /\ masterGs' = {} /\ lastBeat' = -HeartbeatTime
  /\ UNCHANGED <<now, holes, exempt, statusRate, rconRate, answers, guesses, notices>>

(* The times that are no longer than a Period ago at t. *)
Recent(times, t) == SubSeq(times, Cardinality({i \in DOMAIN times : t - times[i] > Period}) + 1, Len(times))

(* The clock; Master_Heartbeat runs in every frame. Gamespy masters get no other kind. *)
Tick ==
  /\ now < MaxNow /\ now' = now + 1
  /\ lastBeat' = IF masters # <<>> /\ now' - lastBeat >= HeartbeatTime THEN now' ELSE lastBeat
  /\ answers' = Recent(answers, now + 1) /\ guesses' = Recent(guesses, now + 1)
  /\ notices' = [n \in 1 .. MaxHoles |-> Recent(notices[n], now + 1)]
  /\ UNCHANGED <<holes, exempt, statusRate, rconRate, masters, masterGs>>

QuNext ==
  \/ Tick \/ DelHole
  \/ \E a \in Hosts : Blocked(a) \/ Status(a) \/ Gamespy(a) \/ (\E right \in BOOLEAN : Rcon(a, right))
                      \/ (\E bits \in 1..AdrBits : EditExempt(a, bits) \/ \E n \in BOOLEAN : Blackhole(a, bits, n))
  \/ \E l \in MasterLists : SetMaster(l)
QuSpec == QuInit /\ [][QuNext]_quVars

-----------------------------------------------------------------------------
(* However requests fall into the sampling periods, no stretch as long as a period
   sees more status answers than two periods allow; masters are not limited. *)
StatusBounded == Len(answers) <= 2 * (StatusMax - 1)

(* Nor more wrong passwords than twice sv_rcon_ratelimit, from all addresses together,
   however right ones are mixed in. *)
GuessesBounded == Len(guesses) <= 2 * RconMax

(* Nor more than two notices to those behind one hole: the server does not answer a
   flood with a flood. *)
NoticesBounded == \A i \in 1..Len(holes) : Len(notices[holes[i].id]) <= 2

(* The number listholes shows with an entry deletes that entry and no other; a number
   past the end deletes none. *)
IndexDeletesIt == \A x \in 1..(MaxHoles + 1) :
  UnBlackhole(holes, x) = IF x <= Len(holes) THEN RemoveAt(holes, x) ELSE holes

(* What anyone outside can make the server do is bounded, and an entry is deleted by its number.    *)
OutsidersAreBounded == StatusBounded /\ GuessesBounded /\ NoticesBounded /\ IndexDeletesIt
=============================================================================
