----------------------------- MODULE UserMoves -----------------------------
(***************************************************************************)
(* The movement commands of one client: the packets that carry each of     *)
(* them three times, the loss and delay on the way, the repetition of the  *)
(* last command over a larger gap, and the two accounts of time that keep  *)
(* a client from moving faster than the clock (SV_ExecuteClientMessage,    *)
(* SV_ClientThink, SV_GiveMsec). The client is honest: a command's msec is *)
(* the time since the command before. Times are in units of 25 ms.         *)
(***************************************************************************)
EXTENDS Integers, Sequences, FiniteSets, FiniteSetsExt

CONSTANTS MaxTime,      \* bound on the clock
          MaxDelay,     \* a packet arrives within this time or never
          GivePeriod,   \* 16 frames
          Budget,       \* sv_msecs
          KickLimit,    \* sv_enforcetime_kick, 0: never
          NetDrops,     \* values of sv_max_netdrop
          Steps         \* the times a client may wait before its next command

ASSUME UmAssumption ==
  /\ MaxTime \in Nat /\ MaxDelay \in Nat /\ MaxDelay < MaxTime /\ GivePeriod \in Nat \ {0}
  /\ Budget \in Nat /\ KickLimit \in Nat /\ NetDrops \subseteq Nat /\ Steps \subseteq Nat \ {0}

VARIABLES curtime,
          sent,        \* the msec of each command the client has made
          sentAt,      \* when the last was made
          net,         \* packets under way: [n, at]
          incoming,    \* sequence of the last packet accepted
          lastReceived, moved, umPaused, netdrop, predict,
          lastMsec,    \* lastcmd.msec
          totalUsed, initialTime, commandMsec, overflow, umKicked,
          ran,         \* the commands given to SV_ClientThink, in order, repetitions left out
          movedMs,     \* time the game was told to move since the last allotment
          accepted,    \* packets accepted
          waived,      \* commands that arrived while the game was paused
          gapRun       \* the last packet made repetitions
umVars == <<curtime, sent, sentAt, net, incoming, lastReceived, moved, umPaused, netdrop, predict,
            lastMsec, totalUsed, initialTime, commandMsec, overflow, umKicked, ran, movedMs, accepted, waived, gapRun>>

OldCap == 1
NewCap == 3
RepeatCap == 4
Msec(n) == IF n < 1 THEN 0 ELSE sent[n]

UmInit ==
  /\ curtime = 1 /\ sent = <<>> /\ sentAt = 1 /\ net = {} /\ incoming = 0 /\ lastReceived = 1
  /\ moved = FALSE /\ umPaused = FALSE /\ netdrop \in NetDrops /\ predict \in BOOLEAN
  /\ lastMsec = 0 /\ totalUsed = 0 /\ initialTime = 0 /\ commandMsec = Budget /\ overflow = 0
  /\ umKicked = FALSE /\ ran = <<>> /\ movedMs = 0 /\ accepted = {} /\ waived = {} /\ gapRun = FALSE

-----------------------------------------------------------------------------
(* SV_ClientThink for a list of [n, ms]: every command is charged, one that
   overdraws the account is not run. *)
Charge(acc, c) ==
  LET left == acc.left - c.ms
  IN [left |-> left, used |-> acc.used + c.ms, done |-> acc.done + IF left < 0 THEN 0 ELSE c.ms]

Think(cmds) ==
  LET Run[i \in 0..Len(cmds)] ==
        IF i = 0 THEN [left |-> commandMsec, used |-> totalUsed, done |-> movedMs] ELSE Charge(Run[i-1], cmds[i])
  IN Run[Len(cmds)]

(* The repetitions of lastcmd over a gap: as long as the average of it and the
   oldest command says, never longer than the gap, in pieces of 100 ms. *)
Repeats(drop, new, old, oldest) ==
  LET gap == curtime - initialTime - totalUsed - new - old - oldest
      msec == Min({((drop - 2) * (lastMsec + oldest)) \div 2, gap})
      whole == msec \div RepeatCap
  IN IF drop <= 2 \/ initialTime = 0 \/ msec <= 0 THEN <<>>
     ELSE [i \in 1..whole |-> [n |-> 0, ms |-> RepeatCap]]
          \o (IF msec % RepeatCap = 0 THEN <<>> ELSE <<[n |-> 0, ms |-> msec % RepeatCap]>>)

(* What a packet with commands n-2, n-1 and n is turned into after `dropped` lost ones: repetitions
   of the last command, then those of its three that did not come before. *)
Limited(dropped) == Min({dropped, netdrop})
Clamp(dropped) == Limited(dropped) > 0 /\ predict
NetDrop(dropped) == IF Clamp(dropped) THEN Min({Limited(dropped), 2}) ELSE Limited(dropped)
MsecOf(k, cap, dropped) == IF Clamp(dropped) THEN Min({Msec(k), cap}) ELSE Msec(k)
Repeated(n, dropped) ==
  Repeats(NetDrop(dropped), MsecOf(n, NewCap, dropped), MsecOf(n-1, OldCap, dropped), MsecOf(n-2, OldCap, dropped))
Fresh(n, dropped) ==
  (IF NetDrop(dropped) > 1 THEN <<[n |-> n-2, ms |-> MsecOf(n-2, OldCap, dropped)]>> ELSE <<>>)
  \o (IF NetDrop(dropped) > 0 THEN <<[n |-> n-1, ms |-> MsecOf(n-1, OldCap, dropped)]>> ELSE <<>>)
  \o <<[n |-> n, ms |-> MsecOf(n, NewCap, dropped)]>>

(* A packet is accepted; Netchan_Process will throw away the older ones. *)
Receive(p) ==
  LET dropped == p.n - incoming - 1
      again == IF umPaused THEN <<>> ELSE Repeated(p.n, dropped)
      fresh == IF umPaused THEN <<>> ELSE Fresh(p.n, dropped)
      t == Think(again \o fresh)
  IN /\ ~umKicked /\ p \in net
     /\ net' = {q \in net : q.n > p.n}
     /\ incoming' = p.n /\ lastReceived' = curtime /\ moved' = TRUE
     /\ commandMsec' = t.left /\ totalUsed' = t.used /\ movedMs' = t.done
     /\ ran' = ran \o [i \in DOMAIN fresh |-> fresh[i].n]
     /\ accepted' = accepted \union {p.n}
     /\ gapRun' = (again # <<>>)
     /\ lastMsec' = IF predict /\ ~umPaused /\ p.n - incoming > 1 /\ netdrop > 0
                    THEN Min({Msec(p.n), NewCap}) ELSE Msec(p.n)
     /\ waived' = IF umPaused THEN 1..p.n ELSE waived
     /\ UNCHANGED <<curtime, sent, sentAt, umPaused, netdrop, predict, initialTime, overflow, umKicked>>

MutGiveMsec ==   \* the account of time used is not set back
  LET diff == totalUsed - (lastReceived - initialTime)
      carried == IF overflow < 0 THEN 0 ELSE overflow
  IN IF ~moved THEN UNCHANGED <<totalUsed, initialTime, commandMsec, overflow, umKicked, movedMs>>
     ELSE IF initialTime # 0 /\ KickLimit # 0 /\ carried + diff > KickLimit
     THEN /\ umKicked' = TRUE /\ overflow' = carried + diff
          /\ UNCHANGED <<totalUsed, initialTime, commandMsec, movedMs>>
     ELSE /\ overflow' = IF initialTime # 0 THEN carried + diff ELSE overflow
          /\ initialTime' = lastReceived
          /\ commandMsec' = Budget /\ movedMs' = 0
          /\ UNCHANGED <<umKicked, totalUsed>>
(* SV_GiveMsec, at a multiple of 16 frames. *)
GiveMsec ==
  LET diff == totalUsed - (lastReceived - initialTime)
      carried == IF diff <= 0 THEN overflow ELSE IF overflow < 0 THEN 0 ELSE (overflow * 97) \div 100
  IN IF ~moved THEN UNCHANGED <<totalUsed, initialTime, commandMsec, overflow, umKicked, movedMs>>
     ELSE IF initialTime # 0 /\ KickLimit # 0 /\ carried + diff > KickLimit
     THEN /\ umKicked' = TRUE /\ overflow' = carried + diff
          /\ UNCHANGED <<totalUsed, initialTime, commandMsec, movedMs>>
     ELSE /\ overflow' = IF initialTime # 0 THEN carried + diff ELSE overflow
          /\ totalUsed' = 0 /\ initialTime' = lastReceived
          /\ commandMsec' = Budget /\ movedMs' = 0
          /\ UNCHANGED umKicked

(* The clock and the server frame. A packet that is late is lost for good. *)
TimePasses ==
  /\ ~umKicked /\ curtime < MaxTime
  /\ net' = {p \in net : curtime - p.at < MaxDelay}
  /\ curtime' = curtime + 1
  /\ IF curtime' % GivePeriod = 0 THEN GiveMsec
     ELSE UNCHANGED <<totalUsed, initialTime, commandMsec, overflow, umKicked, movedMs>>
  /\ UNCHANGED <<sent, sentAt, incoming, lastReceived, moved, umPaused, netdrop, predict, lastMsec,
                 ran, accepted, waived, gapRun>>

ClientSends ==
  /\ ~umKicked /\ curtime - sentAt \in Steps
  /\ sent' = Append(sent, curtime - sentAt) /\ sentAt' = curtime
  /\ net' = net \union {[n |-> Len(sent) + 1, at |-> curtime]}
  /\ UNCHANGED <<curtime, incoming, lastReceived, moved, umPaused, netdrop, predict, lastMsec, totalUsed,
                 initialTime, commandMsec, overflow, umKicked, ran, movedMs, accepted, waived, gapRun>>

Pause ==
  /\ ~umKicked /\ curtime = sentAt /\ (waived = {} \/ umPaused)   \* one pause, to bound the model
  /\ umPaused' = ~umPaused
  /\ UNCHANGED <<curtime, sent, sentAt, net, incoming, lastReceived, moved, netdrop, predict, lastMsec,
                 totalUsed, initialTime, commandMsec, overflow, umKicked, ran, movedMs, accepted, waived, gapRun>>

UmNext == TimePasses \/ ClientSends \/ Pause \/ \E p \in net : Receive(p)
UmSpec == UmInit /\ [][UmNext]_umVars

-----------------------------------------------------------------------------
(* No command is run twice or after a later one, though each travels three times. *)
InOrder == \A i, j \in DOMAIN ran : i < j => ran[i] < ran[j]

(* A command is missing only when its packet and the two after it were all lost
   (with sv_max_netdrop 2 or more), or when it came during a pause. *)
NoMoveLost == netdrop >= 2 => \A m \in 1..incoming :
  (\E i \in DOMAIN ran : ran[i] = m) \/ m \in waived \/ {m, m+1, m+2} \intersect accepted = {}

(* "Milliseconds of movement to allow per client per 16 frames": the game never
   moves a client for longer than sv_msecs between two allotments. *)
WithinBudget == movedMs <= Budget

(* The repetition of the last command does not carry a client past the clock. *)
GapIsTheLimit == gapRun => totalUsed <= curtime - initialTime

(* A client that keeps time is not thrown out for a speed cheat, whatever the
   network loses, bunches up or delays up to the limit of the kick. *)
HonestNotKicked == ~umKicked

(* Every move is run once, in order, and no client gains time or is blamed for the network's.      *)
MovesAreFair == InOrder /\ NoMoveLost /\ WithinBudget /\ GapIsTheLimit /\ HonestNotKicked
=============================================================================
