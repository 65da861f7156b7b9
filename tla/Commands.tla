------------------------------ MODULE Commands ------------------------------
(***************************************************************************)
(* The commands of one client, in the order the server looks at them: the  *)
(* operator's bans, the use key whose presses and releases arrive as       *)
(* commands and reach the game as a bit of the moves, level changes under  *)
(* way, and the text the server stuffs to those who come in. The client is *)
(* external: it sends what is pressed and released on a reliable channel,  *)
(* any number of commands in one packet.                                   *)
(***************************************************************************)
EXTENDS Integers, Sequences, FiniteSets, SequencesExt

CONSTANTS InfoKeys,            \* numbers of the keys that are bound to +activate
          MaxStringCmds,   \* MAX_STRINGCMDS: from this one on the commands of a packet are ignored
          Stuffable, Space,   \* commands an operator stuffs, as sequences of letters; size of the text
          MaxInPacket, MaxPackets, MaxListEdits
ASSUME CmAssumption ==
  /\ InfoKeys \subseteq Nat \ {0} /\ MaxStringCmds \in Nat \ {0, 1} /\ Space \in Nat \ {0}
  /\ \A s \in Stuffable : s \in Seq(Nat \ {0})       \* no command holds what ends one
  /\ MaxInPacket \in Nat /\ MaxPackets \in Nat /\ MaxListEdits \in Nat

Console == -1              \* a command typed at the console names no key
Nl == 0                    \* what ends a command of the stuffed text

VARIABLES down, packets,   \* what is held at the client; the packets on their way
          sv,              \* the slot: [state, keys, held, pressed, owed, missed]
          bannedcommands,  \* sequence of [name, kickmethod]
          stuffString,     \* svBeginStuffString, the commands with Nl after each
          listEdits
cmVars == <<down, packets, sv, bannedcommands, stuffString, listEdits>>

CmInit ==
  /\ down = {} /\ packets = <<>> /\ bannedcommands = <<>>
  /\ stuffString = <<>> /\ listEdits = 0
  /\ sv = [state |-> "connected", keys |-> <<0, 0>>, held |-> FALSE, pressed |-> FALSE,
           owed |-> FALSE,      \* ghost: a press that no move of the game has had
           missed |-> FALSE]    \* ghost: a press or release that was banned, or over the limit

-----------------------------------------------------------------------------
(* SV_ActivateDown, SV_ActivateUp *)
ActivateDown(s, k) ==
  IF k \in {s.keys[1], s.keys[2]} \/ (s.keys[1] # 0 /\ s.keys[2] # 0) THEN s
  ELSE [s EXCEPT !.keys = IF s.keys[1] = 0 THEN <<k, s.keys[2]>> ELSE <<s.keys[1], k>>,
                 !.held = TRUE, !.pressed = TRUE, !.owed = TRUE]

ActivateUp(s, k) ==
  IF k = Console THEN [s EXCEPT !.keys = <<0, 0>>, !.held = FALSE]
  ELSE IF k \notin {s.keys[1], s.keys[2]} THEN s
  ELSE LET left == IF s.keys[1] = k THEN <<0, s.keys[2]>> ELSE <<s.keys[1], 0>>
       IN [s EXCEPT !.keys = left, !.held = @ /\ left # <<0, 0>>]

(* SV_ExecuteUserCommand, for a command of the game or of the use key: what is
   banned goes no further; the key is followed while the client is not spawned. *)
BanOf(name) == {i \in 1..Len(bannedcommands) : bannedcommands[i].name = name}
Follow(s, c) == CASE c.name = "+activate" -> ActivateDown(s, c.key)
                  [] c.name = "-activate" -> ActivateUp(s, c.key)
                  [] OTHER -> s
ExecuteUserCommand(s, c) ==
  IF BanOf(c.name) # {}
  THEN [s EXCEPT !.missed = TRUE,
                 !.state = IF \E i \in BanOf(c.name) : bannedcommands[i].kickmethod = "kick" THEN "zombie" ELSE @]
  ELSE Follow(s, c)

(* SV_ExecuteClientMessage, clc_stringcmd: the rest of a packet is not read once the
   client is gone, and commands over the limit are thrown away. *)
ReadCommand(s, c, i) ==
  IF s.state = "zombie" THEN s
  ELSE IF i >= MaxStringCmds THEN [s EXCEPT !.missed = TRUE] ELSE ExecuteUserCommand(s, c)
ReadPacket(s, p) ==
  LET after[i \in 0..Len(p)] == IF i = 0 THEN s ELSE ReadCommand(after[i-1], p[i], i) IN after[Len(p)]
ServerReads ==
  /\ packets # <<>> /\ sv.state # "zombie" /\ packets' = Tail(packets)
  /\ sv' = ReadPacket(sv, Head(packets))
  /\ UNCHANGED <<down, bannedcommands, stuffString, listEdits>>

(* SV_ClientThink: a move that is out of time is not run, and the press is kept for the next. *)
ClientThink ==
  /\ sv.state = "spawned" /\ (sv.held \/ sv.pressed)
  /\ \E late \in BOOLEAN : sv' = IF late THEN sv ELSE [sv EXCEPT !.pressed = FALSE, !.owed = FALSE]
  /\ UNCHANGED <<down, packets, bannedcommands, stuffString, listEdits>>

(* SV_Map, SV_Begin_f and a new connection, which clears the slot. *)
Level ==
  /\ sv' = CASE sv.state = "spawned" -> [sv EXCEPT !.state = "connected"]
             [] sv.state = "connected" -> [sv EXCEPT !.state = "spawned"]
             [] sv.state = "zombie" -> [state |-> "connected", keys |-> <<0, 0>>, held |-> FALSE,
                                        pressed |-> FALSE, owed |-> FALSE, missed |-> FALSE]
  /\ IF sv.state = "zombie" THEN down' = {} /\ packets' = <<>> ELSE UNCHANGED <<down, packets>>
  /\ UNCHANGED <<bannedcommands, stuffString, listEdits>>

-----------------------------------------------------------------------------
(* The client: two keys at most at a time, the console only with no key down; what it
   does while its channel waits for an acknowledgement goes out in one packet. *)
Touch(d, k) == IF k \in d THEN d \ {k} ELSE d \union {k}
Presses ==
  /\ Len(packets) < MaxPackets
  /\ \E p \in SeqOf(InfoKeys \union {Console}, MaxInPacket) \ {<<>>} :
       LET downs[i \in 0..Len(p)] == IF i = 0 THEN down ELSE Touch(downs[i-1], p[i])
           cmd(i) == [name |-> IF p[i] \in downs[i-1] THEN "-activate" ELSE "+activate", key |-> p[i]]
       IN /\ \A i \in 1..Len(p) : Cardinality(downs[i]) <= 2 /\ (p[i] = Console => downs[i-1] \subseteq {Console})
          /\ down' = downs[Len(p)] /\ packets' = Append(packets, [i \in 1..Len(p) |-> cmd(i)])
  /\ UNCHANGED <<sv, bannedcommands, stuffString, listEdits>>

-----------------------------------------------------------------------------
(* SV_AddCommandBan_f, SV_DelCommandBan_f *)
AddCommandBan(name, method) ==
  BanOf(name) = {} /\ bannedcommands' = Append(bannedcommands, [name |-> name, kickmethod |-> method])
DelCommandBan(name) ==
  BanOf(name) # {} /\ bannedcommands' = RemoveAt(bannedcommands, CHOOSE i \in BanOf(name) : \A j \in BanOf(name) : i <= j)

(* SV_AddStuffCmd_f: a command whose first occurrence in the text ends a line is a duplicate. *)
Places(text, s) == {i \in 1..(Len(text) - Len(s) + 1) : SubSeq(text, i, i + Len(s) - 1) = s}
Lowest(S) == CHOOSE i \in S : \A j \in S : i <= j
AddStuffCmd(s) ==
  LET at == Places(stuffString, s) IN
  /\ ~(at # {} /\ stuffString[Lowest(at) + Len(s)] = Nl)
  /\ Len(stuffString) + Len(s) + 2 < Space
  /\ stuffString' = stuffString \o s \o <<Nl>>

(* SV_DelStuffCmd_f: the lines are counted from 0. *)
Ends == {i \in 1..Len(stuffString) : stuffString[i] = Nl}
EndOf(n) == IF n < 0 THEN 0 ELSE CHOOSE e \in Ends : Cardinality({f \in Ends : f < e}) = n
MutDelStuffCmd(index) ==   \* the end of the line stays
  /\ index < Cardinality(Ends)
  /\ stuffString' = SubSeq(stuffString, 1, EndOf(index - 1)) \o SubSeq(stuffString, EndOf(index), Len(stuffString))
DelStuffCmd(index) ==
  /\ index < Cardinality(Ends)
  /\ stuffString' = SubSeq(stuffString, 1, EndOf(index - 1)) \o SubSeq(stuffString, EndOf(index) + 1, Len(stuffString))

Operator ==
  /\ listEdits < MaxListEdits /\ listEdits' = listEdits + 1 /\ UNCHANGED <<down, packets, sv>>
  /\ \/ /\ \E name \in {"+activate", "say"}, m \in {"silent", "kick"} : AddCommandBan(name, m) \/ DelCommandBan(name)
        /\ UNCHANGED <<stuffString>>
     \/ /\ (\E s \in Stuffable : AddStuffCmd(s)) \/ (\E i \in 0..(MaxListEdits - 1) : DelStuffCmd(i))
        /\ UNCHANGED <<bannedcommands>>

CmNext == ServerReads \/ ClientThink \/ Level \/ Presses \/ Operator
CmSpec == CmInit /\ [][CmNext]_cmVars

-----------------------------------------------------------------------------
(* Once the commands of a client have arrived the use key is held in the game exactly if
   one is held at the client, through level changes and with two keys bound to it. *)
HeldWhileDown == packets = <<>> /\ ~sv.missed /\ sv.state # "zombie" => (sv.held <=> down # {})

(* A press, however short, reaches the game with a move that runs: the bit stays until then. *)
PressIsSeen == sv.owed => sv.pressed

(* The stuffed text is always whole commands, each one that was added, and fits. *)
StuffIsWhole ==
  /\ Len(stuffString) < Space /\ Cardinality(Ends) <= MaxListEdits
  /\ \A n \in 0..(Cardinality(Ends) - 1) : SubSeq(stuffString, EndOf(n - 1) + 1, EndOf(n) - 1) \in Stuffable
  /\ (stuffString # <<>> => Last(stuffString) = Nl)

(* What the commands of clients and operator come to: the use key, and the stuffed text.            *)
CommandsAreKept == HeldWhileDown /\ PressIsSeen /\ StuffIsWhole
=============================================================================
