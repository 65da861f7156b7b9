----------------------------- MODULE UserChecks -----------------------------
(***************************************************************************)
(* What the server makes of what clients say about themselves: the         *)
(* operator's checks of userinfo keys and of console variables, with the   *)
(* commands that edit the lists while answers are under way, and the names,*)
(* which are kept apart. A value is 0 for an empty one, a number, or Word  *)
(* for a text that is no number; a name is a sequence of letters, and the  *)
(* number that tells two of the same apart is a letter too.                *)
(***************************************************************************)
EXTENDS Integers, Sequences, FiniteSets, SequencesExt

CONSTANTS Clients, UserinfoKeys,   \* the userinfo keys, and the names of variables
          Values, Word, Methods, Ops, Names,
          Stem,            \* letters of a name that are left before a number: 13, 11 in Kingpin
          MaxChecks, MaxEdits
ASSUME UcAssumption ==
  /\ 0 \in Values /\ Word \in Values /\ Stem \in Nat \ {0} /\ \A n \in Names : n \in Seq(Nat)
  /\ IsFiniteSet(Clients) /\ IsFiniteSet(UserinfoKeys)

VARIABLES userinfobans, cvarbans,   \* sequences of [var, match]; match of [op, not, value, method]
          live, name,               \* cl->state > cs_zombie, cl->name
          asked,                    \* the variables a client was asked for, in order
          edits
ucVars == <<userinfobans, cvarbans, live, name, asked, edits>>

UcInit ==
  /\ userinfobans = <<>> /\ cvarbans = <<>> /\ edits = 0
  /\ live = {} /\ name = [c \in Clients |-> <<>>] /\ asked = [c \in Clients |-> <<>>]

First(S) == CHOOSE i \in S : \A j \in S : i <= j
Infos == [UserinfoKeys -> Values]
KeyOrder == CHOOSE s \in [1..Cardinality(UserinfoKeys) -> UserinfoKeys] : ToSet(s) = UserinfoKeys

-----------------------------------------------------------------------------
(* VarBanMatch. What compares numbers matches no text, negated or not. *)
Numeric(v) == v # Word
Holds(m, v) ==
  CASE m.op = "any" -> (v # 0) # m.not
    [] m.op = "greater" -> Numeric(v) /\ Numeric(m.value) /\ ((v > m.value) # m.not)
    [] m.op = "is" -> (v = m.value) # m.not
VarBanMatch(bans, var, v) ==
  LET b == {i \in 1..Len(bans) : bans[i].var = var}
      hit == IF b = {} THEN {} ELSE {i \in 1..Len(bans[First(b)].match) : Holds(bans[First(b)].match[i], v)}
  IN IF hit = {} THEN <<>> ELSE <<bans[First(b)].match[First(hit)]>>

(* AddVarBan, DeleteVarBan. A check with the same condition and method is not added twice. *)
AddVarBan(bans, var, m) ==
  LET at == {i \in 1..Len(bans) : bans[i].var = var}
  IN IF at = {} THEN Append(bans, [var |-> var, match |-> <<m>>])
     ELSE IF m \in ToSet(bans[First(at)].match) THEN bans
     ELSE [bans EXCEPT ![First(at)].match = Append(@, m)]
DeleteVarBan(bans, var) ==
  LET at == {i \in 1..Len(bans) : bans[i].var = var} IN IF at = {} THEN bans ELSE RemoveAt(bans, First(at))

(* SV_CheckUserinfoBans: the first key after `key` with a match; all keys if it is empty. *)
CheckUserinfoBans(info, key) ==
  LET from == IF key = <<>> THEN 1 ELSE 1 + First({i \in 1..Len(KeyOrder) : <<KeyOrder[i]>> = key})
      hit == {i \in from..Len(KeyOrder) : VarBanMatch(userinfobans, KeyOrder[i], info[KeyOrder[i]]) # <<>>}
  IN IF hit = {} THEN <<>> ELSE <<KeyOrder[First(hit)]>>

(* SV_UserInfoBanned: on with the next key until one drops the client or none is left. *)
Drops(method) == method \in {"kick", "blackhole"}
UserInfoBanned(info) ==
  LET Loop[n \in 0..(Cardinality(UserinfoKeys) + 1)] ==   \* [key, did, over] after n turns
        IF n = 0 THEN [key |-> <<>>, did |-> <<>>, over |-> FALSE]
        ELSE LET p == Loop[n-1]
                 k == CheckUserinfoBans(info, p.key)
             IN IF p.over \/ k = <<>> THEN [p EXCEPT !.over = TRUE]
                ELSE LET m == VarBanMatch(userinfobans, k[1], info[k[1]])[1]
                     IN [key |-> k, did |-> Append(p.did, m.method), over |-> Drops(m.method)]
  IN Loop[Cardinality(UserinfoKeys) + 1].did

-----------------------------------------------------------------------------
(* SV_NameClash, sv_unique_names set: a client keeps the name it had, a new one gets
   the first number that nobody has. The name is compared up to Stem + 2 letters. *)
Upto(s, n) == SubSeq(s, 1, IF Len(s) < n THEN Len(s) ELSE n)
Others(c) == {d \in live : d # c}
NameClash(c, n) ==
  LET v == Upto(n, Stem + 2) IN
  IF \A d \in Others(c) : name[d] # v THEN n
  ELSE IF name[c] # <<>> THEN name[c]
  ELSE Upto(v, Stem) \o <<CHOOSE k \in 2..(Cardinality(Clients) + 2) :
                             /\ \A d \in Others(c) : name[d] # Upto(v, Stem) \o <<k>>
                             /\ \A j \in 2..(k-1) : \E d \in Others(c) : name[d] = Upto(v, Stem) \o <<j>>>>

(* SVC_DirectConnect: a name is taken when the slot is; the keys are looked at in SV_New_f. *)
Connects(c, n) ==
  /\ c \notin live /\ live' = live \union {c} /\ name' = [name EXCEPT ![c] = NameClash(c, n)]
  /\ asked' = [asked EXCEPT ![c] = <<>>]
  /\ UNCHANGED <<userinfobans, cvarbans, edits>>

Drop(c) == live' = live \ {c} /\ name' = [name EXCEPT ![c] = <<>>] /\ asked' = [asked EXCEPT ![c] = <<>>]

(* SV_UserinfoChanged: an empty name is set back, then the checks, then SV_UpdateUserinfo. *)
UserinfoChanged(c, info, n) ==
  /\ c \in live
  /\ IF \E m \in ToSet(UserInfoBanned(info)) : Drops(m) THEN Drop(c)
     ELSE /\ name' = [name EXCEPT ![c] = NameClash(c, IF n = <<>> THEN @ ELSE n)]
          /\ UNCHANGED <<live, asked>>
  /\ UNCHANGED <<userinfobans, cvarbans, edits>>

(* The same for bytes, pairs or keys a userinfo may not have: the client is kicked. *)
Malformed(c) == c \in live /\ Drop(c) /\ UNCHANGED <<userinfobans, cvarbans, edits>>

Leaves(c) == c \in live /\ Drop(c) /\ UNCHANGED <<userinfobans, cvarbans, edits>>

(* SV_SetPlayer: the first slot with that name, or else with a name it is part of. *)
Slots == CHOOSE s \in [1..Cardinality(Clients) -> Clients] : ToSet(s) = Clients
PartOf(n, m) == \E i \in 0..(Len(m) - Len(n)) : SubSeq(m, i + 1, i + Len(n)) = n
FirstOf(C) == IF C = {} THEN {} ELSE {Slots[First({i \in 1..Len(Slots) : Slots[i] \in C})]}
MutSetPlayer(n) == FirstOf({c \in live : PartOf(n, name[c])})   \* one search for both
SetPlayer(n) ==
  LET exact == {c \in live : name[c] = n}
  IN FirstOf(IF exact # {} THEN exact ELSE {c \in live : PartOf(n, name[c])})

(* SV_Kick_f, SV_Kickban_f *)
Kick(n) == \E c \in SetPlayer(n) : Drop(c) /\ UNCHANGED <<userinfobans, cvarbans, edits>>

(* SV_CheckCvarBans_f, and SV_New_f for one: each variable of the list is asked for. *)
Ask(c) ==
  /\ c \in live /\ asked[c] = <<>> /\ cvarbans # <<>>
  /\ asked' = [asked EXCEPT ![c] = [i \in 1..Len(cvarbans) |-> cvarbans[i].var]]
  /\ UNCHANGED <<userinfobans, cvarbans, live, name, edits>>

(* SV_CvarResult_f, sv_badcvarcheck 1: an answer nobody asked for drops the client. *)
CvarResult(c, v) ==
  /\ c \in live /\ asked[c] # <<>>
  /\ LET var == Head(asked[c])
         m == VarBanMatch(cvarbans, var, v)
         unknown == m = <<>> /\ \A i \in 1..Len(cvarbans) : cvarbans[i].var # var
     IN IF unknown \/ (m # <<>> /\ Drops(m[1].method))
        THEN Drop(c)
        ELSE asked' = [asked EXCEPT ![c] = Tail(@)] /\ UNCHANGED <<live, name>>
  /\ UNCHANGED <<userinfobans, cvarbans, edits>>

(* addcvarcheck, adduserinfocheck and their opposites. *)
Count(bans) == FoldLeft(LAMBDA n, b : n + Len(b.match), 0, bans)
Edit ==
  /\ edits < MaxEdits /\ edits' = edits + 1
  /\ \E var \in UserinfoKeys : \E m \in [op : Ops, not : BOOLEAN, value : Values \ {0}, method : Methods] :
       \/ Count(userinfobans) < MaxChecks /\ userinfobans' = AddVarBan(userinfobans, var, m) /\ UNCHANGED cvarbans
       \/ Count(cvarbans) < MaxChecks /\ cvarbans' = AddVarBan(cvarbans, var, m) /\ UNCHANGED userinfobans
       \/ userinfobans' = DeleteVarBan(userinfobans, var) /\ UNCHANGED cvarbans
       \/ cvarbans' = DeleteVarBan(cvarbans, var) /\ UNCHANGED userinfobans
  /\ UNCHANGED <<live, name, asked>>

UcNext == Edit \/ (\E n \in Names : Kick(n)) \/ \E c \in Clients :
            \/ Leaves(c) \/ Malformed(c) \/ Ask(c) \/ \E v \in Values : CvarResult(c, v)
            \/ \E n \in Names : Connects(c, n)
            \/ \E n \in Names \union {<<>>}, info \in Infos : UserinfoChanged(c, info, n)
UcSpec == UcInit /\ [][UcNext]_ucVars

-----------------------------------------------------------------------------
(* Each key is judged once, by the condition that was added first of those that hold,
   in the order of the userinfo, and nothing is done after a client was dropped. *)
JudgedOnce == userinfobans # <<>> => \A info \in Infos :
  LET verdict(i) == VarBanMatch(userinfobans, KeyOrder[i], info[KeyOrder[i]])
      hits == {i \in 1..Len(KeyOrder) : verdict(i) # <<>>}
      drops == {i \in hits : Drops(verdict(i)[1].method)}
      judged == {i \in hits : \A j \in drops : i <= j}
      did == UserInfoBanned(info)
  IN /\ Len(did) = Cardinality(judged)
     /\ \A i \in judged : did[Cardinality({j \in judged : j <= i})] = verdict(i)[1].method

(* Who kicks a player by the name that is shown kicks that player, also when the name is
   part of that of another one: names are taken and given up all the time. *)
KickHitsNamed == \A c \in live : SetPlayer(name[c]) = {c}

(* The condition that counts is the oldest one: an operator who adds a condition does not
   change what becomes of those whom an earlier one already names. *)
OldestStep == \A var \in UserinfoKeys, v \in Values :
  VarBanMatch(userinfobans, var, v) # <<>> /\ var \in {userinfobans'[i].var : i \in 1..Len(userinfobans')}
  => VarBanMatch(userinfobans', var, v) = VarBanMatch(userinfobans, var, v)
OldestCounts == [][OldestStep]_ucVars

(* No two clients have the same name, whatever the order in which they come, go and
   rename themselves to each other's names, or to names with a number in them. *)
NamesDiffer == \A c, d \in live : c # d => name[c] # name[d]

(* Names tell clients apart, and the operator's checks hit whom they name (sv_main.c:977, 3447). *)
ChecksAreRight == [](NamesDiffer /\ KickHitsNamed /\ JudgedOnce) /\ OldestCounts
=============================================================================
