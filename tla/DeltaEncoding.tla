---------------------------- MODULE DeltaEncoding ----------------------------
(***************************************************************************)
(* What a delta is made of: SV_WriteDeltaEntity and                        *)
(* SV_WritePlayerstateToClient of server/sv_ents.c, the user commands of   *)
(* qcommon/common.c, and the MSG functions that put integers into bytes.   *)
(*                                                                         *)
(* A byte has Byte values instead of 256, so a short has Byte^2 and a long *)
(* Byte^4.  Float fields are integers in halves of the unit that goes over *)
(* the wire.  A vector is one component, except where components are       *)
(* treated differently.  The peer knows "from" (module DeltaFrames); it    *)
(* reads the fields in the order in which they are written.                *)
(***************************************************************************)
EXTENDS Integers, Sequences, SequencesExt, FiniteSets

CONSTANTS Byte, Domain      \* Domain[kind][field]: the values the field takes

Short == Byte * Byte
Long == Short * Short
Quant(v) == IF v >= 0 THEN v \div 2 ELSE -((-v) \div 2)     \* (int)(f * unit)

VARIABLES
  kind,     \* "entity", "player" or "usercmd"
  group,    \* the fields this behaviour changes
  from,     \* the state the peer has, as the sender keeps it
  to,       \* the state now
  seen,     \* the state as the peer decoded it
  fresh     \* the last delta was from the baseline (newentity)
vars == <<kind, group, from, to, seen, fresh>>

-----------------------------------------------------------------------------
(* MSG_WriteByte, MSG_WriteShort, MSG_WriteLong: w bytes, the lowest first. *)
Put(w, v) == [i \in 1..w |-> ((v % Long) \div Byte^(i - 1)) % Byte]

(* MSG_ReadByte is unsigned; MSG_ReadChar, MSG_ReadShort and MSG_ReadLong  *)
(* are signed.  Past the end of the message each gives -1.                 *)
Get(msg, pos, w, signed) ==
  LET n == (IF w >= 1 THEN msg[pos] ELSE 0) + (IF w >= 2 THEN msg[pos + 1] * Byte ELSE 0)
             + (IF w = 4 THEN msg[pos + 2] * Short + msg[pos + 3] * Short * Byte ELSE 0)
  IN IF pos + w - 1 > Len(msg) THEN -1
     ELSE IF signed /\ 2 * n >= Byte^w THEN n - Byte^w ELSE n

-----------------------------------------------------------------------------
(* The fields of an entity in the order of SV_WriteDeltaEntity. *)
EntityOrder == <<"model", "num_parts", "parts", "part3", "frame", "skin", "effects", "renderfx", "renderfx2",
                 "origin", "angle", "old_origin", "sound", "event", "solid", "scale">>
PlayerOrder == <<"pm_type", "pm_origin", "pm_origin2", "pm_flags", "viewoffset", "viewangles", "viewangle2",
                 "kick", "gunindex", "parts", "gunframe", "gunoffset", "blend", "fov", "stat">>
UsercmdOrder == <<"angle", "forward", "buttons", "impulse", "msec">>
Order == CASE kind = "entity" -> EntityOrder [] kind = "player" -> PlayerOrder [] OTHER -> UsercmdOrder
Fields(k) == CASE k = "entity" -> Range(EntityOrder) [] k = "player" -> Range(PlayerOrder)
               [] OTHER -> Range(UsercmdOrder)

Beam == 1           \* RF_BEAM in renderfx
Custom == Byte - 1  \* modelindex 255: a player's own model

(* The width by which SV_WriteDeltaEntity sends a value: one, two or both  *)
(* of the bits U_x8 and U_x16.                                             *)
MutWidthOf(f, v) == IF v < Byte THEN 1 ELSE IF v < Short THEN 2 ELSE 4
WidthOf(f, v) ==
  IF v < Byte THEN 1
  ELSE IF f \in {"frame", "sound"} \/ (f = "skin" /\ v < Short) \/ (f # "skin" /\ v < Short \div 2) THEN 2 ELSE 4

(* Float_ByteCompare and Float_AngleCompare: only what changes on the wire *)
(* is worth a bit.                                                         *)
Changed(f, a, b) ==
  CASE f = "origin" -> Quant(a[f]) # Quant(b[f])
    [] f = "angle" /\ kind = "entity" -> Quant(a[f]) % Byte # Quant(b[f]) % Byte
    [] OTHER -> a[f] # b[f]

(* The fields of an entity that are sent, and in how many bytes. *)
EntityWidth(f, a, b, new) ==
  LET parts == b.model # Custom
      rfx == IF b.renderfx2 > b.renderfx THEN b.renderfx2 ELSE b.renderfx
  IN CASE f \in {"num_parts", "parts"} -> IF parts /\ Changed(f, a, b) THEN 1 ELSE 0
       [] f = "part3" -> IF ~parts /\ Changed(f, a, b) THEN 1 ELSE 0
       [] f \in {"frame", "skin", "effects", "sound"} -> IF Changed(f, a, b) THEN WidthOf(f, b[f]) ELSE 0
       [] f \in {"renderfx", "renderfx2"} ->
            IF Changed("renderfx", a, b) \/ Changed("renderfx2", a, b) THEN WidthOf(f, rfx) ELSE 0
       [] f = "old_origin" ->
            IF b.renderfx % 2 = Beam \/ (new /\ Quant(a[f]) # Quant(b[f])) THEN 2 ELSE 0
       [] f = "event" -> IF b[f] # 0 THEN 1 ELSE 0
       [] f \in {"origin", "solid"} -> IF Changed(f, a, b) THEN 2 ELSE 0
       [] OTHER -> IF Changed(f, a, b) THEN 1 ELSE 0

-----------------------------------------------------------------------------
(* Vec_RangeCap and the blend cap: what is written as a char or a byte is  *)
(* brought into its range first.                                           *)
Cap(p) ==
  LET low == -Byte  high == Byte - 1    \* -32 and 31.75 in halves of a quarter
      Into(v) == IF v > high THEN high ELSE IF v < low THEN low ELSE v
  IN IF kind # "player" THEN p
     ELSE [p EXCEPT !.kick = Into(@), !.gunoffset = Into(@),
                    !.blend = IF @ > 2 * (Byte - 1) THEN 2 * (Byte - 1) ELSE @]

(* EPS_GUNOFFSET goes with PS_WEAPONFRAME, whether the offset changed or   *)
(* not.                                                                    *)
GunSent(a, b) == a.gunframe # b.gunframe

(* The player fields that are sent: the flags of                           *)
(* SV_WritePlayerstateToClient.  Two halves of a vector go together.       *)
PlayerWidth(f, a, b) ==
  LET Moved(x) == a[x] # b[x]
      Turned(x) == Quant(a[x]) # Quant(b[x])
  IN CASE f \in {"pm_origin", "pm_origin2"} -> IF Moved("pm_origin") \/ Moved("pm_origin2") THEN 2 ELSE 0
       [] f \in {"viewangles", "viewangle2"} -> IF Turned("viewangles") \/ Turned("viewangle2") THEN 2 ELSE 0
       [] f = "viewoffset" -> IF Moved(f) THEN 1 ELSE 0
       [] f \in {"kick", "blend", "fov"} -> IF Turned(f) THEN 1 ELSE 0
       [] f \in {"gunindex", "parts"} -> IF Moved("gunindex") \/ Moved("parts") THEN 1 ELSE 0
       [] f = "gunoffset" -> IF GunSent(a, b) THEN 1 ELSE 0
       [] f = "stat" -> IF Moved(f) THEN 2 ELSE 0
       [] OTHER -> IF Moved(f) THEN 1 ELSE 0

(* MSG_WriteDeltaUsercmd: msec is always sent. *)
UsercmdWidth(f, a, b) ==
  CASE f = "msec" -> 1
    [] f \in {"angle", "forward"} -> IF a[f] # b[f] THEN 2 ELSE 0
    [] OTHER -> IF a[f] # b[f] THEN 1 ELSE 0

Width(f, a, b, new) ==
  CASE kind = "entity" -> EntityWidth(f, a, b, new)
    [] kind = "player" -> PlayerWidth(f, a, b)
    [] OTHER -> UsercmdWidth(f, a, b)

(* What is written for a value: coordinates, angles and the like are       *)
(* converted, integers are not.                                            *)
Scaled(f, v) ==
  IF kind = "usercmd" THEN v
  ELSE IF f \in {"origin", "angle", "old_origin", "viewangles", "viewangle2", "viewoffset", "kick", "gunoffset", "blend", "fov"}
       THEN Quant(v) ELSE v

Signed(f, w) == w > 1 \/ f \in {"viewoffset", "kick", "gunoffset"}

Write(a, b, new) ==
  LET w(f) == Width(f, a, b, new)
  IN FlattenSeq([i \in 1..Len(Order) |-> Put(w(Order[i]), Scaled(Order[i], b[Order[i]]))])

(* The peer: fields that are not in the message keep their value, except   *)
(* that an event lasts one frame.                                          *)
Read(old, widths, msg) ==
  LET Field(s, f) ==
        LET w == widths[f]
            v == IF w > 0 THEN Get(msg, s.pos, w, Signed(f, w))
                 ELSE IF f = "event" THEN 0 ELSE old[f]
        IN [pos |-> s.pos + w, state |-> [s.state EXCEPT ![f] = v]]
  IN FoldLeft(Field, [pos |-> 1, state |-> old], Order).state

-----------------------------------------------------------------------------
Zero(k) == [f \in Fields(k) |-> 0]

Groups ==
  [entity |-> {{"origin"}, {"angle"}, {"frame", "event"}, {"skin"}, {"effects"}, {"renderfx", "renderfx2", "old_origin"},
               {"model", "num_parts", "part3"}, {"model", "parts"}, {"sound", "solid"}, {"scale", "origin"}},
   player |-> {{"pm_type", "pm_flags"}, {"pm_origin", "pm_origin2"}, {"viewangles", "viewangle2"}, {"viewoffset", "fov"}, {"kick"},
               {"gunindex", "parts"}, {"gunframe", "gunoffset"}, {"blend", "stat"}},
   usercmd |-> {{"angle", "msec"}, {"forward", "buttons"}, {"impulse", "msec"}}]

DeInit ==
  /\ kind \in DOMAIN Groups
  /\ group \in Groups[kind]
  /\ from = Zero(kind) /\ to = Zero(kind) /\ seen = Zero(kind)
  /\ fresh = FALSE

(* The game, or the player, changes a field. *)
Change(f, v) ==
  /\ to[f] # v
  /\ to' = [to EXCEPT ![f] = v]
  /\ UNCHANGED <<kind, group, from, seen, fresh>>

(* One delta, read by the peer.  "new" is a delta from a baseline both     *)
(* have, here the null state.  The capped state is the next "from".        *)
Send(new) ==
  LET a == IF new THEN Zero(kind) ELSE from
      b == Cap(to)
      msg == Write(a, b, new)
      r == Read(IF new THEN Zero(kind) ELSE seen, [f \in Fields(kind) |-> Width(f, a, b, new)], msg)
  IN /\ seen' = r
     /\ from' = b /\ to' = b
     /\ fresh' = new
     /\ UNCHANGED <<kind, group>>

DeNext ==
  \/ \E f \in group : \E v \in Domain[kind][f] : Change(f, v)
  \/ Send(FALSE)
  \/ kind = "entity" /\ Send(TRUE)

DeSpec == DeInit /\ [][DeNext]_vars

-----------------------------------------------------------------------------
(* Fields hold integers the wire can carry. *)
DeTypeOK ==
  /\ kind \in DOMAIN Groups
  /\ \A f \in Fields(kind) : to[f] \in -Long..Long /\ seen[f] \in -Long..Long

(* The fields whose value the peer always knows: not the old origin, which *)
(* is sent for new entities and beams only, not the gun's offset, which is *)
(* sent with its frame, and not the parts of a player's own model.         *)
Tracked ==
  CASE kind = "entity" -> Fields(kind) \ ({"old_origin"} \union
                            IF "model" \in group THEN {"num_parts", "parts", "part3"} ELSE {})
    [] kind = "player" -> Fields(kind) \ {"gunoffset"}
    [] OTHER -> Fields(kind)

(* Delta after delta the peer's state is the sender's, rounded to what the *)
(* wire can carry: a field that is not sent did not change there, and a    *)
(* width that is chosen by value loses nothing, signed or not.             *)
PeerAgrees ==
  \A f \in Tracked :
    IF f = "angle" /\ kind = "entity" THEN seen[f] % Byte = Quant(from[f]) % Byte
    ELSE IF f = "skin" THEN seen[f] % Short = from[f] % Short
    ELSE seen[f] = Scaled(f, from[f])

(* What is sent only at times is right when it is sent: the origin of a    *)
(* beam and of a new entity, and the gun with its frame.                   *)
SentWhenNeeded ==
  [][/\ kind = "entity" /\ fresh' => seen'["old_origin"] = Quant(from'["old_origin"])
     /\ kind = "entity" /\ (from'["renderfx"] % 2 = Beam) /\ seen' # seen => seen'["old_origin"] = Quant(from'["old_origin"])
     /\ kind = "player" /\ from'["gunframe"] # from["gunframe"] => seen'["gunoffset"] = Quant(from'["gunoffset"])]_vars

(* What the peer makes of deltas is what was meant, field by field (sv_ents.c:44-1340).             *)
DeltasAreRead == [](DeTypeOK /\ PeerAgrees) /\ SentWhenNeeded
=============================================================================
