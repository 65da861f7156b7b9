---------------------------- MODULE DeltaFrames ----------------------------
(***************************************************************************)
(* Delta-compressed frames of server/sv_ents.c for one client.  A frame is *)
(* a list of entity states, stored in a ring that all clients share, and   *)
(* is sent as the difference to a frame the client acknowledged.  What is  *)
(* visible in a frame is a choice: visibility is geometry.  The state of   *)
(* an entity is one value, sent if it differs.  Sizes are counted in       *)
(* updates.  Frames and moves travel in order or are lost, which is what   *)
(* Netchan shows of the channel.                                           *)
(***************************************************************************)
EXTENDS Integers, Sequences, FiniteSets

CONSTANTS
  MaxClients,   \* maxclients: entities up to this number are players
  NumEdicts,    \* ge->num_edicts - 1
  Views,        \* what may be seen: records of the visible entities (numbers
                \* to states), those to take out again, and the room in the
                \* message (msg.maxsize, in updates)
  Backup,       \* UPDATE_BACKUP
  PerFrame,     \* 64 of svs.num_client_entities
  FrameLimit,   \* 128, entities in a frame
  Others,       \* clients beside the one followed
  OtherSizes,   \* what they may put in the ring together in a frame
  MaxFrames, MaxLevels, MaxDemos, \* bounds: frames, level changes, demos
  MaxWire       \* bound: frames under way

ASSUME FrameSizes ==
  /\ MaxClients \in Nat \ {0} /\ NumEdicts \in Nat /\ Backup \in Nat /\ Backup > 2
  /\ PerFrame \in Nat \ {0} /\ FrameLimit \in Nat \ {0} /\ Others \in Nat
  /\ OtherSizes \subseteq 0 .. Others * FrameLimit /\ MaxFrames \in Nat /\ MaxLevels \in Nat /\ MaxDemos \in Nat /\ MaxWire \in Nat
  /\ \A v \in Views : DOMAIN v.seen \subseteq 1 .. NumEdicts /\ v.room \in Nat
                      /\ \A n \in DOMAIN v.seen : v.seen[n] \in 0 .. 9

VARIABLES
  framenum,      \* sv.framenum
  ring,          \* svs.client_entities
  next,          \* svs.next_client_entities
  server,        \* the client_t: state, frames, lastframe, demofile, demostart
  client,        \* the client's own frames and the last one it parsed
  wire,          \* frames under way, oldest first
  count          \* frames, levels and demos so far, for the bounds
vars == <<framenum, ring, next, server, client, wire, count>>

(* Mutant: room for one frame of every client. *)
MutRingSize == (1 + Others) * PerFrame
RingSize == (1 + Others) * Backup * PerFrame
Entry(n, s) == [number |-> n, state |-> s]
Nothing == Entry(0, 0)
Foreign == Entry(NumEdicts + 1, 0)   \* an entity of another client's frame
NoFrame == [num |-> -1, ents |-> {}, meant |-> {}]

Init ==
  /\ framenum = 1
  /\ ring = [i \in 0 .. RingSize - 1 |-> Nothing]
  /\ next = 0
  /\ server = [state |-> "cs_spawned", lastframe |-> 0,
               frames |-> [k \in 0 .. Backup - 1 |-> [first |-> 0, num |-> 0]],
               demo |-> FALSE, demostart |-> MaxFrames + 2,
               first |-> MaxFrames + 2,  \* history: first frame in the demo
               broken |-> FALSE]         \* history: a base was not in the demo
  /\ client = [frames |-> [k \in 0 .. Backup - 1 |-> NoFrame], cur |-> -1, valid |-> TRUE]
  /\ wire = <<>> /\ count = [frames |-> 0, levels |-> 0, demos |-> 0]

----------------------------------------------------------------------------
(* Building and writing a frame.                                           *)

Slot(i) == i % RingSize

(* The list of a frame, as the ring has it now; removed entities have the  *)
(* number 0.                                                               *)
Stored(r, f) == [i \in 1 .. f.num |-> r[Slot(f.first + i - 1)]]

Known(list) == {list[i] : i \in {j \in DOMAIN list : list[j].number # 0}}
Numbers(list) == {e.number : e \in Known(list)}

Put(r, first, list) ==
  [k \in DOMAIN r |-> LET i == ((k - first) % RingSize) + 1
                      IN  IF i <= Len(list) THEN list[i] ELSE r[k]]

Rank(S, n) == Cardinality({m \in S : m < n})
First(S, limit) == {n \in S : Rank(S, n) < limit}

(* Entities in the order of their numbers. *)
InOrder(S, snap) ==
  [i \in 1 .. Cardinality(S) |-> LET n == CHOOSE m \in S : Rank(S, m) = i - 1 IN Entry(n, snap[n])]

(* The visible entities, as many as a frame may have. *)
Visible(snap) == First(DOMAIN snap, FrameLimit)

(* SV_BuildClientFrame.  The entities behind an unpatched player may be    *)
(* taken out again: the list is compacted in place and next moves back,    *)
(* but the ring was written further.                                       *)
Build(r, snap, behind) ==
  LET list == InOrder(Visible(snap), snap)
      kept == InOrder(Visible(snap) \ behind, snap)
  IN  [frame |-> [first |-> next, num |-> Len(kept)],
       ring  |-> Put(Put(r, next, list), next, kept)]

(* SV_EmitPacketEntities: of the entities that the base has not, players   *)
(* excepted, only the first `limit` stay.                                  *)
Added(list, base) == {n \in Numbers(list) \ Numbers(base) : n > MaxClients}

LeftOut(list, base, limit) ==
  LET over == Added(list, base) \ First(Added(list, base), limit)
  IN  [i \in DOMAIN list |-> IF list[i].number \in over THEN [list[i] EXCEPT !.number = 0]
                             ELSE list[i]]

(* Updates and removals that turn the base into the list. *)
Delta(list, base) ==
  [update |-> {e \in Known(list) : e \notin Known(base)},
   remove |-> Numbers(base) \ Numbers(list)]
Size(d) == Cardinality(d.update) + Cardinality(d.remove)

LimitAfter(list, base, limit) ==
  IF limit > Cardinality(Added(list, base)) THEN Cardinality(Added(list, base)) ELSE limit

(* The frame is written at most three times: in full, with half of the new *)
(* entities, with none (retryframe).                                       *)
Attempt(list, base, limit) ==
  [list |-> LeftOut(list, base, limit), limit |-> LimitAfter(list, base, limit)]
Fits(t, base, room) == Size(Delta(t.list, base)) <= room

Written(list, base, room) ==
  LET full == Attempt(list, base, NumEdicts + 1)
      half == Attempt(full.list, base, full.limit \div 2)
      none == Attempt(half.list, base, 0)
  IN  IF Fits(full, base, room) \/ full.limit = 0 THEN full
      ELSE IF Fits(half, base, room) \/ half.limit = 0 THEN half
      ELSE none

(* Mutant: an entity that is left out of the message stays in the frame. *)
MutKept(list, out) == list

(* Leaving an entity out also takes it out of the stored frame. *)
Kept(list, out) == out.list

(* "client hasn't gotten a good message through in a long time" *)
TooOld(s) == framenum - s.lastframe >= Backup - 2

(* Mutant: a demo starts with the frame the client has. *)
MutDemoWaits(s) == FALSE
(* "client demo needs to start with a non-delta frame" *)
DemoWaits(s) == s.demo /\ s.lastframe >= 0 /\ s.demostart > s.lastframe

(* SV_WriteFrameToClient: the frame to delta from, -1 for none. *)
BaseOf(s) == IF DemoWaits(s) \/ s.lastframe <= 0 \/ TooOld(s) THEN -1 ELSE s.lastframe

DemoStart(s) ==
  IF DemoWaits(s) /\ s.demostart > framenum THEN framenum ELSE s.demostart

Recorded(s, sent, base) ==
  IF s.demo /\ sent
  THEN [s EXCEPT !.first = IF framenum < @ THEN framenum ELSE @,
                 !.broken = @ \/ (base # -1 /\ base < s.first)]
  ELSE s

(* SV_RunGameFrame and SV_SendClientDatagram: build the frame, write it,   *)
(* send it if it fits; `others` entities are those of the frames of other  *)
(* clients, which only matter for the ring.                                *)
SendFrame(view, others) ==
  /\ server.state = "cs_spawned" /\ count.frames < MaxFrames
  /\ count' = [count EXCEPT !.frames = @ + 1]
  /\ framenum' = framenum + 1
  /\ LET built == Build(ring, view.seen, view.behind)
         base  == BaseOf(server)
         old   == IF base = -1 THEN <<>>
                  ELSE Stored(built.ring, server.frames[base % Backup])
         out   == Written(Stored(built.ring, built.frame), old, view.room)
         sent  == Fits(out, old, view.room)
         s     == [server EXCEPT !.frames[framenum % Backup] = built.frame,
                                 !.demostart = DemoStart(server)]
         own   == Put(built.ring, next, Kept(Stored(built.ring, built.frame), out))
     IN  /\ ring' = Put(own, next + built.frame.num, [i \in 1 .. others |-> Foreign])
         /\ next' = next + built.frame.num + others
         /\ server' = Recorded(s, sent, base)
         /\ wire' = IF ~sent THEN wire
                    ELSE LET w == Append(wire, [num |-> framenum, base |-> base,
                                                delta |-> Delta(out.list, old),
                                                meant |-> Known(out.list)])
                         IN  IF Len(w) > MaxWire THEN Tail(w) ELSE w
  /\ UNCHANGED client

(* A frame while the client loads.  One that its rate leaves out           *)
(* (SV_RateDrop) is to the client as one that was lost.                    *)
RunFrame ==
  /\ server.state = "cs_connected" /\ count.frames < MaxFrames
  /\ count' = [count EXCEPT !.frames = @ + 1]
  /\ framenum' = framenum + 1
  /\ UNCHANGED <<ring, next, server, client, wire>>

----------------------------------------------------------------------------
(* The client: it keeps as many frames, and applies a delta if it has the  *)
(* frame it is from; otherwise it asks for a full one.  Its moves may be lost.*)

Applied(ents, d) ==
  {e \in ents : e.number \notin d.remove \cup {u.number : u \in d.update}} \cup d.update

Receive(i) ==
  /\ i \in DOMAIN wire
  /\ LET p   == wire[i]
         old == client.frames[p.base % Backup]
         ok  == p.base = -1 \/ old.num = p.base
         new == [num   |-> IF ok THEN p.num ELSE -1, meant |-> p.meant,
                 ents  |-> Applied(IF p.base = -1 THEN {} ELSE old.ents, p.delta)]
     IN  client' = [frames |-> [client.frames EXCEPT ![p.num % Backup] = new],
                    cur |-> p.num, valid |-> ok]
  /\ wire' = SubSeq(wire, i + 1, Len(wire))
  /\ UNCHANGED <<framenum, ring, next, server, count>>

(* clc_move: before the client spawned nothing it has counts. *)
MoveFrame(s, f) == IF s.state # "cs_spawned" THEN -1 ELSE f

(* The frame that the next move to arrive acknowledges. *)
Acknowledged == IF client.valid THEN client.cur ELSE -1

ReadMove ==
  /\ server' = [server EXCEPT !.lastframe = MoveFrame(server, Acknowledged)]
  /\ UNCHANGED <<framenum, ring, next, client, wire, count>>

----------------------------------------------------------------------------
(* Levels and demos.                                                       *)

(* SV_SpawnServer: frame numbers start over; the frames of the last level  *)
(* stay where they are.                                                    *)
SpawnServer ==
  /\ count.levels < MaxLevels /\ server.state = "cs_spawned"
  /\ count' = [count EXCEPT !.levels = @ + 1]
  /\ framenum' = 1
  /\ server' = [server EXCEPT !.state = "cs_connected", !.lastframe = -1]
  /\ UNCHANGED <<ring, next, client, wire>>

(* The client has loaded the level; what it sent and was sent before came  *)
(* earlier on the channel.  A demo gets the server data of the level.      *)
Begin ==
  /\ server.state = "cs_connected"
  /\ server' = [server EXCEPT !.state = "cs_spawned", !.first = MaxFrames + 2]
  /\ client' = [frames |-> [k \in 0 .. Backup - 1 |-> NoFrame], cur |-> -1, valid |-> TRUE]
  /\ wire' = <<>>
  /\ UNCHANGED <<framenum, ring, next, count>>

ClientRecord ==
  /\ ~server.demo /\ count.demos < MaxDemos
  /\ count' = [count EXCEPT !.demos = @ + 1]
  /\ server' = [server EXCEPT !.demo = TRUE, !.demostart = MaxFrames + 2,
                              !.first = MaxFrames + 2]
  /\ UNCHANGED <<framenum, ring, next, client, wire>>

ClientStop ==
  /\ server.demo
  /\ server' = [server EXCEPT !.demo = FALSE]
  /\ UNCHANGED <<framenum, ring, next, client, wire, count>>

----------------------------------------------------------------------------
Next ==
  \/ \E v \in Views, n \in OtherSizes : SendFrame(v, n)
  \/ RunFrame
  \/ \E i \in 1 .. MaxWire : Receive(i)
  \/ ReadMove
  \/ SpawnServer \/ Begin
  \/ ClientRecord \/ ClientStop

Spec == Init /\ [][Next]_vars

----------------------------------------------------------------------------
Entries == [number : 0 .. NumEdicts + 1, state : 0 .. 9]

TypeOK ==
  /\ framenum \in 1 .. MaxFrames + 1
  /\ \A k \in 0 .. RingSize - 1 : ring[k] \in Entries
  /\ server.state \in {"cs_connected", "cs_spawned"}
  /\ server.lastframe \in -1 .. MaxFrames
  /\ server.demostart \in 1 .. MaxFrames + 2
  /\ \A k \in 0 .. Backup - 1 : server.frames[k].num \in 0 .. FrameLimit
  /\ Len(wire) <= MaxWire

(* What the client has of a frame is what the server put in it, entities   *)
(* that were left out of a reduced frame excepted: after any losses, late  *)
(* acks, reductions and level changes (sv_ents.c:511-641, 1344-1470).      *)
FramesAgree ==
  \A k \in 0 .. Backup - 1 : client.frames[k].ents = client.frames[k].meant

(* "we have a valid message to delta from" (sv_ents.c:1388): the ring      *)
(* still holds the frame that the client acknowledged and that is not too  *)
(* old, just as the client has it.                                         *)
BaseIsKept ==
  LET base == server.lastframe
      has  == client.frames[base % Backup]
  IN  server.state = "cs_spawned" /\ base > 0 /\ ~TooOld(server) /\ has.num = base
        => Known(Stored(ring, server.frames[base % Backup])) = has.ents

(* A client that keeps as many frames as the server never gets a delta     *)
(* from a frame it has given up (sv_ents.c:1381).                          *)
DeltaIsUsable == client.valid

(* Server and client have the same frame under the same number, as long as the one may send a      *)
(* delta from it and the other may get one (sv_ents.c:1368-1388).                                  *)
BasesAreUsable == TypeOK /\ BaseIsKept /\ DeltaIsUsable

(* "client demo needs to start with a non-delta frame" (sv_ents.c:1368):   *)
(* every delta in a demo is from a frame that is in it too, whatever was   *)
(* acknowledged before it began.                                           *)
DemoIsComplete == ~server.broken
=============================================================================
