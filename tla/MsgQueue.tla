------------------------------ MODULE MsgQueue ------------------------------
(***************************************************************************)
(* The message list of one client in server/sv_send.c.  The game and the   *)
(* server queue messages on it with SV_AddMessage; every frame             *)
(* SV_SendClientMessages moves them into the channel of net_chan.c: the    *)
(* reliable ones into netchan.message, the unreliable ones into the        *)
(* datagram beside the entity frame, as far as they fit.                   *)
(*                                                                         *)
(* A message is its type, its text and its size; sizes are small numbers   *)
(* that keep the order of the limits in the code.  The list is the set of  *)
(* its entries, which follow each other in the order of their slots of     *)
(* messageListData, as what is written from it does.  The channel is what  *)
(* Netchan proves of it: packets arrive in order or not at all, so that    *)
(* whether one arrives can be settled when it is sent, and an ack at or    *)
(* past the last transmission of a reliable message tells whether that     *)
(* message was received.  Clients that ask for no data (nodata), recorded  *)
(* client demos and demo servers are left out.                             *)
(***************************************************************************)
EXTENDS Integers, FiniteSets, FiniteSetsExt

CONSTANTS
  Requests,    \* what may be queued: [type, text, size, reliable]
  LocalMax,    \* MSG_MAX_SIZE_BEFORE_MALLOC
  PadSize,     \* the three bytes added to a model skin update
  BuffSize,    \* netchan.message.buffsize
  MaxPayload,  \* what the packet of Netchan_Transmit holds besides its header
  Spare,       \* room below which unreliable messages are not tried (8 bytes)
  MaxList,     \* MAX_MESSAGES_PER_LIST
  FrameSizes,  \* sizes an entity frame can have
  Compress,    \* sv_compress, and a client that understands svc_cpacket
  MaxSequence, \* bound: sequence numbers stay below it
  MaxAdds      \* bound: messages queued

VARIABLE client \* client_t, its netchan_t, and what the client itself knows

Free == "cs_free"
Zombie == "cs_zombie"
Connected == "cs_connected"
Spawning == "cs_spawning"
Spawned == "cs_spawned"

Types == {"print", "stufftext", "sound", "gunshot", "layout", "modelskins",
          "disconnect", "cpacket"}

IsLayout(m) == m.type = "layout"
LayoutTexts == {r.text : r \in {q \in Requests : IsLayout(q)}}

ASSUME MessageSizes ==
  /\ \A n \in {LocalMax, PadSize, BuffSize, MaxPayload, Spare, MaxList} : n \in Nat
  /\ 2 < BuffSize /\ BuffSize <= MaxPayload /\ 3 < MaxList
  /\ FrameSizes \subseteq Nat /\ Compress \in BOOLEAN
(* A message has a byte; compressed packets and disconnects are the server's; *)
(* the text tells a layout from another message; a configstring and its    *)
(* padding, of 70 bytes at most, fit a packet.                             *)
ASSUME MessageRequests ==
  /\ Requests \subseteq [type : Types, text : STRING, size : Nat \ {0}, reliable : BOOLEAN]
  /\ \A q \in Requests : q.text \in LayoutTexts => IsLayout(q)
  /\ {"disconnect", "overflowed"} \cap LayoutTexts = {}
  /\ \A q \in Requests : q.type = "modelskins" => q.size + PadSize <= BuffSize

None == ""          \* layout[0] = 0
Empty == [data |-> {}, size |-> 0, packed |-> FALSE]

Init ==
  client = [state |-> Connected,
            open |-> TRUE,               \* messageListData is allocated
            list |-> {},                 \* what follows msgListStart
            notes |-> {},                \* NOTE_OVERFLOWED, NOTE_OVERFLOW_DONE
            layout |-> None,             \* last layout queued
            layout_unreliable |-> 0,     \* packet an unreliable one went out in
            outgoing_sequence |-> 1,
            incoming_acknowledged |-> 0,
            last_reliable_sequence |-> 0,
            message |-> Empty,           \* netchan.message
            reliable_buf |-> Empty,      \* Empty: reliable_length = 0
            toobig |-> FALSE,            \* Com_Error in Netchan_Transmit
            reliable_got |-> FALSE,      \* the client has reliable_buf
            received |-> {},             \* packets that reached the client
            shown |-> None,              \* layout on the client's screen
            adds |-> 0,
            asked |-> 0,                 \* history: reliable messages queued but for layouts
            took |-> {},                 \* history: reliable messages moved to the channel
            misfreed |-> FALSE]          \* history: free of a local buffer

----------------------------------------------------------------------------
(* The list.                                                               *)

(* SV_DeleteMessage: whether the data was malloced is told from its size. *)
Freed(m) == m.size > LocalMax

DeleteMessages(c, gone) ==
  [c EXCEPT !.list = @ \ gone,
            !.misfreed = @ \/ \E m \in gone : Freed(m) /\ ~m.heap]

ClearMessageList(c) == DeleteMessages(c, c.list)

CloseMessageList(c) == [ClearMessageList(c) EXCEPT !.open = FALSE]

(* msgListEnd - msgListStart *)
EndIndex(c) == Max({0} \cup {m.slot : m \in c.list})

(* The entry that comes first of those in S. *)
First(S) == CHOOSE m \in S : \A n \in S : m.slot <= n.slot

Overflowing(c) == "OVERFLOWED" \in c.notes /\ "OVERFLOW_DONE" \notin c.notes

Overflow(c) == [ClearMessageList(c) EXCEPT !.notes = @ \cup {"OVERFLOWED"}]

DuplicateLayout(c, m) ==
  /\ IsLayout(m) /\ m.text = c.layout
  /\ ~m.reliable \/ c.layout_unreliable = 0

(* A model skin update gets padding for a client that has not spawned. *)
PaddedSize(c, m) ==
  IF c.state # Spawned /\ m.type = "modelskins" THEN m.size + PadSize ELSE m.size

(* Those whose order is followed: the reliable ones, which no other replaces. *)
Counted(m) == m.reliable /\ ~IsLayout(m)

(* The new list entry; an older layout leaves the list for a new one, which *)
(* is then reliable if either was.                                          *)
Entry(c, m, old) ==
  [type |-> m.type, text |-> m.text, size |-> PaddedSize(c, m),
   reliable |-> m.reliable \/ \E o \in old : o.reliable,
   heap |-> m.size > LocalMax, slot |-> EndIndex(c) + 1,
   nr |-> IF Counted(m) THEN c.asked + 1 ELSE 0]  \* nr: history

Linked(c, m) ==
  LET old == {o \in c.list : IsLayout(o) /\ IsLayout(m)}
  IN  [DeleteMessages(c, old) EXCEPT
         !.list = @ \cup {Entry(c, m, old)},
         !.asked = IF Counted(m) THEN @ + 1 ELSE @]

(* The stored layout, by which the next duplicate is recognised. *)
Stored(c, m) ==
  IF ~IsLayout(m) THEN c
  ELSE [c EXCEPT !.layout = m.text,
                 !.layout_unreliable = IF m.reliable THEN 0 ELSE @]

(* SV_AddMessageSingle *)
AddMessageSingle(c, m) ==
  IF c.state \in {Free, Zombie} \/ ~c.open \/ Overflowing(c) THEN c
  ELSE IF DuplicateLayout(c, m) THEN c
  ELSE IF EndIndex(c) + 1 >= MaxList - 1 \/ m.size >= BuffSize
  THEN Overflow(Stored(c, m))
  ELSE Linked(Stored(c, m), m)

----------------------------------------------------------------------------
(* The channel.                                                            *)

Lost(c) == /\ c.reliable_buf # Empty
           /\ c.incoming_acknowledged > c.last_reliable_sequence

(* The layout the client shows after it was sent the messages in sent. *)
LastLayout(shown, sent) ==
  LET layouts == {m \in sent : m.text \in LayoutTexts}
  IN  IF layouts = {} THEN shown
      ELSE (CHOOSE m \in layouts : \A n \in layouts : n.slot <= m.slot).text

(* Netchan_Transmit of a datagram of length size with the messages taken;  *)
(* arrives tells whether the client gets it.                               *)
Transmit(c, size, taken, arrives) ==
  LET fresh == c.reliable_buf = Empty /\ c.message # Empty
      buf   == IF fresh THEN c.message ELSE c.reliable_buf
      send  == fresh \/ Lost(c)
  IN  [c EXCEPT
         !.reliable_buf = buf,
         !.message = IF fresh THEN Empty ELSE @,
         !.last_reliable_sequence = IF send THEN c.outgoing_sequence ELSE @,
         !.outgoing_sequence = @ + 1,
         !.toobig = @ \/ size + (IF send THEN buf.size ELSE 0) > MaxPayload,
         !.reliable_got = IF fresh THEN arrives ELSE @ \/ (send /\ arrives),
         !.received = IF arrives THEN @ \cup {c.outgoing_sequence} ELSE @,
         !.shown = IF ~arrives THEN @
                   ELSE LastLayout(LastLayout(@, IF send THEN buf.data ELSE {}), taken)]

(* What a message adds to the buffer: a print is appended to the print     *)
(* before it without its header.                                           *)
Cost(prev, m) == IF prev = "print" /\ m.type = "print" THEN m.size - 1 ELSE m.size

Reliables(c) == {m \in c.list : m.reliable}

(* The reliable messages are written in order until one does not fit: the  *)
(* size of the writing buffer, what was taken, and the type of the last.   *)
Written(c, buffSize) ==
  LET after[k \in 0 .. MaxList] ==
        IF k = 0 THEN [size |-> c.message.size, taken |-> {}, prev |-> "none"]
        ELSE LET a == after[k-1]
                 next == {m \in Reliables(c) :
                            /\ m.slot = k /\ a.size + m.size <= buffSize
                            /\ \A n \in Reliables(c) : n.slot < k => n \in a.taken}
             IN  IF next = {} THEN a
                 ELSE [size |-> a.size + Cost(a.prev, First(next)),
                       taken |-> a.taken \cup next, prev |-> First(next).type]
  IN  after[MaxList]

(* The end of SV_DropClient, and SV_DropClient (client, false). *)
DropSilently(c) == [CloseMessageList(c) EXCEPT !.state = Zombie]

(* SV_WriteReliableMessages *)
WriteReliableMessages(c, buffSize) ==
  IF c.state = Free \/ ~c.open \/ c.reliable_buf # Empty THEN c
  ELSE LET w == Written(c, buffSize)
       IN  IF w.taken = {}
           THEN IF Reliables(c) # {} /\ c.message = Empty THEN DropSilently(c) ELSE c
           ELSE [DeleteMessages(c, w.taken) EXCEPT
                   !.took = @ \cup {[nr |-> m.nr, text |-> m.text] : m \in w.taken},
                   !.message =
                     [data   |-> @.data \cup {[slot |-> m.slot, text |-> m.text] : m \in w.taken},
                      size   |-> w.size,
                      packed |-> IF @ = Empty THEN First(w.taken).type = "cpacket"
                                 ELSE @.packed]]

Disconnect == [type |-> "disconnect", text |-> "disconnect", size |-> 1, reliable |-> TRUE]
OverflowPrint == [type |-> "print", text |-> "overflowed", size |-> 2, reliable |-> TRUE]

(* SV_DropClient (client, true) *)
DropNotified(c, arrives) ==
  LET queued == WriteReliableMessages(AddMessageSingle(c, Disconnect), BuffSize)
  IN  [Transmit(queued, 0, {}, arrives) EXCEPT !.state = Zombie]

(* SV_CleanClient, and the slot is free. *)
Cleaned(c) == [CloseMessageList(c) EXCEPT !.state = Free]

(* Mutants: the client is marked done after the messages; only a client in *)
(* the game is checked.                                                    *)
MutSpawnedOnly(c, arrives) ==
  IF c.state # Spawned \/ ~Overflowing(c) THEN c
  ELSE DropNotified(AddMessageSingle([c EXCEPT !.notes = @ \cup {"OVERFLOW_DONE"}],
                                     OverflowPrint), arrives)

(* SV_CheckForOverflow *)
CheckForOverflow(c, arrives) ==
  IF c.state \in {Free, Zombie} \/ ~Overflowing(c) THEN c
  ELSE DropNotified(AddMessageSingle([c EXCEPT !.notes = @ \cup {"OVERFLOW_DONE"}],
                                     OverflowPrint), arrives)

----------------------------------------------------------------------------
(* SV_SendClientDatagram                                                   *)

(* Mutants: no room is kept for a retransmission; none for a new message. *)
MutNoRoomAgain(c) ==
  IF c.reliable_buf = Empty /\ Reliables(c) # {}
  THEN BuffSize - First(Reliables(c)).size ELSE BuffSize
MutNoRoomFirst(c) ==
  IF c.reliable_buf # Empty /\ Lost(c) THEN BuffSize - c.reliable_buf.size ELSE BuffSize

(* Room for the unreliable part: what a retransmission, or the first       *)
(* reliable message that waits, leaves of the packet.                      *)
Room(c) ==
  IF c.reliable_buf # Empty
  THEN IF Lost(c) THEN BuffSize - c.reliable_buf.size ELSE BuffSize
  ELSE IF Reliables(c) # {} THEN BuffSize - First(Reliables(c)).size
  ELSE BuffSize

(* The reliable message of the packet is compressed in place. *)
Squeezable(c) ==
  IF c.reliable_buf # Empty THEN Lost(c) /\ ~c.reliable_buf.packed
  ELSE Reliables(c) # {} /\ First(Reliables(c)).type # "cpacket"

ReliableSize(c) ==
  IF c.reliable_buf # Empty THEN c.reliable_buf.size ELSE First(Reliables(c)).size

Squeezed(c, size) ==
  IF c.reliable_buf # Empty
  THEN [c EXCEPT !.reliable_buf = [@ EXCEPT !.size = size, !.packed = TRUE]]
  ELSE LET m == First(Reliables(c))
       IN  [c EXCEPT !.list = (@ \ {m}) \cup {[m EXCEPT !.size = size, !.type = "cpacket"]}]

Unreliables(c) == c.list \ Reliables(c)

(* The datagram under construction: its size, and the messages in it. *)
Datagram(used, taken) == [used |-> used, taken |-> taken]

(* One pass over the list: the messages wanted, if they fit. *)
Pass(g, room, wanted) ==
  LET after[k \in 0 .. MaxList] ==
        IF k = 0 THEN g
        ELSE LET a == after[k-1]
                 next == {m \in wanted \ g.taken : m.slot = k /\ a.used + m.size <= room}
             IN  IF next = {} THEN a
                 ELSE Datagram(a.used + First(next).size, a.taken \cup next)
  IN  IF g.used + Spare >= room THEN g ELSE after[MaxList]

(* Sounds and effects first, except repeated ones dropped at random, then  *)
(* all the rest.                                                           *)
Effects(c, dropped) ==
  {m \in Unreliables(c) : m.type = "sound" \/ (m.type = "gunshot" /\ m \notin dropped)}
Filled(c, g, room, dropped) == Pass(Pass(g, room, Effects(c, dropped)), room, Unreliables(c))

(* Mutant: reliable messages are nuked as well. *)
MutNuked(m) == m.type # "stufftext"

(* What is left of the unreliable messages is nuked, stufftexts apart. *)
Nuked(m) == ~m.reliable /\ m.type # "stufftext"

(* The list after the datagram g was filled from it. *)
Settled(c, g) ==
  LET nuked == {m \in c.list \ g.taken : Nuked(m)}
  IN  [DeleteMessages(c, g.taken \cup nuked) EXCEPT
         !.layout = IF \E m \in nuked : IsLayout(m) THEN None ELSE @,
         !.layout_unreliable = IF \E m \in g.taken : IsLayout(m) THEN c.outgoing_sequence ELSE @]

SumSizes(S) == LET size(m) == m.size IN MapThenSumSet(size, S)

(* The frame: its full size, or the reduced one, or none. *)
Frame(full, least, room) ==
  IF full <= room THEN full ELSE IF least <= room THEN least ELSE 0

(* The datagrams that can come of it: the frame as it is, the frame        *)
(* compressed, or the frame and all unreliable messages compressed.        *)
Datagrams(c, full, least) ==
  LET room == Room(c)
      all  == Unreliables(c)
      smaller(size) == {n \in 1 .. room : n < size}
  IN  {Datagram(Frame(full, least, room), {})} \cup
      (IF ~Compress THEN {}
       ELSE {Datagram(n, all) : n \in smaller(full + SumSizes(all))}
            \cup {Datagram(n, {}) : n \in smaller(full)})

(* The datagram d is filled and sent. *)
Outcome(c, d, dropped, arrives) ==
  LET g == Filled(c, d, Room(c), dropped)
      w == WriteReliableMessages(Settled(c, g), BuffSize - g.used)
  IN  Transmit(w, g.used, g.taken, arrives)

(* All that SV_SendClientDatagram can do with client c, as it is or with   *)
(* its reliable message compressed.                                        *)
Forms(c) ==
  {c} \cup IF Compress /\ Squeezable(c) THEN {Squeezed(c, n) : n \in 1 .. ReliableSize(c) - 1}
           ELSE {}
Frames == {f \in FrameSizes \X FrameSizes : f[2] <= f[1]}
SendClientDatagram(c) ==
  UNION {UNION {{Outcome(b, d, dropped, arrives) :
                   d \in Datagrams(b, f[1], f[2]), arrives \in BOOLEAN,
                   dropped \in SUBSET {m \in b.list : m.type = "gunshot"}} :
                f \in Frames} : b \in Forms(c)}

(* Nothing was received for five seconds: unreliable messages go. *)
Silence(c) ==
  [DeleteMessages(c, Unreliables(c)) EXCEPT
     !.layout = IF \E m \in Unreliables(c) : IsLayout(m) THEN None ELSE @]

(* NET_SendPacket failed. *)
SendFailed(c) == {Cleaned(DropNotified(d, FALSE)) : d \in SendClientDatagram(c)}

(* A client that is connecting, or a zombie: reliable messages only, and a *)
(* packet if there are any or none was sent for 950 ms.                    *)
SendReliable(c) ==
  LET w == WriteReliableMessages(c, BuffSize)
  IN  {Transmit(w, 0, {}, arrives) : arrives \in BOOLEAN}
      \cup IF w.message = Empty THEN {w} ELSE {}

(* SV_SendClientMessages for this client; over its rate, nothing is sent. *)
SendClientMessages ==
  \E arrives \in BOOLEAN :
    LET c == CheckForOverflow(client, arrives)
    IN  /\ c.state # Free
        /\ client.outgoing_sequence < MaxSequence
        /\ IF c.state = Spawned
           THEN client' \in {Silence(c)} \cup SendClientDatagram(c) \cup SendFailed(c)
           ELSE client' \in SendReliable(c)

----------------------------------------------------------------------------
(* The rest of the server, as far as it touches the list.                  *)

(* SV_AddMessage.  The game writes to spawned clients only (PF_Unicast,    *)
(* SV_Multicast); stufftexts and configstrings go to connecting ones too.  *)
AddMessage(m) ==
  /\ client.adds < MaxAdds
  /\ \/ client.state = Spawned
     \/ client.state \in {Connected, Spawning} /\ m.reliable
        /\ m.type \in {"stufftext", "modelskins"}
  /\ client' = [AddMessageSingle(client, m) EXCEPT !.adds = @ + 1]

(* "new", and "begin", of the client; a new map. *)
New   == client.state = Connected /\ client' = [client EXCEPT !.state = Spawning]
Begin == client.state = Spawning /\ client' = [client EXCEPT !.state = Spawned]
SpawnServer ==
  /\ client.state = Spawned
  /\ client' = [client EXCEPT !.state = Connected, !.layout = None,
                              !.shown = None]

(* A packet of the client that acknowledges packet a (SV_ReadPackets).     *)
(* The packets of an overflowed client are ignored.                        *)
Acknowledge(c, a) ==
  [c EXCEPT
     !.incoming_acknowledged = a,
     !.reliable_buf = IF c.reliable_got /\ a >= c.last_reliable_sequence
                      THEN Empty ELSE @,
     !.reliable_got = @ /\ a < c.last_reliable_sequence]

(* Mutant: an ack of a later packet is taken for the layout's as well. *)
MutCheckLayout(c) ==
  IF c.layout_unreliable = 0 \/ c.incoming_acknowledged < c.layout_unreliable THEN c
  ELSE [c EXCEPT !.layout_unreliable = 0]

(* Whether an unreliable layout got there is told from the ack. *)
CheckLayout(c) ==
  IF c.layout_unreliable = 0 \/ c.incoming_acknowledged < c.layout_unreliable THEN c
  ELSE [c EXCEPT !.layout = IF c.incoming_acknowledged > c.layout_unreliable
                            THEN None ELSE @,
                 !.layout_unreliable = 0]

ReadPacket(a) ==
  /\ client.state # Free
  /\ "OVERFLOWED" \notin client.notes
  /\ client.outgoing_sequence < MaxSequence
  /\ a \in client.received /\ a >= client.incoming_acknowledged
  /\ LET c == IF client.state = Zombie THEN Acknowledge(client, a)
              ELSE CheckLayout(Acknowledge(client, a))
     IN  IF c.state \in {Connected, Spawning} /\ c.list # {}
         THEN \E arrives \in BOOLEAN :
                client' = Transmit(WriteReliableMessages(c, BuffSize), 0, {}, arrives)
         ELSE client' = c

(* A disconnect, a kick or a ban: SV_DropClient. *)
DropClient(notify) ==
  /\ client.state \notin {Free, Zombie}
  /\ \E arrives \in BOOLEAN :
       client' = IF notify THEN DropNotified(client, arrives) ELSE DropSilently(client)

(* SV_CheckTimeouts lets go of a zombie. *)
ZombieTimeout == client.state = Zombie /\ client' = Cleaned(client)

Next ==
  \/ \E m \in Requests : AddMessage(m)
  \/ SendClientMessages
  \/ \E a \in 1 .. MaxSequence : ReadPacket(a)
  \/ New \/ Begin \/ SpawnServer
  \/ \E notify \in BOOLEAN : DropClient(notify)
  \/ ZombieTimeout

Spec == Init /\ [][Next]_client

----------------------------------------------------------------------------
Message(m) ==
  /\ m.type \in Types /\ m.size \in 1 .. BuffSize + PadSize
  /\ m.reliable \in BOOLEAN /\ m.heap \in BOOLEAN
  /\ m.slot \in 1 .. MaxList - 2

TypeOK ==
  /\ client.state \in {Free, Zombie, Connected, Spawning, Spawned}
  /\ client.open \in BOOLEAN
  /\ \A m \in client.list :
       /\ Message(m)
       /\ \A n \in client.list : m.slot = n.slot => m = n
  /\ client.notes \subseteq {"OVERFLOWED", "OVERFLOW_DONE"}
  /\ client.layout \in LayoutTexts \cup {None}
  /\ client.incoming_acknowledged \in 0 .. client.outgoing_sequence - 1
  /\ client.message.size \in 0 .. BuffSize
  /\ client.reliable_buf.size \in 0 .. BuffSize
  /\ client.received \subseteq 1 .. client.outgoing_sequence - 1

----------------------------------------------------------------------------
(* Reliable messages reach the channel in the order they were queued, and  *)
(* none is passed over while the client is not dropped: of what was queued *)
(* the channel took the first, and the rest waits, in order                *)
(* (sv_send.c:936-990).                                                    *)
ReliableInOrder ==
  client.open /\ "OVERFLOWED" \notin client.notes =>
    LET waits == {m \in client.list : m.nr # 0}
        gone  == {m.nr : m \in client.took} \ {0}
    IN  /\ 1 .. client.asked = gone \cup {m.nr : m \in waits}
        /\ \A m \in waits : \A k \in gone : k < m.nr
        /\ \A m, n \in waits : m.slot < n.slot => m.nr < n.nr

(* "reliable %d + unreliable %d > maxsize %d (this should not happen!)"    *)
(* (net_chan.c:330): the room reserved before the datagram is filled       *)
(* (sv_send.c:1048-1080) always suffices for the reliable part.            *)
DatagramFits == ~client.toobig

(* "wanted to send message but it never got written!" (sv_send.c:1426): a  *)
(* datagram always leaves with a reliable message under way if one waits,  *)
(* and no client is dropped because the datagram left it no room           *)
(* (sv_send.c:963), unless its list overflowed.                            *)
WantedIsWritten ==
  [][/\ client.state = Spawned /\ client'.state # Free
     /\ client'.outgoing_sequence > client.outgoing_sequence
     /\ Reliables(client) # {} /\ "OVERFLOWED" \notin client'.notes
     => client'.open /\ client'.reliable_buf # Empty]_client

(* The writing buffer is only filled to be sent at once: outside a handler *)
(* it is empty, which Room relies on (sv_send.c:1056).                     *)
NothingLeftInMessage == client.message = Empty

(* "they overflowed, but maybe not disconnected yet" (sv_main.c:2713): the  *)
(* first packet to a client whose list overflowed is the one that drops    *)
(* it, whatever comes between the overflow and the next frame              *)
(* (sv_send.c:398-439).                                                    *)
OverflowedIsDropped ==
  [][Overflowing(client) /\ client'.outgoing_sequence > client.outgoing_sequence
     => client'.state \in {Zombie, Free}]_client

(* A client dropped for it gets svc_disconnect even though its list was    *)
(* emptied and closed to everything else (sv_send.c:403-421, 265).         *)
OverflowedIsTold ==
  "OVERFLOW_DONE" \in client.notes /\ client.state = Zombie =>
    \E m \in client.list \cup client.took : m.text = "disconnect"

(* A layout dropped as a duplicate (sv_send.c:289) is one that the client  *)
(* shows, or that is on its way: it waits, or is in the reliable buffer,   *)
(* or went out in a packet still watched for its ack.                      *)
OnItsWay(text) ==
  \/ \E m \in client.list \cup client.reliable_buf.data : m.text = text
  \/ client.layout_unreliable # 0

LayoutIsKnown ==
  client.state = Spawned /\ client.layout # None /\ "OVERFLOWED" \notin client.notes =>
    client.shown = client.layout \/ OnItsWay(client.layout)

(* SV_DeleteMessage frees what MSG_EndWrite malloced: "only free if it was *)
(* malloced" (sv_send.c:211).                                              *)
FreesOnlyMalloced == ~client.misfreed

(* What an overflow of the list comes to, in all: a client that overflowed is told and thrown out   *)
(* before it gets another packet, and nothing of its list is left behind (sv_send.c:298, 398-439).  *)
OverflowEnds == [](TypeOK /\ NothingLeftInMessage /\ OverflowedIsTold) /\ OverflowedIsDropped
=============================================================================
