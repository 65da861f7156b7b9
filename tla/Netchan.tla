------------------------------ MODULE Netchan ------------------------------
(***************************************************************************)
(* The sequenced channel of qcommon/net_chan.c between the server and one  *)
(* client, both of which run this code.  A packet carries a sequence       *)
(* number, a flag telling that a reliable message is inside, and the       *)
(* acknowledgement of the other direction: the last sequence accepted and  *)
(* one bit that flips with every reliable message accepted.  The network   *)
(* (UDP) loses, duplicates and reorders packets.                           *)
(*                                                                         *)
(* Lengths are abstracted: a message is a member of Data, a buffer is the  *)
(* sequence of messages in it.  The loss statistics, the qport and the     *)
(* byte counters do not feed back into the protocol and are left out; so   *)
(* is the unreliable part of a packet, which the receiver cannot tell from *)
(* the rest.  Sequence numbers are 31 bits wide on the wire: MaxSequence   *)
(* stands for 2^31 and a channel is not followed beyond it.                *)
(***************************************************************************)
EXTENDS Naturals, Sequences

CONSTANTS Server, Client,   \* NS_SERVER and NS_CLIENT ends
          Data,             \* messages written to the reliable buffer
          BuffSize,         \* capacity of netchan.message, in messages
          MaxSequence,      \* bound, per end: sequence numbers stay below it
          MaxWritten        \* bound, per end: messages written

ASSUME EndsDiffer == Server # Client

Peer == {Server, Client}
Other(e) == IF e = Server THEN Client ELSE Server

ASSUME BoundsAreNat == /\ BuffSize \in Nat \ {0}
                       /\ MaxSequence \in [Peer -> Nat]
                       /\ MaxWritten \in [Peer -> Nat]

VARIABLES
  outgoing_sequence,              \* next sequence number to send
  incoming_sequence,              \* last sequence number accepted
  incoming_acknowledged,          \* last ack received
  incoming_reliable_acknowledged, \* bit received with it
  incoming_reliable_sequence,     \* bit flipped by every reliable accepted
  reliable_sequence,              \* bit of the current reliable message
  last_reliable_sequence,         \* sequence of its last transmission
  reliable_buf,                   \* unacked reliable, <<>> if reliable_length = 0
  message,                        \* the writing buffer
  overflowed,                     \* message.overflowed
  net,                            \* every packet sent; UDP may deliver any of
                                  \* them any number of times, or never
  written,                        \* history: all data written at an end
  delivered                       \* history: data of an end handed to the other

chanVars == <<outgoing_sequence, incoming_sequence, incoming_acknowledged,
              incoming_reliable_acknowledged, incoming_reliable_sequence,
              reliable_sequence, last_reliable_sequence, reliable_buf,
              message, overflowed>>
vars == <<chanVars, net, written, delivered>>

Bit == {0, 1}

Packet == [src: Peer, sequence: Nat, reliable: BOOLEAN,
           ack: Nat, reliable_ack: Bit, data: Seq(Data)]

(* Netchan_Setup at both ends. *)
Init ==
  /\ outgoing_sequence = [e \in Peer |-> 1]
  /\ incoming_sequence = [e \in Peer |-> 0]
  /\ incoming_acknowledged = [e \in Peer |-> 0]
  /\ incoming_reliable_acknowledged = [e \in Peer |-> 0]
  /\ incoming_reliable_sequence = [e \in Peer |-> 0]
  /\ reliable_sequence = [e \in Peer |-> 0]
  /\ last_reliable_sequence = [e \in Peer |-> 0]
  /\ reliable_buf = [e \in Peer |-> <<>>]
  /\ message = [e \in Peer |-> <<>>]
  /\ overflowed = [e \in Peer |-> FALSE]
  /\ net = {}
  /\ written = [e \in Peer |-> <<>>]
  /\ delivered = [e \in Peer |-> <<>>]

----------------------------------------------------------------------------
(* SZ_Write on netchan.message, which is set up with allowoverflow: a      *)
(* write that does not fit empties the buffer first and marks it.          *)
Write(e, d) ==
  /\ Len(written[e]) < MaxWritten[e]
  /\ LET fits == Len(message[e]) + 1 <= BuffSize
     IN  /\ message' = [message EXCEPT ![e] =
                          IF fits THEN Append(@, d) ELSE <<d>>]
         /\ overflowed' = [overflowed EXCEPT ![e] = @ \/ ~fits]
  /\ written' = [written EXCEPT ![e] = Append(@, d)]
  /\ UNCHANGED <<outgoing_sequence, incoming_sequence, incoming_acknowledged,
                 incoming_reliable_acknowledged, incoming_reliable_sequence,
                 reliable_sequence, last_reliable_sequence, reliable_buf,
                 net, delivered>>

MutLost(e) == incoming_reliable_acknowledged[e] # reliable_sequence[e]
MutAcknowledges(e, p) == p.ack >= last_reliable_sequence[e]
MutLastSent(e) == last_reliable_sequence[e]

(* ^= 1 *)
Flip(b) == 1 - b

(* A message after the last transmission of the reliable one was           *)
(* acknowledged, and the reliable one did not get there.                   *)
Lost(e) ==
  /\ incoming_acknowledged[e] > last_reliable_sequence[e]
  /\ incoming_reliable_acknowledged[e] # reliable_sequence[e]

(* The buffer is free and there is something to move into it. *)
Fresh(e) == reliable_buf[e] = <<>> /\ message[e] # <<>>

send_reliable(e) == Lost(e) \/ Fresh(e)

(* The reliable message once the writing buffer was moved, if it was. *)
Buffered(e) == IF Fresh(e) THEN message[e] ELSE reliable_buf[e]

(* The sequence number kept for the reliable message: that of this packet  *)
(* if it is inside.                                                        *)
LastSent(e) ==
  IF send_reliable(e) THEN outgoing_sequence[e] ELSE last_reliable_sequence[e]

Datagram(e) ==
  [src          |-> e,
   sequence     |-> outgoing_sequence[e],
   reliable     |-> send_reliable(e),
   ack          |-> incoming_sequence[e],
   reliable_ack |-> incoming_reliable_sequence[e],
   data         |-> IF send_reliable(e) THEN Buffered(e) ELSE <<>>]

(* Netchan_Transmit.  NET_SendPacket may fail or the packet be lost: it    *)
(* is then never taken from net.  Duplicates sent on purpose (packetdup)   *)
(* are deliveries of the same packet.                                      *)
Transmit(e) ==
  /\ ~overflowed[e]
  /\ outgoing_sequence[e] < MaxSequence[e]
  /\ reliable_buf' = [reliable_buf EXCEPT ![e] = Buffered(e)]
  /\ message' = [message EXCEPT ![e] = IF Fresh(e) THEN <<>> ELSE @]
  /\ reliable_sequence' =
       [reliable_sequence EXCEPT ![e] = IF Fresh(e) THEN Flip(@) ELSE @]
  /\ last_reliable_sequence' =
       [last_reliable_sequence EXCEPT ![e] = LastSent(e)]
  /\ net' = net \cup {Datagram(e)}
  /\ outgoing_sequence' = [outgoing_sequence EXCEPT ![e] = @ + 1]
  /\ UNCHANGED <<incoming_sequence, incoming_acknowledged,
                 incoming_reliable_acknowledged, incoming_reliable_sequence,
                 overflowed, written, delivered>>

(* Stale and duplicated packets are discarded. *)
InOrder(e, p) == p.sequence > incoming_sequence[e]

(* The ack bit is that of the reliable message under way: it has been      *)
(* received, and the buffer is cleared for the next.                       *)
Acknowledges(e, p) == p.reliable_ack = reliable_sequence[e]

(* Netchan_Process of packet p at end e. *)
Process(e, p) ==
  /\ p.src = Other(e)
  /\ InOrder(e, p)
  /\ reliable_buf' = [reliable_buf EXCEPT
                        ![e] = IF Acknowledges(e, p) THEN <<>> ELSE @]
  /\ incoming_sequence' = [incoming_sequence EXCEPT ![e] = p.sequence]
  /\ incoming_acknowledged' = [incoming_acknowledged EXCEPT ![e] = p.ack]
  /\ incoming_reliable_acknowledged' =
       [incoming_reliable_acknowledged EXCEPT ![e] = p.reliable_ack]
  /\ incoming_reliable_sequence' =
       [incoming_reliable_sequence EXCEPT
          ![e] = IF p.reliable THEN Flip(@) ELSE @]
  /\ delivered' = IF p.reliable
                  THEN [delivered EXCEPT ![Other(e)] = @ \o p.data]
                  ELSE delivered
  /\ UNCHANGED <<outgoing_sequence, reliable_sequence,
                 last_reliable_sequence, message, overflowed, net, written>>

Next ==
  \/ \E e \in Peer, d \in Data : Write(e, d)
  \/ \E e \in Peer : Transmit(e)
  \/ \E e \in Peer : \E p \in net : Process(e, p)

Spec == Init /\ [][Next]_vars

----------------------------------------------------------------------------
TypeOK ==
  /\ outgoing_sequence \in [Peer -> Nat \ {0}]
  /\ incoming_sequence \in [Peer -> Nat]
  /\ incoming_acknowledged \in [Peer -> Nat]
  /\ incoming_reliable_acknowledged \in [Peer -> Bit]
  /\ incoming_reliable_sequence \in [Peer -> Bit]
  /\ reliable_sequence \in [Peer -> Bit]
  /\ last_reliable_sequence \in [Peer -> Nat]
  /\ reliable_buf \in [Peer -> Seq(Data)]
  /\ message \in [Peer -> Seq(Data)]
  /\ overflowed \in [Peer -> BOOLEAN]
  /\ net \subseteq Packet
  /\ written \in [Peer -> Seq(Data)]
  /\ delivered \in [Peer -> Seq(Data)]

----------------------------------------------------------------------------
(* Packets from e that the other end would still accept. *)
Live(e) == {p \in net : p.src = e /\ p.sequence > incoming_sequence[Other(e)]}

(* The current reliable message of e has reached the other end. *)
Received(e) == incoming_reliable_sequence[Other(e)] = reliable_sequence[e]

(* What the other end was handed or will be, unless the channel dies. *)
Handed(e) == delivered[e] \o IF Received(e) THEN <<>> ELSE reliable_buf[e]

IsPrefixOf(s, t) == Len(s) <= Len(t) /\ s = SubSeq(t, 1, Len(s))

(* Nothing is lost, repeated or reordered: what an end wrote is what the   *)
(* other end was handed, then the reliable message still under way, then   *)
(* what waits in the writing buffer (net_chan.c:260-317, 488-500).  An     *)
(* overflowed buffer lost data, and then nothing after the gap is sent.    *)
NothingLost ==
  \A e \in Peer : /\ ~overflowed[e] => written[e] = Handed(e) \o message[e]
                  /\ IsPrefixOf(Handed(e), written[e])

(* A channel never frees its reliable buffer (net_chan.c:488) on an ack    *)
(* that was meant for an earlier reliable message.                         *)
FreedOnlyWhenReceived ==
  \A e \in Peer : reliable_buf[e] = <<>> => Received(e)

(* The bit is the only identity of a reliable message, so two acceptable   *)
(* copies would flip the receiver twice (net_chan.c:497-500).  Only the    *)
(* last transmission can still be accepted, it is the message in the       *)
(* buffer, and none is left once it was.                                   *)
OneLiveCopy ==
  \A e \in Peer : \A p \in Live(e) :
    p.reliable => /\ p.sequence = last_reliable_sequence[e]
                  /\ p.data = reliable_buf[e]
                  /\ ~Received(e)

(* "send_reliable with empty buffer" (net_chan.c:314) is never printed: a  *)
(* retransmission always has something to retransmit.                      *)
NoEmptyReliable == \A e \in Peer : Lost(e) => reliable_buf[e] # <<>>

(* A reliable packet is only sent once every earlier copy is stale at the  *)
(* receiver: "It will not be retransmitted again until a message after the *)
(* retransmit has been acknowledged" (net_chan.c:41-42).                   *)
RetransmitsOnlyTheLost ==
  [][\A e \in Peer, p \in net' \ net :
       p.src = e /\ p.reliable => \A q \in Live(e) : ~q.reliable]_vars

(* Acknowledgements never go back (net_chan.c:495 assigns without          *)
(* comparing): the order of accepted packets carries over to the acks.     *)
AcksNeverRetreat ==
  [][\A e \in Peer :
       incoming_acknowledged'[e] >= incoming_acknowledged[e]]_vars

(* To the layers above, the channel is the reliable stream of              *)
(* ReliableStream: written grows by Write, delivered by whole messages in  *)
(* Netchan_Process (net_chan.c:497-500). *)
Stream == INSTANCE ReliableStream WITH
  written <- written, delivered <- delivered
ImplementsStream == Stream!StreamSpec

----------------------------------------------------------------------------
(* The inductive invariant behind them.                                    *)

(* Sequence numbers and acks: each end knows at most what the other did.   *)
Counters ==
  \A e \in Peer :
    /\ incoming_sequence[Other(e)] < outgoing_sequence[e]
    /\ last_reliable_sequence[e] < outgoing_sequence[e]
    /\ incoming_acknowledged[e] <= incoming_sequence[Other(e)]
    /\ \A p \in net : p.src = e => /\ p.sequence < outgoing_sequence[e]
                                   /\ p.ack <= incoming_sequence[e]

(* Packets of one end carry acks in the order they were sent. *)
AcksOrdered ==
  /\ \A p, q \in net : p.src = q.src /\ p.sequence <= q.sequence => p.ack <= q.ack
  /\ \A e \in Peer : \A p \in Live(Other(e)) : p.ack >= incoming_acknowledged[e]

(* The three phases of a reliable message - none, under way, received but  *)
(* not known to be - and the acks that can still be accepted in each.      *)
Idle(e)     == reliable_buf[e] = <<>>
UnderWay(e) == reliable_buf[e] # <<>> /\ ~Received(e)
Arrived(e)  == reliable_buf[e] # <<>> /\ Received(e)

Phase(e) ==
  LET b == reliable_sequence[e]
      L == last_reliable_sequence[e]
  IN  /\ Idle(e) =>
           /\ Received(e)
           /\ incoming_reliable_acknowledged[e] = b
           /\ \A p \in Live(Other(e)) : p.reliable_ack = b
      /\ UnderWay(e) =>
           /\ incoming_reliable_acknowledged[e] # b
           /\ \A p \in Live(Other(e)) : p.reliable_ack # b
      /\ Arrived(e) =>
           /\ incoming_reliable_acknowledged[e] # b
           /\ incoming_acknowledged[e] < L
           /\ incoming_sequence[Other(e)] >= L
           /\ \A p \in Live(Other(e)) : p.reliable_ack = b <=> p.ack >= L

Phases == \A e \in Peer : Phase(e)

IInv == TypeOK /\ Counters /\ AcksOrdered /\ Phases /\ OneLiveCopy /\ NothingLost
=============================================================================
