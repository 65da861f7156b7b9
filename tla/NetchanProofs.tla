--------------------------- MODULE NetchanProofs ---------------------------
(***************************************************************************)
(* Proofs about the channel of net_chan.c, for every set of messages,      *)
(* buffer capacity and bound; and, after them, about the settings that are *)
(* borrowed from a client while it downloads, for every number of level    *)
(* changes.                                                                *)
(***************************************************************************)
EXTENDS Netchan, Settings, FiniteSetTheorems, SequenceTheorems, WellFoundedInduction, TLAPS

(* Type correctness: every field keeps its C type through Write, Transmit  *)
(* and Process.                                                            *)
LEMMA TypeInit == Init => TypeOK
  BY DEF Init, TypeOK, Peer, Bit

LEMMA OtherPeer == \A e \in Peer : Other(e) \in Peer /\ Other(e) # e /\ Other(Other(e)) = e
  BY EndsDiffer DEF Peer, Other

LEMMA DatagramType ==
  ASSUME TypeOK, NEW e \in Peer
  PROVE  Datagram(e) \in Packet
<1>1. send_reliable(e) \in BOOLEAN
  BY DEF send_reliable, Lost, Fresh
<1>2. Buffered(e) \in Seq(Data)
  BY DEF Buffered, TypeOK
<1>3. <<>> \in Seq(Data)
  OBVIOUS
<1>4. QED
  BY <1>1, <1>2, <1>3 DEF Datagram, Packet, TypeOK, Bit

LEMMA TypeNext == TypeOK /\ [Next]_vars => TypeOK'
<1> SUFFICES ASSUME TypeOK, [Next]_vars PROVE TypeOK'
  OBVIOUS
<1>1. ASSUME NEW e \in Peer, NEW d \in Data, Write(e, d) PROVE TypeOK'
  BY <1>1 DEF Write, TypeOK
<1>2. ASSUME NEW e \in Peer, Transmit(e) PROVE TypeOK'
  <2>1. Datagram(e) \in Packet
    BY DatagramType
  <2>2. net' \subseteq Packet
    BY <1>2, <2>1 DEF Transmit, Flip, LastSent, TypeOK
  <2>3. QED
    BY <1>2, <2>2 DEF Transmit, Flip, LastSent, TypeOK, Bit, Buffered
<1>3. ASSUME NEW e \in Peer, NEW p \in net, Process(e, p) PROVE TypeOK'
  <2>1. p \in Packet
    BY DEF TypeOK
  <2>2. /\ p.src \in Peer /\ p.sequence \in Nat /\ p.ack \in Nat
        /\ p.reliable_ack \in Bit /\ p.data \in Seq(Data)
    BY <2>1 DEF Packet
  <2>3. delivered[Other(e)] \o p.data \in Seq(Data)
    BY <2>2, ConcatProperties, OtherPeer DEF TypeOK
  <2>4. <<>> \in Seq(Data)
    OBVIOUS
  <2>5. /\ delivered' \in [Peer -> Seq(Data)]
        /\ reliable_buf' \in [Peer -> Seq(Data)]
    BY <1>3, <2>2, <2>3, <2>4 DEF Process, InOrder, Acknowledges, Flip, TypeOK
  <2>6. /\ incoming_sequence' \in [Peer -> Nat]
        /\ incoming_acknowledged' \in [Peer -> Nat]
        /\ incoming_reliable_acknowledged' \in [Peer -> Bit]
    BY <1>3, <2>2 DEF Process, InOrder, Acknowledges, Flip, TypeOK
  <2>7. incoming_reliable_sequence' \in [Peer -> Bit]
    BY <1>3 DEF Process, InOrder, Acknowledges, Flip, TypeOK, Bit
  <2>8. QED
    BY <1>3, <2>5, <2>6, <2>7 DEF Process, InOrder, Acknowledges, Flip, TypeOK
<1>4. CASE UNCHANGED vars
  BY <1>4 DEF TypeOK, vars, chanVars
<1>5. QED
  BY <1>1, <1>2, <1>3, <1>4 DEF Next

THEOREM TypeCorrect == Spec => []TypeOK
  BY TypeInit, TypeNext, PTL DEF Spec

----------------------------------------------------------------------------
(* The inductive invariant, conjunct by conjunct, without the data.        *)
Order == Counters /\ AcksOrdered
Protocol == Order /\ Phases /\ OneLiveCopy

LEMMA ProtocolInit == Init => Protocol
<1> SUFFICES ASSUME Init PROVE Protocol
  OBVIOUS
<1>1. \A e \in Peer : Live(e) = {}
  BY DEF Init, Live
<1>2. Counters
  BY OtherPeer DEF Init, Counters
<1>3. AcksOrdered
  BY <1>1, OtherPeer DEF Init, AcksOrdered
<1>4. Phases
  BY <1>1, OtherPeer DEF Init, Phases, Phase, Idle, UnderWay, Arrived, Received
<1>5. OneLiveCopy
  BY <1>1 DEF OneLiveCopy
<1>6. QED
  BY <1>2, <1>3, <1>4, <1>5 DEF Protocol, Order

(* What each action does to the packets that can still be accepted.        *)
LEMMA LiveTransmit ==
  ASSUME NEW e \in Peer, Transmit(e)
  PROVE  /\ Live(Other(e))' = Live(Other(e))
         /\ Live(e)' \subseteq Live(e) \cup {Datagram(e)}
  BY OtherPeer DEF Transmit, Flip, LastSent, Live, Datagram

LEMMA LiveProcess ==
  ASSUME TypeOK, NEW e \in Peer, NEW p \in net, Process(e, p)
  PROVE  /\ p \in Live(Other(e))
         /\ Live(e)' = Live(e)
         /\ \A q \in Live(Other(e))' : q \in Live(Other(e)) /\ q.sequence > p.sequence
<1>1. /\ p.sequence \in Nat
      /\ \A q \in net : q.sequence \in Nat
  BY DEF TypeOK, Packet
<1>2. /\ incoming_sequence[e] \in Nat
      /\ incoming_sequence'[e] = p.sequence
      /\ incoming_sequence'[Other(e)] = incoming_sequence[Other(e)]
      /\ net' = net
      /\ p.sequence > incoming_sequence[e]
      /\ p.src = Other(e)
  BY OtherPeer DEF Process, InOrder, Acknowledges, Flip, TypeOK
<1>3. QED
  BY <1>1, <1>2, OtherPeer DEF Live

LEMMA OrderTransmit ==
  ASSUME TypeOK, Order, NEW e \in Peer, Transmit(e)
  PROVE  Order'
<1> DEFINE d == Datagram(e)
<1>1. /\ d.src = e /\ d.sequence = outgoing_sequence[e] /\ d.ack = incoming_sequence[e]
  BY DEF Datagram
<1>2. \A p \in net : /\ p.src \in Peer /\ p.sequence \in Nat /\ p.ack \in Nat
  BY DEF TypeOK, Packet
<1>3. /\ outgoing_sequence[e] \in Nat
      /\ outgoing_sequence'[e] = outgoing_sequence[e] + 1
      /\ outgoing_sequence'[Other(e)] = outgoing_sequence[Other(e)]
      /\ incoming_sequence' = incoming_sequence
      /\ incoming_acknowledged' = incoming_acknowledged
      /\ last_reliable_sequence'[e] \in {last_reliable_sequence[e], outgoing_sequence[e]}
      /\ last_reliable_sequence'[Other(e)] = last_reliable_sequence[Other(e)]
      /\ net' = net \cup {d}
  BY OtherPeer DEF Transmit, Flip, LastSent, TypeOK
<1>4. \A f \in Peer : f = e \/ f = Other(e)
  BY DEF Peer, Other
<1>5. Counters'
  <2> SUFFICES ASSUME NEW f \in Peer
      PROVE  (/\ incoming_sequence[Other(f)] < outgoing_sequence[f]
              /\ last_reliable_sequence[f] < outgoing_sequence[f]
              /\ incoming_acknowledged[f] <= incoming_sequence[Other(f)]
              /\ \A p \in net : p.src = f => /\ p.sequence < outgoing_sequence[f]
                                             /\ p.ack <= incoming_sequence[f])'
    BY DEF Counters
  <2>1. /\ incoming_sequence[Other(f)] < outgoing_sequence[f]
        /\ last_reliable_sequence[f] < outgoing_sequence[f]
        /\ incoming_acknowledged[f] <= incoming_sequence[Other(f)]
        /\ \A p \in net : p.src = f => /\ p.sequence < outgoing_sequence[f]
                                       /\ p.ack <= incoming_sequence[f]
    BY DEF Order, Counters
  <2>2. /\ outgoing_sequence[f] \in Nat /\ incoming_sequence[f] \in Nat
        /\ last_reliable_sequence[f] \in Nat /\ incoming_sequence[Other(f)] \in Nat
    BY OtherPeer DEF TypeOK
  <2>3. CASE f = e
    BY <1>1, <1>2, <1>3, <2>1, <2>2, <2>3
  <2>4. CASE f = Other(e)
    BY <1>1, <1>2, <1>3, <2>1, <2>2, <2>4, OtherPeer
  <2>5. QED
    BY <1>4, <2>3, <2>4
<1>6. AcksOrdered'
  <2>1. \A p, q \in net : p.src = q.src /\ p.sequence <= q.sequence => p.ack <= q.ack
    BY DEF Order, AcksOrdered
  <2>2. \A p \in net : p.src = e => p.sequence < d.sequence /\ p.ack <= d.ack
    BY <1>1 DEF Order, Counters
  <2>3. ASSUME NEW p \in net', NEW q \in net',
               p.src = q.src, p.sequence <= q.sequence
        PROVE  p.ack <= q.ack
    <3> HIDE DEF d
    <3>1. /\ d.ack \in Nat /\ d.sequence \in Nat
      BY <1>1 DEF TypeOK
    <3>2. CASE p \in net /\ q \in net
      BY <2>1, <2>3, <3>2
    <3>3. CASE p = d /\ q \in net
      BY <1>1, <1>2, <2>2, <2>3, <3>1, <3>3
    <3>4. CASE p \in net /\ q = d
      BY <1>1, <2>2, <2>3, <3>4
    <3>5. CASE p = d /\ q = d
      BY <3>1, <3>5
    <3>6. QED
      BY <1>3, <3>2, <3>3, <3>4, <3>5
  <2>4. ASSUME NEW f \in Peer, NEW p \in Live(Other(f))'
        PROVE  p.ack >= incoming_acknowledged[f]
    <3>1. CASE p \in Live(Other(f))
      BY <3>1 DEF Order, AcksOrdered
    <3>2. CASE p = d /\ Other(f) = e
      BY <1>1, <3>2, OtherPeer DEF Order, Counters, TypeOK
    <3>3. QED
      BY <1>4, <3>1, <3>2, LiveTransmit, OtherPeer
  <2>5. QED
    BY <1>3, <2>3, <2>4 DEF AcksOrdered
<1>7. QED
  BY <1>5, <1>6 DEF Order

LEMMA OrderProcess ==
  ASSUME TypeOK, Order, NEW e \in Peer, NEW p \in net, Process(e, p)
  PROVE  Order'
<1> DEFINE o == Other(e)
<1>1. \A q \in net : /\ q.src \in Peer /\ q.sequence \in Nat /\ q.ack \in Nat
  BY DEF TypeOK, Packet
<1>2. /\ incoming_sequence'[e] = p.sequence
      /\ incoming_sequence'[o] = incoming_sequence[o]
      /\ incoming_acknowledged'[e] = p.ack
      /\ incoming_acknowledged'[o] = incoming_acknowledged[o]
      /\ outgoing_sequence' = outgoing_sequence
      /\ last_reliable_sequence' = last_reliable_sequence
      /\ net' = net
      /\ p.src = o
      /\ p.sequence > incoming_sequence[e]
  BY OtherPeer DEF Process, InOrder, Acknowledges, Flip, TypeOK
<1>3. /\ incoming_sequence[e] \in Nat /\ incoming_sequence[o] \in Nat
      /\ outgoing_sequence[e] \in Nat /\ outgoing_sequence[o] \in Nat
      /\ incoming_acknowledged[o] \in Nat
  BY OtherPeer DEF TypeOK
<1>4. \A f \in Peer : f = e \/ f = o
  BY DEF Peer, Other
<1>5. /\ o \in Peer /\ o # e /\ Other(o) = e
  BY OtherPeer
<1>6. Counters'
  <2> SUFFICES ASSUME NEW f \in Peer
      PROVE  (/\ incoming_sequence[Other(f)] < outgoing_sequence[f]
              /\ last_reliable_sequence[f] < outgoing_sequence[f]
              /\ incoming_acknowledged[f] <= incoming_sequence[Other(f)]
              /\ \A q \in net : q.src = f => /\ q.sequence < outgoing_sequence[f]
                                             /\ q.ack <= incoming_sequence[f])'
    BY DEF Counters
  <2>1. /\ incoming_sequence[Other(f)] < outgoing_sequence[f]
        /\ last_reliable_sequence[f] < outgoing_sequence[f]
        /\ incoming_acknowledged[f] <= incoming_sequence[Other(f)]
        /\ \A q \in net : q.src = f => /\ q.sequence < outgoing_sequence[f]
                                       /\ q.ack <= incoming_sequence[f]
    BY DEF Order, Counters
  <2>2. p.sequence < outgoing_sequence[o] /\ p.ack <= incoming_sequence[o]
    BY <1>2, <1>5 DEF Order, Counters
  <2>3. CASE f = e
    BY <1>1, <1>2, <1>3, <1>5, <2>1, <2>2, <2>3
  <2>4. CASE f = o
    BY <1>1, <1>2, <1>3, <1>5, <2>1, <2>2, <2>4
  <2>5. QED
    BY <1>4, <2>3, <2>4
<1>7. AcksOrdered'
  <2>1. \A q, r \in net : q.src = r.src /\ q.sequence <= r.sequence => q.ack <= r.ack
    BY DEF Order, AcksOrdered
  <2>2. ASSUME NEW f \in Peer, NEW q \in Live(Other(f))'
        PROVE  q.ack >= incoming_acknowledged'[f]
    <3>1. CASE f = e
      <4>1. q \in net /\ q.src = o /\ q.sequence > p.sequence
        BY <3>1, LiveProcess DEF Live
      <4>2. QED
        BY <1>1, <1>2, <2>1, <3>1, <4>1
    <3>2. CASE f = o
      BY <1>2, <1>5, <3>2, LiveProcess DEF Order, AcksOrdered
    <3>3. QED
      BY <1>4, <3>1, <3>2
  <2>3. QED
    BY <1>2, <2>1, <2>2 DEF AcksOrdered
<1>8. QED
  BY <1>6, <1>7 DEF Order

LEMMA PhasesTransmit ==
  ASSUME TypeOK, Protocol, NEW e \in Peer, Transmit(e)
  PROVE  Phases' /\ OneLiveCopy'
<1> DEFINE o == Other(e)
           d == Datagram(e)
<1>1. /\ o \in Peer /\ o # e /\ Other(o) = e
      /\ \A f \in Peer : f = e \/ f = o
  BY OtherPeer DEF Peer, Other
<1>2. /\ d.reliable = send_reliable(e) /\ d.sequence = outgoing_sequence[e]
      /\ d.ack = incoming_sequence[e] /\ d.src = e
      /\ d.reliable_ack = incoming_reliable_sequence[e]
      /\ d.reliable => d.data = Buffered(e)
  BY DEF Datagram
<1>3. /\ Phase(e) /\ Phase(o)
  BY <1>1 DEF Protocol, Phases
<1>4. /\ Live(o)' = Live(o)
      /\ Live(e)' \subseteq Live(e) \cup {d}
  BY LiveTransmit
<1>5. /\ reliable_buf'[o] = reliable_buf[o]
      /\ reliable_sequence'[o] = reliable_sequence[o]
      /\ last_reliable_sequence'[o] = last_reliable_sequence[o]
      /\ incoming_sequence' = incoming_sequence
      /\ incoming_acknowledged' = incoming_acknowledged
      /\ incoming_reliable_acknowledged' = incoming_reliable_acknowledged
      /\ incoming_reliable_sequence' = incoming_reliable_sequence
      /\ (Received(o)' <=> Received(o))
  BY <1>1 DEF Transmit, Flip, LastSent, TypeOK, Received
<1>6. /\ reliable_buf'[e] = Buffered(e)
      /\ reliable_sequence'[e] = IF Fresh(e) THEN 1 - reliable_sequence[e]
                                             ELSE reliable_sequence[e]
      /\ last_reliable_sequence'[e] = IF send_reliable(e)
                                      THEN outgoing_sequence[e]
                                      ELSE last_reliable_sequence[e]
  BY DEF Transmit, Flip, LastSent, TypeOK
<1>7. Phase(o)'
  <2>1. Live(e)' \subseteq Live(e) \cup {d}
    BY <1>4
  <2>2. CASE Idle(o)
    BY <1>1, <1>2, <1>3, <1>5, <2>1, <2>2 DEF Phase, Idle, UnderWay, Arrived, Received
  <2>3. CASE UnderWay(o)
    BY <1>1, <1>2, <1>3, <1>5, <2>1, <2>3 DEF Phase, Idle, UnderWay, Arrived, Received
  <2>4. CASE Arrived(o)
    BY <1>1, <1>2, <1>3, <1>5, <2>1, <2>4 DEF Phase, Idle, UnderWay, Arrived, Received
  <2>5. QED
    BY <2>2, <2>3, <2>4 DEF Idle, UnderWay, Arrived
<1>8. /\ incoming_acknowledged[e] <= incoming_sequence[o]
      /\ incoming_acknowledged[e] \in Nat /\ incoming_sequence[o] \in Nat
      /\ last_reliable_sequence[e] \in Nat
      /\ reliable_sequence[e] \in Bit /\ incoming_reliable_sequence[o] \in Bit
      /\ \A q \in net : q.sequence \in Nat
  BY <1>1 DEF Protocol, Order, Counters, TypeOK, Packet
<1>9. CASE Fresh(e)
  <2>1. Idle(e) /\ Received(e) /\ Buffered(e) # <<>>
    BY <1>3, <1>9 DEF Fresh, Phase, Idle, Buffered
  <2>2. UnderWay(e)'
    BY <1>5, <1>6, <1>8, <1>9, <2>1 DEF UnderWay, Received, Bit
  <2>3. Phase(e)'
    BY <1>3, <1>4, <1>5, <1>6, <1>8, <1>9, <2>1, <2>2
    DEF Phase, Idle, UnderWay, Arrived, Bit
  <2>4. \A q \in Live(e) : ~q.reliable
    BY <2>1 DEF Protocol, OneLiveCopy
  <2>5. send_reliable(e)
    BY <1>9 DEF send_reliable
  <2>6. \A q \in Live(e)' : q.reliable => /\ q.sequence = last_reliable_sequence'[e]
                                         /\ q.data = reliable_buf'[e]
                                         /\ ~Received(e)'
    BY <1>2, <1>4, <1>6, <2>2, <2>4, <2>5 DEF UnderWay
  <2>7. QED
    BY <1>1, <1>4, <1>5, <1>7, <2>3, <2>6 DEF Phases, Protocol, OneLiveCopy
<1>10. CASE ~Fresh(e) /\ Lost(e)
  <2>1. UnderWay(e)
    BY <1>3, <1>8, <1>10 DEF Phase, Idle, UnderWay, Arrived, Lost
  <2>2. UnderWay(e)'
    BY <1>5, <1>6, <1>10, <2>1 DEF UnderWay, Received, Buffered
  <2>3. Phase(e)'
    BY <1>3, <1>4, <1>5, <1>6, <1>10, <2>1, <2>2 DEF Phase, Idle, UnderWay, Arrived
  <2>4. \A q \in Live(e) : q.sequence > incoming_sequence[o]
    BY DEF Live
  <2>5. \A q \in Live(e) : ~q.reliable
    <3>1. last_reliable_sequence[e] < incoming_sequence[o]
      BY <1>8, <1>10 DEF Lost
    <3>2. \A q \in Live(e) : q.reliable => q.sequence = last_reliable_sequence[e]
      BY DEF Protocol, OneLiveCopy
    <3>3. QED
      BY <1>8, <2>4, <3>1, <3>2
  <2>6. send_reliable(e)
    BY <1>10 DEF send_reliable
  <2>7. \A q \in Live(e)' : q.reliable => /\ q.sequence = last_reliable_sequence'[e]
                                         /\ q.data = reliable_buf'[e]
                                         /\ ~Received(e)'
    BY <1>2, <1>4, <1>6, <2>2, <2>5, <2>6 DEF UnderWay
  <2>8. QED
    BY <1>1, <1>4, <1>5, <1>7, <2>3, <2>7 DEF Phases, Protocol, OneLiveCopy
<1>11. CASE ~send_reliable(e)
  <2>1. ~Fresh(e) /\ Buffered(e) = reliable_buf[e]
    BY <1>11 DEF send_reliable, Buffered
  <2>2. /\ reliable_buf'[e] = reliable_buf[e]
        /\ reliable_sequence'[e] = reliable_sequence[e]
        /\ last_reliable_sequence'[e] = last_reliable_sequence[e]
    BY <1>6, <1>11, <2>1
  <2>3. Phase(e)'
    BY <1>3, <1>4, <1>5, <2>2 DEF Phase, Idle, UnderWay, Arrived, Received
  <2>4. \A q \in Live(e)' : q.reliable => /\ q.sequence = last_reliable_sequence'[e]
                                         /\ q.data = reliable_buf'[e]
                                         /\ ~Received(e)'
    BY <1>2, <1>4, <1>5, <1>11, <2>2 DEF Protocol, OneLiveCopy, Received
  <2>5. QED
    BY <1>1, <1>4, <1>5, <1>7, <2>3, <2>4 DEF Phases, Protocol, OneLiveCopy
<1>12. QED
  BY <1>9, <1>10, <1>11 DEF send_reliable

LEMMA PhasesProcess ==
  ASSUME TypeOK, Protocol, NEW e \in Peer, NEW p \in net, Process(e, p)
  PROVE  Phases' /\ OneLiveCopy'
<1> DEFINE o == Other(e)
<1>1. /\ o \in Peer /\ o # e /\ Other(o) = e
      /\ \A f \in Peer : f = e \/ f = o
  BY OtherPeer DEF Peer, Other
<1>2. /\ Phase(e) /\ Phase(o)
  BY <1>1 DEF Protocol, Phases
<1>3. /\ p \in Live(o)
      /\ Live(e)' = Live(e)
      /\ \A q \in Live(o)' : q \in Live(o) /\ q.sequence > p.sequence
  BY LiveProcess
<1>4. /\ reliable_buf'[o] = reliable_buf[o]
      /\ reliable_sequence' = reliable_sequence
      /\ last_reliable_sequence' = last_reliable_sequence
      /\ incoming_sequence'[o] = incoming_sequence[o]
      /\ incoming_acknowledged'[o] = incoming_acknowledged[o]
      /\ incoming_reliable_acknowledged'[o] = incoming_reliable_acknowledged[o]
      /\ incoming_reliable_sequence'[o] = incoming_reliable_sequence[o]
      /\ (Received(e)' <=> Received(e))
  BY <1>1 DEF Process, InOrder, Acknowledges, Flip, TypeOK, Received
<1>5. /\ reliable_buf'[e] = IF p.reliable_ack = reliable_sequence[e]
                            THEN <<>> ELSE reliable_buf[e]
      /\ incoming_sequence'[e] = p.sequence
      /\ p.sequence > incoming_sequence[e]
      /\ incoming_acknowledged'[e] = p.ack
      /\ incoming_reliable_acknowledged'[e] = p.reliable_ack
      /\ incoming_reliable_sequence'[e] =
           IF p.reliable THEN 1 - incoming_reliable_sequence[e]
                         ELSE incoming_reliable_sequence[e]
  BY DEF Process, InOrder, Acknowledges, Flip, TypeOK
<1>6. /\ incoming_acknowledged[o] <= incoming_sequence[e]
      /\ incoming_acknowledged[o] \in Nat /\ incoming_sequence[e] \in Nat
      /\ incoming_sequence[o] \in Nat
      /\ \A f \in Peer : last_reliable_sequence[f] \in Nat
      /\ reliable_sequence[o] \in Bit /\ incoming_reliable_sequence[e] \in Bit
      /\ \A q \in net : q.sequence \in Nat /\ q.ack \in Nat
      /\ \A q \in Live(e) : q.ack <= incoming_sequence[e] /\ q \in net
      /\ \A q \in Live(o) : q.src = o /\ q \in net
  BY <1>1 DEF Protocol, Order, Counters, TypeOK, Packet, Live
<1>7. \A q \in Live(o)' : q.ack >= p.ack
  BY <1>3, <1>6 DEF Protocol, Order, AcksOrdered
(* e as a sender: p acknowledges its messages. *)
<1>8. Phase(e)'
  <2>1. CASE p.reliable_ack = reliable_sequence[e]
    <3>1. Idle(e)' /\ incoming_reliable_acknowledged'[e] = reliable_sequence'[e]
      BY <1>4, <1>5, <2>1 DEF Idle
    <3>2. Received(e)
      BY <1>2, <1>3, <2>1 DEF Phase, Idle, UnderWay, Arrived
    <3>3. \A q \in Live(o)' : q.reliable_ack = reliable_sequence[e]
      <4>1. CASE Idle(e)
        BY <1>2, <1>3, <4>1 DEF Phase
      <4>2. CASE Arrived(e)
        BY <1>2, <1>3, <1>6, <1>7, <2>1, <4>2 DEF Phase
      <4>3. QED
        BY <3>2, <4>1, <4>2 DEF Idle, Arrived
    <3>4. QED
      BY <1>4, <3>1, <3>2, <3>3 DEF Phase, Idle, UnderWay, Arrived
  <2>2. CASE p.reliable_ack # reliable_sequence[e]
    <3>1. reliable_buf'[e] = reliable_buf[e] /\ ~Idle(e)
      BY <1>2, <1>3, <1>5, <2>2 DEF Phase
    <3>2. Arrived(e) => p.ack < last_reliable_sequence[e]
      BY <1>2, <1>3, <1>6, <2>2 DEF Phase
    <3>3. QED
      BY <1>2, <1>3, <1>4, <1>5, <2>2, <3>1, <3>2 DEF Phase, Idle, UnderWay, Arrived
  <2>3. QED
    BY <2>1, <2>2
<1>9. \A q \in Live(e)' : q.reliable => /\ q.sequence = last_reliable_sequence'[e]
                                       /\ q.data = reliable_buf'[e]
                                       /\ ~Received(e)'
  <2>1. ASSUME NEW q \in Live(e), q.reliable
        PROVE  /\ q.sequence = last_reliable_sequence[e]
               /\ q.data = reliable_buf[e]
               /\ ~Received(e)
    BY <2>1 DEF Protocol, OneLiveCopy
  <2>2. ~Received(e) => p.reliable_ack # reliable_sequence[e]
    BY <1>2, <1>3 DEF Phase, Idle, UnderWay
  <2>3. QED
    BY <1>3, <1>4, <1>5, <2>1, <2>2
(* o as a sender: p may bring its reliable message. *)
<1>10. CASE p.reliable
  <2>1. /\ p.sequence = last_reliable_sequence[o]
        /\ ~Received(o)
    BY <1>1, <1>3, <1>10 DEF Protocol, OneLiveCopy
  <2>2. UnderWay(o)
    BY <1>2, <2>1 DEF Phase, Idle, UnderWay
  <2>3. Arrived(o)'
    BY <1>1, <1>4, <1>5, <1>6, <1>10, <2>2 DEF UnderWay, Arrived, Received, Bit
  <2>4. Phase(o)'
    <3>1. \A q \in Live(e) : q.reliable_ack # reliable_sequence[o] /\ q.ack < p.sequence
      BY <1>1, <1>2, <1>5, <1>6, <2>2 DEF Phase
    <3>2. /\ incoming_reliable_acknowledged'[o] # reliable_sequence'[o]
          /\ incoming_acknowledged'[o] < last_reliable_sequence'[o]
          /\ incoming_sequence'[e] >= last_reliable_sequence'[o]
      BY <1>2, <1>4, <1>5, <1>6, <2>1, <2>2 DEF Phase
    <3>3. \A q \in Live(e)' : q.reliable_ack = reliable_sequence'[o]
                             <=> q.ack >= last_reliable_sequence'[o]
      BY <1>3, <1>4, <1>6, <2>1, <3>1
    <3>4. QED
      BY <1>1, <2>3, <3>2, <3>3 DEF Phase, Arrived, Idle, UnderWay
  <2>5. \A q \in Live(o)' : ~q.reliable
    BY <1>1, <1>3, <1>6, <2>1 DEF Protocol, OneLiveCopy
  <2>6. QED
    BY <1>1, <1>8, <1>9, <2>4, <2>5 DEF Phases, OneLiveCopy
<1>11. CASE ~p.reliable
  <2>1. Received(o)' <=> Received(o)
    BY <1>1, <1>4, <1>5, <1>11 DEF Received
  <2>2. Phase(o)'
    BY <1>1, <1>2, <1>3, <1>4, <1>5, <1>6, <2>1 DEF Phase, Idle, UnderWay, Arrived
  <2>3. \A q \in Live(o)' : q.reliable => /\ q.sequence = last_reliable_sequence'[o]
                                         /\ q.data = reliable_buf'[o]
                                         /\ ~Received(o)'
    BY <1>1, <1>3, <1>4, <2>1 DEF Protocol, OneLiveCopy
  <2>4. QED
    BY <1>1, <1>8, <1>9, <2>2, <2>3 DEF Phases, OneLiveCopy
<1>12. QED
  BY <1>10, <1>11

----------------------------------------------------------------------------
(* The data: sequences and prefixes.                                       *)

LEMMA PrefixOfConcat ==
  ASSUME NEW S, NEW s \in Seq(S), NEW t \in Seq(S)
  PROVE  IsPrefixOf(s, s \o t)
<1>1. Len(s \o t) = Len(s) + Len(t) /\ Len(s) \in Nat /\ Len(t) \in Nat
  BY ConcatProperties, LenProperties
<1>2. CASE s = <<>>
  <2>1. SubSeq(s \o t, 1, Len(s)) = <<>>
    BY <1>2, SubSeqEmpty
  <2>2. QED
    BY <1>1, <1>2, <2>1 DEF IsPrefixOf
<1>3. CASE s # <<>>
  <2>1. Len(s) \in 1 .. Len(s)
    BY <1>1, <1>3, EmptySeq
  <2>2. SubSeq(s \o t, 1, Len(s)) = SubSeq(s, 1, Len(s))
    BY <2>1, SubSeqOfConcat1, 1 \in 1 .. Len(s)
  <2>3. QED
    BY <1>1, <2>2, SubSeqFull DEF IsPrefixOf
<1>4. QED
  BY <1>2, <1>3

LEMMA PrefixAppend ==
  ASSUME NEW S, NEW s \in Seq(S), NEW t \in Seq(S), NEW d \in S, IsPrefixOf(s, t)
  PROVE  IsPrefixOf(s, Append(t, d))
<1>1. Append(t, d) = t \o <<d>>
  BY AppendIsConcat
<1>2. /\ Len(s) \in Nat /\ Len(t) \in Nat /\ Len(s) <= Len(t)
      /\ Len(t \o <<d>>) = Len(t) + 1
  BY ConcatProperties, LenProperties DEF IsPrefixOf
<1>3. CASE Len(s) = 0
  BY <1>1, <1>2, <1>3, SubSeqEmpty, EmptySeq DEF IsPrefixOf
<1>4. CASE Len(s) > 0
  <2>1. 1 \in 1 .. Len(t) /\ Len(s) \in 1 .. Len(t)
    BY <1>2, <1>4
  <2>2. SubSeq(t \o <<d>>, 1, Len(s)) = SubSeq(t, 1, Len(s))
    BY <2>1, SubSeqOfConcat1
  <2>3. QED
    BY <1>1, <1>2, <2>2 DEF IsPrefixOf
<1>5. QED
  BY <1>2, <1>3, <1>4

LEMMA AppendConcat ==
  \A s, t \in Seq(Data), d \in Data : Append(s \o t, d) = s \o Append(t, d)
<1> TAKE s, t \in Seq(Data), d \in Data
<1>1. <<d>> \in Seq(Data) /\ s \o t \in Seq(Data)
  BY ConcatProperties
<1>2. Append(s \o t, d) = (s \o t) \o <<d>> /\ Append(t, d) = t \o <<d>>
  BY <1>1, AppendIsConcat
<1>3. (s \o t) \o <<d>> = s \o (t \o <<d>>)
  BY <1>1, ConcatAssociative
<1>4. QED
  BY <1>2, <1>3

LEMMA HandedType ==
  ASSUME TypeOK, NEW e \in Peer
  PROVE  /\ Handed(e) \in Seq(Data) /\ message[e] \in Seq(Data)
         /\ written[e] \in Seq(Data) /\ delivered[e] \in Seq(Data)
         /\ reliable_buf[e] \in Seq(Data)
<1>1. (IF Received(e) THEN <<>> ELSE reliable_buf[e]) \in Seq(Data)
  BY DEF TypeOK
<1>2. QED
  BY <1>1, ConcatProperties DEF TypeOK, Handed

LEMMA LostInit == Init => NothingLost
<1> SUFFICES ASSUME Init, NEW e \in Peer
    PROVE  /\ ~overflowed[e] => written[e] = Handed(e) \o message[e]
           /\ IsPrefixOf(Handed(e), written[e])
  BY DEF NothingLost
<1>1. Handed(e) = <<>> /\ written[e] = <<>> /\ message[e] = <<>>
  BY OtherPeer, ConcatEmptySeq DEF Init, Handed, Received
<1>2. <<>> \o <<>> = <<>> /\ <<>> \in Seq(Data)
  BY ConcatEmptySeq
<1>3. QED
  BY <1>1, <1>2, PrefixOfConcat

LEMMA LostWrite ==
  ASSUME TypeOK, NothingLost, NEW e \in Peer, NEW d \in Data, Write(e, d)
  PROVE  NothingLost'
<1> SUFFICES ASSUME NEW f \in Peer
    PROVE  (/\ ~overflowed[f] => written[f] = Handed(f) \o message[f]
            /\ IsPrefixOf(Handed(f), written[f]))'
  BY DEF NothingLost
<1>1. Handed(f)' = Handed(f)
  BY DEF Write, Handed, Received
<1>2. /\ ~overflowed[f] => written[f] = Handed(f) \o message[f]
      /\ IsPrefixOf(Handed(f), written[f])
  BY DEF NothingLost
<1>3. CASE f # e
  BY <1>1, <1>2, <1>3 DEF Write, TypeOK, IsPrefixOf
<1>4. CASE f = e
  <2>1. written'[e] = Append(written[e], d)
    BY DEF Write, TypeOK
  <2>2. IsPrefixOf(Handed(e), Append(written[e], d))
    BY <1>2, <1>4, HandedType, PrefixAppend
  <2>3. ASSUME ~overflowed'[e]
        PROVE  written'[e] = Handed(e) \o message'[e]
    <3>1. ~overflowed[e] /\ message'[e] = Append(message[e], d)
      BY <2>3 DEF Write, TypeOK
    <3>2. written[e] = Handed(e) \o message[e]
      BY <1>2, <1>4, <3>1
    <3>3. Handed(e) \in Seq(Data) /\ message[e] \in Seq(Data)
      BY HandedType
    <3>4. QED
      BY <2>1, <3>1, <3>2, <3>3, AppendConcat
  <2>4. QED
    BY <1>1, <1>4, <2>1, <2>2, <2>3 DEF IsPrefixOf
<1>5. QED
  BY <1>3, <1>4

LEMMA LostTransmit ==
  ASSUME TypeOK, Protocol, NothingLost, NEW e \in Peer, Transmit(e)
  PROVE  NothingLost'
<1> SUFFICES ASSUME NEW f \in Peer
    PROVE  (/\ ~overflowed[f] => written[f] = Handed(f) \o message[f]
            /\ IsPrefixOf(Handed(f), written[f]))'
  BY DEF NothingLost
<1>1. /\ ~overflowed[f] => written[f] = Handed(f) \o message[f]
      /\ IsPrefixOf(Handed(f), written[f])
  BY DEF NothingLost
<1>2. /\ written' = written /\ overflowed' = overflowed /\ delivered' = delivered
      /\ incoming_reliable_sequence' = incoming_reliable_sequence
      /\ ~overflowed[e]
  BY DEF Transmit, Flip, LastSent
<1>3. CASE f # e
  <2>1. Handed(f)' = Handed(f) /\ message'[f] = message[f]
    BY <1>2, <1>3 DEF Transmit, Flip, LastSent, TypeOK, Handed, Received
  <2>2. QED
    BY <1>1, <1>2, <2>1 DEF IsPrefixOf
<1>4. CASE f = e /\ ~Fresh(e)
  <2>1. Handed(f)' = Handed(f) /\ message'[f] = message[f]
    BY <1>2, <1>4 DEF Transmit, Flip, LastSent, TypeOK, Handed, Received, Buffered
  <2>2. QED
    BY <1>1, <1>2, <2>1 DEF IsPrefixOf
<1>5. CASE f = e /\ Fresh(e)
  <2>1. Received(e)
    BY <1>5 DEF Protocol, Phases, Phase, Idle, Fresh
  <2>2. Handed(e) = delivered[e]
    BY <2>1, HandedType, ConcatEmptySeq DEF Handed
  <2>3. ~Received(e)'
    <3>1. /\ reliable_sequence[e] \in Bit
          /\ reliable_sequence'[e] = 1 - reliable_sequence[e]
      BY <1>5 DEF Transmit, Flip, LastSent, TypeOK
    <3>2. QED
      BY <1>2, <2>1, <3>1 DEF Bit, Received
  <2>4. reliable_buf'[e] = message[e] /\ message'[e] = <<>>
    BY <1>5 DEF Transmit, Flip, LastSent, TypeOK, Buffered
  <2>5. Handed(e)' = delivered[e] \o message[e]
    BY <1>2, <2>3, <2>4 DEF Handed
  <2>6. written[e] = delivered[e] \o message[e]
    BY <1>1, <1>2, <1>5, <2>2
  <2>7. /\ written[e] \o <<>> = written[e]
        /\ IsPrefixOf(written[e], written[e] \o <<>>)
    <3>1. written[e] \in Seq(Data) /\ <<>> \in Seq(Data)
      BY HandedType
    <3>2. QED
      BY <3>1, ConcatEmptySeq, PrefixOfConcat
  <2>8. QED
    BY <1>2, <1>5, <2>4, <2>5, <2>6, <2>7 DEF IsPrefixOf
<1>6. QED
  BY <1>3, <1>4, <1>5

(* A reliable packet brings exactly what is under way, and nothing else    *)
(* changes what an end was handed.                                         *)
LEMMA HandedProcess ==
  ASSUME TypeOK, Protocol, NEW e \in Peer, NEW p \in net, Process(e, p),
         NEW f \in Peer
  PROVE  Handed(f)' = Handed(f)
<1>1. p \in Live(Other(e))
  BY LiveProcess
<1>2. CASE f = e
  <2>1. Received(e)' <=> Received(e)
    BY OtherPeer DEF Process, InOrder, Acknowledges, Flip, TypeOK, Received
  <2>2. delivered'[e] = delivered[e]
    BY OtherPeer DEF Process, InOrder, Acknowledges, Flip, TypeOK
  <2>3. ~Received(e) => reliable_buf'[e] = reliable_buf[e]
    <3>1. ~Received(e) => p.reliable_ack # reliable_sequence[e]
      BY <1>1 DEF Protocol, Phases, Phase, Idle, UnderWay
    <3>2. QED
      BY <3>1 DEF Process, InOrder, Acknowledges, Flip, TypeOK
  <2>4. QED
    BY <1>2, <2>1, <2>2, <2>3 DEF Handed
<1>3. CASE f = Other(e) /\ p.reliable
  <2>1. p.data = reliable_buf[f] /\ ~Received(f)
    BY <1>1, <1>3 DEF Protocol, OneLiveCopy
  <2>2. Received(f)'
    <3>1. /\ Other(f) = e
          /\ reliable_sequence'[f] = reliable_sequence[f]
          /\ reliable_sequence[f] \in Bit /\ incoming_reliable_sequence[e] \in Bit
          /\ incoming_reliable_sequence'[e] = 1 - incoming_reliable_sequence[e]
      BY <1>3, OtherPeer DEF Process, InOrder, Acknowledges, Flip, TypeOK
    <3>2. QED
      BY <2>1, <3>1 DEF Received, Bit
  <2>5. delivered'[f] = delivered[f] \o p.data
    BY <1>3 DEF Process, InOrder, Acknowledges, Flip, TypeOK
  <2>3. (delivered[f] \o p.data) \o <<>> = delivered[f] \o p.data
    <3>1. delivered[f] \o p.data \in Seq(Data)
      BY <2>1, HandedType, ConcatProperties
    <3>2. QED
      BY <3>1, ConcatEmptySeq
  <2>4. QED
    BY <2>1, <2>2, <2>3, <2>5 DEF Handed
<1>4. CASE f = Other(e) /\ ~p.reliable
  BY <1>4, OtherPeer DEF Process, InOrder, Acknowledges, Flip, TypeOK, Handed, Received
<1>5. QED
  BY <1>2, <1>3, <1>4 DEF Peer, Other

LEMMA LostProcess ==
  ASSUME TypeOK, Protocol, NothingLost,
         NEW e \in Peer, NEW p \in net, Process(e, p)
  PROVE  NothingLost'
<1> SUFFICES ASSUME NEW f \in Peer
    PROVE  (/\ ~overflowed[f] => written[f] = Handed(f) \o message[f]
            /\ IsPrefixOf(Handed(f), written[f]))'
  BY DEF NothingLost
<1>1. Handed(f)' = Handed(f)
  BY HandedProcess
<1>2. QED
  BY <1>1 DEF NothingLost, Process, InOrder, Acknowledges, Flip, IsPrefixOf

----------------------------------------------------------------------------
(* The invariant of the channel, behind every theorem below.               *)
THEOREM Invariance == Spec => []IInv
<1>1. Init => IInv
  BY TypeInit, ProtocolInit, LostInit DEF IInv, Protocol, Order
<1>2. IInv /\ [Next]_vars => IInv'
  <2> SUFFICES ASSUME IInv, [Next]_vars PROVE IInv'
    OBVIOUS
  <2>1. TypeOK /\ Protocol /\ Order /\ NothingLost
    BY DEF IInv, Protocol, Order
  <2>2. TypeOK'
    BY <2>1, TypeNext
  <2>3. ASSUME NEW e \in Peer, NEW d \in Data, Write(e, d)
        PROVE  Protocol' /\ NothingLost'
    <3>1. Protocol'
      BY <2>1, <2>3 DEF Write, Protocol, Order, Counters, AcksOrdered, Phases, Phase,
                        Idle, UnderWay, Arrived, OneLiveCopy, Live, Received
    <3>2. QED
      BY <2>1, <2>3, <3>1, LostWrite
  <2>4. ASSUME NEW e \in Peer, Transmit(e)
        PROVE  Protocol' /\ NothingLost'
    BY <2>1, <2>4, OrderTransmit, PhasesTransmit, LostTransmit DEF Protocol
  <2>5. ASSUME NEW e \in Peer, NEW p \in net, Process(e, p)
        PROVE  Protocol' /\ NothingLost'
    BY <2>1, <2>5, OrderProcess, PhasesProcess, LostProcess DEF Protocol
  <2>6. ASSUME UNCHANGED vars
        PROVE  Protocol' /\ NothingLost'
    <3>1. Protocol'
      BY <2>1, <2>6 DEF vars, chanVars, Protocol, Order, Counters, AcksOrdered, Phases,
                        Phase, Idle, UnderWay, Arrived, OneLiveCopy, Live, Received
    <3>2. NothingLost'
      BY <2>1, <2>6 DEF vars, chanVars, NothingLost, Handed, IsPrefixOf, Received
    <3>3. QED
      BY <3>1, <3>2
  <2>7. ASSUME Next
        PROVE  Protocol' /\ NothingLost'
    BY <2>3, <2>4, <2>5, <2>7 DEF Next
  <2>8. QED
    <3>1. Protocol' /\ NothingLost'
      BY <2>6, <2>7
    <3>2. QED
      BY <2>2, <3>1 DEF IInv, Protocol, Order
<1>3. QED
  BY <1>1, <1>2, PTL DEF Spec

(* Nothing written to the reliable buffer is lost, repeated or reordered   *)
(* by Netchan_Transmit and Netchan_Process, whatever the network does.     *)
THEOREM NothingIsLost == Spec => []NothingLost
<1>1. IInv => NothingLost
  BY DEF IInv
<1>2. QED
  BY <1>1, Invariance, PTL

(* An ack frees the reliable buffer only if it is for the message in it.   *)
THEOREM AckIsForTheBuffer == Spec => []FreedOnlyWhenReceived
<1>1. IInv => FreedOnlyWhenReceived
  BY DEF IInv, Phases, Phase, Idle, FreedOnlyWhenReceived
<1>2. QED
  BY <1>1, Invariance, PTL

(* At most one copy of a reliable message can still be accepted.           *)
THEOREM AtMostOneLiveCopy == Spec => []OneLiveCopy
<1>1. IInv => OneLiveCopy
  BY DEF IInv
<1>2. QED
  BY <1>1, Invariance, PTL

(* A retransmission always has a message to send.                          *)
THEOREM RetransmissionNotEmpty == Spec => []NoEmptyReliable
<1>1. IInv => NoEmptyReliable
  BY DEF IInv, Phases, Phase, Idle, NoEmptyReliable, Lost
<1>2. QED
  BY <1>1, Invariance, PTL

----------------------------------------------------------------------------
(* What a step may never do.                                               *)

LEMMA StaleWhenResent ==
  ASSUME TypeOK, Protocol, NEW e \in Peer, send_reliable(e)
  PROVE  \A q \in Live(e) : ~q.reliable
<1>1. \A q \in Live(e) : q.reliable => /\ q.sequence = last_reliable_sequence[e]
                                       /\ ~Received(e)
  BY DEF Protocol, OneLiveCopy
<1>2. CASE Fresh(e)
  BY <1>1, <1>2 DEF Protocol, Phases, Phase, Idle, Fresh
<1>3. CASE Lost(e)
  <2>1. /\ incoming_acknowledged[e] \in Nat /\ incoming_sequence[Other(e)] \in Nat
        /\ last_reliable_sequence[e] \in Nat
    BY OtherPeer DEF TypeOK
  <2>2. last_reliable_sequence[e] < incoming_sequence[Other(e)]
    BY <1>3, <2>1 DEF Lost, Protocol, Order, Counters
  <2>3. \A q \in Live(e) : q.sequence > incoming_sequence[Other(e)] /\ q.sequence \in Nat
    BY DEF Live, TypeOK, Packet
  <2>4. QED
    BY <1>1, <2>1, <2>2, <2>3
<1>4. QED
  BY <1>2, <1>3 DEF send_reliable

(* A reliable message is only put into a packet by Netchan_Transmit when   *)
(* all its earlier copies are stale at the receiver.                       *)
THEOREM ResentOnlyWhenStale == Spec => RetransmitsOnlyTheLost
<1> DEFINE Sent == \A e \in Peer, p \in net' \ net :
                     p.src = e /\ p.reliable => \A q \in Live(e) : ~q.reliable
<1>1. IInv /\ [Next]_vars => [Sent]_vars
  <2> SUFFICES ASSUME IInv, Next, NEW f \in Peer, NEW p \in net' \ net,
                      p.src = f, p.reliable
               PROVE  \A q \in Live(f) : ~q.reliable
    OBVIOUS
  <2>1. TypeOK /\ Protocol
    BY DEF IInv, Protocol, Order
  <2>2. PICK e \in Peer : Transmit(e)
    BY DEF Next, Write, Process
  <2>3. p = Datagram(e)
    BY <2>2 DEF Transmit
  <2>4. f = e /\ send_reliable(e)
    BY <2>3 DEF Datagram
  <2>5. QED
    BY <2>1, <2>4, StaleWhenResent
<1>2. QED
  BY <1>1, Invariance, PTL DEF Spec, RetransmitsOnlyTheLost

(* Netchan_Process takes over the ack of a packet without comparing it to  *)
(* the one it has, and never goes back.                                    *)
THEOREM AcksAdvance == Spec => AcksNeverRetreat
<1> DEFINE Forward == \A e \in Peer :
                        incoming_acknowledged'[e] >= incoming_acknowledged[e]
<1>1. IInv /\ [Next]_vars => [Forward]_vars
  <2> SUFFICES ASSUME IInv, Next, NEW f \in Peer
               PROVE  incoming_acknowledged'[f] >= incoming_acknowledged[f]
    OBVIOUS
  <2>1. TypeOK /\ AcksOrdered
    BY DEF IInv
  <2>2. incoming_acknowledged[f] \in Nat
    BY <2>1 DEF TypeOK
  <2>3. CASE incoming_acknowledged' = incoming_acknowledged
    BY <2>2, <2>3
  <2>4. ASSUME NEW e \in Peer, NEW p \in net, Process(e, p)
        PROVE  incoming_acknowledged'[f] >= incoming_acknowledged[f]
    <3>1. p \in Live(Other(e))
      BY <2>1, <2>4, LiveProcess
    <3>2. p.ack >= incoming_acknowledged[e]
      BY <2>1, <3>1 DEF AcksOrdered
    <3>3. QED
      BY <2>1, <2>2, <2>4, <3>2 DEF Process, TypeOK
  <2>5. QED
    BY <2>3, <2>4 DEF Next, Write, Transmit
<1>2. QED
  BY <1>1, Invariance, PTL DEF Spec, AcksNeverRetreat

----------------------------------------------------------------------------
(* The channel implements the reliable stream.                             *)

LEMMA AppendsOne ==
  ASSUME NEW e \in Peer, NEW d \in Data, Write(e, d)
  PROVE  Stream!StreamNext
<1>1. /\ \E c \in Data : written' = [written EXCEPT ![e] = Append(@, c)]
      /\ UNCHANGED delivered
  BY DEF Write
<1>2. Stream!Append1(e)
  BY <1>1 DEF Stream!Append1
<1>3. QED
  BY <1>2 DEF Stream!StreamNext, Stream!Peer, Peer

LEMMA AdvancesByAMessage ==
  ASSUME TypeOK, Protocol, NothingLost,
         NEW e \in Peer, NEW p \in net, Process(e, p), p.reliable
  PROVE  Stream!StreamNext
<1> DEFINE o == Other(e)
           n == Len(delivered[o]) + Len(reliable_buf[o])
<1>1. o \in Peer /\ Other(o) = e
  BY OtherPeer
<1>2. p.data = reliable_buf[o] /\ ~Received(o)
  BY <1>1, LiveProcess DEF Protocol, OneLiveCopy
<1>3. reliable_buf[o] # <<>>
  BY <1>1, <1>2 DEF Protocol, Phases, Phase, Idle
<1>4. /\ delivered[o] \in Seq(Data) /\ reliable_buf[o] \in Seq(Data)
      /\ written[o] \in Seq(Data)
  BY <1>1, HandedType
<1>5. Handed(o) = delivered[o] \o reliable_buf[o]
  BY <1>2 DEF Handed
<1>6. /\ Len(Handed(o)) = n
      /\ n \in Len(delivered[o]) + 1 .. Len(written[o])
  <2>1. Len(Handed(o)) = n
    BY <1>4, <1>5, ConcatProperties
  <2>2. Len(Handed(o)) <= Len(written[o])
    BY <1>1 DEF NothingLost, IsPrefixOf
  <2>3. Len(reliable_buf[o]) > 0 /\ Len(reliable_buf[o]) \in Nat
    BY <1>3, <1>4, EmptySeq, LenProperties
  <2>4. Len(delivered[o]) \in Nat /\ Len(written[o]) \in Nat
    BY <1>4, LenProperties
  <2>5. \A a, r, w \in Nat : r > 0 /\ a + r <= w => a + r \in a + 1 .. w
    OBVIOUS
  <2>6. n <= Len(written[o])
    BY <2>1, <2>2
  <2>7. QED
    BY <2>1, <2>3, <2>4, <2>5, <2>6
<1>7. Handed(o) = SubSeq(written[o], 1, n)
  BY <1>1, <1>6 DEF NothingLost, IsPrefixOf
<1>8. /\ delivered' = [delivered EXCEPT ![o] = SubSeq(written[o], 1, n)]
      /\ UNCHANGED written
  BY <1>2, <1>5, <1>7 DEF Process
<1>9. Stream!Advance(o)
  BY <1>6, <1>8 DEF Stream!Advance
<1>10. QED
  BY <1>1, <1>9 DEF Stream!StreamNext, Stream!Peer, Peer

(* Every step of the channel is a step of ReliableStream or leaves the     *)
(* streams alone: Netchan_Process hands over whole reliable messages, in   *)
(* the order of SZ_Write.                                                  *)
THEOREM Refinement == Spec => ImplementsStream
<1>1. Init => Stream!StreamInit
  BY DEF Init, Stream!StreamInit, Stream!Peer, Peer
<1>2. IInv /\ [Next]_vars => [Stream!StreamNext]_(Stream!streamVars)
  <2> SUFFICES ASSUME IInv, [Next]_vars
               PROVE  Stream!StreamNext \/ UNCHANGED Stream!streamVars
    OBVIOUS
  <2>1. TypeOK /\ Protocol /\ NothingLost
    BY DEF IInv, Protocol, Order
  <2>2. ASSUME NEW e \in Peer, NEW d \in Data, Write(e, d)
        PROVE  Stream!StreamNext
    BY <2>2, AppendsOne
  <2>3. ASSUME NEW e \in Peer, Transmit(e)
        PROVE  UNCHANGED Stream!streamVars
    BY <2>3 DEF Transmit, Stream!streamVars
  <2>4. ASSUME NEW e \in Peer, NEW p \in net, Process(e, p)
        PROVE  Stream!StreamNext \/ UNCHANGED Stream!streamVars
    <3>1. CASE p.reliable
      BY <2>1, <2>4, <3>1, AdvancesByAMessage
    <3>2. CASE ~p.reliable
      BY <2>4, <3>2 DEF Process, Stream!streamVars
    <3>3. QED
      BY <3>1, <3>2
  <2>5. CASE UNCHANGED vars
    BY <2>5 DEF vars, Stream!streamVars
  <2>6. QED
    BY <2>2, <2>3, <2>4, <2>5 DEF Next
<1>3. QED
  BY <1>1, <1>2, Invariance, PTL DEF Spec, ImplementsStream, Stream!StreamSpec

-----------------------------------------------------------------------------
(* A nonempty set of natural numbers has a least member. *)
LEMMA LeastOf ==
  ASSUME NEW S \in SUBSET Nat, S # {}
  PROVE  \E x \in S : \A y \in S : x <= y
<1> DEFINE T == {0 .. y : y \in S}
<1>1. T \subseteq FiniteSubsetsOf(Nat) /\ T # {}
  <2>1. ASSUME NEW y \in S PROVE 0 .. y \in FiniteSubsetsOf(Nat)
    <3>1. 0 \in Int /\ y \in Int /\ 0 .. y \subseteq Nat
      OBVIOUS
    <3>2. IsFiniteSet(0 .. y)
      BY <3>1, FS_Interval
    <3>3. QED
      BY <3>1, <3>2 DEF FiniteSubsetsOf
  <2>2. QED
    BY <2>1
<1>2. PICK low \in T : \A t \in T : <<t, low>> \notin StrictSubsetOrdering(Nat)
  BY <1>1, WFMin, FS_StrictSubsetOrderingWellFounded
<1>3. PICK x \in S : low = 0 .. x
  BY <1>2
<1>4. ASSUME NEW y \in S PROVE x <= y
  <2>1. <<0 .. y, 0 .. x>> \notin StrictSubsetOrdering(Nat)
    BY <1>2, <1>3
  <2>2. x \in Nat /\ y \in Nat
    OBVIOUS
  <2>3. SUFFICES ASSUME y < x PROVE FALSE
    BY <2>2
  <2>4. 0 .. y \subseteq 0 .. x /\ x \in 0 .. x /\ x \notin 0 .. y /\ 0 .. x \subseteq Nat
    BY <2>2, <2>3
  <2>5. QED
    BY <2>1, <2>4 DEF StrictSubsetOrdering
<1>5. QED
  BY <1>4


(* A sequence of whatever elements. *)
Listed(s) == \E S : s \in Seq(S)

LEMMA ListedIs ==
  ASSUME NEW s, Listed(s)
  PROVE  /\ Len(s) \in Nat /\ DOMAIN s = 1 .. Len(s) /\ s \o <<>> = s /\ <<>> \o s = s
         /\ s # <<>> => Len(s) > 0 /\ Head(s) = s[1]
         /\ Len(s) > 0 => s # <<>> /\ Last(s) = s[Len(s)]
<1>1. PICK S : s \in Seq(S)
  BY DEF Listed
<1>2. Len(s) \in Nat /\ DOMAIN s = 1 .. Len(s)
  BY <1>1, LenProperties
<1>3. s \o <<>> = s /\ <<>> \o s = s
  BY <1>1, ConcatEmptySeq
<1>4. s # <<>> => Len(s) > 0 /\ Head(s) = s[1]
  BY <1>1, EmptySeq, HeadTailProperties
<1>5. Len(s) > 0 => s # <<>> /\ Last(s) = s[Len(s)]
  BY EmptySeq DEF Last
<1>6. QED
  BY <1>2, <1>3, <1>4, <1>5

LEMMA ListedMore ==
  ASSUME NEW s, Listed(s), NEW m
  PROVE  /\ Listed(Append(s, m)) /\ Len(Append(s, m)) = Len(s) + 1 /\ Append(s, m)[Len(s) + 1] = m
         /\ \A i \in 1 .. Len(s) : Append(s, m)[i] = s[i]
         /\ s \o <<m>> = Append(s, m)
<1>1. PICK S : s \in Seq(S)
  BY DEF Listed
<1> DEFINE T == S \cup {m}
<1>2. s \in Seq(T) /\ m \in T
  BY <1>1, SeqMonotonic
<1> HIDE DEF T
<1>3. Append(s, m) \in Seq(T) /\ Len(Append(s, m)) = Len(s) + 1 /\ Append(s, m)[Len(s) + 1] = m
      /\ \A i \in 1 .. Len(s) : Append(s, m)[i] = s[i]
  BY <1>2, AppendProperties, LenProperties
<1>4. s \o <<m>> = Append(s, m)
  BY <1>2, AppendIsConcat
<1>5. QED
  BY <1>3, <1>4 DEF Listed

LEMMA ListedJoin ==
  ASSUME NEW s, NEW t, Listed(s), Listed(t)
  PROVE  /\ Listed(s \o t) /\ Len(s \o t) = Len(s) + Len(t)
         /\ \A i \in 1 .. Len(s) : (s \o t)[i] = s[i]
         /\ \A i \in 1 .. Len(t) : (s \o t)[Len(s) + i] = t[i]
         /\ \A i \in 1 .. Len(s) + Len(t) : i \in 1 .. Len(s) \/ i - Len(s) \in 1 .. Len(t)
         /\ \A m : s \o Append(t, m) = Append(s \o t, m)
<1>1. PICK S : s \in Seq(S)
  BY DEF Listed
<1>2. PICK T : t \in Seq(T)
  BY DEF Listed
<1> DEFINE U == S \cup T
<1>3. s \in Seq(U) /\ t \in Seq(U)
  BY <1>1, <1>2, SeqMonotonic
<1> HIDE DEF U
<1>4. s \o t \in Seq(U) /\ Len(s \o t) = Len(s) + Len(t) /\ Len(s) \in Nat /\ Len(t) \in Nat
      /\ \A i \in 1 .. Len(s) + Len(t) : (s \o t)[i] = IF i <= Len(s) THEN s[i] ELSE t[i - Len(s)]
  BY <1>3, ConcatProperties, LenProperties
<1>5. \A i \in 1 .. Len(s) : (s \o t)[i] = s[i]
  BY <1>4
<1>6. ASSUME NEW i \in 1 .. Len(t) PROVE (s \o t)[Len(s) + i] = t[i]
  <2>1. Len(s) + i \in 1 .. Len(s) + Len(t) /\ ~(Len(s) + i <= Len(s)) /\ (Len(s) + i) - Len(s) = i
    BY <1>4
  <2>2. QED
    BY <1>4, <2>1
<1>7. \A i \in 1 .. Len(s) + Len(t) : i \in 1 .. Len(s) \/ i - Len(s) \in 1 .. Len(t)
  BY <1>4
<1>8. ASSUME NEW m PROVE s \o Append(t, m) = Append(s \o t, m)
  <2>1. Listed(s \o t)
    BY <1>4 DEF Listed
  <2>2. t \o <<m>> = Append(t, m) /\ (s \o t) \o <<m>> = Append(s \o t, m)
    BY <2>1, ListedMore
  <2> DEFINE V == U \cup {m}
  <2>3. s \in Seq(V) /\ t \in Seq(V) /\ m \in V
    BY <1>3, SeqMonotonic
  <2> HIDE DEF V
  <2>4. <<m>> \in Seq(V)
    BY <2>3
  <2>5. (s \o t) \o <<m>> = s \o (t \o <<m>>)
    BY <2>3, <2>4, ConcatAssociative
  <2>6. QED
    BY <2>2, <2>5
<1>9. QED
  BY <1>4, <1>5, <1>6, <1>7, <1>8 DEF Listed

LEMMA ListedRest ==
  ASSUME NEW s, Listed(s), s # <<>>
  PROVE  /\ Listed(Tail(s)) /\ Len(Tail(s)) = Len(s) - 1
         /\ \A i \in 1 .. Len(s) - 1 : Tail(s)[i] = s[i + 1]
<1>1. PICK S : s \in Seq(S)
  BY DEF Listed
<1>2. QED
  BY <1>1, HeadTailProperties DEF Listed

LEMMA ListedShort ==
  /\ Listed(<<>>) /\ Len(<<>>) = 0
  /\ \A m : Listed(<<m>>) /\ Len(<<m>>) = 1 /\ <<m>>[1] = m
<1>1. <<>> \in Seq({}) /\ Len(<<>>) = 0
  BY EmptySeq
<1>2. ASSUME NEW m PROVE <<m>> \in Seq({m}) /\ Len(<<m>>) = 1 /\ <<m>>[1] = m
  OBVIOUS
<1>3. QED
  BY <1>1, <1>2 DEF Listed

(* Taking the first of two joined sequences' elements is taking the first of all. *)
LEMMA ListedRestJoin ==
  ASSUME NEW s, NEW t, Listed(s), Listed(t), s # <<>>
  PROVE  s \o t # <<>> /\ Tail(s) \o t = Tail(s \o t) /\ Head(s) = (s \o t)[1]
<1>1. PICK S : s \in Seq(S)
  BY DEF Listed
<1>2. PICK T : t \in Seq(T)
  BY DEF Listed
<1> DEFINE U == S \cup T
<1>3. s \in Seq(U) /\ t \in Seq(U)
  BY <1>1, <1>2, SeqMonotonic
<1> HIDE DEF U
<1>4. s \o t \in Seq(U) /\ Len(s \o t) = Len(s) + Len(t) /\ Len(s) \in Nat /\ Len(t) \in Nat /\ Len(s) > 0
      /\ \A i \in 1 .. Len(s) + Len(t) : (s \o t)[i] = IF i <= Len(s) THEN s[i] ELSE t[i - Len(s)]
  BY <1>3, ConcatProperties, LenProperties, EmptySeq
<1>5. s \o t # <<>> /\ Head(s) = (s \o t)[1]
  BY <1>3, <1>4, EmptySeq, HeadTailProperties
<1>6. Tail(s \o t) \in Seq(U) /\ Len(Tail(s \o t)) = Len(s) + Len(t) - 1
      /\ \A i \in 1 .. Len(s) + Len(t) - 1 : Tail(s \o t)[i] = (s \o t)[i+1]
  BY <1>4, <1>5, HeadTailProperties
<1>7. Tail(s) \in Seq(U) /\ Len(Tail(s)) = Len(s) - 1 /\ \A i \in 1 .. Len(s) - 1 : Tail(s)[i] = s[i+1]
  BY <1>3, <1>5, HeadTailProperties
<1>8. Tail(s) \o t \in Seq(U) /\ Len(Tail(s) \o t) = Len(s) - 1 + Len(t)
      /\ \A i \in 1 .. Len(s) - 1 + Len(t) :
           (Tail(s) \o t)[i] = IF i <= Len(s) - 1 THEN Tail(s)[i] ELSE t[i - (Len(s) - 1)]
  BY <1>3, <1>4, <1>7, ConcatProperties
<1>9. ASSUME NEW i \in 1 .. Len(s) - 1 + Len(t) PROVE (Tail(s) \o t)[i] = Tail(s \o t)[i]
  <2>1. i + 1 \in 1 .. Len(s) + Len(t) /\ i \in 1 .. Len(s) + Len(t) - 1 /\ (i + 1 <= Len(s) <=> i <= Len(s) - 1)
        /\ (i + 1) - Len(s) = i - (Len(s) - 1) /\ (i <= Len(s) - 1 => i \in 1 .. Len(s) - 1)
    BY <1>4
  <2>2. Tail(s \o t)[i] = IF i + 1 <= Len(s) THEN s[i+1] ELSE t[(i+1) - Len(s)]
    BY <1>4, <1>6, <2>1
  <2>3. QED
    BY <1>7, <1>8, <2>1, <2>2
<1>10. Len(Tail(s) \o t) = Len(Tail(s \o t))
  BY <1>4, <1>6, <1>8
<1>11. Tail(s) \o t = Tail(s \o t)
  <2>1. \A i \in 1 .. Len(Tail(s) \o t) : (Tail(s) \o t)[i] = Tail(s \o t)[i]
    BY <1>8, <1>9
  <2>2. QED
    BY <1>6, <1>8, <1>10, <2>1, SeqEqual
<1>12. QED
  BY <1>5, <1>11

(* What the client may keep for later: nothing, its frame rate, or that with the interval it had on. *)
Keeps == {0, Fps} \cup {v \in {-Fps} : Swap}
Questions == {"d1", "d2"}
(* What a message may say to a client that keeps v, and what it keeps afterwards. *)
Fits(m, v) ==
  /\ m.op # "fps"
  /\ m.op = "set" => v # 0
  /\ m.op = "borrow" => m.saved \in Keeps \ {0} /\ (m.saved = Fps => v # -Fps /\ (m.off => ~Swap))
  /\ m.op = "restore" => m.fps = Fps /\ (m.swap => Swap) /\ (~m.swap => v # -Fps)
After(m, v) == IF m.op = "borrow" THEN m.saved ELSE IF m.op = "restore" THEN 0 ELSE v
(* What the client keeps, from one message to the next. *)
Passes(h, s, ms) ==
  /\ h \in [0 .. Len(ms) -> Keeps] /\ h[0] = s
  /\ \A i \in 1 .. Len(ms) : Fits(ms[i], h[i-1]) /\ h[i] = After(ms[i], h[i-1])

LEMMA KeepsAre ==
  /\ 0 \in Keeps /\ Fps \in Keeps /\ Fps # 0 /\ -Fps # 0 /\ -Fps # Fps /\ Fps \in Nat /\ -Fps \in Int
  /\ \A v \in Keeps : v \in Int /\ (v = 0 \/ v = Fps \/ (v = -Fps /\ Swap))
  /\ Swap => -Fps \in Keeps
  /\ \A m, v : v \in Keeps /\ Fits(m, v) => After(m, v) \in Keeps
BY SeAssumption DEF Keeps, Fits, After

LEMMA PassesMore ==
  ASSUME NEW h, NEW s, NEW ms, Listed(ms), Passes(h, s, ms), NEW m, Fits(m, h[Len(ms)])
  PROVE  \E g : /\ Passes(g, s, Append(ms, m)) /\ \A i \in 0 .. Len(ms) : g[i] = h[i]
                /\ g[Len(ms) + 1] = After(m, h[Len(ms)])
<1> DEFINE n == Len(ms)
           g == [i \in 0 .. n + 1 |-> IF i <= n THEN h[i] ELSE After(m, h[n])]
<1>1. n \in Nat /\ h \in [0 .. n -> Keeps] /\ h[0] = s
      /\ \A i \in 1 .. n : Fits(ms[i], h[i-1]) /\ h[i] = After(ms[i], h[i-1])
  BY ListedIs DEF Passes
<1>2. Len(Append(ms, m)) = n + 1 /\ Append(ms, m)[n + 1] = m /\ \A i \in 1 .. n : Append(ms, m)[i] = ms[i]
  BY ListedMore
<1>3. n \in 0 .. n /\ h[n] \in Keeps /\ Fits(m, h[n])
  BY <1>1
<1>4. After(m, h[n]) \in Keeps
  BY <1>3, KeepsAre
<1>5. g \in [0 .. n + 1 -> Keeps]
  <2>1. ASSUME NEW i \in 0 .. n + 1 PROVE (IF i <= n THEN h[i] ELSE After(m, h[n])) \in Keeps
    <3>1. i <= n => i \in 0 .. n
      BY <1>1
    <3>2. QED
      BY <1>1, <1>4, <3>1
  <2>2. QED
    BY <2>1
<1>6. /\ \A i \in 0 .. n : g[i] = h[i]
      /\ g[n + 1] = After(m, h[n])
  BY <1>1
<1> HIDE DEF g
<1>7. ASSUME NEW i \in 1 .. n + 1
      PROVE  Fits(Append(ms, m)[i], g[i-1]) /\ g[i] = After(Append(ms, m)[i], g[i-1])
  <2>1. CASE i = n + 1
    <3>1. i - 1 = n
      BY <1>1, <2>1
    <3>2. g[i-1] = h[n] /\ Append(ms, m)[i] = m /\ g[i] = After(m, h[n])
      BY <1>2, <1>3, <1>6, <2>1, <3>1
    <3>3. QED
      BY <1>3, <3>2
  <2>2. CASE i # n + 1
    <3>1. i \in 1 .. n /\ i \in 0 .. n /\ i - 1 \in 0 .. n
      BY <1>1, <2>2
    <3>2. QED
      BY <1>1, <1>2, <1>6, <3>1
  <2>3. QED
    BY <2>1, <2>2
<1>8. g[0] = s
  <2>1. 0 \in 0 .. n
    BY <1>1
  <2>2. QED
    BY <1>1, <1>6, <2>1
<1>9. Passes(g, s, Append(ms, m))
  BY <1>2, <1>5, <1>7, <1>8 DEF Passes
<1>10. QED
  BY <1>6, <1>9

LEMMA PassesRest ==
  ASSUME NEW h, NEW s, NEW ms, Listed(ms), ms # <<>>, Passes(h, s, ms)
  PROVE  /\ s \in Keeps /\ Fits(ms[1], s) /\ h[1] = After(ms[1], s)
         /\ \E g : /\ Passes(g, h[1], Tail(ms))
                   /\ \A i \in 0 .. Len(ms) - 1 : g[i] = h[i + 1]
<1> DEFINE n == Len(ms)
           g == [i \in 0 .. n - 1 |-> h[i + 1]]
<1>1. n \in Nat /\ n > 0 /\ h \in [0 .. n -> Keeps] /\ h[0] = s
      /\ \A i \in 1 .. n : Fits(ms[i], h[i-1]) /\ h[i] = After(ms[i], h[i-1])
  BY ListedIs DEF Passes
<1>2. Len(Tail(ms)) = n - 1 /\ \A i \in 1 .. n - 1 : Tail(ms)[i] = ms[i + 1]
  BY ListedRest
<1>3. s \in Keeps /\ Fits(ms[1], s) /\ h[1] = After(ms[1], s)
  <2>1. 1 \in 1 .. n /\ 1 - 1 = 0 /\ 0 \in 0 .. n
    BY <1>1
  <2>2. QED
    BY <1>1, <2>1
<1>4. g \in [0 .. n - 1 -> Keeps] /\ \A i \in 0 .. n - 1 : g[i] = h[i + 1]
  <2>1. \A i \in 0 .. n - 1 : i + 1 \in 0 .. n
    BY <1>1
  <2>2. QED
    BY <1>1, <2>1
<1>5. g[0] = h[1]
  <2>1. 0 \in 0 .. n - 1 /\ 0 + 1 = 1
    BY <1>1
  <2>2. QED
    BY <1>4, <2>1
<1> HIDE DEF g
<1>6. ASSUME NEW i \in 1 .. n - 1
      PROVE  Fits(Tail(ms)[i], g[i-1]) /\ g[i] = After(Tail(ms)[i], g[i-1])
  <2>1. i + 1 \in 1 .. n /\ (i + 1) - 1 = i /\ i - 1 \in 0 .. n - 1 /\ i \in 0 .. n - 1 /\ (i - 1) + 1 = i
    BY <1>1
  <2>2. g[i-1] = h[i] /\ g[i] = h[i + 1] /\ Tail(ms)[i] = ms[i + 1]
    BY <1>2, <1>4, <2>1
  <2>3. Fits(ms[i + 1], h[i]) /\ h[i + 1] = After(ms[i + 1], h[i])
    BY <1>1, <2>1
  <2>4. QED
    BY <2>2, <2>3
<1>7. Passes(g, h[1], Tail(ms))
  BY <1>2, <1>4, <1>5, <1>6 DEF Passes
<1>8. QED
  BY <1>3, <1>4, <1>7

LEMMA PassesFirst ==
  ASSUME NEW h, NEW s, NEW v, NEW w, Listed(v), Listed(w), Passes(h, s, v \o w)
  PROVE  \E g : Passes(g, s, v) /\ \A i \in 0 .. Len(v) : g[i] = h[i]
<1> DEFINE n == Len(v)
           g == [i \in 0 .. n |-> h[i]]
<1>1. n \in Nat /\ Len(w) \in Nat /\ Len(v \o w) = n + Len(w) /\ \A i \in 1 .. n : (v \o w)[i] = v[i]
  BY ListedIs, ListedJoin
<1>2. /\ h \in [0 .. n + Len(w) -> Keeps] /\ h[0] = s
      /\ \A i \in 1 .. n + Len(w) : Fits((v \o w)[i], h[i-1]) /\ h[i] = After((v \o w)[i], h[i-1])
  BY <1>1 DEF Passes
<1>3. \A i \in 0 .. n : i \in 0 .. n + Len(w)
  BY <1>1
<1>4. g \in [0 .. n -> Keeps] /\ \A i \in 0 .. n : g[i] = h[i]
  BY <1>2, <1>3
<1>5. g[0] = s
  BY <1>1, <1>2, <1>4
<1> HIDE DEF g
<1>6. ASSUME NEW i \in 1 .. n PROVE Fits(v[i], g[i-1]) /\ g[i] = After(v[i], g[i-1])
  <2>1. i \in 1 .. n + Len(w) /\ i \in 0 .. n /\ i - 1 \in 0 .. n
    BY <1>1
  <2>2. QED
    BY <1>1, <1>2, <1>4, <2>1
<1>7. QED
  BY <1>4, <1>5, <1>6 DEF Passes

(* The two questions for what a client keeps, and the answers to them: one of d1, and nothing asked behind it. *)
Asks(ms) == \E i \in 1 .. Len(ms) : ms[i].op \in Questions
Holds(ms, op) == \E i \in 1 .. Len(ms) : ms[i].op = op
NoneBehind(ms) == \A i, j \in 1 .. Len(ms) : i < j /\ ms[i].op = "d1" => ms[j].op \notin Questions
(* How what the slot knows, of a client that is not thrown out, belongs to what the client will keep
   when it has read all messages ms, and to the questions among them and their answers rs. *)
Linked(k, md, st, h, ms, rs) ==
  /\ k \in Keeps /\ (k # 0 => h[Len(ms)] = k /\ ~Asks(ms) /\ ~Asks(rs))
  /\ md /\ k = 0 => h[Len(ms)] = 0
  /\ st = "spawned" => k = 0 /\ (h[Len(ms)] # 0 => Holds(ms, "d2") \/ Holds(rs, "d2"))
  /\ NoneBehind(ms) /\ NoneBehind(rs) /\ (Holds(rs, "d1") => ~Asks(ms))
  /\ \A i \in 1 .. Len(ms) : ms[i].op \in Questions => h[Len(ms)] \in {h[i], 0}
  /\ \A j \in 1 .. Len(rs) : rs[j].op \in Questions => h[Len(ms)] \in {rs[j].v, 0}
  /\ \A i \in 1 .. Len(ms) : ms[i].op \notin {"again", "kicked"}

LEMMA MoreHold ==
  ASSUME NEW ms, Listed(ms), NEW m
  PROVE  /\ Asks(Append(ms, m)) <=> Asks(ms) \/ m.op \in Questions
         /\ \A op : Holds(Append(ms, m), op) <=> Holds(ms, op) \/ m.op = op
         /\ NoneBehind(ms) /\ (Holds(ms, "d1") => m.op \notin Questions) => NoneBehind(Append(ms, m))
<1> DEFINE n == Len(ms)
<1>1. n \in Nat /\ Len(Append(ms, m)) = n + 1 /\ Append(ms, m)[n + 1] = m /\ \A i \in 1 .. n : Append(ms, m)[i] = ms[i]
  BY ListedIs, ListedMore
<1>2. \A i \in 1 .. n + 1 : i \in 1 .. n \/ i = n + 1
  BY <1>1
<1>3. n + 1 \in 1 .. n + 1 /\ \A i \in 1 .. n : i \in 1 .. n + 1
  BY <1>1
<1>4. Asks(Append(ms, m)) <=> Asks(ms) \/ m.op \in Questions
  BY <1>1, <1>2, <1>3 DEF Asks
<1>5. \A op : Holds(Append(ms, m), op) <=> Holds(ms, op) \/ m.op = op
  BY <1>1, <1>2, <1>3 DEF Holds
<1>6. ASSUME NoneBehind(ms), Holds(ms, "d1") => m.op \notin Questions PROVE NoneBehind(Append(ms, m))
  <2>1. ASSUME NEW i \in 1 .. n + 1, NEW j \in 1 .. n + 1, i < j, Append(ms, m)[i].op = "d1"
        PROVE  Append(ms, m)[j].op \notin Questions
    <3>1. i \in 1 .. n /\ ms[i].op = "d1"
      BY <1>1, <2>1
    <3>2. CASE j = n + 1
      BY <1>1, <1>6, <3>1, <3>2 DEF Holds
    <3>3. CASE j \in 1 .. n
      BY <1>1, <1>6, <2>1, <3>1, <3>3 DEF NoneBehind
    <3>4. QED
      BY <1>2, <3>2, <3>3
  <2>2. QED
    BY <1>1, <2>1 DEF NoneBehind
<1>7. QED
  BY <1>4, <1>5, <1>6

LEMMA RestHolds ==
  ASSUME NEW ms, Listed(ms), ms # <<>>
  PROVE  /\ Asks(Tail(ms)) => Asks(ms)
         /\ \A op : Holds(Tail(ms), op) => Holds(ms, op)
         /\ \A op : Holds(ms, op) /\ ms[1].op # op => Holds(Tail(ms), op)
         /\ NoneBehind(ms) => NoneBehind(Tail(ms)) /\ (ms[1].op = "d1" => ~Asks(Tail(ms)))
         /\ ms[1].op \in Questions => Asks(ms)
         /\ Holds(ms, ms[1].op)
<1> DEFINE n == Len(ms)
<1>1. n \in Nat /\ n > 0 /\ Len(Tail(ms)) = n - 1 /\ \A i \in 1 .. n - 1 : Tail(ms)[i] = ms[i + 1]
  BY ListedIs, ListedRest
<1>2. 1 \in 1 .. n /\ \A i \in 1 .. n - 1 : i + 1 \in 1 .. n /\ 1 < i + 1
  BY <1>1
<1>3. \A i \in 1 .. n : i # 1 => i - 1 \in 1 .. n - 1 /\ (i - 1) + 1 = i
  BY <1>1
<1>4. (Asks(Tail(ms)) => Asks(ms)) /\ (ms[1].op \in Questions => Asks(ms))
  BY <1>1, <1>2 DEF Asks
<1>5. \A op : Holds(Tail(ms), op) => Holds(ms, op)
  BY <1>1, <1>2 DEF Holds
<1>6. ASSUME NEW op, Holds(ms, op), ms[1].op # op PROVE Holds(Tail(ms), op)
  <2>1. PICK i \in 1 .. n : ms[i].op = op
    BY <1>6 DEF Holds
  <2>2. i - 1 \in 1 .. n - 1 /\ (i - 1) + 1 = i
    BY <1>3, <1>6, <2>1
  <2>3. QED
    BY <1>1, <2>1, <2>2 DEF Holds
<1>7. ASSUME NoneBehind(ms) PROVE NoneBehind(Tail(ms)) /\ (ms[1].op = "d1" => ~Asks(Tail(ms)))
  <2>1. ASSUME NEW i \in 1 .. n - 1, NEW j \in 1 .. n - 1, i < j, Tail(ms)[i].op = "d1"
        PROVE  Tail(ms)[j].op \notin Questions
    <3>1. i + 1 < j + 1
      BY <1>1, <2>1
    <3>2. QED
      BY <1>1, <1>2, <1>7, <2>1, <3>1 DEF NoneBehind
  <2>2. ms[1].op = "d1" => ~Asks(Tail(ms))
    BY <1>1, <1>2, <1>7 DEF NoneBehind, Asks
  <2>3. QED
    BY <1>1, <2>1, <2>2 DEF NoneBehind
<1>8. Holds(ms, ms[1].op)
  BY <1>2 DEF Holds
<1>9. QED
  BY <1>4, <1>5, <1>6, <1>7, <1>8

(* What is said besides: it changes nothing that is kept and asks nothing. *)
PlainMessages == {"level", "file", "reconnect", "rate", "set"}

LEMMA LinkedPlain ==
  ASSUME NEW k, NEW md, NEW st, NEW h, NEW s, NEW ms, NEW rs, Listed(ms), Passes(h, s, ms),
         Linked(k, md, st, h, ms, rs), NEW m, m.op \in PlainMessages, m.op = "set" => k # 0
  PROVE  \E g : Passes(g, s, Append(ms, m)) /\ Linked(k, md, st, g, Append(ms, m), rs)
<1> DEFINE n == Len(ms)
<1>0. n \in Nat /\ n \in 0 .. n /\ (\A i \in 1 .. n : i \in 0 .. n) /\ \A i \in 1 .. n + 1 : i \in 1 .. n \/ i = n + 1
  BY ListedIs
<1>1. h[n] \in Keeps
  BY <1>0 DEF Passes
<1>2. m.op # "fps" /\ m.op # "borrow" /\ m.op # "restore" /\ m.op \notin Questions /\ m.op # "again" /\ m.op # "kicked"
  BY DEF PlainMessages, Questions
<1>3. Fits(m, h[n])
  BY <1>2, KeepsAre DEF Fits, Linked
<1>4. PICK g : Passes(g, s, Append(ms, m)) /\ (\A i \in 0 .. n : g[i] = h[i]) /\ g[n + 1] = After(m, h[n])
  BY <1>3, PassesMore
<1>5. g[n + 1] = h[n] /\ Len(Append(ms, m)) = n + 1 /\ Append(ms, m)[n + 1] = m
      /\ \A i \in 1 .. n : Append(ms, m)[i] = ms[i] /\ g[i] = h[i]
  BY <1>0, <1>2, <1>4, ListedMore DEF After
<1>6. /\ Asks(Append(ms, m)) <=> Asks(ms)
      /\ Holds(ms, "d2") => Holds(Append(ms, m), "d2")
      /\ NoneBehind(ms) => NoneBehind(Append(ms, m))
  BY <1>2, MoreHold
<1>7. Linked(k, md, st, g, Append(ms, m), rs)
  BY <1>0, <1>2, <1>5, <1>6 DEF Linked
<1>8. QED
  BY <1>4, <1>7

(* Putting back what it keeps. *)
LEMMA LinkedRestore ==
  ASSUME NEW k, NEW md, NEW st, NEW h, NEW s, NEW ms, NEW rs, Listed(ms), Passes(h, s, ms),
         Linked(k, md, st, h, ms, rs), NEW st2, NEW v \in Keeps \ {0}, h[Len(ms)] \in {v, 0},
         NEW m, m = [op |-> "restore", fps |-> Abs(v), swap |-> v < 0]
  PROVE  \E g : Passes(g, s, Append(ms, m)) /\ Linked(0, md, st2, g, Append(ms, m), rs)
<1> DEFINE n == Len(ms)
<1>0. n \in Nat /\ n \in 0 .. n /\ (\A i \in 1 .. n : i \in 0 .. n) /\ \A i \in 1 .. n + 1 : i \in 1 .. n \/ i = n + 1
  BY ListedIs
<1>1. h[n] \in Keeps
  BY <1>0 DEF Passes
<1>2. m.op = "restore" /\ m.op # "fps" /\ m.op # "set" /\ m.op # "borrow" /\ m.op \notin Questions
      /\ m.op # "again" /\ m.op # "kicked"
  BY DEF Questions
<1>3. m.fps = Fps /\ (m.swap => Swap) /\ (~m.swap => h[n] # -Fps)
  <2>1. m.fps = Abs(v) /\ m.swap = (v < 0)
    OBVIOUS
  <2>2. Fps \in Nat /\ Fps > 1 /\ (v = Fps \/ (v = -Fps /\ Swap)) /\ -(-Fps) = Fps
    BY KeepsAre, SeAssumption
  <2>3. Abs(v) = Fps /\ (v < 0 <=> v = -Fps)
    BY <2>2 DEF Abs
  <2>4. QED
    BY <2>1, <2>2, <2>3, KeepsAre
<1>4. Fits(m, h[n])
  BY <1>2, <1>3 DEF Fits
<1>5. PICK g : Passes(g, s, Append(ms, m)) /\ (\A i \in 0 .. n : g[i] = h[i]) /\ g[n + 1] = After(m, h[n])
  BY <1>4, PassesMore
<1>6. g[n + 1] = 0 /\ Len(Append(ms, m)) = n + 1 /\ Append(ms, m)[n + 1] = m
      /\ \A i \in 1 .. n : Append(ms, m)[i] = ms[i]
  BY <1>2, <1>5, ListedMore DEF After
<1>7. /\ Asks(Append(ms, m)) <=> Asks(ms)
      /\ NoneBehind(ms) => NoneBehind(Append(ms, m))
  BY <1>2, MoreHold
<1>8. NoneBehind(Append(ms, m)) /\ NoneBehind(rs) /\ (Holds(rs, "d1") => ~Asks(Append(ms, m)))
      /\ \A i \in 1 .. n + 1 : Append(ms, m)[i].op \notin {"again", "kicked"}
  BY <1>0, <1>2, <1>6, <1>7 DEF Linked
<1>9. Linked(0, md, st2, g, Append(ms, m), rs)
  BY <1>6, <1>8, KeepsAre DEF Linked
<1>10. QED
  BY <1>5, <1>9

(* Asking for it. *)
LEMMA LinkedAsk ==
  ASSUME NEW md, NEW st, NEW h, NEW s, NEW ms, NEW rs, Listed(ms), Passes(h, s, ms),
         Linked(0, md, st, h, ms, rs), NEW st2, NEW m, m.op \in Questions, st2 = "spawned" => m.op = "d2",
         ~Holds(ms, "d1"), ~Holds(rs, "d1")
  PROVE  \E g : Passes(g, s, Append(ms, m)) /\ Linked(0, md, st2, g, Append(ms, m), rs)
<1> DEFINE n == Len(ms)
<1>0. n \in Nat /\ n \in 0 .. n /\ (\A i \in 1 .. n : i \in 0 .. n) /\ \A i \in 1 .. n + 1 : i \in 1 .. n \/ i = n + 1
  BY ListedIs
<1>1. m.op \in Questions /\ m.op # "fps" /\ m.op # "borrow" /\ m.op # "restore" /\ m.op # "set" /\ m.op # "again" /\ m.op # "kicked"
  BY DEF Questions
<1>2. Fits(m, h[n])
  BY <1>1 DEF Fits
<1>3. PICK g : Passes(g, s, Append(ms, m)) /\ (\A i \in 0 .. n : g[i] = h[i]) /\ g[n + 1] = After(m, h[n])
  BY <1>2, PassesMore
<1>4. g[n + 1] = h[n] /\ Len(Append(ms, m)) = n + 1 /\ Append(ms, m)[n + 1] = m
      /\ \A i \in 1 .. n : Append(ms, m)[i] = ms[i] /\ g[i] = h[i]
  BY <1>0, <1>1, <1>3, ListedMore DEF After
<1>5. /\ m.op = "d2" => Holds(Append(ms, m), "d2")
      /\ NoneBehind(ms) => NoneBehind(Append(ms, m))
  BY MoreHold
<1>6. NoneBehind(Append(ms, m)) /\ NoneBehind(rs) /\ (md => g[n + 1] = 0)
      /\ (\A i \in 1 .. n + 1 : Append(ms, m)[i].op \notin {"again", "kicked"})
      /\ \A j \in 1 .. Len(rs) : rs[j].op \in Questions => g[n + 1] \in {rs[j].v, 0}
  BY <1>0, <1>1, <1>4, <1>5 DEF Linked
<1>7. \A i \in 1 .. n + 1 : Append(ms, m)[i].op \in Questions => g[n + 1] \in {g[i], 0}
  BY <1>0, <1>4 DEF Linked
<1>8. Linked(0, md, st2, g, Append(ms, m), rs)
  BY <1>4, <1>5, <1>6, <1>7, KeepsAre DEF Linked
<1>9. QED
  BY <1>3, <1>8

(* What the client answers. *)
Answer(r) ==
  /\ r.op # "fps"
  /\ r.op = "d1" => r.v \in Keeps \ {0} /\ (r.on => Swap) /\ (r.v = Fps => (r.on <=> Swap))
  /\ r.op = "d2" => r.v \in Keeps
Answers(rs) == \A j \in 1 .. Len(rs) : Answer(rs[j])

LEMMA LinkedHeard ==
  ASSUME NEW k, NEW md, NEW st, NEW h, NEW ms, NEW rs, Listed(rs), rs # <<>>, Linked(k, md, st, h, ms, rs),
         NEW st2, st2 = "spawned" => st = "spawned" /\ (rs[1].op # "d2" \/ h[Len(ms)] = 0)
  PROVE  Linked(k, md, st2, h, ms, Tail(rs))
<1> DEFINE e == h[Len(ms)]
<1>1. /\ Asks(Tail(rs)) => Asks(rs)
      /\ Holds(Tail(rs), "d1") => Holds(rs, "d1")
      /\ Holds(rs, "d2") /\ rs[1].op # "d2" => Holds(Tail(rs), "d2")
      /\ NoneBehind(rs) => NoneBehind(Tail(rs))
  BY RestHolds
<1>2. \A j \in 1 .. Len(Tail(rs)) : Tail(rs)[j].op \in Questions => e \in {Tail(rs)[j].v, 0}
  <2>1. Len(rs) \in Nat /\ Len(Tail(rs)) = Len(rs) - 1 /\ \A j \in 1 .. Len(rs) - 1 : Tail(rs)[j] = rs[j + 1]
    BY ListedIs, ListedRest
  <2>2. \A j \in 1 .. Len(rs) - 1 : j + 1 \in 1 .. Len(rs)
    BY <2>1
  <2>3. QED
    BY <2>1, <2>2 DEF Linked
<1>3. st2 = "spawned" => k = 0 /\ (e # 0 => Holds(ms, "d2") \/ Holds(Tail(rs), "d2"))
  BY <1>1 DEF Linked
<1>4. QED
  BY <1>1, <1>2, <1>3 DEF Linked

(* The answer to the question with which a download begins; the frame rate is borrowed. *)
LEMMA LinkedBorrow ==
  ASSUME NEW k, NEW md, NEW h, NEW s, NEW ms, NEW rs, Listed(ms), Listed(rs), rs # <<>>, Passes(h, s, ms),
         Linked(k, md, "spawning", h, ms, rs), Answer(rs[1]), rs[1].op = "d1",
         NEW k2, k2 = IF rs[1].v > 0 /\ rs[1].asked /\ rs[1].on THEN -rs[1].v ELSE rs[1].v,
         NEW f, NEW m, m = [op |-> "borrow", saved |-> k2, fps |-> f, off |-> k2 < 0 \/ rs[1].asked]
  PROVE  \E g : Passes(g, s, Append(ms, m)) /\ Linked(k2, md, "spawning", g, Append(ms, m), Tail(rs))
<1> DEFINE n == Len(ms)
           v == rs[1].v
<1>0. n \in Nat /\ n \in 0 .. n /\ (\A i \in 1 .. n : i \in 0 .. n) /\ \A i \in 1 .. n + 1 : i \in 1 .. n \/ i = n + 1
  BY ListedIs
<1>1. m.op = "borrow" /\ m.op \notin Questions /\ m.op # "fps" /\ m.op # "set" /\ m.op # "restore" /\ m.op # "again" /\ m.op # "kicked"
  BY DEF Questions
<1>2. v \in Keeps \ {0} /\ (rs[1].on => Swap) /\ (v = Fps => (rs[1].on <=> Swap)) /\ (v = Fps \/ (v = -Fps /\ Swap))
  BY KeepsAre DEF Answer
<1>3. h[n] \in {v, 0}
  <2>1. 1 \in 1 .. Len(rs)
    BY ListedIs
  <2>2. QED
    BY <2>1 DEF Linked, Questions
<1>4. Fps \in Nat /\ Fps > 1 /\ -(-Fps) = Fps /\ ~(-Fps > 0) /\ -Fps < 0 /\ ~(Fps < 0) /\ Fps > 0
  BY SeAssumption
<1>5. k2 \in Keeps \ {0} /\ (k2 = Fps => v = Fps /\ (rs[1].asked => ~Swap))
  BY <1>2, <1>4, KeepsAre
<1>6. m.saved = k2 /\ (k2 = Fps => h[n] # -Fps /\ (m.off => ~Swap))
  <2>1. m.saved = k2 /\ m.off = (k2 < 0 \/ rs[1].asked)
    OBVIOUS
  <2>2. k2 = Fps => h[n] # -Fps
    BY <1>3, <1>5, KeepsAre
  <2>3. k2 = Fps => (m.off => ~Swap)
    BY <1>4, <1>5, <2>1
  <2>4. QED
    BY <2>1, <2>2, <2>3
<1>7. Fits(m, h[n])
  BY <1>1, <1>5, <1>6 DEF Fits
<1>8. PICK g : Passes(g, s, Append(ms, m)) /\ (\A i \in 0 .. n : g[i] = h[i]) /\ g[n + 1] = After(m, h[n])
  BY <1>7, PassesMore
<1>9. g[n + 1] = k2 /\ Len(Append(ms, m)) = n + 1 /\ Append(ms, m)[n + 1] = m
      /\ \A i \in 1 .. n : Append(ms, m)[i] = ms[i]
  BY <1>1, <1>6, <1>8, ListedMore DEF After
<1>10. ~Asks(ms) /\ ~Asks(Tail(rs)) /\ NoneBehind(ms) /\ NoneBehind(Tail(rs))
  <2>1. Holds(rs, "d1") /\ NoneBehind(rs)
    BY RestHolds DEF Linked
  <2>2. QED
    BY <2>1, RestHolds DEF Linked
<1>11. ~Asks(Append(ms, m)) /\ NoneBehind(Append(ms, m))
  BY <1>1, <1>10, MoreHold
<1>12. ~Holds(Tail(rs), "d1")
  BY <1>10 DEF Holds, Asks, Questions
<1>13. \A i \in 1 .. n + 1 : Append(ms, m)[i].op \notin {"again", "kicked"}
  BY <1>0, <1>1, <1>9 DEF Linked
<1>14. /\ \A i \in 1 .. n + 1 : Append(ms, m)[i].op \notin Questions
       /\ \A j \in 1 .. Len(Tail(rs)) : Tail(rs)[j].op \notin Questions
  BY <1>9, <1>10, <1>11 DEF Asks
<1>15. Linked(k2, md, "spawning", g, Append(ms, m), Tail(rs))
  BY <1>5, <1>9, <1>10, <1>11, <1>12, <1>13, <1>14 DEF Linked
<1>16. QED
  BY <1>8, <1>15

(* The client reads what asks nothing. *)
LEMMA LinkedRead ==
  ASSUME NEW k, NEW md, NEW st, NEW h, NEW s, NEW ms, NEW rs, Listed(ms), ms # <<>>, Passes(h, s, ms),
         Linked(k, md, st, h, ms, rs), ms[1].op \notin Questions
  PROVE  \E g : Passes(g, After(ms[1], s), Tail(ms)) /\ Linked(k, md, st, g, Tail(ms), rs)
<1> DEFINE n == Len(ms)
<1>1. n \in Nat /\ n > 0 /\ Len(Tail(ms)) = n - 1 /\ (n - 1) + 1 = n /\ n - 1 \in 0 .. n - 1
      /\ \A i \in 1 .. n - 1 : Tail(ms)[i] = ms[i + 1] /\ i + 1 \in 1 .. n /\ i \in 0 .. n - 1
  BY ListedIs, ListedRest
<1>2. PICK g : Passes(g, After(ms[1], s), Tail(ms)) /\ \A i \in 0 .. n - 1 : g[i] = h[i + 1]
  BY PassesRest
<1>3. g[n - 1] = h[n] /\ \A i \in 1 .. n - 1 : g[i] = h[i + 1]
  BY <1>1, <1>2
<1>4. /\ Asks(Tail(ms)) => Asks(ms)
      /\ Holds(ms, "d2") => Holds(Tail(ms), "d2")
      /\ NoneBehind(ms) => NoneBehind(Tail(ms))
  BY RestHolds DEF Questions
<1>5. \A i \in 1 .. n - 1 : Tail(ms)[i].op \in Questions => g[n - 1] \in {g[i], 0}
  BY <1>1, <1>3 DEF Linked
<1>6. \A i \in 1 .. n - 1 : Tail(ms)[i].op \notin {"again", "kicked"}
  BY <1>1 DEF Linked
<1>7. Linked(k, md, st, g, Tail(ms), rs)
  BY <1>1, <1>3, <1>4, <1>5, <1>6 DEF Linked
<1>8. QED
  BY <1>2, <1>7

(* It answers what is asked. *)
LEMMA LinkedAnswer ==
  ASSUME NEW k, NEW md, NEW st, NEW h, NEW s, NEW ms, NEW rs, Listed(ms), Listed(rs), ms # <<>>, Passes(h, s, ms),
         Linked(k, md, st, h, ms, rs), ms[1].op \in Questions,
         NEW r, r.op = ms[1].op, s # 0 => r.v = s
  PROVE  \E g : Passes(g, s, Tail(ms)) /\ Linked(k, md, st, g, Tail(ms), Append(rs, r))
<1> DEFINE n == Len(ms)
<1>1. n \in Nat /\ n > 0 /\ Len(Tail(ms)) = n - 1 /\ (n - 1) + 1 = n /\ n - 1 \in 0 .. n - 1 /\ 1 \in 1 .. n
      /\ \A i \in 1 .. n - 1 : Tail(ms)[i] = ms[i + 1] /\ i + 1 \in 1 .. n /\ i \in 0 .. n - 1
  BY ListedIs, ListedRest
<1>2. After(ms[1], s) = s
  BY DEF After, Questions
<1>3. PICK g : Passes(g, s, Tail(ms)) /\ \A i \in 0 .. n - 1 : g[i] = h[i + 1]
  BY <1>2, PassesRest
<1>4. g[n - 1] = h[n] /\ (\A i \in 1 .. n - 1 : g[i] = h[i + 1]) /\ h[1] = s
  BY <1>1, <1>2, <1>3, PassesRest
<1>5. /\ Asks(ms) /\ (Asks(Tail(ms)) => Asks(ms))
      /\ Holds(ms, "d2") /\ ms[1].op # "d2" => Holds(Tail(ms), "d2")
      /\ NoneBehind(ms) => NoneBehind(Tail(ms)) /\ (ms[1].op = "d1" => ~Asks(Tail(ms)))
  BY RestHolds DEF Questions
<1>6. k = 0 /\ ~Holds(rs, "d1") /\ h[n] \in {s, 0}
  BY <1>1, <1>4, <1>5 DEF Linked
<1>7. /\ Asks(Append(rs, r)) <=> Asks(rs) \/ r.op \in Questions
      /\ \A op : Holds(Append(rs, r), op) <=> Holds(rs, op) \/ r.op = op
      /\ NoneBehind(rs) => NoneBehind(Append(rs, r))
  BY <1>6, MoreHold
<1>8. Holds(ms, "d2") \/ Holds(rs, "d2") => Holds(Tail(ms), "d2") \/ Holds(Append(rs, r), "d2")
  BY <1>5, <1>7
<1>9. Holds(Append(rs, r), "d1") => ~Asks(Tail(ms))
  BY <1>5, <1>6, <1>7 DEF Linked
<1>10. \A i \in 1 .. n - 1 : Tail(ms)[i].op \in Questions => g[n - 1] \in {g[i], 0}
  BY <1>1, <1>4 DEF Linked
<1>11. \A j \in 1 .. Len(Append(rs, r)) : Append(rs, r)[j].op \in Questions => g[n - 1] \in {Append(rs, r)[j].v, 0}
  <2>1. Len(rs) \in Nat /\ Len(Append(rs, r)) = Len(rs) + 1 /\ Append(rs, r)[Len(rs) + 1] = r
        /\ \A j \in 1 .. Len(rs) : Append(rs, r)[j] = rs[j]
    BY ListedIs, ListedMore
  <2>2. \A j \in 1 .. Len(rs) + 1 : j \in 1 .. Len(rs) \/ j = Len(rs) + 1
    BY <2>1
  <2>3. h[n] \in {r.v, 0}
    BY <1>6
  <2>4. QED
    BY <1>4, <2>1, <2>2, <2>3 DEF Linked
<1>12. \A i \in 1 .. n - 1 : Tail(ms)[i].op \notin {"again", "kicked"}
  BY <1>1 DEF Linked
<1>13. Linked(k, md, st, g, Tail(ms), Append(rs, r))
  BY <1>1, <1>4, <1>5, <1>6, <1>7, <1>8, <1>9, <1>10, <1>11, <1>12 DEF Linked
<1>14. QED
  BY <1>3, <1>13

(* It says something else. *)
LEMMA LinkedSaid ==
  ASSUME NEW k, NEW md, NEW st, NEW h, NEW ms, NEW rs, Listed(rs), Linked(k, md, st, h, ms, rs),
         NEW r, r.op \notin Questions
  PROVE  Linked(k, md, st, h, ms, Append(rs, r))
<1>1. /\ Asks(Append(rs, r)) <=> Asks(rs)
      /\ Holds(Append(rs, r), "d1") <=> Holds(rs, "d1")
      /\ Holds(rs, "d2") => Holds(Append(rs, r), "d2")
      /\ NoneBehind(rs) => NoneBehind(Append(rs, r))
  BY MoreHold DEF Questions
<1>2. \A j \in 1 .. Len(Append(rs, r)) : Append(rs, r)[j].op \in Questions => h[Len(ms)] \in {Append(rs, r)[j].v, 0}
  <2>1. Len(rs) \in Nat /\ Len(Append(rs, r)) = Len(rs) + 1 /\ Append(rs, r)[Len(rs) + 1] = r
        /\ \A j \in 1 .. Len(rs) : Append(rs, r)[j] = rs[j]
    BY ListedIs, ListedMore
  <2>2. \A j \in 1 .. Len(rs) + 1 : j \in 1 .. Len(rs) \/ j = Len(rs) + 1
    BY <2>1
  <2>3. QED
    BY <2>1, <2>2 DEF Linked
<1>3. QED
  BY <1>1, <1>2 DEF Linked

(* The level changes: what the list still held is gone, but nothing of what is kept. *)
LEMMA LinkedCut ==
  ASSUME NEW k, NEW md, NEW h, NEW s, NEW v, NEW w, NEW rs, Listed(v), Listed(w), Passes(h, s, v \o w),
         Linked(k, md, "spawned", h, v \o w, rs), \A i \in 1 .. Len(w) : w[i].op \notin Settings,
         NEW st2, st2 # "spawned"
  PROVE  \E g : Passes(g, s, v) /\ Linked(k, md, st2, g, v, rs)
<1> DEFINE n == Len(v)
           ms == v \o w
           N == Len(ms)
<1>1. n \in Nat /\ N \in Nat /\ N = n + Len(w) /\ Len(w) \in Nat /\ (\A i \in 1 .. n : ms[i] = v[i] /\ i \in 1 .. N /\ i \in 0 .. n)
      /\ (\A i \in n + 1 .. N : i - n \in 1 .. Len(w) /\ ms[i] = w[i - n]) /\ n \in 0 .. n
  <2>1. n \in Nat /\ Len(w) \in Nat /\ N = n + Len(w)
    BY ListedIs, ListedJoin
  <2>2. \A i \in 1 .. n : ms[i] = v[i] /\ i \in 1 .. N /\ i \in 0 .. n
    BY <2>1, ListedJoin
  <2>3. ASSUME NEW i \in n + 1 .. N PROVE i - n \in 1 .. Len(w) /\ ms[i] = w[i - n]
    <3>1. i - n \in 1 .. Len(w) /\ n + (i - n) = i
      BY <2>1
    <3>2. ms[n + (i - n)] = w[i - n]
      BY <3>1, ListedJoin
    <3>3. QED
      BY <3>1, <3>2
  <2>4. QED
    BY <2>1, <2>2, <2>3
<1>2. \A i \in n + 1 .. N : h[i] = h[i-1]
  <2>1. ASSUME NEW i \in n + 1 .. N PROVE h[i] = h[i-1]
    <3>1. i \in 1 .. N /\ ms[i].op \notin Settings
      BY <1>1
    <3>2. h[i] = After(ms[i], h[i-1])
      BY <3>1 DEF Passes
    <3>3. QED
      BY <3>1, <3>2 DEF After, Settings
  <2>2. QED
    BY <2>1
<1>3. h[N] = h[n]
  <2> DEFINE Bad == {i \in n .. N : h[i] # h[n]}
  <2>1. SUFFICES ASSUME Bad # {} PROVE FALSE
    <3>1. N \in n .. N
      BY <1>1
    <3>2. QED
      BY <3>1
  <2>2. Bad \in SUBSET Nat
    BY <1>1
  <2>3. PICK i \in Bad : \A j \in Bad : i <= j
    <3> HIDE DEF Bad
    <3>1. QED
      BY <2>1, <2>2, LeastOf
  <2>4. i \in n + 1 .. N /\ i - 1 \in n .. N /\ ~(i <= i - 1) /\ h[i] # h[n]
    <3>1. i \in n .. N /\ h[i] # h[n] /\ i # n
      BY <2>3
    <3>2. QED
      BY <1>1, <3>1
  <2>5. h[i-1] = h[n]
    BY <2>3, <2>4
  <2>6. QED
    BY <1>2, <2>4, <2>5
<1>4. PICK g : Passes(g, s, v) /\ \A i \in 0 .. n : g[i] = h[i]
  BY PassesFirst
<1>5. g[n] = h[N] /\ \A i \in 1 .. n : g[i] = h[i]
  BY <1>1, <1>3, <1>4
<1>6. (Asks(v) => Asks(ms)) /\ (NoneBehind(ms) => NoneBehind(v))
  BY <1>1 DEF Asks, NoneBehind
<1>7. /\ \A i \in 1 .. n : v[i].op \in Questions => g[n] \in {g[i], 0}
      /\ \A i \in 1 .. n : v[i].op \notin {"again", "kicked"}
  BY <1>1, <1>5 DEF Linked
<1>8. Linked(k, md, st2, g, v, rs)
  BY <1>5, <1>6, <1>7 DEF Linked
<1>9. QED
  BY <1>4, <1>8

(* An element joins the second of two joined sequences; below, a second one. *)
LEMMA ListedGrow ==
  ASSUME NEW w, NEW l, Listed(w), Listed(l), NEW m
  PROVE  Listed(Append(l, m)) /\ w \o Append(l, m) = Append(w \o l, m) /\ Len(Append(l, m)) > Len(l) /\ Last(Append(l, m)) = m
<1>1. Listed(Append(l, m)) /\ Len(Append(l, m)) = Len(l) + 1 /\ Append(l, m)[Len(l) + 1] = m
  BY ListedMore
<1>2. Len(l) \in Nat
  BY ListedIs
<1>3. Last(Append(l, m)) = m
  BY <1>1 DEF Last
<1>4. Len(Append(l, m)) > Len(l)
  BY <1>1, <1>2
<1>5. w \o Append(l, m) = Append(w \o l, m)
  BY ListedJoin
<1> HIDE DEF Last
<1>6. QED
  BY <1>1, <1>3, <1>4, <1>5

LEMMA ListedTwo ==
  ASSUME NEW l, Listed(l), NEW a, NEW b
  PROVE  /\ l \o (<<a>> \o <<b>>) = Append(Append(l, a), b) /\ l \o (<<a>> \o <<>>) = Append(l, a)
         /\ (l \o <<a>>) \o <<b>> = Append(Append(l, a), b) /\ (l \o <<a>>) \o <<>> = Append(l, a)
         /\ (l \o <<>>) \o <<a>> = Append(l, a)
<1>1. Listed(<<a>>) /\ <<a>> \o <<b>> = Append(<<a>>, b) /\ <<a>> \o <<>> = <<a>>
  BY ListedShort, ListedMore, ListedIs
<1>2. l \o <<a>> = Append(l, a) /\ Listed(Append(l, a)) /\ l \o <<>> = l
  BY ListedMore, ListedIs
<1>3. l \o Append(<<a>>, b) = Append(l \o <<a>>, b)
  BY <1>1, ListedJoin
<1>4. Append(l, a) \o <<b>> = Append(Append(l, a), b) /\ Append(l, a) \o <<>> = Append(l, a)
  BY <1>2, ListedMore, ListedIs
<1>5. QED
  BY <1>1, <1>2, <1>3, <1>4

LEMMA ListedGrowTwice ==
  ASSUME NEW w, NEW l, Listed(w), Listed(l), NEW a, NEW b
  PROVE  /\ Listed(Append(Append(l, a), b)) /\ w \o Append(Append(l, a), b) = Append(Append(w \o l, a), b)
         /\ Listed(Append(w \o l, a))
<1>1. Listed(Append(l, a)) /\ w \o Append(l, a) = Append(w \o l, a)
  BY ListedGrow
<1>2. Listed(Append(Append(l, a), b)) /\ w \o Append(Append(l, a), b) = Append(w \o Append(l, a), b)
  <2>1. PICK x : x = Append(l, a)
    OBVIOUS
  <2>2. Listed(x)
    BY <1>1, <2>1
  <2>3. Listed(Append(x, b)) /\ w \o Append(x, b) = Append(w \o x, b)
    BY <2>2, ListedGrow
  <2>4. QED
    BY <2>1, <2>3, Zenon
<1>3. Listed(w \o l)
  BY ListedJoin
<1>4. QED
  BY <1>1, <1>2, <1>3, ListedMore

(* Nothing was lost, and nothing asked twice. *)
Clean == lost \cap {"list", "twice"} = {}
(* What the client runs with, when it keeps v. *)
Sure(v, f, w) == w \in BOOLEAN /\ (IF v = 0 THEN f = Fps /\ w = Swap ELSE v = Fps => w = Swap)
Settled(s, ms, rs, k, md, st) ==
  Answers(rs) /\ \E h : Passes(h, s, ms) /\ (st # "none" => Linked(k, md, st, h, ms, rs))
(* The inductive invariant: what the client keeps now, once it has read all that is on the way to it, and what
   the server knows, fit together. *)
SeInv ==
  Clean => /\ Listed(wire) /\ Listed(list) /\ Listed(replies)
           /\ Sure(saved, fps, swap) /\ Settled(saved, wire \o list, replies, known, measured, state)

LEMMA BackWhenQuiet == SeInv => FpsAndSwapBack
<1>1. SUFFICES ASSUME SeInv, Quiet, Clean PROVE fps = Fps /\ swap = Swap /\ saved = 0
  BY DEF FpsAndSwapBack, Clean
<1>2. wire \o list = <<>> /\ Len(<<>>) = 0 /\ replies = <<>> /\ state = "spawned"
  BY <1>1, ListedShort, ListedIs DEF Quiet
<1>3. PICK h : Passes(h, saved, <<>>) /\ Linked(known, measured, "spawned", h, <<>>, <<>>)
  BY <1>1, <1>2 DEF SeInv, Settled
<1>4. ~Holds(<<>>, "d2")
  BY <1>2 DEF Holds
<1>5. saved = 0
  BY <1>2, <1>3, <1>4 DEF Passes, Linked
<1>6. QED
  BY <1>1, <1>5 DEF SeInv, Sure

(* Without a client that is listened to, whatever is still sent. *)
LEMMA SaidToNone ==
  ASSUME NEW s, NEW ms, NEW h, Listed(ms), Passes(h, s, ms), NEW m, m.op \in {"again", "kicked", "rate"}
  PROVE  \E g : Passes(g, s, Append(ms, m))
<1>1. m.op # "fps" /\ m.op # "set" /\ m.op # "borrow" /\ m.op # "restore"
  OBVIOUS
<1>2. Fits(m, h[Len(ms)])
  BY <1>1 DEF Fits
<1>3. QED
  BY <1>2, PassesMore

LEMMA NewIs ==
  ASSUME NEW h, NEW rs, NEW now, Listed(wire), Listed(list), Passes(h, saved, wire \o list), Answers(rs),
         Linked(known, measured, "spawning", h, wire \o list, rs), Linked(known, measured, state, h, wire \o list, rs),
         now \in {"connected", state}, New(now)
  PROVE  Listed(list') /\ Settled(saved, wire \o list', rs, known, measured, state')
<1> DEFINE ms == wire \o list
<1>1. Listed(ms)
  BY ListedJoin
<1>2. CASE now = "connected"
  <2> DEFINE m == [op |-> "level", level |-> level]
  <2>1. state' = "spawning" /\ list' = Append(list, m)
    BY <1>2, ListedMore DEF New, Op
  <2>2. Listed(list') /\ wire \o list' = Append(ms, m)
    BY <2>1, ListedGrow
  <2>3. m.op \in PlainMessages /\ m.op # "set"
    BY DEF PlainMessages
  <2> HIDE DEF m
  <2>4. \E g : Passes(g, saved, Append(ms, m)) /\ Linked(known, measured, "spawning", g, Append(ms, m), rs)
    BY <1>1, <2>3, LinkedPlain
  <2>5. QED
    BY <2>1, <2>2, <2>4 DEF Settled
<1>3. CASE now # "connected" /\ now = "spawning"
  <2> DEFINE m == [op |-> "again"]
  <2>1. state' = "none" /\ list' = Append(list, m)
    BY <1>3, ListedMore DEF New, Op
  <2>2. Listed(list') /\ wire \o list' = Append(ms, m)
    BY <2>1, ListedGrow
  <2>3. m.op \in {"again", "kicked", "rate"}
    OBVIOUS
  <2> HIDE DEF m
  <2>4. \E g : Passes(g, saved, Append(ms, m))
    BY <1>1, <2>3, SaidToNone
  <2>5. QED
    BY <2>1, <2>2, <2>4 DEF Settled
<1>4. CASE now # "connected" /\ now # "spawning"
  <2>1. state' = state /\ list' = list
    BY <1>4 DEF New
  <2>2. QED
    BY <2>1 DEF Settled
<1>5. QED
  BY <1>2, <1>3, <1>4

LEMMA LoadNewPAKIs ==
  ASSUME NEW h, NEW rs, NEW k, Listed(wire), Listed(list), Passes(h, saved, wire \o list), Answers(rs), LoadNewPAK
  PROVE  Listed(list') /\ Settled(saved, wire \o list', rs, k, measured, state')
<1> DEFINE a == [op |-> "rate", rate |-> srvRate]
           b == [op |-> "again"]
<1>1. /\ state' = "none" /\ a.op \in {"again", "kicked", "rate"} /\ b.op \in {"again", "kicked", "rate"}
      /\ list' = IF srvRate < DownRate THEN (list \o <<a>>) \o <<b>> ELSE (list \o <<>>) \o <<b>>
  BY DEF LoadNewPAK, SetRate, Op
<1> HIDE DEF a, b
<1>2. Listed(wire \o list) /\ list \o <<>> = list
  BY ListedJoin, ListedIs
<1>3. CASE ~(srvRate < DownRate)
  <2>1. list' = Append(list, b)
    BY <1>1, <1>3, ListedTwo
  <2>2. Listed(list') /\ wire \o list' = Append(wire \o list, b)
    BY <2>1, ListedGrow
  <2>3. \E g : Passes(g, saved, Append(wire \o list, b))
    BY <1>1, <1>2, SaidToNone
  <2>4. QED
    BY <1>1, <2>2, <2>3 DEF Settled
<1>4. CASE srvRate < DownRate
  <2> DEFINE ms == Append(wire \o list, a)
  <2>1. list' = Append(Append(list, a), b)
    <3>1. (list \o <<a>>) \o <<b>> = Append(Append(list, a), b)
      BY ListedTwo
    <3>2. QED
      BY <1>1, <1>4, <3>1
  <2>2. Listed(list') /\ wire \o list' = Append(ms, b) /\ Listed(ms)
    BY <2>1, ListedGrowTwice
  <2>3. PICK g : Passes(g, saved, ms)
    BY <1>1, <1>2, SaidToNone
  <2> HIDE DEF ms
  <2>4. \E f : Passes(f, saved, Append(ms, b))
    BY <1>1, <2>2, <2>3, SaidToNone
  <2>5. QED
    BY <1>1, <2>2, <2>4 DEF Settled
<1>5. QED
  BY <1>3, <1>4

(* A step of the server that hears r, the first of what the client said. *)
Hears(r, h) ==
  /\ Listed(wire) /\ Listed(list) /\ Listed(replies) /\ replies # <<>> /\ r = replies[1] /\ Answer(r) /\ Answers(Tail(replies))
  /\ Passes(h, saved, wire \o list) /\ state # "none" /\ Linked(known, measured, state, h, wire \o list, replies)
  /\ \A st2 : (st2 = "spawned" => state = "spawned" /\ (r.op # "d2" \/ h[Len(wire \o list)] = 0))
              => Linked(known, measured, st2, h, wire \o list, Tail(replies))
Unasked == ~Holds(wire \o list, "d1") /\ ~Holds(replies, "d1")

(* SV_ClientBegin puts back, asks, or sends the client away; below, SV_BeginDownload_f and SV_CvarResult_f. *)
LEMMA BeginIs ==
  ASSUME NEW r, NEW h, Hears(r, h), r.op = "begin", NEW l, Begin(l), UNCHANGED measured,
         \A m : m.op \in Questions /\ list' = Append(list, m) => Unasked
  PROVE  Listed(list') /\ Settled(saved, wire \o list', Tail(replies), known', measured, state')
<1> DEFINE ms == wire \o list
           rs == Tail(replies)
<1>1. Listed(wire) /\ Listed(list) /\ Passes(h, saved, ms) /\ Answers(rs) /\ Listed(ms) /\ known \in Keeps /\ Listed(rs)
  <2>1. Listed(wire) /\ Listed(list) /\ Passes(h, saved, ms) /\ Answers(rs) /\ known \in Keeps /\ Listed(replies) /\ replies # <<>>
    BY DEF Hears, Linked
  <2>2. QED
    BY <2>1, ListedJoin, ListedRest
<1>2. Linked(known, measured, "spawning", h, ms, rs) /\ Linked(known, measured, state, h, ms, rs)
  BY DEF Hears
<1>3. CASE state # "spawning"
  <2>1. state' = "none" /\ list' = <<>>
    BY <1>3 DEF Begin
  <2>2. Listed(list') /\ wire \o list' = wire
    BY <1>1, <2>1, ListedShort, ListedIs
  <2>3. \E g : Passes(g, saved, wire)
    BY <1>1, PassesFirst
  <2>4. QED
    BY <1>1, <2>1, <2>2, <2>3 DEF Settled
<1>4. CASE state = "spawning" /\ downloadpak /\ ~dl
  <2>1. LoadNewPAK
    BY <1>4 DEF Begin
  <2>2. QED
    BY <1>1, <2>1, LoadNewPAKIs
<1>5. CASE state = "spawning" /\ ~(downloadpak /\ ~dl) /\ l # level
  <2>1. New("connected") /\ known' = known
    BY <1>5 DEF Begin
  <2>2. Listed(list') /\ Settled(saved, wire \o list', rs, known, measured, state')
    BY <1>1, <1>2, <2>1, NewIs
  <2>3. QED
    BY <2>1, <2>2
<1>6. CASE state = "spawning" /\ ~(downloadpak /\ ~dl) /\ l = level
  <2>1. state' = "spawned" /\ list' = list \o Restore /\ known' = IF known \notin {0, -1} THEN 0 ELSE known
    BY <1>6 DEF Begin
  <2>2. known # -1
    BY <1>1, KeepsAre, SeAssumption
  <2>3. CASE known # 0
    <3> DEFINE m == [op |-> "restore", fps |-> Abs(known), swap |-> known < 0]
               b == [op |-> "rate", rate |-> srvRate]
    <3>1. known' = 0 /\ list' = IF srvRate < DownRate THEN list \o (<<m>> \o <<b>>) ELSE list \o (<<m>> \o <<>>)
      BY <2>1, <2>2, <2>3 DEF Restore, SetRate
    <3>2. h[Len(ms)] = known
      BY <1>2, <2>3 DEF Linked
    <3>3. PICK g : Passes(g, saved, Append(ms, m)) /\ Linked(0, measured, "spawned", g, Append(ms, m), rs)
      <4> HIDE DEF ms, rs
      <4>1. QED
        BY <1>1, <1>2, <2>3, <3>2, LinkedRestore
    <3>4. b.op \in PlainMessages /\ b.op # "set"
      BY DEF PlainMessages
    <3> HIDE DEF m, b
    <3>5. CASE ~(srvRate < DownRate)
      <4>1. list' = Append(list, m)
        <5>1. list \o (<<m>> \o <<>>) = Append(list, m)
          BY <1>1, ListedTwo
        <5>2. QED
          BY <3>1, <3>5, <5>1
      <4>2. Listed(list') /\ wire \o list' = Append(ms, m)
        BY <1>1, <4>1, ListedGrow
      <4>3. QED
        BY <1>1, <2>1, <3>1, <3>3, <4>2 DEF Settled
    <3>6. CASE srvRate < DownRate
      <4>1. list' = Append(Append(list, m), b)
        <5>1. list \o (<<m>> \o <<b>>) = Append(Append(list, m), b)
          BY <1>1, ListedTwo
        <5>2. QED
          BY <3>1, <3>6, <5>1
      <4>2. Listed(list') /\ wire \o list' = Append(Append(ms, m), b) /\ Listed(Append(ms, m))
        BY <1>1, <4>1, ListedGrowTwice
      <4>3. \E f : Passes(f, saved, Append(Append(ms, m), b))
                   /\ Linked(0, measured, "spawned", f, Append(Append(ms, m), b), rs)
        <5>1. PICK x : x = Append(ms, m)
          OBVIOUS
        <5> HIDE DEF ms, rs
        <5>2. \E f : Passes(f, saved, Append(x, b)) /\ Linked(0, measured, "spawned", f, Append(x, b), rs)
          BY <3>3, <3>4, <4>2, <5>1, LinkedPlain
        <5>3. QED
          BY <5>1, <5>2, Zenon
      <4>4. QED
        BY <1>1, <2>1, <3>1, <4>2, <4>3 DEF Settled
    <3>7. QED
      BY <3>5, <3>6
  <2>4. CASE known = 0 /\ ~measured
    <3> DEFINE m == [op |-> "d2"]
    <3>1. known' = 0 /\ list' = Append(list, m)
      BY <1>1, <2>1, <2>4, ListedMore DEF Restore, Op
    <3>2. Listed(list') /\ wire \o list' = Append(ms, m)
      BY <1>1, <3>1, ListedGrow
    <3>4. m.op = "d2" /\ m.op \in Questions
      BY DEF Questions
    <3>3. ~Holds(ms, "d1") /\ ~Holds(rs, "d1")
      <4>1. ~Holds(ms, "d1") /\ ~Holds(replies, "d1")
        BY <3>1, <3>4 DEF Unasked
      <4>2. QED
        BY <4>1, RestHolds DEF Hears
    <3> HIDE DEF m
    <3>5. \E g : Passes(g, saved, Append(ms, m)) /\ Linked(0, measured, "spawned", g, Append(ms, m), rs)
      <4> HIDE DEF ms, rs
      <4>1. QED
        BY <1>1, <1>2, <2>4, <3>3, <3>4, LinkedAsk
    <3>6. QED
      BY <1>1, <2>1, <3>1, <3>2, <3>5 DEF Settled
  <2>5. CASE known = 0 /\ measured
    <3>1. known' = known /\ list' = list
      BY <1>1, <2>1, <2>5, ListedIs DEF Restore
    <3>2. Linked(known, measured, "spawned", h, ms, rs)
      BY <1>2, <2>5 DEF Linked
    <3>3. QED
      BY <1>1, <2>1, <3>1, <3>2 DEF Settled
  <2>6. QED
    BY <2>3, <2>4, <2>5
<1>7. QED
  BY <1>3, <1>4, <1>5, <1>6

(* What is read alone does not matter to the settings. *)
LEMMA PlainIs ==
  ASSUME NEW k, NEW md, NEW st, NEW h, NEW s, NEW w, NEW l, NEW rs, Listed(w), Listed(l), Passes(h, s, w \o l),
         Linked(k, md, st, h, w \o l, rs), Answers(rs), NEW m, m.op \in PlainMessages, m.op = "set" => k # 0
  PROVE  Listed(Append(l, m)) /\ Settled(s, w \o Append(l, m), rs, k, md, st)
<1> DEFINE ms == w \o l
<1>1. Listed(ms) /\ Listed(Append(l, m)) /\ w \o Append(l, m) = Append(ms, m)
  BY ListedJoin, ListedGrow
<1> HIDE DEF ms
<1>2. \E g : Passes(g, s, Append(ms, m)) /\ Linked(k, md, st, g, Append(ms, m), rs)
  BY <1>1, LinkedPlain DEF ms
<1>3. QED
  BY <1>1, <1>2 DEF Settled

LEMMA BeginDownloadIs ==
  ASSUME NEW r, NEW h, Hears(r, h), r.op = "download", NEW pak, BeginDownload(pak), UNCHANGED <<known, measured>>,
         \A m : m.op \in Questions /\ list' = Append(list, m) => Unasked
  PROVE  Listed(list') /\ Settled(saved, wire \o list', Tail(replies), known', measured, state')
<1> DEFINE ms == wire \o list
           rs == Tail(replies)
<1>1. Listed(wire) /\ Listed(list) /\ Passes(h, saved, ms) /\ Answers(rs) /\ Listed(ms)
  <2>1. Listed(wire) /\ Listed(list) /\ Passes(h, saved, ms) /\ Answers(rs)
    BY DEF Hears
  <2>2. QED
    BY <2>1, ListedJoin
<1>2. Linked(known, measured, "spawning", h, ms, rs) /\ Linked(known, measured, state, h, ms, rs)
  BY DEF Hears
<1>3. CASE spawncount # level
  <2>1. New("connected")
    BY <1>3 DEF BeginDownload
  <2>2. Listed(list') /\ Settled(saved, wire \o list', rs, known, measured, state')
    BY <1>1, <1>2, <2>1, NewIs
  <2>3. QED
    BY <2>2
<1>4. CASE spawncount = level /\ state # "spawning"
  <2> DEFINE m == [op |-> "file"]
  <2>1. list' = Append(list, m) /\ state' = state
    BY <1>1, <1>4, ListedMore DEF BeginDownload, Op
  <2>2. m.op \in PlainMessages /\ m.op # "set"
    BY DEF PlainMessages
  <2> HIDE DEF m
  <2>3. Listed(Append(list, m)) /\ Settled(saved, wire \o Append(list, m), rs, known, measured, state)
    <3> HIDE DEF rs
    <3>1. QED
      BY <1>1, <1>2, <2>2, PlainIs
  <2>4. QED
    BY <2>1, <2>3
<1>5. CASE spawncount = level /\ state = "spawning" /\ (~pak /\ downloadpak /\ ~dl)
  <2>1. LoadNewPAK
    BY <1>5 DEF BeginDownload
  <2>2. QED
    BY <1>1, <2>1, LoadNewPAKIs
<1>6. CASE spawncount = level /\ state = "spawning" /\ ~(~pak /\ downloadpak /\ ~dl)
  <2>1. PICK asks \in BOOLEAN :
             /\ list' = IF known = 0 THEN list \o <<[op |-> "d1", asks |-> asks]>> ELSE list
             /\ state' = state
    BY <1>6 DEF BeginDownload
  <2>2. CASE known # 0
    BY <1>1, <1>2, <2>1, <2>2 DEF Settled
  <2>3. CASE known = 0
    <3> DEFINE m == [op |-> "d1", asks |-> asks]
    <3>1. list' = Append(list, m)
      BY <1>1, <2>1, <2>3, ListedMore
    <3>2. m.op \in Questions /\ m.op = "d1"
      BY DEF Questions
    <3>3. ~Holds(ms, "d1") /\ ~Holds(rs, "d1")
      <4>1. ~Holds(ms, "d1") /\ ~Holds(replies, "d1")
        BY <3>1, <3>2 DEF Unasked
      <4>2. QED
        BY <4>1, RestHolds DEF Hears
    <3>4. Listed(list') /\ wire \o list' = Append(ms, m)
      BY <1>1, <3>1, ListedGrow
    <3> HIDE DEF m
    <3>5. \E g : Passes(g, saved, Append(ms, m)) /\ Linked(0, measured, state, g, Append(ms, m), rs)
      <4>1. Linked(0, measured, state, h, ms, rs) /\ state # "spawned"
        BY <1>2, <1>6, <2>3
      <4> HIDE DEF ms, rs
      <4>2. QED
        BY <1>1, <3>2, <3>3, <4>1, LinkedAsk
    <3>6. QED
      BY <1>1, <2>1, <2>3, <3>4, <3>5 DEF Settled
  <2>4. QED
    BY <2>2, <2>3
<1>7. QED
  BY <1>3, <1>4, <1>5, <1>6

LEMMA ResultD1Is ==
  ASSUME NEW r, NEW h, Hears(r, h), r.op = "d1", ResultD1(r.v, r.asked, r.on), UNCHANGED <<state, measured>>
  PROVE  Listed(list') /\ Settled(saved, wire \o list', Tail(replies), known', measured, state')
<1> DEFINE ms == wire \o list
           rs == Tail(replies)
<1>1. Listed(wire) /\ Listed(list) /\ Passes(h, saved, ms) /\ Answers(rs) /\ Listed(ms)
      /\ Listed(replies) /\ replies # <<>> /\ r = replies[1] /\ Answer(r) /\ r.v # 0
  <2>1. /\ Listed(wire) /\ Listed(list) /\ Passes(h, saved, ms) /\ Answers(rs)
        /\ Listed(replies) /\ replies # <<>> /\ r = replies[1] /\ Answer(r)
    BY DEF Hears
  <2>2. QED
    BY <2>1, ListedJoin DEF Answer
<1>2. CASE state # "spawning"
  <2>1. known' = known /\ list' = list
    BY <1>2 DEF ResultD1
  <2>2. Linked(known, measured, state, h, ms, rs)
    BY DEF Hears
  <2>3. QED
    BY <1>1, <2>1, <2>2 DEF Settled
<1>3. CASE state = "spawning"
  <2> DEFINE k == IF r.v > 0 /\ r.asked /\ r.on THEN -r.v ELSE r.v
             b == [op |-> "rate", rate |-> DownRate]
  <2>1. PICK f \in DownFps :
             /\ known' = k
             /\ list' = list \o <<[op |-> "borrow", saved |-> k, fps |-> f, off |-> k < 0 \/ r.asked]>>
                              \o (IF srvRate < DownRate THEN SetRate(DownRate) ELSE <<>>)
    BY <1>1, <1>3 DEF ResultD1
  <2> DEFINE m == [op |-> "borrow", saved |-> k, fps |-> f, off |-> k < 0 \/ r.asked]
  <2>2. list' = IF srvRate < DownRate THEN (list \o <<m>>) \o <<b>> ELSE (list \o <<m>>) \o <<>>
    BY <2>1 DEF SetRate
  <2>3. Linked(known, measured, "spawning", h, ms, replies)
    BY <1>3 DEF Hears
  <2>4. PICK g : Passes(g, saved, Append(ms, m)) /\ Linked(k, measured, "spawning", g, Append(ms, m), rs)
    <3> HIDE DEF ms
    <3>1. QED
      BY <1>1, <2>3, LinkedBorrow
  <2>5. b.op \in PlainMessages /\ b.op # "set"
    BY DEF PlainMessages
  <2> HIDE DEF m, b
  <2>6. CASE ~(srvRate < DownRate)
    <3>1. list' = Append(list, m)
      <4>1. (list \o <<m>>) \o <<>> = Append(list, m)
        BY <1>1, ListedTwo
      <4>2. QED
        BY <2>2, <2>6, <4>1
    <3>2. Listed(list') /\ wire \o list' = Append(ms, m)
      BY <1>1, <3>1, ListedGrow
    <3> HIDE DEF k
    <3>3. QED
      BY <1>1, <1>3, <2>1, <2>4, <3>2 DEF Settled
  <2>7. CASE srvRate < DownRate
    <3>1. list' = Append(Append(list, m), b)
      <4>1. (list \o <<m>>) \o <<b>> = Append(Append(list, m), b)
        BY <1>1, ListedTwo
      <4>2. QED
        BY <2>2, <2>7, <4>1
    <3>2. Listed(list') /\ wire \o list' = Append(Append(ms, m), b) /\ Listed(Append(ms, m))
      BY <1>1, <3>1, ListedGrowTwice
    <3> HIDE DEF k
    <3>3. \E f1 : Passes(f1, saved, Append(Append(ms, m), b))
                 /\ Linked(k, measured, "spawning", f1, Append(Append(ms, m), b), rs)
      <4>1. PICK x : x = Append(ms, m)
        OBVIOUS
      <4> HIDE DEF ms, rs
      <4>2. \E f1 : Passes(f1, saved, Append(x, b)) /\ Linked(k, measured, "spawning", f1, Append(x, b), rs)
        BY <2>4, <2>5, <3>2, <4>1, LinkedPlain
      <4>3. QED
        BY <4>1, <4>2, Zenon
    <3>4. QED
      BY <1>1, <1>3, <2>1, <3>2, <3>3 DEF Settled
  <2>8. QED
    BY <2>6, <2>7
<1>4. QED
  BY <1>2, <1>3

LEMMA ResultD2Is ==
  ASSUME NEW r, NEW h, Hears(r, h), r.op = "d2", ResultD2(r.v), UNCHANGED <<state, known, measured>>
  PROVE  Listed(list') /\ Settled(saved, wire \o list', Tail(replies), known', measured, state')
<1> DEFINE ms == wire \o list
           rs == Tail(replies)
           e == h[Len(ms)]
           v == r.v
<1>1. /\ Listed(wire) /\ Listed(list) /\ Passes(h, saved, ms) /\ Answers(rs) /\ Listed(ms)
      /\ Listed(replies) /\ replies # <<>> /\ r = replies[1] /\ v \in Keeps
  <2>1. /\ Listed(wire) /\ Listed(list) /\ Passes(h, saved, ms) /\ Answers(rs)
        /\ Listed(replies) /\ replies # <<>> /\ r = replies[1] /\ Answer(r)
    BY DEF Hears
  <2>2. QED
    BY <2>1, ListedJoin DEF Answer
<1>2. Linked(known, measured, "spawning", h, ms, rs) /\ Linked(known, measured, state, h, ms, replies)
      /\ (e = 0 => Linked(known, measured, state, h, ms, rs))
  BY DEF Hears
<1>3. known = 0 /\ e \in {v, 0}
  <2>1. 1 \in 1 .. Len(replies) /\ r.op \in Questions
    BY <1>1, ListedIs DEF Questions
  <2>2. Asks(replies)
    BY <1>1, <2>1 DEF Asks
  <2>3. QED
    BY <1>1, <1>2, <2>1, <2>2 DEF Linked
<1>4. CASE v = 0
  <2>1. list' = list /\ e = 0
    BY <1>3, <1>4 DEF ResultD2
  <2>2. QED
    BY <1>1, <1>2, <2>1 DEF Settled
<1>5. CASE v # 0
  <2> DEFINE m == [op |-> "restore", fps |-> Abs(v), swap |-> v < 0]
  <2>1. list' = Append(list, m)
    BY <1>1, <1>5, ListedMore DEF ResultD2
  <2>2. Listed(list') /\ wire \o list' = Append(ms, m)
    BY <1>1, <2>1, ListedGrow
  <2>3. \E g : Passes(g, saved, Append(ms, m)) /\ Linked(0, measured, state, g, Append(ms, m), rs)
    <3>1. h[Len(ms)] \in {v, 0} /\ v \in Keeps \ {0}
      BY <1>1, <1>3, <1>5
    <3> HIDE DEF ms, rs, v
    <3>2. QED
      BY <1>1, <1>2, <3>1, LinkedRestore
  <2> HIDE DEF m
  <2>4. QED
    BY <1>1, <1>3, <2>2, <2>3 DEF Settled
<1>6. QED
  BY <1>4, <1>5

LEMMA AnswersRest ==
  ASSUME NEW rs, Listed(rs), rs # <<>>, Answers(rs)
  PROVE  Listed(Tail(rs)) /\ Answer(rs[1]) /\ Answers(Tail(rs)) /\ Head(rs) = rs[1]
<1>1. Len(rs) \in Nat /\ Len(rs) > 0 /\ Head(rs) = rs[1]
  BY ListedIs
<1>2. Listed(Tail(rs)) /\ Len(Tail(rs)) = Len(rs) - 1 /\ \A i \in 1 .. Len(rs) - 1 : Tail(rs)[i] = rs[i + 1]
  BY ListedRest
<1>3. 1 \in 1 .. Len(rs) /\ \A i \in 1 .. Len(rs) - 1 : i + 1 \in 1 .. Len(rs)
  BY <1>1
<1>4. QED
  BY <1>1, <1>2, <1>3 DEF Answers

LEMMA AskedIs ==
  ASSUME Listed(wire), Listed(list), Listed(replies), ~Asked(wire \o list \o replies)
  PROVE  Unasked
<1> DEFINE ms == wire \o list
           n == Len(ms)
           all == ms \o replies
<1>1. Listed(ms)
  BY ListedJoin
<1>2. /\ n \in Nat /\ Len(replies) \in Nat /\ Listed(all) /\ Len(all) = n + Len(replies)
      /\ (\A i \in 1 .. n : all[i] = ms[i]) /\ (\A i \in 1 .. Len(replies) : all[n + i] = replies[i])
  <2> HIDE DEF ms
  <2>1. QED
    BY <1>1, ListedIs, ListedJoin
<1>3. DOMAIN all = 1 .. n + Len(replies)
  <2> HIDE DEF ms, all
  <2>1. QED
    BY <1>2, ListedIs
<1>4. \A i \in 1 .. n + Len(replies) : all[i].op # "d1"
  BY <1>3 DEF Asked
<1> HIDE DEF ms, all
<1>5. (\A i \in 1 .. n : i \in 1 .. n + Len(replies)) /\ \A i \in 1 .. Len(replies) : n + i \in 1 .. n + Len(replies)
  BY <1>2
<1>6. ~Holds(ms, "d1") /\ ~Holds(replies, "d1")
  BY <1>2, <1>4, <1>5 DEF Holds
<1>7. QED
  BY <1>6 DEF Unasked, ms

(* One lemma for each action, the longest two first. *)
LEMMA KeptByServerReceives ==
  ASSUME SeInv, ServerReceives
  PROVE  SeInv'
<1>1. SUFFICES ASSUME Clean'
               PROVE  Clean /\ Listed(wire') /\ Listed(list') /\ Listed(replies')
                      /\ Sure(saved', fps', swap') /\ Settled(saved', wire' \o list', replies', known', measured', state')
  BY DEF SeInv
<1>2. Clean /\ ~(Asked(wire \o list \o replies) /\ AsksMore)
  BY <1>1 DEF Clean, ServerReceives
<1>3. /\ Listed(wire) /\ Listed(list) /\ Listed(replies) /\ Sure(saved, fps, swap)
      /\ Settled(saved, wire \o list, replies, known, measured, state)
  BY <1>2 DEF SeInv
<1>4. replies # <<>> /\ replies' = Tail(replies) /\ state # "none" /\ UNCHANGED <<saved, fps, swap, measured, wire>>
  BY DEF ServerReceives, client
<1>5. PICK h : Passes(h, saved, wire \o list) /\ Linked(known, measured, state, h, wire \o list, replies)
  BY <1>3, <1>4 DEF Settled
<1> DEFINE r == replies[1]
<1>6. Listed(Tail(replies)) /\ Answer(r) /\ Answers(Tail(replies)) /\ Head(replies) = r
  BY <1>3, <1>4, AnswersRest DEF Settled
<1>7. Hears(r, h)
  <2> DEFINE ms == wire \o list
  <2>1. ASSUME NEW st2, st2 = "spawned" => state = "spawned" /\ (r.op # "d2" \/ h[Len(ms)] = 0)
        PROVE  Linked(known, measured, st2, h, ms, Tail(replies))
    <3>1. Listed(ms)
      BY <1>3, ListedJoin
    <3> HIDE DEF ms
    <3>2. Linked(known, measured, state, h, ms, replies)
      BY <1>5 DEF ms
    <3>3. QED
      BY <1>3, <1>4, <2>1, <3>1, <3>2, LinkedHeard
  <2>2. QED
    BY <1>3, <1>4, <1>5, <1>6, <2>1 DEF Hears
<1>8. \A m : m.op \in Questions /\ list' = Append(list, m) => Unasked
  <2>1. SUFFICES ASSUME NEW m, m.op \in Questions, list' = Append(list, m) PROVE Unasked
    OBVIOUS
  <2>2. AsksMore
    <3>1. Len(Append(list, m)) > Len(list) /\ Last(Append(list, m)) = m
      BY <1>3, ListedGrow
    <3> HIDE DEF Last
    <3>2. QED
      BY <2>1, <3>1 DEF AsksMore, Questions
  <2>3. QED
    BY <1>2, <1>3, <2>2, AskedIs
<1> HIDE DEF r
<1>9. Listed(list') /\ Settled(saved, wire \o list', Tail(replies), known', measured, state')
  <2>1. CASE r.op = "new" /\ New(state) /\ UNCHANGED known
    <3>1. Linked(known, measured, "spawning", h, wire \o list, Tail(replies)) /\ Linked(known, measured, state, h, wire \o list, Tail(replies))
      BY <1>7, <2>1 DEF Hears
    <3>2. Listed(list') /\ Settled(saved, wire \o list', Tail(replies), known, measured, state')
      BY <1>3, <1>5, <1>6, <2>1, <3>1, NewIs
    <3>3. QED
      BY <2>1, <3>2
  <2>2. CASE r.op = "begin" /\ Begin(r.level)
    <3>1. UNCHANGED measured
      BY <1>4
    <3>2. QED
      BY <1>7, <1>8, <2>2, <3>1, BeginIs
  <2>3. CASE r.op = "download" /\ BeginDownload(r.pak) /\ UNCHANGED known
    <3>1. UNCHANGED <<known, measured>>
      BY <1>4, <2>3
    <3>2. QED
      BY <1>7, <1>8, <2>3, <3>1, BeginDownloadIs
  <2>4. CASE r.op = "d1" /\ ResultD1(r.v, r.asked, r.on) /\ UNCHANGED state
    <3>1. UNCHANGED <<state, measured>>
      BY <1>4, <2>4
    <3>2. QED
      BY <1>7, <2>4, <3>1, ResultD1Is
  <2>5. CASE r.op = "d2" /\ ResultD2(r.v) /\ UNCHANGED <<state, known>>
    <3>1. UNCHANGED <<state, known, measured>>
      BY <1>4, <2>5
    <3>2. QED
      BY <1>7, <2>5, <3>1, ResultD2Is
  <2>6. CASE r.op = "fps"
    BY <1>6, <2>6 DEF Answer
  <2>7. CASE r.op = "info" /\ UNCHANGED <<state, known, list>>
    <3>1. Linked(known, measured, state, h, wire \o list, Tail(replies))
      BY <1>7, <2>7 DEF Hears
    <3>2. QED
      BY <1>3, <1>5, <1>6, <2>7, <3>1 DEF Settled
  <2>8. QED
    BY <1>6, <2>1, <2>2, <2>3, <2>4, <2>5, <2>6, <2>7 DEF ServerReceives
<1>10. QED
  BY <1>2, <1>3, <1>4, <1>6, <1>9

LEMMA AnswersMore ==
  ASSUME NEW rs, Listed(rs), Answers(rs), NEW r, Answer(r)
  PROVE  Answers(Append(rs, r)) /\ Listed(Append(rs, r)) /\ rs \o <<r>> = Append(rs, r)
<1>1. Len(rs) \in Nat /\ Len(Append(rs, r)) = Len(rs) + 1 /\ Append(rs, r)[Len(rs) + 1] = r
      /\ \A i \in 1 .. Len(rs) : Append(rs, r)[i] = rs[i]
  BY ListedIs, ListedMore
<1>2. \A i \in 1 .. Len(rs) + 1 : i \in 1 .. Len(rs) \/ i = Len(rs) + 1
  BY <1>1
<1>3. Answers(Append(rs, r))
  BY <1>1, <1>2 DEF Answers
<1>4. QED
  BY <1>3, ListedMore

LEMMA NothingSaid ==
  /\ Listed(<<>>) /\ Len(<<>>) = 0 /\ Answers(<<>>) /\ NoneBehind(<<>>) /\ ~Asks(<<>>) /\ <<>> \o <<>> = <<>>
  /\ \A op : ~Holds(<<>>, op)
<1>1. Listed(<<>>) /\ Len(<<>>) = 0
  BY ListedShort
<1>2. <<>> \o <<>> = <<>>
  BY <1>1, ListedIs
<1>3. QED
  BY <1>1, <1>2 DEF Answers, NoneBehind, Asks, Holds

LEMMA SettledSaid ==
  ASSUME NEW s, NEW ms, NEW rs, NEW k, NEW md, NEW st, Listed(rs), Settled(s, ms, rs, k, md, st),
         NEW r, r.op \notin Questions, r.op # "fps"
  PROVE  Listed(Append(rs, r)) /\ rs \o <<r>> = Append(rs, r) /\ Settled(s, ms, Append(rs, r), k, md, st)
<1>1. Answers(rs) /\ Answer(r)
  BY DEF Settled, Answer, Questions
<1>2. PICK h : Passes(h, s, ms) /\ (st # "none" => Linked(k, md, st, h, ms, rs))
  BY DEF Settled
<1>3. st # "none" => Linked(k, md, st, h, ms, Append(rs, r))
  BY <1>2, LinkedSaid
<1>4. Answers(Append(rs, r)) /\ Listed(Append(rs, r)) /\ rs \o <<r>> = Append(rs, r)
  BY <1>1, AnswersMore
<1>5. QED
  BY <1>2, <1>3, <1>4 DEF Settled

LEMMA SettledRead ==
  ASSUME NEW s, NEW ms, NEW rs, NEW k, NEW md, NEW st, Listed(ms), ms # <<>>, Settled(s, ms, rs, k, md, st),
         ms[1].op \notin Questions
  PROVE  Settled(After(ms[1], s), Tail(ms), rs, k, md, st)
<1>1. PICK h : Passes(h, s, ms) /\ (st # "none" => Linked(k, md, st, h, ms, rs))
  BY DEF Settled
<1>2. CASE st = "none"
  <2>1. h[1] = After(ms[1], s) /\ \E g : Passes(g, h[1], Tail(ms))
    BY <1>1, PassesRest
  <2>2. QED
    BY <1>2, <2>1 DEF Settled
<1>3. CASE st # "none"
  <2>1. \E g : Passes(g, After(ms[1], s), Tail(ms)) /\ Linked(k, md, st, g, Tail(ms), rs)
    BY <1>1, <1>3, LinkedRead
  <2>2. QED
    BY <2>1 DEF Settled
<1>4. QED
  BY <1>2, <1>3

LEMMA SettledAnswer ==
  ASSUME NEW s, NEW ms, NEW rs, NEW k, NEW md, NEW st, Listed(ms), Listed(rs), ms # <<>>, Settled(s, ms, rs, k, md, st),
         ms[1].op \in Questions, NEW r, Answer(r), r.op = ms[1].op, s # 0 => r.v = s
  PROVE  Listed(Append(rs, r)) /\ rs \o <<r>> = Append(rs, r) /\ Settled(s, Tail(ms), Append(rs, r), k, md, st)
<1>1. PICK h : Passes(h, s, ms) /\ (st # "none" => Linked(k, md, st, h, ms, rs))
  BY DEF Settled
<1>2. Answers(Append(rs, r)) /\ Listed(Append(rs, r)) /\ rs \o <<r>> = Append(rs, r)
  BY AnswersMore DEF Settled
<1>3. CASE st = "none"
  <2>1. h[1] = s /\ \E g : Passes(g, h[1], Tail(ms))
    BY <1>1, PassesRest DEF After, Questions
  <2>2. QED
    BY <1>2, <1>3, <2>1 DEF Settled
<1>4. CASE st # "none"
  <2>1. \E g : Passes(g, s, Tail(ms)) /\ Linked(k, md, st, g, Tail(ms), Append(rs, r))
    BY <1>1, <1>4, LinkedAnswer
  <2>2. QED
    BY <1>2, <2>1 DEF Settled
<1>5. QED
  BY <1>3, <1>4

(* It says what asks and answers nothing. *)
Tells(r) == r.op \in {"new", "info"} /\ replies' = replies \o <<r>>

LEMMA KeptByClientReceives ==
  ASSUME SeInv, ClientReceives
  PROVE  SeInv'
<1>1. SUFFICES ASSUME Clean
               PROVE  Listed(wire') /\ Listed(list') /\ Listed(replies')
                      /\ Sure(saved', fps', swap') /\ Settled(saved', wire' \o list', replies', known', measured', state')
  BY DEF SeInv, Clean, ClientReceives
<1> DEFINE ms == wire \o list
           m == ms[1]
           Sets(s, rs) == Settled(s, Tail(ms), rs, known, measured, state)
<1>2. /\ Listed(wire) /\ Listed(list) /\ Listed(replies) /\ Sure(saved, fps, swap)
      /\ Settled(saved, ms, replies, known, measured, state)
  BY <1>1 DEF SeInv
<1>3. wire # <<>> /\ wire' = Tail(wire) /\ UNCHANGED <<list, known, measured, state>>
  BY DEF ClientReceives, slot
<1>4. Listed(ms) /\ ms # <<>> /\ Head(wire) = m /\ wire' \o list' = Tail(ms) /\ Listed(wire') /\ Listed(list')
  BY <1>2, <1>3, ListedRestJoin, ListedJoin, ListedRest
<1>5. PICK h : Passes(h, saved, ms) /\ (state # "none" => Linked(known, measured, state, h, ms, replies))
  BY <1>2 DEF Settled
<1>6. saved \in Keeps /\ Fits(m, saved)
  <2> HIDE DEF ms
  <2>1. QED
    BY <1>4, <1>5, PassesRest
<1>7. m.op \notin Questions => Settled(After(m, saved), Tail(ms), replies, known, measured, state)
  <2> HIDE DEF ms
  <2>1. QED
    BY <1>2, <1>4, SettledRead
<1>8. SUFFICES Listed(replies') /\ Sure(saved', fps', swap') /\ Settled(saved', Tail(ms), replies', known, measured, state)
  BY <1>3, <1>4
<1> HIDE DEF ms, m
<1>9. CASE m.op \in {"level", "file", "reconnect", "rate", "set"} /\ saved' = saved /\ swap' = swap
           /\ (m.op # "set" => fps' = fps) /\ (replies' = replies \/ \E r : Tells(r))
  <2>1. After(m, saved) = saved /\ m.op \notin Questions
    BY <1>9 DEF After, Questions
  <2>2. Settled(saved, Tail(ms), replies, known, measured, state)
    BY <1>7, <2>1
  <2>3. Sure(saved', fps', swap')
    BY <1>2, <1>6, <1>9 DEF Sure, Fits
  <2>4. CASE replies' = replies
    BY <1>2, <1>9, <2>2, <2>3, <2>4
  <2>5. CASE \E r : Tells(r)
    <3>1. PICK r : r.op \in {"new", "info"} /\ replies' = replies \o <<r>>
      BY <2>5 DEF Tells
    <3>2. r.op \notin Questions /\ r.op # "fps"
      BY <3>1 DEF Questions
    <3>3. Listed(Append(replies, r)) /\ replies \o <<r>> = Append(replies, r)
          /\ Settled(saved, Tail(ms), Append(replies, r), known, measured, state)
      BY <1>2, <2>2, <3>2, SettledSaid
    <3>4. QED
      BY <1>9, <2>3, <3>1, <3>3
  <2>6. QED
    BY <1>9, <2>4, <2>5
<1>10. CASE m.op \in {"again", "kicked"} /\ replies' = <<>> /\ UNCHANGED <<saved, fps, swap>>
  <2>1. state = "none"
    <3>1. 1 \in 1 .. Len(ms)
      BY <1>4, ListedIs
    <3>2. QED
      BY <1>5, <1>10, <3>1 DEF Linked, m
  <2>2. After(m, saved) = saved /\ m.op \notin Questions
    BY <1>10 DEF After, Questions
  <2>3. \E g : Passes(g, saved, Tail(ms))
    BY <1>7, <2>2 DEF Settled
  <2>4. QED
    BY <1>2, <1>10, <2>1, <2>3, NothingSaid DEF Settled
<1>11. CASE m.op \in Questions /\ UNCHANGED <<saved, fps, swap>>
            /\ \E a : replies' = replies \o
                 <<IF m.op = "d1" THEN [op |-> "d1", v |-> IF saved # 0 THEN saved ELSE fps, asked |-> a, on |-> swap]
                   ELSE [op |-> "d2", v |-> saved]>>
  <2>1. PICK a : replies' = replies \o
                 <<IF m.op = "d1" THEN [op |-> "d1", v |-> IF saved # 0 THEN saved ELSE fps, asked |-> a, on |-> swap]
                   ELSE [op |-> "d2", v |-> saved]>>
    BY <1>11
  <2> DEFINE r == IF m.op = "d1" THEN [op |-> "d1", v |-> IF saved # 0 THEN saved ELSE fps, asked |-> a, on |-> swap]
                  ELSE [op |-> "d2", v |-> saved]
  <2>2. r.op = m.op /\ (saved # 0 => r.v = saved)
    BY <1>11 DEF Questions
  <2>3. Answer(r)
    <3>1. CASE m.op = "d1"
      <4>1. r.op = "d1" /\ r.v = (IF saved # 0 THEN saved ELSE fps) /\ r.on = swap
        BY <3>1
      <4> HIDE DEF r
      <4>2. r.v \in Keeps \ {0} /\ (r.on => Swap) /\ (r.v = Fps => (r.on <=> Swap))
        <5>1. CASE saved = 0
          BY <1>2, <4>1, <5>1, KeepsAre, SeAssumption DEF Sure
        <5>2. CASE saved = Fps
          BY <1>2, <4>1, <5>2, KeepsAre, SeAssumption DEF Sure
        <5>3. CASE saved = -Fps /\ Swap
          BY <1>2, <4>1, <5>3, KeepsAre, SeAssumption DEF Sure
        <5>4. QED
          BY <1>6, <5>1, <5>2, <5>3, KeepsAre
      <4>3. QED
        BY <4>1, <4>2 DEF Answer
    <3>2. CASE m.op = "d2"
      <4>1. r.op = "d2" /\ r.v = saved
        BY <3>2
      <4> HIDE DEF r
      <4>2. QED
        BY <1>6, <4>1 DEF Answer
    <3>3. QED
      BY <1>11, <3>1, <3>2 DEF Questions
  <2>4. replies' = replies \o <<r>>
    BY <2>1
  <2> HIDE DEF r
  <2>5. Listed(Append(replies, r)) /\ replies \o <<r>> = Append(replies, r)
        /\ Settled(saved, Tail(ms), Append(replies, r), known, measured, state)
    BY <1>2, <1>4, <1>11, <2>2, <2>3, SettledAnswer DEF m
  <2>6. QED
    BY <1>2, <1>11, <2>4, <2>5
<1>12. CASE m.op = "borrow" /\ saved' = m.saved /\ fps' = m.fps /\ swap' = (swap /\ ~m.off) /\ replies' = replies
  <2>1. After(m, saved) = saved' /\ m.op \notin Questions
    BY <1>12 DEF After, Questions
  <2>2. m.saved # 0 /\ (m.saved = Fps => saved # -Fps /\ (m.off => ~Swap))
    BY <1>6, <1>12 DEF Fits
  <2>3. swap \in BOOLEAN /\ (saved # -Fps => swap = Swap)
    BY <1>2, <1>6, KeepsAre DEF Sure
  <2>4. swap' \in BOOLEAN
    BY <1>12
  <2>5. m.saved = Fps => swap' = Swap
    BY <1>12, <2>2, <2>3, SeAssumption
  <2>6. Sure(saved', fps', swap')
    BY <1>12, <2>2, <2>4, <2>5 DEF Sure
  <2>7. QED
    BY <1>2, <1>7, <1>12, <2>1, <2>6
<1>13. CASE m.op = "restore" /\ fps' = m.fps /\ saved' = 0 /\ swap' = (m.swap \/ swap) /\ replies' = replies
  <2>1. After(m, saved) = saved' /\ m.op \notin Questions
    BY <1>13 DEF After, Questions
  <2>2. m.fps = Fps /\ (m.swap => Swap) /\ (~m.swap => saved # -Fps)
    BY <1>6, <1>13 DEF Fits
  <2>3. swap \in BOOLEAN /\ (saved # -Fps => swap = Swap) /\ (saved = -Fps => Swap)
    BY <1>2, <1>6, KeepsAre DEF Sure
  <2>4. swap' = Swap
    BY <1>13, <2>2, <2>3, SeAssumption
  <2>5. Sure(saved', fps', swap')
    BY <1>13, <2>2, <2>4, SeAssumption DEF Sure
  <2>6. QED
    BY <1>2, <1>7, <1>13, <2>1, <2>5
<1>14. CASE m.op = "fps"
  BY <1>6, <1>14 DEF Fits
<1>15. QED
  <2>2. m = Head(wire)
    BY <1>4 DEF m
  <2>3. CASE m.op = "level" /\ UNCHANGED <<saved, fps, swap, replies>>
    BY <1>9, <2>3
  <2>4. CASE m.op = "file" /\ UNCHANGED <<saved, fps, swap, replies>>
    BY <1>9, <2>4
  <2>5. CASE m.op = "reconnect" /\ UNCHANGED <<saved, fps, swap>> /\ (UNCHANGED replies \/ Say([op |-> "new"]))
    <3>1. Say([op |-> "new"]) => \E r : Tells(r)
      <4>1. PICK r : r = [op |-> "new"]
        OBVIOUS
      <4>2. Say(r) => Tells(r)
        BY <4>1 DEF Say, Tells
      <4>3. QED
        BY <4>1, <4>2, Zenon
    <3>2. QED
      BY <1>9, <2>5, <3>1
  <2>6. CASE m.op = "d1" /\ Say([op |-> "d1", v |-> IF saved # 0 THEN saved ELSE fps, asked |-> m.asks, on |-> swap])
             /\ UNCHANGED <<saved, fps, swap>>
    <3>1. m.op = "d1" /\ m.op \in Questions
      BY <2>6 DEF Questions
    <3>2. \E a : replies' = replies \o
                 <<IF m.op = "d1" THEN [op |-> "d1", v |-> IF saved # 0 THEN saved ELSE fps, asked |-> a, on |-> swap]
                   ELSE [op |-> "d2", v |-> saved]>>
      BY <2>6, <3>1, Zenon DEF Say
    <3>3. QED
      BY <1>11, <2>6, <3>1, <3>2
  <2>7. CASE m.op = "d2" /\ Say([op |-> "d2", v |-> saved]) /\ UNCHANGED <<saved, fps, swap>>
    <3>1. m.op # "d1" /\ m.op \in Questions
      BY <2>7 DEF Questions
    <3>2. \E a : replies' = replies \o
                 <<IF m.op = "d1" THEN [op |-> "d1", v |-> IF saved # 0 THEN saved ELSE fps, asked |-> a, on |-> swap]
                   ELSE [op |-> "d2", v |-> saved]>>
      BY <2>7, <3>1, Zenon DEF Say
    <3>3. QED
      BY <1>11, <2>7, <3>1, <3>2
  <2>8. CASE m.op = "set" /\ UNCHANGED <<saved, swap, replies>>
    BY <1>9, <2>8
  <2>9. CASE m.op = "rate" /\ UNCHANGED <<saved, fps, swap>> /\ (UNCHANGED replies \/ Say([op |-> "info", rate |-> m.rate]))
    <3>1. Say([op |-> "info", rate |-> m.rate]) => \E r : Tells(r)
      <4>1. PICK r : r = [op |-> "info", rate |-> m.rate]
        OBVIOUS
      <4>2. Say(r) => Tells(r)
        BY <4>1 DEF Say, Tells
      <4>3. QED
        BY <4>1, <4>2, Zenon
    <3>2. QED
      BY <1>9, <2>9, <3>1
  <2>10. \/ m.op = "level" /\ UNCHANGED <<saved, fps, swap, replies>>
         \/ m.op = "file" /\ UNCHANGED <<saved, fps, swap, replies>>
         \/ m.op = "reconnect" /\ UNCHANGED <<saved, fps, swap>> /\ (UNCHANGED replies \/ Say([op |-> "new"]))
         \/ m.op \in {"again", "kicked"} /\ replies' = <<>> /\ UNCHANGED <<saved, fps, swap>>
         \/ m.op = "d1" /\ Say([op |-> "d1", v |-> IF saved # 0 THEN saved ELSE fps, asked |-> m.asks, on |-> swap])
            /\ UNCHANGED <<saved, fps, swap>>
         \/ m.op = "d2" /\ Say([op |-> "d2", v |-> saved]) /\ UNCHANGED <<saved, fps, swap>>
         \/ m.op = "fps"
         \/ m.op = "borrow" /\ saved' = m.saved /\ fps' = m.fps /\ swap' = (swap /\ ~m.off) /\ replies' = replies
         \/ m.op = "restore" /\ fps' = m.fps /\ saved' = 0 /\ swap' = (m.swap \/ swap) /\ replies' = replies
         \/ m.op = "set" /\ UNCHANGED <<saved, swap, replies>>
         \/ m.op = "rate" /\ UNCHANGED <<saved, fps, swap>> /\ (UNCHANGED replies \/ Say([op |-> "info", rate |-> m.rate]))
    BY <2>2 DEF ClientReceives, client
  <2>11. QED
    BY <1>10, <1>12, <1>13, <1>14, <2>3, <2>4, <2>5, <2>6, <2>7, <2>8, <2>9, <2>10

LEMMA KeptByServerIgnores ==
  ASSUME SeInv, ServerIgnores
  PROVE  SeInv'
<1>1. SUFFICES ASSUME Clean
               PROVE  Listed(replies') /\ Settled(saved, wire \o list, replies', known, measured, state)
  BY DEF SeInv, Clean, ServerIgnores, client, slot
<1>2. replies' = Tail(replies) /\ state = "none" /\ replies # <<>>
  BY DEF ServerIgnores
<1>3. Listed(replies) /\ Settled(saved, wire \o list, replies, known, measured, state)
  BY <1>1 DEF SeInv
<1>4. Listed(Tail(replies)) /\ Answers(Tail(replies))
  BY <1>2, <1>3, AnswersRest DEF Settled
<1>5. QED
  BY <1>2, <1>3, <1>4 DEF Settled

LEMMA KeptByFileDone ==
  ASSUME SeInv, FileDone
  PROVE  SeInv'
<1>1. SUFFICES ASSUME Clean
               PROVE  Listed(list') /\ Settled(saved, wire \o list', replies, known, measured, state)
  BY DEF SeInv, Clean, FileDone, client
<1> DEFINE m == [op |-> "file"]
<1>2. Listed(wire) /\ Listed(list) /\ Settled(saved, wire \o list, replies, known, measured, state) /\ state # "none"
  BY <1>1 DEF SeInv, FileDone
<1>3. list' = Append(list, m) /\ m.op \in PlainMessages /\ m.op # "set"
  BY <1>2, ListedMore DEF FileDone, Op, PlainMessages
<1> HIDE DEF m
<1>4. Listed(Append(list, m)) /\ Settled(saved, wire \o Append(list, m), replies, known, measured, state)
  BY <1>2, <1>3, PlainIs DEF Settled
<1>5. QED
  BY <1>3, <1>4

LEMMA KeptByBandwidth ==
  ASSUME SeInv, Bandwidth
  PROVE  SeInv'
<1>1. SUFFICES ASSUME Clean
               PROVE  Listed(list') /\ Settled(saved, wire \o list', replies, known, measured, state)
  BY DEF SeInv, Clean, Bandwidth, client
<1>2. PICK f \in DownFps : list' = list \o SetFps(f)
  BY DEF Bandwidth
<1> DEFINE m == [op |-> "set", fps |-> f]
<1>3. Listed(wire) /\ Listed(list) /\ Settled(saved, wire \o list, replies, known, measured, state)
      /\ state # "none" /\ known # 0
  BY <1>1 DEF SeInv, Bandwidth
<1>4. list' = Append(list, m) /\ m.op \in PlainMessages
  BY <1>2, <1>3, ListedMore DEF SetFps, PlainMessages
<1> HIDE DEF m
<1>5. Listed(Append(list, m)) /\ Settled(saved, wire \o Append(list, m), replies, known, measured, state)
  BY <1>3, <1>4, PlainIs DEF Settled
<1>6. QED
  BY <1>4, <1>5

LEMMA KeptByMeasure ==
  ASSUME SeInv, Measure, Limit > 0 => Fps <= Limit
  PROVE  SeInv'
<1>1. SUFFICES ASSUME Clean
               PROVE  Listed(list') /\ Settled(saved, wire \o list', replies, known', measured', state')
  BY DEF SeInv, Clean, Measure, client
<1>2. list = <<>> /\ wire = <<>> /\ replies = <<>> /\ state = "spawned" /\ measured' = TRUE
  BY DEF Measure
<1>3. Sure(saved, fps, swap) /\ Settled(saved, <<>>, <<>>, known, measured, "spawned")
  <2>1. wire \o list = <<>>
    BY <1>2, NothingSaid
  <2>2. QED
    BY <1>1, <1>2, <2>1 DEF SeInv
<1>4. PICK h : Passes(h, saved, <<>>) /\ Linked(known, measured, "spawned", h, <<>>, <<>>)
  BY <1>3 DEF Settled
<1>5. h[0] = saved /\ known = 0 /\ saved = 0 /\ fps = Fps
  BY <1>3, <1>4, NothingSaid DEF Passes, Linked, Sure
<1>6. known' = 0 /\ list' = list /\ state' = state
  BY <1>5, SeAssumption DEF Measure
<1>7. Linked(0, TRUE, "spawned", h, <<>>, <<>>)
  BY <1>4, <1>5, NothingSaid, KeepsAre DEF Linked
<1>8. Settled(saved, <<>>, <<>>, 0, TRUE, "spawned")
  BY <1>4, <1>7, NothingSaid DEF Settled
<1>9. wire \o list' = <<>> /\ Listed(list')
  BY <1>2, <1>6, NothingSaid
<1>10. QED
  BY <1>2, <1>6, <1>8, <1>9

LEMMA KeptByLevelChange ==
  ASSUME SeInv, LevelChange
  PROVE  SeInv'
<1>1. SUFFICES ASSUME Clean'
               PROVE  Clean /\ Listed(list') /\ Settled(saved, wire \o list', replies, known, measured, state')
  BY DEF SeInv, LevelChange, client
<1>2. Clean /\ (state = "spawned" => \A i \in 1 .. Len(list) : list[i].op \notin Settings)
  BY <1>1 DEF Clean, LevelChange
<1>3. Listed(wire) /\ Listed(list) /\ Settled(saved, wire \o list, replies, known, measured, state)
  BY <1>2 DEF SeInv
<1>4. PICK h : Passes(h, saved, wire \o list) /\ Answers(replies)
               /\ (state # "none" => Linked(known, measured, state, h, wire \o list, replies))
  BY <1>3 DEF Settled
<1> DEFINE m == [op |-> "reconnect"]
<1>5. m.op \in PlainMessages /\ m.op # "set"
  BY DEF PlainMessages
<1>6. CASE state = "none"
  <2>1. state' = "none" /\ list' = list \o <<>>
    BY <1>6 DEF LevelChange
  <2>2. list' = list
    BY <1>3, <2>1, ListedIs
  <2>3. QED
    BY <1>2, <1>3, <1>6, <2>1, <2>2
<1>7. CASE state = "spawned"
  <2>1. state' = "connected" /\ list' = <<>> \o <<m>>
    BY <1>7 DEF LevelChange, Op
  <2>2. list' = Append(<<>>, m) /\ Listed(<<>>) /\ wire \o <<>> = wire
    BY <1>3, <2>1, ListedMore, ListedShort, ListedIs
  <2>3. PICK g : Passes(g, saved, wire) /\ Linked(known, measured, "connected", g, wire, replies)
    BY <1>2, <1>3, <1>4, <1>7, LinkedCut
  <2> HIDE DEF m
  <2>4. Listed(Append(<<>>, m)) /\ Settled(saved, wire \o Append(<<>>, m), replies, known, measured, "connected")
    BY <1>3, <1>4, <1>5, <2>2, <2>3, PlainIs
  <2>5. QED
    BY <1>2, <2>1, <2>2, <2>4
<1>8. CASE state # "none" /\ state # "spawned"
  <2>1. list' = list \o <<m>> /\ state' # "spawned"
    BY <1>8 DEF LevelChange, Op
  <2>2. list' = Append(list, m)
    BY <1>3, <2>1, ListedMore
  <2>3. Linked(known, measured, state', h, wire \o list, replies)
    BY <1>4, <1>8, <2>1 DEF Linked
  <2> HIDE DEF m
  <2>4. Listed(Append(list, m)) /\ Settled(saved, wire \o Append(list, m), replies, known, measured, state')
    BY <1>3, <1>4, <1>5, <2>3, PlainIs
  <2>5. QED
    BY <1>2, <2>2, <2>4
<1>9. QED
  BY <1>6, <1>7, <1>8

LEMMA KeptByFlush ==
  ASSUME SeInv, Flush
  PROVE  SeInv'
<1>1. SUFFICES ASSUME Clean
               PROVE  Listed(wire') /\ Listed(list') /\ Settled(saved, wire' \o list', replies, known, measured, state)
  BY DEF SeInv, Clean, Flush, client, slot
<1>2. Listed(wire) /\ Listed(list) /\ Settled(saved, wire \o list, replies, known, measured, state)
  BY <1>1 DEF SeInv
<1>3. wire' = wire \o list /\ list' = <<>>
  BY DEF Flush
<1>4. Listed(wire \o list) /\ (wire \o list) \o <<>> = wire \o list
  <2>1. Listed(wire \o list)
    BY <1>2, ListedJoin
  <2>2. PICK ms : ms = wire \o list
    OBVIOUS
  <2>3. ms \o <<>> = ms
    BY <2>1, <2>2, ListedIs
  <2>4. QED
    BY <2>1, <2>2, <2>3
<1>5. QED
  BY <1>2, <1>3, <1>4, NothingSaid

LEMMA KeptByConnect ==
  ASSUME SeInv, Connect
  PROVE  SeInv'
<1> DEFINE r == [op |-> "new"]
<1>1. SUFFICES ASSUME Clean
               PROVE  Listed(<<r>>) /\ Settled(saved, <<>>, <<r>>, 0, FALSE, "connected")
  <2>1. wire \o list = <<>> /\ wire' = wire /\ list' = list /\ replies' = <<r>> /\ known' = 0 /\ measured' = FALSE /\ state' = "connected"
        /\ UNCHANGED <<saved, fps, swap, lost>>
    BY NothingSaid DEF Connect, Op
  <2> HIDE DEF r
  <2>2. wire' \o list' = <<>>
    BY <2>1
  <2>3. QED
    BY <1>1, <2>1, <2>2 DEF SeInv, Clean
<1>2. wire \o list = <<>>
  BY NothingSaid DEF Connect
<1>3. PICK h : Passes(h, saved, <<>>)
  BY <1>1, <1>2 DEF SeInv, Settled
<1>4. r.op # "fps" /\ r.op \notin Questions
  BY DEF Questions
<1> HIDE DEF r
<1>5. Listed(<<r>>) /\ Len(<<r>>) = 1 /\ <<r>>[1] = r
  BY ListedShort
<1>6. \A j \in 1 .. 1 : j = 1
  OBVIOUS
<1>7. Answers(<<r>>) /\ ~Asks(<<r>>) /\ ~Holds(<<r>>, "d1") /\ NoneBehind(<<r>>)
  BY <1>4, <1>5, <1>6 DEF Answers, Answer, Asks, Holds, NoneBehind, Questions
<1>8. Linked(0, FALSE, "connected", h, <<>>, <<r>>)
  BY <1>4, <1>5, <1>6, <1>7, NothingSaid, KeepsAre DEF Linked
<1>9. QED
  BY <1>3, <1>5, <1>7, <1>8 DEF Settled

LEMMA KeptByTalk ==
  ASSUME SeInv, Active \/ Precache \/ GiveUp \/ UNCHANGED seVars
  PROVE  SeInv'
<1>1. SUFFICES ASSUME Clean
               PROVE  Listed(replies') /\ Settled(saved, wire \o list, replies', known, measured, state)
  BY DEF SeInv, Clean, Active, Precache, GiveUp, seVars, client, slot
<1>2. Listed(replies) /\ Settled(saved, wire \o list, replies, known, measured, state)
  BY <1>1 DEF SeInv
<1>3. CASE replies' = replies
  BY <1>2, <1>3
<1>4. CASE \E r : r.op \notin Questions /\ r.op # "fps" /\ Say(r)
  <2>1. PICK r : r.op \notin Questions /\ r.op # "fps" /\ Say(r)
    BY <1>4
  <2>2. Listed(Append(replies, r)) /\ replies \o <<r>> = Append(replies, r)
        /\ Settled(saved, wire \o list, Append(replies, r), known, measured, state)
    BY <1>2, <2>1, SettledSaid
  <2>3. QED
    BY <2>1, <2>2 DEF Say
<1>5. CASE state = "none" /\ replies' = <<>>
  BY <1>2, <1>5, NothingSaid DEF Settled
<1>6. CASE Active
  <2>1. CASE Say([op |-> "info", rate |-> rate])
    <3>1. PICK r : r = [op |-> "info", rate |-> rate]
      OBVIOUS
    <3>2. r.op \notin Questions /\ r.op # "fps"
      BY <3>1 DEF Questions
    <3>3. Say(r)
      BY <2>1, <3>1, Zenon
    <3>4. QED
      BY <1>4, <3>2, <3>3
  <2>2. QED
    BY <1>3, <1>6, <2>1 DEF Active
<1>7. CASE Precache
  <2>1. ASSUME NEW r, r.op \in {"begin", "download"}, Say(r)
        PROVE  Listed(replies') /\ Settled(saved, wire \o list, replies', known, measured, state)
    BY <1>4, <2>1 DEF Questions
  <2>2. CASE Say([op |-> "begin", level |-> heard])
    <3>1. PICK r : r = [op |-> "begin", level |-> heard]
      OBVIOUS
    <3>2. r.op \in {"begin", "download"}
      BY <3>1
    <3>3. Say(r)
      BY <2>2, <3>1, Zenon
    <3>4. QED
      BY <2>1, <3>2, <3>3
  <2>3. CASE \E pak \in BOOLEAN : Say([op |-> "download", pak |-> pak])
    <3>1. PICK pak \in BOOLEAN : Say([op |-> "download", pak |-> pak])
      BY <2>3
    <3>2. PICK r : r = [op |-> "download", pak |-> pak]
      OBVIOUS
    <3>3. r.op \in {"begin", "download"}
      BY <3>2
    <3>4. Say(r)
      BY <3>1, <3>2, Zenon
    <3>5. QED
      BY <2>1, <3>3, <3>4
  <2>4. QED
    BY <1>7, <2>2, <2>3 DEF Precache
<1>8. CASE GiveUp
  BY <1>5, <1>8 DEF GiveUp
<1>9. CASE UNCHANGED seVars
  BY <1>3, <1>9 DEF seVars
<1>10. QED
  BY <1>6, <1>7, <1>8, <1>9

LEMMA SeInvAtFirst == SeInit => SeInv
<1>1. SUFFICES ASSUME SeInit PROVE SeInv
  OBVIOUS
<1> DEFINE h == [i \in 0 .. 0 |-> 0]
<1>2. h \in [0 .. 0 -> Keeps] /\ h[0] = 0
  BY KeepsAre
<1> HIDE DEF h
<1>3. Passes(h, 0, <<>>)
  BY <1>2, NothingSaid DEF Passes
<1>4. wire \o list = <<>> /\ Listed(<<>>) /\ wire = <<>> /\ list = <<>> /\ replies = <<>> /\ state = "none" /\ saved = 0
      /\ fps = Fps /\ swap = Swap
  BY <1>1, NothingSaid DEF SeInit
<1>5. Settled(saved, wire \o list, replies, known, measured, state)
  BY <1>3, <1>4, NothingSaid DEF Settled
<1>6. Sure(saved, fps, swap)
  BY <1>4, SeAssumption DEF Sure
<1>7. QED
  BY <1>4, <1>5, <1>6 DEF SeInv

(* The rate. What it will be when ms is read, if it is r now; and what of the messages, and of what the client said,
   comes before what. *)
Rates == {Rate, DownRate}
Ends(ms, r, e) ==
  \/ \E i \in 1 .. Len(ms) : ms[i].op = "rate" /\ ms[i].rate = e /\ \A j \in 1 .. Len(ms) : i < j => ms[j].op # "rate"
  \/ r = e /\ ~Holds(ms, "rate")
InfosOwn(rs) == \A j \in 1 .. Len(rs) : rs[j].op = "info" => rs[j].rate = Rate
LevelFirst(ms) == \A i \in 1 .. Len(ms) : ms[i].op = "rate" => \E j \in 1 .. Len(ms) : j < i /\ ms[j].op = "level"
Behind(ms) == \A i, j \in 1 .. Len(ms) : i < j /\ ms[i].op = "d1" => ms[j].op # "rate"
BehindAnswer(ms, rs) ==
  \A j \in 1 .. Len(rs) : rs[j].op = "d1" =>
    ~Holds(ms, "rate") /\ \A i \in 1 .. Len(rs) : j < i /\ rs[i].op = "info" => rs[i].rate = Rate
(* No other rate is spoken of. *)
RatesIn(ms, rs) ==
  /\ \A i \in 1 .. Len(ms) : ms[i].op = "rate" => ms[i].rate \in Rates
  /\ \A j \in 1 .. Len(rs) : rs[j].op = "info" => rs[j].rate \in Rates
(* It was raised, and the server, which did not hear of that and will not before it puts the rate back, knows the
   client's own. *)
Raised(ms, rs, r, sr, k, st, ph) ==
  /\ Ends(ms, r, DownRate) /\ k # 0 /\ st \notin {"none", "spawned"} /\ sr = Rate /\ InfosOwn(rs)
  /\ ph = "playing" => LevelFirst(ms)
Rated(ms, rs, r, sr, k, st, ph) ==
  /\ r \in Rates /\ sr \in Rates /\ RatesIn(ms, rs)
  /\ Ends(ms, r, Rate) \/ Raised(ms, rs, r, sr, k, st, ph)
  /\ st # "none" => Behind(ms) /\ BehindAnswer(ms, rs)
  /\ st = "spawning" /\ ph = "playing" => Holds(ms, "level")
RateInv == lost = {} => Rated(wire \o list, replies, rate, srvRate, known, state, phase)

LEMMA EndsMore ==
  ASSUME NEW ms, Listed(ms), NEW m, NEW r, NEW e
  PROVE  /\ m.op # "rate" /\ Ends(ms, r, e) => Ends(Append(ms, m), r, e)
         /\ m.op = "rate" => Ends(Append(ms, m), r, m.rate)
         /\ m.op # "rate" /\ Behind(ms) => Behind(Append(ms, m))
         /\ ~Holds(ms, "d1") => Behind(Append(ms, m))
         /\ m.op # "rate" /\ LevelFirst(ms) => LevelFirst(Append(ms, m))
         /\ Holds(ms, "level") /\ ~Holds(ms, "rate") => LevelFirst(Append(ms, m))
<1> DEFINE n == Len(ms)
           t == Append(ms, m)
<1>1. n \in Nat /\ Len(t) = n + 1 /\ t[n + 1] = m /\ \A i \in 1 .. n : t[i] = ms[i]
  BY ListedIs, ListedMore
<1>2. (\A i \in 1 .. n + 1 : i \in 1 .. n \/ i = n + 1) /\ n + 1 \in 1 .. n + 1
      /\ (\A i \in 1 .. n : i \in 1 .. n + 1 /\ i < n + 1 /\ ~(n + 1 < i)) /\ ~(n + 1 < n + 1)
  BY <1>1
<1>3. Holds(t, "rate") => Holds(ms, "rate") \/ m.op = "rate"
  BY MoreHold
<1> HIDE DEF t
<1>4. ASSUME m.op # "rate", Ends(ms, r, e) PROVE Ends(t, r, e)
  <2>1. CASE \E i \in 1 .. n : ms[i].op = "rate" /\ ms[i].rate = e /\ \A j \in 1 .. n : i < j => ms[j].op # "rate"
    BY <1>1, <1>2, <1>4, <2>1 DEF Ends
  <2>2. CASE r = e /\ ~Holds(ms, "rate")
    BY <1>3, <1>4, <2>2 DEF Ends
  <2>3. QED
    BY <1>4, <2>1, <2>2 DEF Ends
<1>5. ASSUME m.op = "rate" PROVE Ends(t, r, m.rate)
  BY <1>1, <1>2, <1>5 DEF Ends
<1>6. ASSUME m.op # "rate", Behind(ms) PROVE Behind(t)
  BY <1>1, <1>2, <1>6 DEF Behind
<1>7. ASSUME ~Holds(ms, "d1") PROVE Behind(t)
  BY <1>1, <1>2, <1>7 DEF Behind, Holds
<1>8. ASSUME m.op # "rate", LevelFirst(ms) PROVE LevelFirst(t)
  BY <1>1, <1>2, <1>8 DEF LevelFirst
<1>9. ASSUME Holds(ms, "level"), ~Holds(ms, "rate") PROVE LevelFirst(t)
  BY <1>1, <1>2, <1>9 DEF LevelFirst, Holds
<1>10. QED
  BY <1>4, <1>5, <1>6, <1>7, <1>8, <1>9 DEF t

LEMMA EndsRest ==
  ASSUME NEW ms, Listed(ms), ms # <<>>, NEW r, NEW e
  PROVE  /\ Ends(ms, r, e) => Ends(Tail(ms), IF ms[1].op = "rate" THEN ms[1].rate ELSE r, e)
         /\ Behind(ms) => Behind(Tail(ms)) /\ (ms[1].op = "d1" => ~Holds(Tail(ms), "rate"))
         /\ LevelFirst(ms) => ms[1].op # "rate" /\ (ms[1].op # "level" => LevelFirst(Tail(ms)))
<1> DEFINE n == Len(ms)
           t == Tail(ms)
<1>1. n \in Nat /\ n > 0 /\ Len(t) = n - 1 /\ \A i \in 1 .. n - 1 : t[i] = ms[i + 1]
  BY ListedIs, ListedRest
<1>2. /\ 1 \in 1 .. n /\ (\A i \in 1 .. n - 1 : i + 1 \in 1 .. n /\ 1 < i + 1)
      /\ (\A i \in 1 .. n : i = 1 \/ (i - 1 \in 1 .. n - 1 /\ (i - 1) + 1 = i)) /\ ~\E j \in 1 .. n : j < 1
      /\ \A i, j \in 1 .. n - 1 : i < j <=> i + 1 < j + 1
  BY <1>1
<1>3. \A i \in 1 .. n : i = 1 \/ (i - 1 \in 1 .. n - 1 /\ t[i - 1] = ms[i])
  BY <1>1, <1>2
<1> HIDE DEF t
<1>4. ASSUME Ends(ms, r, e) PROVE Ends(t, IF ms[1].op = "rate" THEN ms[1].rate ELSE r, e)
  <2>1. ASSUME NEW i \in 1 .. n, ms[i].op = "rate", ms[i].rate = e, \A j \in 1 .. n : i < j => ms[j].op # "rate"
        PROVE  Ends(t, IF ms[1].op = "rate" THEN ms[1].rate ELSE r, e)
    <3>1. CASE i = 1
      <4>1. \A j \in 1 .. n - 1 : t[j].op # "rate"
        BY <1>1, <1>2, <2>1, <3>1
      <4>2. ~Holds(t, "rate")
        BY <1>1, <4>1 DEF Holds
      <4>3. QED
        BY <2>1, <3>1, <4>2 DEF Ends
    <3>2. CASE i # 1
      <4>1. i - 1 \in 1 .. n - 1 /\ t[i - 1].op = "rate" /\ t[i - 1].rate = e /\ (i - 1) + 1 = i
        BY <1>2, <1>3, <2>1, <3>2
      <4>2. \A j \in 1 .. n - 1 : i - 1 < j => t[j].op # "rate"
        BY <1>1, <1>2, <2>1, <4>1
      <4>3. QED
        BY <1>1, <4>1, <4>2 DEF Ends
    <3>3. QED
      BY <3>1, <3>2
  <2>2. CASE r = e /\ ~Holds(ms, "rate")
    <3>1. ms[1].op # "rate" /\ ~Holds(t, "rate")
      BY <1>1, <1>2, <2>2 DEF Holds
    <3>2. QED
      BY <2>2, <3>1 DEF Ends
  <2>3. QED
    BY <1>4, <2>1, <2>2 DEF Ends
<1>5. ASSUME Behind(ms) PROVE Behind(t) /\ (ms[1].op = "d1" => ~Holds(t, "rate"))
  BY <1>1, <1>2, <1>5 DEF Behind, Holds
<1>6. ASSUME LevelFirst(ms) PROVE ms[1].op # "rate" /\ (ms[1].op # "level" => LevelFirst(t))
  <2>1. ms[1].op # "rate"
    BY <1>2, <1>6 DEF LevelFirst
  <2>2. ASSUME ms[1].op # "level", NEW i \in 1 .. n - 1, t[i].op = "rate" PROVE \E j \in 1 .. n - 1 : j < i /\ t[j].op = "level"
    <3>1. PICK j \in 1 .. n : j < i + 1 /\ ms[j].op = "level"
      BY <1>1, <1>2, <1>6, <2>2 DEF LevelFirst
    <3>2. j - 1 \in 1 .. n - 1 /\ t[j - 1].op = "level" /\ (j - 1) + 1 = j
      BY <1>2, <1>3, <2>2, <3>1
    <3>3. j - 1 < i
      BY <1>2, <3>1, <3>2
    <3>4. QED
      BY <3>2, <3>3
  <2>3. QED
    BY <1>1, <2>1, <2>2 DEF LevelFirst
<1>7. QED
  BY <1>4, <1>5, <1>6 DEF t

(* What the server sends besides, and how it goes on with the client. *)
LEMMA RatedMore ==
  ASSUME NEW ms, NEW rs, NEW r, NEW sr, NEW k, NEW st, NEW ph, Listed(ms), Rated(ms, rs, r, sr, k, st, ph),
         NEW m, m.op # "rate"
  PROVE  Rated(Append(ms, m), rs, r, sr, k, st, ph)
<1> DEFINE n == Len(ms)
           t == Append(ms, m)
<1>1. n \in Nat /\ Len(t) = n + 1 /\ t[n + 1] = m /\ \A i \in 1 .. n : t[i] = ms[i]
  BY ListedIs, ListedMore
<1>2. \A i \in 1 .. n + 1 : i \in 1 .. n \/ i = n + 1
  BY <1>1
<1>3. (Holds(t, "rate") => Holds(ms, "rate")) /\ (Holds(ms, "level") => Holds(t, "level"))
  BY MoreHold
<1>4. /\ Ends(ms, r, Rate) => Ends(t, r, Rate)
      /\ Ends(ms, r, DownRate) => Ends(t, r, DownRate)
      /\ Behind(ms) => Behind(t)
      /\ LevelFirst(ms) => LevelFirst(t)
  BY EndsMore
<1> HIDE DEF t
<1>5. RatesIn(ms, rs) => RatesIn(t, rs)
  BY <1>1, <1>2 DEF RatesIn
<1>6. BehindAnswer(ms, rs) => BehindAnswer(t, rs)
  BY <1>3 DEF BehindAnswer
<1>7. Raised(ms, rs, r, sr, k, st, ph) => Raised(t, rs, r, sr, k, st, ph)
  BY <1>4 DEF Raised
<1>8. Rated(t, rs, r, sr, k, st, ph)
  BY <1>3, <1>4, <1>5, <1>6, <1>7 DEF Rated
<1>9. QED
  BY <1>8 DEF t

LEMMA RatedState ==
  ASSUME NEW ms, NEW rs, NEW r, NEW sr, NEW k, NEW st, NEW ph, Rated(ms, rs, r, sr, k, st, ph),
         NEW k2, NEW st2, st = "none" => st2 = "none", st2 \in {"none", "spawned"} \/ k2 = 0 => Ends(ms, r, Rate),
         st2 = "spawning" /\ ph = "playing" => Holds(ms, "level")
  PROVE  Rated(ms, rs, r, sr, k2, st2, ph)
<1>1. Raised(ms, rs, r, sr, k, st, ph) => Ends(ms, r, Rate) \/ Raised(ms, rs, r, sr, k2, st2, ph)
  BY DEF Raised
<1>2. QED
  BY <1>1 DEF Rated

(* A rate is sent, and it is the client's own, or the server may raise it. *)
LEMMA RatedRate ==
  ASSUME NEW ms, NEW rs, NEW r, NEW sr, NEW k, NEW st, NEW ph, Listed(ms), Rated(ms, rs, r, sr, k, st, ph),
         NEW k2, NEW st2, st2 # "none" => ~Holds(ms, "d1") /\ ~Holds(rs, "d1"),
         st2 = "spawning" /\ ph = "playing" => Holds(ms, "level"),
         NEW e \in Rates, NEW m, m = [op |-> "rate", rate |-> e],
         e = Rate \/ /\ k2 # 0 /\ st2 \notin {"none", "spawned"} /\ sr = Rate /\ InfosOwn(rs)
                     /\ ph = "playing" => Holds(ms, "level") /\ ~Holds(ms, "rate")
  PROVE  Rated(Append(ms, m), rs, r, sr, k2, st2, ph)
<1> DEFINE n == Len(ms)
           t == Append(ms, m)
<1>0. m.op = "rate" /\ m.rate = e
  OBVIOUS
<1>1. n \in Nat /\ Len(t) = n + 1 /\ t[n + 1] = m /\ \A i \in 1 .. n : t[i] = ms[i]
  BY ListedIs, ListedMore
<1>2. \A i \in 1 .. n + 1 : i \in 1 .. n \/ i = n + 1
  BY <1>1
<1>3. Holds(ms, "level") => Holds(t, "level")
  BY MoreHold
<1>4. /\ Ends(t, r, e)
      /\ ~Holds(ms, "d1") => Behind(t)
      /\ Holds(ms, "level") /\ ~Holds(ms, "rate") => LevelFirst(t)
  BY <1>0, EndsMore
<1> HIDE DEF t
<1>5. RatesIn(t, rs)
  BY <1>0, <1>1, <1>2 DEF RatesIn, Rated
<1>6. ~Holds(rs, "d1") => BehindAnswer(t, rs)
  BY DEF BehindAnswer, Holds
<1>7. Ends(t, r, Rate) \/ Raised(t, rs, r, sr, k2, st2, ph)
  BY <1>4 DEF Raised, Rates
<1>8. Rated(t, rs, r, sr, k2, st2, ph)
  BY <1>3, <1>4, <1>5, <1>6, <1>7 DEF Rated
<1>9. QED
  BY <1>8 DEF t

(* The server hears the next of what the client said. *)
LEMMA RatedHeard ==
  ASSUME NEW ms, NEW rs, NEW r, NEW sr, NEW k, NEW st, NEW ph, Listed(rs), rs # <<>>, Rated(ms, rs, r, sr, k, st, ph),
         NEW sr2, sr2 = (IF rs[1].op = "info" THEN rs[1].rate ELSE sr) \/ (st = "none" /\ sr2 = sr)
  PROVE  /\ Rated(ms, Tail(rs), r, sr2, k, st, ph)
         /\ rs[1].op = "d1" /\ st # "none" => ~Holds(ms, "rate") /\ InfosOwn(Tail(rs))
<1> DEFINE n == Len(rs)
           t == Tail(rs)
<1>1. n \in Nat /\ n > 0 /\ Len(t) = n - 1 /\ \A i \in 1 .. n - 1 : t[i] = rs[i + 1]
  BY ListedIs, ListedRest
<1>2. /\ 1 \in 1 .. n /\ (\A i \in 1 .. n - 1 : i + 1 \in 1 .. n /\ 1 < i + 1)
      /\ \A i, j \in 1 .. n - 1 : i < j => i + 1 < j + 1
  BY <1>1
<1> HIDE DEF t
<1>3. RatesIn(ms, t) /\ sr2 \in Rates
  BY <1>1, <1>2 DEF RatesIn, Rated
<1>4. InfosOwn(rs) => InfosOwn(t) /\ (rs[1].op = "info" => rs[1].rate = Rate)
  BY <1>1, <1>2 DEF InfosOwn
<1>5. BehindAnswer(ms, rs) => BehindAnswer(ms, t) /\ (rs[1].op = "d1" => ~Holds(ms, "rate") /\ InfosOwn(t))
  <2>1. ASSUME BehindAnswer(ms, rs), NEW j \in 1 .. n - 1, t[j].op = "d1"
        PROVE  ~Holds(ms, "rate") /\ \A i \in 1 .. n - 1 : j < i /\ t[i].op = "info" => t[i].rate = Rate
    <3>1. j + 1 \in 1 .. n /\ rs[j + 1].op = "d1"
      BY <1>1, <1>2, <2>1
    <3>2. ~Holds(ms, "rate") /\ \A i \in 1 .. n : j + 1 < i /\ rs[i].op = "info" => rs[i].rate = Rate
      BY <2>1, <3>1 DEF BehindAnswer
    <3>3. QED
      BY <1>1, <1>2, <3>2
  <2>2. BehindAnswer(ms, rs) => BehindAnswer(ms, t)
    BY <1>1, <2>1 DEF BehindAnswer
  <2>3. ASSUME BehindAnswer(ms, rs), rs[1].op = "d1" PROVE ~Holds(ms, "rate") /\ InfosOwn(t)
    <3>1. ~Holds(ms, "rate") /\ \A i \in 1 .. n : 1 < i /\ rs[i].op = "info" => rs[i].rate = Rate
      BY <1>2, <2>3 DEF BehindAnswer
    <3>2. QED
      BY <1>1, <1>2, <3>1 DEF InfosOwn
  <2>4. QED
    BY <2>2, <2>3
<1>6. Raised(ms, rs, r, sr, k, st, ph) => Raised(ms, t, r, sr2, k, st, ph)
  BY <1>4 DEF Raised
<1>7. Rated(ms, t, r, sr2, k, st, ph)
  BY <1>3, <1>5, <1>6 DEF Rated
<1>8. rs[1].op = "d1" /\ st # "none" => ~Holds(ms, "rate") /\ InfosOwn(t)
  BY <1>5 DEF Rated
<1>9. QED
  BY <1>7, <1>8 DEF t

(* The client says something; reads the next message; falls silent; goes on to another phase. *)
LEMMA RatedSaid ==
  ASSUME NEW ms, NEW rs, NEW r, NEW sr, NEW k, NEW st, NEW ph, Listed(rs), Rated(ms, rs, r, sr, k, st, ph), NEW x,
         x.op = "info" => x.rate \in Rates /\ Ends(ms, r, Rate) /\ (st # "none" /\ Holds(rs, "d1") => x.rate = Rate),
         x.op = "d1" /\ st # "none" => ~Holds(ms, "rate")
  PROVE  Rated(ms, Append(rs, x), r, sr, k, st, ph)
<1> DEFINE n == Len(rs)
           t == Append(rs, x)
<1>1. n \in Nat /\ Len(t) = n + 1 /\ t[n + 1] = x /\ \A i \in 1 .. n : t[i] = rs[i]
  BY ListedIs, ListedMore
<1>2. (\A i \in 1 .. n + 1 : i \in 1 .. n \/ i = n + 1) /\ ~\E i \in 1 .. n + 1 : n + 1 < i
  BY <1>1
<1> HIDE DEF t
<1>3. RatesIn(ms, t)
  BY <1>1, <1>2 DEF RatesIn, Rated
<1>4. InfosOwn(rs) /\ x.op # "info" => InfosOwn(t)
  BY <1>1, <1>2 DEF InfosOwn
<1>5. ASSUME st # "none", BehindAnswer(ms, rs) PROVE BehindAnswer(ms, t)
  <2>1. ASSUME NEW j \in 1 .. n + 1, t[j].op = "d1"
        PROVE  ~Holds(ms, "rate") /\ \A i \in 1 .. n + 1 : j < i /\ t[i].op = "info" => t[i].rate = Rate
    <3>1. CASE j = n + 1
      BY <1>1, <1>2, <1>5, <2>1, <3>1
    <3>2. CASE j \in 1 .. n
      <4>1. rs[j].op = "d1" /\ Holds(rs, "d1")
        BY <1>1, <2>1, <3>2 DEF Holds
      <4>2. ~Holds(ms, "rate") /\ \A i \in 1 .. n : j < i /\ rs[i].op = "info" => rs[i].rate = Rate
        BY <1>5, <3>2, <4>1 DEF BehindAnswer
      <4>3. x.op = "info" => x.rate = Rate
        BY <1>5, <4>1
      <4>4. QED
        BY <1>1, <1>2, <4>2, <4>3
    <3>3. QED
      BY <1>2, <3>1, <3>2
  <2>2. QED
    BY <1>1, <2>1 DEF BehindAnswer
<1>6. Raised(ms, rs, r, sr, k, st, ph) => Ends(ms, r, Rate) \/ Raised(ms, t, r, sr, k, st, ph)
  BY <1>4 DEF Raised
<1>7. Rated(ms, t, r, sr, k, st, ph)
  BY <1>3, <1>5, <1>6 DEF Rated
<1>8. QED
  BY <1>7 DEF t

LEMMA RatedRead ==
  ASSUME NEW ms, NEW rs, NEW r, NEW sr, NEW k, NEW st, NEW ph, Listed(ms), ms # <<>>, Rated(ms, rs, r, sr, k, st, ph),
         NEW r2, NEW ph2, r2 = (IF ms[1].op = "rate" THEN ms[1].rate ELSE r),
         ph2 = "playing" => ph = "playing" /\ ms[1].op # "level"
  PROVE  /\ Rated(Tail(ms), rs, r2, sr, k, st, ph2)
         /\ ms[1].op = "d1" /\ st # "none" => ~Holds(Tail(ms), "rate")
         /\ ms[1].op = "rate" /\ ph = "playing" => Ends(ms, r, Rate)
         /\ ms[1].op = "rate" /\ st # "none" => ~Holds(rs, "d1")
<1> DEFINE n == Len(ms)
           t == Tail(ms)
<1>1. n \in Nat /\ n > 0 /\ Len(t) = n - 1 /\ \A i \in 1 .. n - 1 : t[i] = ms[i + 1]
  BY ListedIs, ListedRest
<1>2. 1 \in 1 .. n /\ \A i \in 1 .. n - 1 : i + 1 \in 1 .. n
  BY <1>1
<1>3. /\ Ends(ms, r, Rate) => Ends(t, r2, Rate)
      /\ Ends(ms, r, DownRate) => Ends(t, r2, DownRate)
      /\ Behind(ms) => Behind(t) /\ (ms[1].op = "d1" => ~Holds(t, "rate"))
      /\ LevelFirst(ms) => ms[1].op # "rate" /\ (ms[1].op # "level" => LevelFirst(t))
  BY EndsRest
<1>4. (Holds(t, "rate") => Holds(ms, "rate")) /\ (Holds(ms, "level") /\ ms[1].op # "level" => Holds(t, "level"))
      /\ (ms[1].op = "rate" => Holds(ms, "rate"))
  BY RestHolds
<1> HIDE DEF t
<1>5. RatesIn(t, rs) /\ r2 \in Rates
  BY <1>1, <1>2 DEF RatesIn, Rated
<1>6. BehindAnswer(ms, rs) => BehindAnswer(t, rs) /\ (Holds(ms, "rate") => ~Holds(rs, "d1"))
  BY <1>4 DEF BehindAnswer, Holds
<1>7. Raised(ms, rs, r, sr, k, st, ph) => Raised(t, rs, r2, sr, k, st, ph2) /\ ~(ms[1].op = "rate" /\ ph = "playing")
  BY <1>3 DEF Raised
<1>8. Rated(t, rs, r2, sr, k, st, ph2)
  BY <1>3, <1>4, <1>5, <1>6, <1>7 DEF Rated
<1>9. /\ ms[1].op = "d1" /\ st # "none" => ~Holds(t, "rate")
      /\ ms[1].op = "rate" /\ ph = "playing" => Ends(ms, r, Rate)
      /\ ms[1].op = "rate" /\ st # "none" => ~Holds(rs, "d1")
  BY <1>3, <1>4, <1>6, <1>7 DEF Rated
<1>10. QED
  BY <1>8, <1>9 DEF t

LEMMA RatedSilent ==
  ASSUME NEW ms, NEW rs, NEW r, NEW sr, NEW k, NEW st, NEW ph, Rated(ms, rs, r, sr, k, st, ph)
  PROVE  Rated(ms, <<>>, r, sr, k, st, ph)
<1>1. RatesIn(ms, rs) => RatesIn(ms, <<>>)
  BY NothingSaid DEF RatesIn
<1>2. InfosOwn(<<>>) /\ BehindAnswer(ms, <<>>)
  BY NothingSaid DEF InfosOwn, BehindAnswer
<1>3. Raised(ms, rs, r, sr, k, st, ph) => Raised(ms, <<>>, r, sr, k, st, ph)
  BY <1>2 DEF Raised
<1>4. QED
  BY <1>1, <1>2, <1>3 DEF Rated

LEMMA RatedPhase ==
  ASSUME NEW ms, NEW rs, NEW r, NEW sr, NEW k, NEW st, NEW ph, Rated(ms, rs, r, sr, k, st, ph),
         NEW ph2, ph2 = "playing" => ph = "playing" \/ st = "spawned"
  PROVE  Rated(ms, rs, r, sr, k, st, ph2)
<1>1. Raised(ms, rs, r, sr, k, st, ph) => Raised(ms, rs, r, sr, k, st, ph2)
  BY DEF Raised
<1>2. QED
  BY <1>1 DEF Rated

(* The list of a client that plays is cleared, without a rate in it. *)
LEMMA RatedCut ==
  ASSUME NEW v, NEW w, NEW rs, NEW r, NEW sr, NEW k, NEW ph, Listed(v), Listed(w), ~Holds(w, "rate"),
         Rated(v \o w, rs, r, sr, k, "spawned", ph)
  PROVE  Rated(v, rs, r, sr, k, "connected", ph)
<1> DEFINE ms == v \o w
           n == Len(v)
           N == Len(ms)
<1>1. /\ n \in Nat /\ N \in Nat /\ N = n + Len(w) /\ Len(w) \in Nat /\ (\A i \in 1 .. n : ms[i] = v[i])
      /\ \A i \in 1 .. Len(w) : ms[n + i] = w[i]
  BY ListedIs, ListedJoin
<1> HIDE DEF ms
<1>2. (\A i \in 1 .. n : i \in 1 .. N) /\ \A i \in 1 .. N : i \in 1 .. n \/ (i - n \in 1 .. Len(w) /\ n + (i - n) = i)
  BY <1>1
<1>3. \A i \in 1 .. N : ms[i].op = "rate" => i \in 1 .. n
  BY <1>1, <1>2 DEF Holds
<1>4. (Holds(ms, "rate") <=> Holds(v, "rate")) /\ RatesIn(v, rs)
  BY <1>1, <1>2, <1>3 DEF Holds, RatesIn, Rated, ms
<1>5. Rated(ms, rs, r, sr, k, "spawned", ph)
  BY DEF ms
<1>6. Ends(ms, r, Rate) /\ Behind(ms) /\ BehindAnswer(ms, rs)
  BY <1>5 DEF Rated, Raised
<1>7. Ends(v, r, Rate)
  <2>1. ASSUME NEW i \in 1 .. N, ms[i].op = "rate", ms[i].rate = Rate, \A j \in 1 .. N : i < j => ms[j].op # "rate"
        PROVE  Ends(v, r, Rate)
    <3>1. i \in 1 .. n /\ v[i].op = "rate" /\ v[i].rate = Rate
      BY <1>1, <1>3, <2>1
    <3>2. \A j \in 1 .. n : i < j => v[j].op # "rate"
      BY <1>1, <1>2, <2>1
    <3>3. QED
      BY <3>1, <3>2 DEF Ends
  <2>2. QED
    BY <1>4, <1>6, <2>1 DEF Ends
<1>8. Behind(v) /\ BehindAnswer(v, rs)
  BY <1>1, <1>2, <1>4, <1>6 DEF Behind, BehindAnswer
<1>9. QED
  BY <1>4, <1>5, <1>7, <1>8 DEF Rated

(* The same steps of the server: SV_New_f, ClientLoadNewPAK, SV_ClientBegin, SV_BeginDownload_f, SV_CvarResult_f. *)
Speaks(rs) ==
  /\ Listed(wire) /\ Listed(list) /\ Listed(rs) /\ state # "none"
  /\ Rated(wire \o list, rs, rate, srvRate, known, state, phase)

LEMMA SpeaksMore ==
  ASSUME NEW rs, Speaks(rs), NEW m, m.op # "rate"
  PROVE  /\ list \o <<m>> = Append(list, m) /\ wire \o Append(list, m) = Append(wire \o list, m)
         /\ Listed(wire \o list) /\ Listed(Append(wire \o list, m))
         /\ Rated(Append(wire \o list, m), rs, rate, srvRate, known, state, phase)
<1> DEFINE ms == wire \o list
<1>1. list \o <<m>> = Append(list, m) /\ wire \o Append(list, m) = Append(ms, m) /\ Listed(ms)
  BY ListedGrow, ListedMore, ListedJoin DEF Speaks
<1>2. Rated(ms, rs, rate, srvRate, known, state, phase)
  BY DEF Speaks
<1> HIDE DEF ms
<1>3. Listed(Append(ms, m)) /\ Rated(Append(ms, m), rs, rate, srvRate, known, state, phase)
  BY <1>1, <1>2, ListedMore, RatedMore
<1>4. QED
  BY <1>1, <1>3 DEF ms

LEMMA NewRated ==
  ASSUME NEW rs, Speaks(rs), NEW now, now \in {"connected", state}, New(now), state' # "none"
  PROVE  Rated(wire \o list', rs, rate, srvRate, known, state', phase)
<1>1. CASE now = "connected"
  <2> DEFINE m == [op |-> "level", level |-> level]
  <2>1. state' = "spawning" /\ list' = list \o <<m>> /\ m.op # "rate" /\ m.op = "level"
    BY <1>1 DEF New
  <2> HIDE DEF m
  <2> DEFINE ms == wire \o list'
  <2>2. Rated(ms, rs, rate, srvRate, known, state, phase) /\ ms = Append(wire \o list, m) /\ Listed(wire \o list)
    BY <2>1, SpeaksMore
  <2>3. Holds(ms, "level")
    <3> DEFINE old == wire \o list
    <3>1. ms = Append(old, m) /\ Listed(old)
      BY <2>2
    <3> HIDE DEF old, ms
    <3>2. QED
      BY <2>1, <3>1, MoreHold
  <2> HIDE DEF ms
  <2>4. known = 0 => Ends(ms, rate, Rate)
    BY <2>2 DEF Rated, Raised
  <2>5. Rated(ms, rs, rate, srvRate, known, "spawning", phase)
    <3>1. state = "none" => "spawning" = "none"
      BY DEF Speaks
    <3>2. QED
      BY <2>2, <2>3, <2>4, <3>1, RatedState
  <2>6. QED
    BY <2>1, <2>5 DEF ms
<1>2. CASE now # "connected"
  <2>1. state' = state /\ list' = list
    BY <1>2 DEF New
  <2>2. QED
    BY <2>1 DEF Speaks
<1>3. QED
  BY <1>1, <1>2

LEMMA RateIsEither ==
  ASSUME NEW rs, Speaks(rs)
  PROVE  /\ srvRate < DownRate => srvRate = Rate
         /\ ~(srvRate < DownRate) => srvRate # Rate /\ Ends(wire \o list, rate, Rate)
<1>1. srvRate \in {Rate, DownRate} /\ (srvRate # Rate => Ends(wire \o list, rate, Rate))
  BY DEF Speaks, Rated, Raised, Rates
<1>2. Rate \in Nat /\ DownRate \in Nat /\ Rate < DownRate
  BY SeAssumption
<1>3. QED
  BY <1>1, <1>2

LEMMA LoadNewPAKRated ==
  ASSUME NEW rs, Speaks(rs), LoadNewPAK, NEW k
  PROVE  Rated(wire \o list', rs, rate, srvRate, k, state', phase)
<1> DEFINE a == [op |-> "rate", rate |-> srvRate]
           b == [op |-> "again"]
           ms == wire \o list
<1>1. /\ state' = "none" /\ b.op # "rate"
      /\ list' = IF srvRate < DownRate THEN (list \o <<a>>) \o <<b>> ELSE (list \o <<>>) \o <<b>>
  BY DEF LoadNewPAK, SetRate, Op
<1>2. Listed(wire) /\ Listed(list) /\ Listed(ms) /\ Rated(ms, rs, rate, srvRate, known, state, phase)
  BY ListedJoin DEF Speaks
<1>3. CASE ~(srvRate < DownRate)
  <2> HIDE DEF b
  <2>1. list' = Append(list, b)
    BY <1>1, <1>2, <1>3, ListedTwo
  <2>2. wire \o list' = Append(ms, b)
    BY <1>2, <2>1, ListedGrow
  <2>3. Ends(ms, rate, Rate)
    BY <1>3, RateIsEither
  <2> HIDE DEF ms
  <2>4. Rated(ms, rs, rate, srvRate, k, "none", phase)
    BY <1>2, <2>3, RatedState
  <2>5. Rated(Append(ms, b), rs, rate, srvRate, k, "none", phase)
    BY <1>1, <1>2, <2>4, RatedMore
  <2>6. QED
    BY <1>1, <2>2, <2>5
<1>4. CASE srvRate < DownRate
  <2>1. srvRate = Rate /\ srvRate \in Rates
    BY <1>4, RateIsEither DEF Rates
  <2>2. PICK x : x = Append(ms, a)
    OBVIOUS
  <2>3. Listed(x) /\ Rated(x, rs, rate, srvRate, k, "none", phase)
    <3> HIDE DEF ms
    <3>1. Listed(Append(ms, a))
      BY <1>2, ListedMore
    <3>2. Rated(Append(ms, a), rs, rate, srvRate, k, "none", phase)
      BY <1>2, <2>1, RatedRate
    <3>3. QED
      BY <2>2, <3>1, <3>2, Zenon
  <2> HIDE DEF a, b
  <2>4. Rated(Append(x, b), rs, rate, srvRate, k, "none", phase)
    BY <1>1, <2>3, RatedMore
  <2>5. wire \o list' = Append(Append(ms, a), b)
    <3>1. list' = Append(Append(list, a), b)
      <4>1. (list \o <<a>>) \o <<b>> = Append(Append(list, a), b)
        BY <1>2, ListedTwo
      <4>2. QED
        BY <1>1, <1>4, <4>1
    <3>2. QED
      BY <1>2, <3>1, ListedGrowTwice
  <2>6. QED
    BY <1>1, <2>2, <2>4, <2>5, Zenon
<1>5. QED
  BY <1>3, <1>4

LEMMA BeginRated ==
  ASSUME NEW rs, Speaks(rs), NEW l, Begin(l), state = "spawning", known \in Keeps,
         known # 0 => ~Holds(wire \o list, "d1") /\ ~Holds(rs, "d1")
  PROVE  Rated(wire \o list', rs, rate, srvRate, known', state', phase)
<1> DEFINE ms == wire \o list
<1>1. Listed(wire) /\ Listed(list) /\ Listed(ms) /\ Rated(ms, rs, rate, srvRate, known, "spawning", phase)
  BY ListedJoin DEF Speaks
<1>2. CASE downloadpak /\ ~dl
  <2>1. LoadNewPAK
    BY <1>2 DEF Begin
  <2>2. QED
    BY <2>1, LoadNewPAKRated
<1>3. CASE ~(downloadpak /\ ~dl) /\ l # level
  <2>1. New("connected") /\ known' = known
    BY <1>3 DEF Begin
  <2>2. state' # "none"
    BY <2>1 DEF New
  <2>3. QED
    BY <2>1, <2>2, NewRated
<1>4. CASE ~(downloadpak /\ ~dl) /\ l = level
  <2>1. state' = "spawned" /\ list' = list \o Restore /\ known' = IF known \notin {0, -1} THEN 0 ELSE known
    BY <1>4 DEF Begin
  <2>2. known # -1
    BY KeepsAre, SeAssumption
  <2>3. CASE known # 0
    <3> DEFINE m == [op |-> "restore", fps |-> Abs(known), swap |-> known < 0]
               b == [op |-> "rate", rate |-> srvRate]
    <3>1. known' = 0 /\ list' = IF srvRate < DownRate THEN list \o (<<m>> \o <<b>>) ELSE list \o (<<m>> \o <<>>)
      BY <2>1, <2>2, <2>3 DEF Restore, SetRate
    <3>2. m.op # "rate" /\ m.op # "d1"
      OBVIOUS
    <3> HIDE DEF m
    <3>3. PICK x : x = Append(ms, m)
      OBVIOUS
    <3>4. Listed(x) /\ Rated(x, rs, rate, srvRate, known, "spawning", phase) /\ ~Holds(x, "d1")
      <4>1. ~Holds(ms, "d1")
        BY <2>3
      <4> HIDE DEF ms
      <4>2. Listed(Append(ms, m)) /\ Rated(Append(ms, m), rs, rate, srvRate, known, "spawning", phase)
        BY <1>1, <3>2, ListedMore, RatedMore
      <4>3. ~Holds(Append(ms, m), "d1")
        BY <1>1, <3>2, <4>1, MoreHold
      <4>4. QED
        BY <3>3, <4>2, <4>3, Zenon
    <3>5. CASE ~(srvRate < DownRate)
      <4>1. wire \o list' = Append(ms, m)
        <5>1. list \o (<<m>> \o <<>>) = Append(list, m)
          BY <1>1, ListedTwo
        <5>2. list' = Append(list, m)
          BY <3>1, <3>5, <5>1
        <5>3. QED
          BY <1>1, <5>2, ListedGrow
      <4>2. srvRate # Rate
        BY <3>5, RateIsEither
      <4>3. Ends(x, rate, Rate)
        BY <3>4, <4>2 DEF Rated, Raised
      <4>4. Rated(x, rs, rate, srvRate, 0, "spawned", phase)
        BY <3>4, <4>3, RatedState
      <4>5. QED
        BY <2>1, <3>1, <3>3, <4>1, <4>4, Zenon
    <3>6. CASE srvRate < DownRate
      <4>1. srvRate = Rate /\ srvRate \in Rates /\ ~Holds(rs, "d1")
        BY <2>3, <3>6, RateIsEither DEF Rates
      <4>2. Rated(Append(x, b), rs, rate, srvRate, 0, "spawned", phase)
        BY <3>4, <4>1, RatedRate
      <4> HIDE DEF b
      <4>3. wire \o list' = Append(Append(ms, m), b)
        <5>1. list \o (<<m>> \o <<b>>) = Append(Append(list, m), b)
          BY <1>1, ListedTwo
        <5>2. list' = Append(Append(list, m), b)
          BY <3>1, <3>6, <5>1
        <5>3. QED
          BY <1>1, <5>2, ListedGrowTwice
      <4>4. QED
        BY <2>1, <3>1, <3>3, <4>2, <4>3, Zenon
    <3>7. QED
      BY <3>5, <3>6
  <2>4. CASE known = 0
    <3> DEFINE m == [op |-> "d2"]
    <3>1. known' = 0 /\ (list' = list \o <<m>> \/ list' = list \o <<>>) /\ m.op # "rate"
      BY <2>1, <2>4 DEF Restore, Op
    <3> HIDE DEF m
    <3>2. Ends(ms, rate, Rate)
      BY <1>1, <2>4 DEF Rated, Raised
    <3>3. CASE list' = list \o <<>>
      <4>1. wire \o list' = ms
        BY <1>1, <3>3, ListedIs
      <4> HIDE DEF ms
      <4>2. Rated(ms, rs, rate, srvRate, 0, "spawned", phase)
        BY <1>1, <3>2, RatedState
      <4>3. QED
        BY <2>1, <3>1, <4>1, <4>2
    <3>4. CASE list' = list \o <<m>>
      <4>1. wire \o list' = Append(ms, m)
        BY <3>1, <3>4, SpeaksMore
      <4> HIDE DEF ms
      <4>2. Rated(ms, rs, rate, srvRate, 0, "spawned", phase)
        BY <1>1, <3>2, RatedState
      <4>3. Rated(Append(ms, m), rs, rate, srvRate, 0, "spawned", phase)
        BY <1>1, <3>1, <4>2, RatedMore
      <4>4. QED
        BY <2>1, <3>1, <4>1, <4>3
    <3>5. QED
      BY <3>1, <3>3, <3>4
  <2>5. QED
    BY <2>3, <2>4
<1>5. QED
  BY <1>2, <1>3, <1>4

LEMMA BeginDownloadRated ==
  ASSUME NEW rs, Speaks(rs), NEW pak, BeginDownload(pak), known' = known
  PROVE  Rated(wire \o list', rs, rate, srvRate, known', state', phase)
<1>1. CASE spawncount # level
  <2>1. New("connected")
    BY <1>1 DEF BeginDownload
  <2>2. state' # "none"
    BY <2>1 DEF New
  <2>3. QED
    BY <2>1, <2>2, NewRated
<1>2. CASE spawncount = level /\ state = "spawning" /\ (~pak /\ downloadpak /\ ~dl)
  <2>1. LoadNewPAK
    BY <1>2 DEF BeginDownload
  <2>2. QED
    BY <2>1, LoadNewPAKRated
<1>3. ASSUME NEW m, m.op # "rate", list' = list \o <<m>>, state' = state
      PROVE  Rated(wire \o list', rs, rate, srvRate, known', state', phase)
  BY <1>3, SpeaksMore
<1>4. CASE spawncount = level /\ state # "spawning"
  <2>1. PICK m : m = [op |-> "file"]
    OBVIOUS
  <2>2. m.op # "rate"
    BY <2>1
  <2>3. list' = list \o <<m>> /\ state' = state
    BY <1>4, <2>1, Zenon DEF BeginDownload, Op
  <2>4. QED
    BY <1>3, <2>2, <2>3
<1>5. CASE spawncount = level /\ state = "spawning" /\ ~(~pak /\ downloadpak /\ ~dl)
  <2>1. PICK asks \in BOOLEAN :
             /\ list' = IF known = 0 THEN list \o <<[op |-> "d1", asks |-> asks]>> ELSE list
             /\ state' = state
    BY <1>5 DEF BeginDownload
  <2>2. CASE list' = list
    BY <2>1, <2>2 DEF Speaks
  <2>3. CASE list' = list \o <<[op |-> "d1", asks |-> asks]>>
    <3>1. PICK m : m = [op |-> "d1", asks |-> asks]
      OBVIOUS
    <3>2. m.op # "rate"
      BY <3>1
    <3>3. list' = list \o <<m>>
      BY <2>3, <3>1, Zenon
    <3>4. QED
      BY <1>3, <2>1, <3>2, <3>3
  <2>4. QED
    BY <2>1, <2>2, <2>3
<1>6. QED
  BY <1>1, <1>2, <1>4, <1>5

LEMMA ResultD1Rated ==
  ASSUME NEW rs, Speaks(rs), NEW r, Answer(r), r.op = "d1", ResultD1(r.v, r.asked, r.on), state' = state,
         ~Holds(wire \o list, "rate"), ~Holds(wire \o list, "d1"), ~Holds(rs, "d1"), InfosOwn(rs)
  PROVE  Rated(wire \o list', rs, rate, srvRate, known', state', phase)
<1> DEFINE ms == wire \o list
<1>1. Listed(wire) /\ Listed(list) /\ Listed(ms) /\ Rated(ms, rs, rate, srvRate, known, state, phase)
  BY ListedJoin DEF Speaks
<1>2. CASE state # "spawning"
  <2>1. known' = known /\ list' = list
    BY <1>2 DEF ResultD1
  <2>2. QED
    BY <1>1, <2>1
<1>3. CASE state = "spawning"
  <2> DEFINE k == IF r.v > 0 /\ r.asked /\ r.on THEN -r.v ELSE r.v
             b == [op |-> "rate", rate |-> DownRate]
  <2>1. r.v # 0 /\ k # 0
    <3>1. r.v # 0 /\ r.v \in Int
      BY KeepsAre DEF Answer
    <3>2. QED
      BY <3>1
  <2>2. PICK f \in DownFps :
          /\ known' = k
          /\ list' = list \o <<[op |-> "borrow", saved |-> k, fps |-> f, off |-> k < 0 \/ r.asked]>>
                          \o (IF srvRate < DownRate THEN SetRate(DownRate) ELSE <<>>)
    BY <1>3, <2>1 DEF ResultD1
  <2> HIDE DEF k
  <2>3. PICK m : m = [op |-> "borrow", saved |-> k, fps |-> f, off |-> k < 0 \/ r.asked]
    OBVIOUS
  <2>4. list' = IF srvRate < DownRate THEN (list \o <<m>>) \o <<b>> ELSE (list \o <<m>>) \o <<>>
    BY <2>2, <2>3, Zenon DEF SetRate
  <2>5. m.op # "rate" /\ m.op # "d1"
    BY <2>3
  <2>6. PICK x : x = Append(ms, m)
    OBVIOUS
  <2>7. Listed(x) /\ Rated(x, rs, rate, srvRate, k, "spawning", phase) /\ ~Holds(x, "d1") /\ ~Holds(x, "rate")
        /\ (phase = "playing" => Holds(x, "level"))
    <3>1. ~Holds(ms, "d1") /\ ~Holds(ms, "rate") /\ (phase = "playing" => Holds(ms, "level"))
      BY <1>1, <1>3 DEF Rated
    <3> HIDE DEF ms
    <3>2. Listed(Append(ms, m)) /\ Rated(Append(ms, m), rs, rate, srvRate, known, state, phase)
      BY <1>1, <2>5, ListedMore, RatedMore
    <3>3. ~Holds(Append(ms, m), "d1") /\ ~Holds(Append(ms, m), "rate") /\ (phase = "playing" => Holds(Append(ms, m), "level"))
      BY <1>1, <2>5, <3>1, MoreHold
    <3>4. Listed(x) /\ Rated(x, rs, rate, srvRate, known, state, phase) /\ ~Holds(x, "d1") /\ ~Holds(x, "rate")
          /\ (phase = "playing" => Holds(x, "level"))
      BY <2>6, <3>2, <3>3, Zenon
    <3>5. Rated(x, rs, rate, srvRate, k, "spawning", phase)
      BY <1>3, <2>1, <3>4, RatedState
    <3>6. QED
      BY <3>4, <3>5
  <2>8. CASE ~(srvRate < DownRate)
    <3>1. wire \o list' = Append(ms, m)
      <4>1. (list \o <<m>>) \o <<>> = Append(list, m)
        BY <1>1, ListedTwo
      <4>2. list' = Append(list, m)
        BY <2>4, <2>8, <4>1
      <4>3. QED
        BY <1>1, <4>2, ListedGrow
    <3>2. QED
      BY <1>3, <2>2, <2>6, <2>7, <3>1, Zenon
  <2>9. CASE srvRate < DownRate
    <3>1. srvRate = Rate /\ DownRate \in Rates
      BY <2>9, RateIsEither DEF Rates
    <3>2. Rated(Append(x, b), rs, rate, srvRate, k, "spawning", phase)
      BY <2>1, <2>7, <3>1, RatedRate
    <3> HIDE DEF b
    <3>3. wire \o list' = Append(Append(ms, m), b)
      <4>1. (list \o <<m>>) \o <<b>> = Append(Append(list, m), b)
        BY <1>1, ListedTwo
      <4>2. list' = Append(Append(list, m), b)
        BY <2>4, <2>9, <4>1
      <4>3. QED
        BY <1>1, <4>2, ListedGrowTwice
    <3>4. QED
      BY <1>3, <2>2, <2>6, <3>2, <3>3, Zenon
  <2>10. QED
    BY <2>8, <2>9
<1>4. QED
  BY <1>2, <1>3

(* One lemma for each action. *)
LEMMA RateKeptByServerReceives ==
  ASSUME SeInv, RateInv, ServerReceives
  PROVE  RateInv'
<1>1. SUFFICES ASSUME lost' = {} PROVE Rated(wire \o list', Tail(replies), rate, srvRate', known', state', phase)
  BY DEF RateInv, ServerReceives, client
<1> DEFINE r == replies[1]
           rs == Tail(replies)
           ms == wire \o list
<1>2. lost = {} /\ replies # <<>> /\ state # "none"
  BY <1>1 DEF ServerReceives
<1>3. Clean
  BY <1>2 DEF Clean
<1>4. /\ Listed(wire) /\ Listed(list) /\ Listed(replies) /\ Settled(saved, ms, replies, known, measured, state)
      /\ Rated(ms, replies, rate, srvRate, known, state, phase)
  BY <1>2, <1>3 DEF SeInv, RateInv
<1>5. PICK h : Linked(known, measured, state, h, ms, replies)
  BY <1>2, <1>4 DEF Settled
<1>6. Listed(rs) /\ Answer(r) /\ Head(replies) = r
  BY <1>2, <1>4, AnswersRest DEF Settled
<1> HIDE DEF ms, r
<1>7. /\ Rated(ms, rs, rate, IF r.op = "info" THEN r.rate ELSE srvRate, known, state, phase)
      /\ r.op = "d1" => ~Holds(ms, "rate") /\ InfosOwn(rs)
  BY <1>2, <1>4, RatedHeard DEF r
<1>8. (known # 0 => ~Holds(ms, "d1") /\ ~Holds(rs, "d1")) /\ known \in Keeps
  <2>1. known # 0 => ~Asks(ms) /\ ~Asks(replies)
    BY <1>5 DEF Linked
  <2>2. \A s : ~Asks(s) => ~Holds(s, "d1")
    BY DEF Asks, Holds, Questions
  <2>3. ~Holds(replies, "d1") => ~Holds(rs, "d1")
    BY <1>2, <1>4, RestHolds
  <2>4. QED
    BY <1>5, <2>1, <2>2, <2>3 DEF Linked
<1>9. r.op = "d1" => ~Holds(ms, "d1") /\ ~Holds(rs, "d1")
  <2>1. Holds(replies, r.op) /\ (NoneBehind(replies) => (r.op = "d1" => ~Asks(rs)))
    BY <1>2, <1>4, RestHolds DEF r
  <2>2. \A s : ~Asks(s) => ~Holds(s, "d1")
    BY DEF Asks, Holds, Questions
  <2>3. QED
    BY <1>5, <2>1, <2>2 DEF Linked
<1> HIDE DEF rs
<1>10. r.op # "info" => Speaks(rs)
  BY <1>2, <1>4, <1>6, <1>7 DEF Speaks, ms
<1>11. SUFFICES Rated(wire \o list', rs, rate, srvRate', known', state', phase)
  BY DEF rs
<1>12. CASE r.op = "new" /\ New(state) /\ UNCHANGED <<known, srvRate>> /\ state' # "none"
  BY <1>10, <1>12, NewRated
<1>13. CASE r.op = "begin" /\ Begin(r.level) /\ state = "spawning" /\ UNCHANGED srvRate
  BY <1>8, <1>10, <1>13, BeginRated DEF ms
<1>14. CASE r.op = "download" /\ BeginDownload(r.pak) /\ UNCHANGED <<known, srvRate>>
  BY <1>10, <1>14, BeginDownloadRated
<1>15. CASE r.op = "d1" /\ ResultD1(r.v, r.asked, r.on) /\ UNCHANGED <<state, srvRate>>
  BY <1>6, <1>7, <1>9, <1>10, <1>15, ResultD1Rated DEF ms
<1>16. CASE r.op = "d2" /\ ResultD2(r.v) /\ UNCHANGED <<state, known, srvRate>>
  <2>1. PICK m : m = [op |-> "restore", fps |-> Abs(r.v), swap |-> r.v < 0]
    OBVIOUS
  <2>2. m.op # "rate"
    BY <2>1
  <2>3. list' = list \/ list' = list \o <<m>>
    BY <1>16, <2>1, Zenon DEF ResultD2
  <2>4. QED
    BY <1>10, <1>16, <2>2, <2>3, SpeaksMore DEF Speaks
<1>17. CASE r.op = "fps"
  BY <1>6, <1>17 DEF Answer
<1>18. CASE r.op = "info" /\ srvRate' = r.rate /\ UNCHANGED <<state, known, list>>
  BY <1>7, <1>18 DEF ms
<1>19. Head(replies) = r /\ lost' = {}
  BY <1>1, <1>6
<1>20. QED
  <2>1. r.op = "new" => state' # "none"
    BY <1>19 DEF ServerReceives
  <2>2. r.op = "begin" /\ Begin(r.level) => state = "spawning"
    BY <1>19 DEF ServerReceives, Begin
  <2>3. QED
    BY <1>19, <2>1, <2>2, <1>12, <1>13, <1>14, <1>15, <1>16, <1>17, <1>18 DEF ServerReceives

LEMMA RateKeptByClientReceives ==
  ASSUME SeInv, RateInv, ClientReceives
  PROVE  RateInv'
<1> DEFINE ms == wire \o list
           m == ms[1]
<1>1. SUFFICES ASSUME lost = {} PROVE Rated(wire' \o list', replies', rate', srvRate, known, state, phase')
  BY DEF RateInv, ClientReceives, slot
<1>2. Clean
  BY <1>1 DEF Clean
<1>3. /\ Listed(wire) /\ Listed(list) /\ Listed(replies) /\ Settled(saved, ms, replies, known, measured, state)
      /\ Rated(ms, replies, rate, srvRate, known, state, phase)
  BY <1>1, <1>2 DEF SeInv, RateInv
<1>4. wire # <<>> /\ wire' = Tail(wire) /\ list' = list
  BY DEF ClientReceives
<1>5. Listed(ms) /\ ms # <<>> /\ Head(wire) = m /\ wire' \o list' = Tail(ms)
  BY <1>3, <1>4, ListedRestJoin, ListedJoin
<1>6. m.op \in {"again", "kicked"} => state = "none"
  <2>1. state # "none" => \E h : Linked(known, measured, state, h, ms, replies)
    BY <1>3 DEF Settled
  <2> HIDE DEF ms
  <2>2. 1 \in 1 .. Len(ms)
    BY <1>5, ListedIs
  <2>3. QED
    BY <2>1, <2>2 DEF Linked
<1>7. SUFFICES Rated(Tail(ms), replies', rate', srvRate, known, state, phase')
  BY <1>5
<1> HIDE DEF ms
<1>8. ASSUME NEW r2, r2 = (IF m.op = "rate" THEN m.rate ELSE rate), NEW ph2, ph2 = "playing" => phase = "playing" /\ m.op # "level"
      PROVE  /\ Rated(Tail(ms), replies, r2, srvRate, known, state, ph2)
             /\ m.op = "d1" /\ state # "none" => ~Holds(Tail(ms), "rate")
             /\ m.op = "rate" /\ phase = "playing" => Ends(ms, rate, Rate)
             /\ m.op = "rate" /\ state # "none" => ~Holds(replies, "d1")
  <2>1. /\ Rated(Tail(ms), replies, r2, srvRate, known, state, ph2)
        /\ ms[1].op = "d1" /\ state # "none" => ~Holds(Tail(ms), "rate")
        /\ ms[1].op = "rate" /\ phase = "playing" => Ends(ms, rate, Rate)
        /\ ms[1].op = "rate" /\ state # "none" => ~Holds(replies, "d1")
    <3>1. Listed(ms) /\ ms # <<>> /\ Rated(ms, replies, rate, srvRate, known, state, phase)
      BY <1>3, <1>5
    <3>2. r2 = (IF ms[1].op = "rate" THEN ms[1].rate ELSE rate) /\ (ph2 = "playing" => phase = "playing" /\ ms[1].op # "level")
      BY <1>8
    <3> HIDE DEF m
    <3>3. Rated(Tail(ms), replies, r2, srvRate, known, state, ph2)
      BY <3>1, <3>2, RatedRead
    <3>4. ms[1].op = "d1" /\ state # "none" => ~Holds(Tail(ms), "rate")
      BY <3>1, <3>2, RatedRead
    <3>5. ms[1].op = "rate" /\ phase = "playing" => Ends(ms, rate, Rate)
      BY <3>1, <3>2, RatedRead
    <3>6. ms[1].op = "rate" /\ state # "none" => ~Holds(replies, "d1")
      BY <3>1, <3>2, RatedRead
    <3>7. QED
      BY <3>3, <3>4, <3>5, <3>6
  <2>2. QED
    BY <2>1
<1> HIDE DEF m
<1>9. CASE m.op # "rate" /\ rate' = rate /\ replies' = replies /\ (phase' = "playing" => phase = "playing" /\ m.op # "level")
  BY <1>8, <1>9
<1>10. ASSUME NEW x, x.op # "info", x.op = "d1" => m.op = "d1", Say(x), m.op # "rate", rate' = rate,
              phase' = "playing" => phase = "playing" /\ m.op # "level"
       PROVE  Rated(Tail(ms), replies', rate', srvRate, known, state, phase')
  <2>1. Rated(Tail(ms), replies, rate, srvRate, known, state, phase') /\ (m.op = "d1" /\ state # "none" => ~Holds(Tail(ms), "rate"))
    BY <1>8, <1>10
  <2>2. Rated(Tail(ms), Append(replies, x), rate, srvRate, known, state, phase')
    BY <1>3, <1>10, <2>1, RatedSaid
  <2>3. replies' = Append(replies, x)
    BY <1>3, <1>10, ListedMore DEF Say
  <2>4. QED
    BY <1>10, <2>2, <2>3
<1>11. CASE m.op \in {"again", "kicked"} /\ phase' = "off" /\ replies' = <<>> /\ rate' = rate
  <2>1. Rated(Tail(ms), replies, rate, srvRate, known, state, "off")
    BY <1>8, <1>11
  <2>2. QED
    BY <1>11, <2>1, RatedSilent
<1>12. CASE m.op = "rate" /\ rate' = m.rate /\ phase' = phase /\ (IF phase = "playing" THEN Say([op |-> "info", rate |-> m.rate]) ELSE replies' = replies)
  <2>1. /\ Rated(Tail(ms), replies, m.rate, srvRate, known, state, phase)
        /\ phase = "playing" => Ends(ms, rate, Rate)
        /\ state # "none" => ~Holds(replies, "d1")
    BY <1>8, <1>12
  <2>2. CASE phase # "playing"
    BY <1>12, <2>1, <2>2
  <2>3. CASE phase = "playing"
    <3> DEFINE x == [op |-> "info", rate |-> m.rate]
    <3>1. replies' = Append(replies, x)
      BY <1>3, <1>12, <2>3, ListedMore DEF Say
    <3>2. x.op = "info" /\ x.rate = m.rate
      OBVIOUS
    <3> HIDE DEF x
    <3>3. Ends(Tail(ms), m.rate, Rate)
      BY <1>5, <1>12, <2>1, <2>3, EndsRest DEF m
    <3>4. m.rate \in Rates
      BY <2>1 DEF Rated
    <3>5. Rated(Tail(ms), Append(replies, x), m.rate, srvRate, known, state, phase)
      BY <1>3, <2>1, <3>2, <3>3, <3>4, RatedSaid
    <3>6. QED
      BY <1>12, <3>1, <3>5
  <2>4. QED
    BY <2>2, <2>3
<1>13. QED
  <2>1. m = Head(wire)
    BY <1>5 DEF m
  <2>2. CASE m.op = "reconnect" /\ rate' = rate /\ (IF phase = "downloading" THEN UNCHANGED <<phase, replies>> ELSE phase' = "connecting" /\ Say([op |-> "new"]))
    <3>1. CASE phase = "downloading"
      BY <1>9, <2>2, <3>1
    <3>2. CASE phase # "downloading"
      <4>1. PICK x : x = [op |-> "new"]
        OBVIOUS
      <4>2. x.op # "info" /\ x.op # "d1"
        BY <4>1
      <4>3. Say(x) /\ phase' = "connecting"
        BY <2>2, <3>2, <4>1, Zenon
      <4>4. QED
        BY <1>10, <2>2, <4>2, <4>3
    <3>3. QED
      BY <3>1, <3>2
  <2>3. CASE m.op = "d1" /\ Say([op |-> "d1", v |-> IF saved # 0 THEN saved ELSE fps, asked |-> m.asks, on |-> swap]) /\ UNCHANGED <<rate, phase>>
    <3>1. PICK x : x = [op |-> "d1", v |-> IF saved # 0 THEN saved ELSE fps, asked |-> m.asks, on |-> swap]
      OBVIOUS
    <3>2. x.op = "d1"
      BY <3>1
    <3>3. Say(x)
      BY <2>3, <3>1, Zenon
    <3>4. QED
      BY <1>10, <2>3, <3>2, <3>3
  <2>4. CASE m.op = "d2" /\ Say([op |-> "d2", v |-> saved]) /\ UNCHANGED <<rate, phase>>
    <3>1. PICK x : x = [op |-> "d2", v |-> saved]
      OBVIOUS
    <3>2. x.op = "d2"
      BY <3>1
    <3>3. Say(x)
      BY <2>4, <3>1, Zenon
    <3>4. QED
      BY <1>10, <2>4, <3>2, <3>3
  <2>5. CASE m.op = "fps" /\ Say([op |-> "fps", v |-> fps]) /\ UNCHANGED <<rate, phase>>
    <3>1. PICK x : x = [op |-> "fps", v |-> fps]
      OBVIOUS
    <3>2. x.op = "fps"
      BY <3>1
    <3>3. Say(x)
      BY <2>5, <3>1, Zenon
    <3>4. QED
      BY <1>10, <2>5, <3>2, <3>3
  <2>6. CASE m.op = "level" /\ phase' = "loading" /\ UNCHANGED <<rate, replies>>
    BY <1>9, <2>6
  <2>7. CASE m.op = "file" /\ phase' = (IF phase = "downloading" THEN "loading" ELSE phase) /\ UNCHANGED <<rate, replies>>
    BY <1>9, <2>7
  <2>8. CASE m.op \in {"borrow", "restore", "set"} /\ UNCHANGED <<phase, rate, replies>>
    BY <1>9, <2>8
  <2>9. \/ m.op = "level" /\ phase' = "loading" /\ UNCHANGED <<rate, replies>>
        \/ m.op = "file" /\ phase' = (IF phase = "downloading" THEN "loading" ELSE phase) /\ UNCHANGED <<rate, replies>>
        \/ m.op = "reconnect" /\ rate' = rate
           /\ (IF phase = "downloading" THEN UNCHANGED <<phase, replies>> ELSE phase' = "connecting" /\ Say([op |-> "new"]))
        \/ m.op \in {"again", "kicked"} /\ phase' = "off" /\ replies' = <<>> /\ rate' = rate
        \/ m.op = "d1" /\ Say([op |-> "d1", v |-> IF saved # 0 THEN saved ELSE fps, asked |-> m.asks, on |-> swap]) /\ UNCHANGED <<rate, phase>>
        \/ m.op = "d2" /\ Say([op |-> "d2", v |-> saved]) /\ UNCHANGED <<rate, phase>>
        \/ m.op = "fps" /\ Say([op |-> "fps", v |-> fps]) /\ UNCHANGED <<rate, phase>>
        \/ m.op \in {"borrow", "restore", "set"} /\ UNCHANGED <<phase, rate, replies>>
        \/ m.op = "rate" /\ rate' = m.rate /\ phase' = phase
           /\ (IF phase = "playing" THEN Say([op |-> "info", rate |-> m.rate]) ELSE replies' = replies)
    BY <2>1 DEF ClientReceives, client
  <2>10. QED
    BY <1>11, <1>12, <2>2, <2>3, <2>4, <2>5, <2>6, <2>7, <2>8, <2>9

LEMMA RateKeptByTheRest ==
  ASSUME SeInv, RateInv,
         \/ ServerIgnores \/ FileDone \/ Bandwidth \/ Flush \/ Connect \/ Active \/ Precache \/ GiveUp \/ UNCHANGED seVars
  PROVE  RateInv'
<1> DEFINE ms == wire \o list
<1>1. SUFFICES ASSUME lost' = {} PROVE Rated(wire' \o list', replies', rate', srvRate', known', state', phase')
  BY DEF RateInv
<1>2. lost = {}
  BY <1>1 DEF ServerIgnores, FileDone, Bandwidth, Flush, Connect, Active, Precache, GiveUp, seVars
<1>3. Clean
  BY <1>2 DEF Clean
<1>4. /\ Listed(wire) /\ Listed(list) /\ Listed(replies) /\ Listed(ms)
      /\ Rated(ms, replies, rate, srvRate, known, state, phase)
  BY <1>2, <1>3, ListedJoin DEF SeInv, RateInv
<1>5. ASSUME NEW m, m.op # "rate", list' = list \o <<m>>, UNCHANGED <<wire, replies, rate, srvRate, known, state, phase>>, state # "none"
      PROVE  Rated(wire' \o list', replies', rate', srvRate', known', state', phase')
  <2>1. Speaks(replies)
    BY <1>4, <1>5 DEF Speaks
  <2>2. QED
    BY <1>5, <2>1, SpeaksMore
<1> HIDE DEF ms
<1>6. CASE ServerIgnores
  <2>1. replies # <<>> /\ replies' = Tail(replies) /\ state = "none" /\ UNCHANGED <<wire, list, rate, srvRate, known, state, phase>>
    BY <1>6 DEF ServerIgnores, client, slot
  <2>2. Rated(ms, Tail(replies), rate, srvRate, known, state, phase)
    BY <1>4, <2>1, RatedHeard
  <2>3. QED
    BY <2>1, <2>2 DEF ms
<1>7. CASE FileDone
  <2>1. PICK m : m = [op |-> "file"]
    OBVIOUS
  <2>2. m.op # "rate"
    BY <2>1
  <2>3. list' = list \o <<m>>
    BY <1>7, <2>1, Zenon DEF FileDone, Op
  <2>4. UNCHANGED <<wire, replies, rate, srvRate, known, state, phase>> /\ state # "none"
    BY <1>7 DEF FileDone, client
  <2>5. QED
    BY <1>5, <2>2, <2>3, <2>4
<1>8. CASE Bandwidth
  <2>1. PICK f \in DownFps : list' = list \o SetFps(f)
    BY <1>8 DEF Bandwidth
  <2>2. PICK m : m = [op |-> "set", fps |-> f]
    OBVIOUS
  <2>3. m.op # "rate"
    BY <2>2
  <2>4. list' = list \o <<m>>
    BY <2>1, <2>2, Zenon DEF SetFps
  <2>5. UNCHANGED <<wire, replies, rate, srvRate, known, state, phase>> /\ state # "none"
    BY <1>8 DEF Bandwidth, client
  <2>6. QED
    BY <1>5, <2>3, <2>4, <2>5
<1>9. CASE Flush
  <2>1. wire' = ms /\ list' = <<>> /\ UNCHANGED <<replies, rate, srvRate, known, state, phase>>
    BY <1>9 DEF Flush, client, slot, ms
  <2>2. wire' \o list' = ms
    BY <1>4, <2>1, ListedIs
  <2>3. QED
    BY <1>4, <2>1, <2>2
<1>10. CASE Connect
  <2> DEFINE r == [op |-> "new"]
  <2>1. /\ state = "none" /\ wire' \o list' = <<>> /\ ms = <<>> /\ replies' = <<r>> /\ rate' = rate /\ srvRate' = rate
        /\ known' = 0 /\ state' = "connected" /\ phase' = "connecting"
    BY <1>10, NothingSaid DEF Connect, Op, ms
  <2>2. r.op # "info" /\ r.op # "d1"
    OBVIOUS
  <2> HIDE DEF r
  <2>3. Len(<<r>>) = 1 /\ <<r>>[1] = r /\ \A j \in 1 .. 1 : j = 1
    BY ListedShort
  <2>4. RatesIn(<<>>, <<r>>) /\ Behind(<<>>) /\ BehindAnswer(<<>>, <<r>>)
    BY <2>2, <2>3, NothingSaid DEF RatesIn, Behind, BehindAnswer
  <2>5. Ends(<<>>, rate, Rate) /\ rate \in Rates
    BY <1>4, <2>1 DEF Rated, Raised
  <2>6. Rated(<<>>, <<r>>, rate, rate, 0, "connected", "connecting")
    BY <2>4, <2>5 DEF Rated
  <2>7. QED
    BY <2>1, <2>6
<1>11. CASE Active
  <2>1. state = "spawned" /\ phase' = "playing" /\ UNCHANGED <<wire, list, rate, srvRate, known, state>>
    BY <1>11 DEF Active, slot
  <2>2. Rated(ms, replies, rate, srvRate, known, state, phase')
    BY <1>4, <2>1, RatedPhase
  <2>3. CASE replies' = replies
    BY <2>1, <2>2, <2>3 DEF ms
  <2>4. CASE Say([op |-> "info", rate |-> rate])
    <3> DEFINE x == [op |-> "info", rate |-> rate]
    <3>1. replies' = Append(replies, x)
      BY <1>4, <2>4, ListedMore DEF Say
    <3>2. x.op = "info" /\ x.rate = rate
      OBVIOUS
    <3> HIDE DEF x
    <3>3. Ends(ms, rate, Rate) /\ rate \in Rates /\ BehindAnswer(ms, replies)
      BY <1>4, <2>1 DEF Rated, Raised
    <3>4. Holds(replies, "d1") => rate = Rate
      <4>1. Holds(replies, "d1") => ~Holds(ms, "rate")
        BY <3>3 DEF BehindAnswer, Holds
      <4>2. QED
        BY <3>3, <4>1 DEF Ends, Holds
    <3>5. Rated(ms, Append(replies, x), rate, srvRate, known, state, phase')
      BY <1>4, <2>2, <3>2, <3>3, <3>4, RatedSaid
    <3>6. QED
      BY <2>1, <3>1, <3>5 DEF ms
  <2>5. QED
    BY <1>11, <2>3, <2>4 DEF Active
<1>12. CASE Precache
  <2>1. phase' # "playing" /\ UNCHANGED <<wire, list, rate, srvRate, known, state>>
    BY <1>12 DEF Precache, slot
  <2>2. Rated(ms, replies, rate, srvRate, known, state, phase')
    BY <1>4, <2>1, RatedPhase
  <2>3. ASSUME NEW x, x.op \in {"begin", "download"}, Say(x)
        PROVE  Rated(wire' \o list', replies', rate', srvRate', known', state', phase')
    <3>1. Rated(ms, Append(replies, x), rate, srvRate, known, state, phase')
      BY <1>4, <2>2, <2>3, RatedSaid
    <3>2. replies' = Append(replies, x)
      BY <1>4, <2>3, ListedMore DEF Say
    <3>3. QED
      BY <2>1, <3>1, <3>2 DEF ms
  <2>4. CASE Say([op |-> "begin", level |-> heard])
    <3>1. PICK x : x = [op |-> "begin", level |-> heard]
      OBVIOUS
    <3>2. x.op \in {"begin", "download"}
      BY <3>1
    <3>3. Say(x)
      BY <2>4, <3>1, Zenon
    <3>4. QED
      BY <2>3, <3>2, <3>3
  <2>5. CASE \E pak \in BOOLEAN : Say([op |-> "download", pak |-> pak])
    <3>1. PICK pak \in BOOLEAN : Say([op |-> "download", pak |-> pak])
      BY <2>5
    <3>2. PICK x : x = [op |-> "download", pak |-> pak]
      OBVIOUS
    <3>3. x.op \in {"begin", "download"}
      BY <3>2
    <3>4. Say(x)
      BY <3>1, <3>2, Zenon
    <3>5. QED
      BY <2>3, <3>3, <3>4
  <2>6. QED
    BY <1>12, <2>4, <2>5 DEF Precache
<1>13. CASE GiveUp
  <2>1. phase' = "off" /\ replies' = <<>> /\ UNCHANGED <<wire, list, rate, srvRate, known, state>>
    BY <1>13 DEF GiveUp, slot
  <2>2. Rated(ms, replies, rate, srvRate, known, state, "off")
    BY <1>4, RatedPhase
  <2>3. Rated(ms, <<>>, rate, srvRate, known, state, "off")
    BY <2>2, RatedSilent
  <2>4. QED
    BY <2>1, <2>3 DEF ms
<1>14. CASE UNCHANGED seVars
  BY <1>4, <1>14 DEF seVars, client, slot, ms
<1>15. QED
  BY <1>6, <1>7, <1>8, <1>9, <1>10, <1>11, <1>12, <1>13, <1>14

LEMMA RateKeptByMeasure ==
  ASSUME SeInv, RateInv, Measure, Limit > 0 => Fps <= Limit
  PROVE  RateInv'
<1>1. SUFFICES ASSUME lost = {} PROVE Rated(wire \o list', replies, rate, srvRate, known', state', phase)
  BY DEF RateInv, Measure, client
<1>2. Clean
  BY <1>1 DEF Clean
<1>3. wire \o list = <<>> /\ replies = <<>> /\ state = "spawned"
  BY NothingSaid DEF Measure
<1>4. Sure(saved, fps, swap) /\ Settled(saved, <<>>, <<>>, known, measured, "spawned")
      /\ Rated(wire \o list, replies, rate, srvRate, known, "spawned", phase)
  BY <1>1, <1>2, <1>3 DEF SeInv, RateInv
<1>5. PICK h : Passes(h, saved, <<>>) /\ Linked(known, measured, "spawned", h, <<>>, <<>>)
  BY <1>4 DEF Settled
<1>6. saved = 0 /\ fps = Fps /\ known = 0
  BY <1>4, <1>5, NothingSaid DEF Passes, Linked, Sure
<1>7. known' = 0 /\ list' = list /\ state' = "spawned"
  BY <1>3, <1>6, SeAssumption DEF Measure
<1>8. QED
  BY <1>4, <1>6, <1>7

LEMMA RateKeptByLevelChange ==
  ASSUME SeInv, RateInv, LevelChange
  PROVE  RateInv'
<1>1. SUFFICES ASSUME lost' = {} PROVE Rated(wire \o list', replies, rate, srvRate, known, state', phase)
  BY DEF RateInv, LevelChange, client
<1>2. lost = {} /\ (state = "spawned" => \A i \in 1 .. Len(list) : list[i].op \notin Settings)
  BY <1>1 DEF LevelChange
<1>3. Clean
  BY <1>2 DEF Clean
<1>4. Listed(wire) /\ Listed(list) /\ Rated(wire \o list, replies, rate, srvRate, known, state, phase)
  BY <1>2, <1>3 DEF SeInv, RateInv
<1> DEFINE m == [op |-> "reconnect"]
<1>5. m.op # "rate"
  OBVIOUS
<1>6. CASE state = "none"
  <2>1. state' = "none" /\ list' = list \o <<>>
    BY <1>6 DEF LevelChange
  <2>2. QED
    BY <1>4, <1>6, <2>1, ListedIs
<1>7. CASE state = "spawned"
  <2>1. state' = "connected" /\ list' = <<>> \o <<m>>
    BY <1>7 DEF LevelChange, Op
  <2> HIDE DEF m
  <2>2. wire \o list' = Append(wire, m)
    BY <1>4, <2>1, ListedShort, ListedIs, ListedMore
  <2>3. ~Holds(list, "rate")
    BY <1>2, <1>7 DEF Holds, Settings
  <2>4. Rated(wire, replies, rate, srvRate, known, "connected", phase)
    BY <1>4, <1>7, <2>3, RatedCut
  <2>5. Rated(Append(wire, m), replies, rate, srvRate, known, "connected", phase)
    BY <1>4, <1>5, <2>4, RatedMore
  <2>6. QED
    BY <2>1, <2>2, <2>5
<1>8. CASE state # "none" /\ state # "spawned"
  <2>1. list' = list \o <<m>> /\ state' \in {"connected", state} /\ (state = "spawning" => state' = "connected")
    BY <1>8 DEF LevelChange, Op
  <2> HIDE DEF m
  <2>2. PICK ms : ms = wire \o list'
    OBVIOUS
  <2>3. Rated(ms, replies, rate, srvRate, known, state, phase)
    <3>1. Speaks(replies) \/ ~Listed(replies)
      BY <1>4, <1>8 DEF Speaks
    <3>2. Listed(replies)
      BY <1>2, <1>3 DEF SeInv
    <3>3. QED
      BY <1>5, <2>1, <2>2, <3>1, <3>2, SpeaksMore
  <2>4. known = 0 => Ends(ms, rate, Rate)
    BY <2>3 DEF Rated, Raised
  <2>5. Rated(ms, replies, rate, srvRate, known, state', phase)
    BY <1>8, <2>1, <2>3, <2>4, RatedState
  <2>6. QED
    BY <2>2, <2>5
<1>9. QED
  BY <1>6, <1>7, <1>8

LEMMA RateInvAtFirst == SeInit => RateInv
<1>1. SUFFICES ASSUME SeInit PROVE Rated(<<>>, <<>>, Rate, Rate, 0, "none", "off")
  BY NothingSaid DEF SeInit, RateInv
<1>2. RatesIn(<<>>, <<>>) /\ Ends(<<>>, Rate, Rate)
  BY NothingSaid DEF RatesIn, Ends
<1>3. QED
  BY <1>2 DEF Rated, Rates

LEMMA RateWhenQuiet == SeInv /\ RateInv => RateBack
<1>1. SUFFICES ASSUME RateInv, Quiet, lost = {} PROVE rate = Rate
  BY DEF RateBack
<1>2. wire \o list = <<>> /\ state = "spawned"
  BY <1>1, NothingSaid DEF Quiet
<1>3. Ends(<<>>, rate, Rate)
  BY <1>1, <1>2 DEF RateInv, Rated, Raised
<1>4. QED
  BY <1>3, NothingSaid DEF Ends

(* A client that plays and has read everything runs with the frame rate, the interval and the rate it came with,
   however many downloads, level changes and paks lay between (SV_CvarResult_f, SV_ClientBegin, ClientLoadNewPAK),
   where the administrator's limit does not forbid that frame rate, unless a cleared list or a second question lost
   it, and the rate unless it was thrown out. *)
THEOREM OwnSettingsComeBack ==
  ASSUME Limit > 0 => Fps <= Limit
  PROVE  SeSpec => []OwnSettingsBack
<1> DEFINE Inv == SeInv /\ RateInv
<1>1. SeInit => Inv
  BY SeInvAtFirst, RateInvAtFirst
<1>2. Inv /\ [SeNext]_seVars => Inv'
  <2>1. SUFFICES ASSUME SeInv, RateInv, [SeNext]_seVars PROVE SeInv' /\ RateInv'
    OBVIOUS
  <2>2. CASE ServerReceives
    BY <2>1, <2>2, KeptByServerReceives, RateKeptByServerReceives
  <2>3. CASE ServerIgnores
    BY <2>1, <2>3, KeptByServerIgnores, RateKeptByTheRest
  <2>4. CASE FileDone
    BY <2>1, <2>4, KeptByFileDone, RateKeptByTheRest
  <2>5. CASE Bandwidth
    BY <2>1, <2>5, KeptByBandwidth, RateKeptByTheRest
  <2>6. CASE Measure
    BY <2>1, <2>6, KeptByMeasure, RateKeptByMeasure
  <2>7. CASE LevelChange
    BY <2>1, <2>7, KeptByLevelChange, RateKeptByLevelChange
  <2>8. CASE Flush
    BY <2>1, <2>8, KeptByFlush, RateKeptByTheRest
  <2>9. CASE Connect
    BY <2>1, <2>9, KeptByConnect, RateKeptByTheRest
  <2>10. CASE ClientReceives
    BY <2>1, <2>10, KeptByClientReceives, RateKeptByClientReceives
  <2>11. CASE Active \/ Precache \/ GiveUp \/ UNCHANGED seVars
    BY <2>1, <2>11, KeptByTalk, RateKeptByTheRest
  <2>12. QED
    BY <2>1, <2>2, <2>3, <2>4, <2>5, <2>6, <2>7, <2>8, <2>9, <2>10, <2>11 DEF SeNext
<1>3. Inv => OwnSettingsBack
  BY BackWhenQuiet, RateWhenQuiet DEF OwnSettingsBack
<1> HIDE DEF Inv
<1>4. QED
  BY <1>1, <1>2, <1>3, PTL DEF SeSpec
=============================================================================
