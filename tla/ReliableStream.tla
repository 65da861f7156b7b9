--------------------------- MODULE ReliableStream ---------------------------
(***************************************************************************)
(* What a channel of qcommon/net_chan.c promises about the data written to *)
(* its reliable buffer: each of the two peers owns a stream; what the      *)
(* other peer has been handed of it is always a prefix of what was         *)
(* written, it only ever grows, and it grows by whole pieces.              *)
(***************************************************************************)
EXTENDS Naturals, Sequences

CONSTANTS Server, Client,   \* the two ends of the channel
          Data              \* the messages that can be written

VARIABLES written,          \* written[e]: everything e wrote, in order
          delivered         \* delivered[e]: what the other peer got of it

streamVars == <<written, delivered>>

Peer == {Server, Client}

StreamInit ==
  /\ written = [e \in Peer |-> <<>>]
  /\ delivered = [e \in Peer |-> <<>>]

Append1(e) ==
  /\ \E d \in Data : written' = [written EXCEPT ![e] = Append(@, d)]
  /\ UNCHANGED delivered

Advance(e) ==
  /\ \E n \in Len(delivered[e])+1 .. Len(written[e]) :
       delivered' = [delivered EXCEPT ![e] = SubSeq(written[e], 1, n)]
  /\ UNCHANGED written

StreamNext == \E e \in Peer : Append1(e) \/ Advance(e)

StreamSpec == StreamInit /\ [][StreamNext]_streamVars
=============================================================================
