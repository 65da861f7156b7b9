----------------------------- MODULE MCNetchan -----------------------------
(***************************************************************************)
(* A small channel for TLC: the server writes more than the client, which  *)
(* leaves room for a lost message, its retransmission and the messages     *)
(* after it while the client has something to say as well.                 *)
(***************************************************************************)
EXTENDS Netchan

MCSequence == [e \in Peer |-> IF e = Server THEN 5 ELSE 3]
MCWritten  == [e \in Peer |-> IF e = Server THEN 3 ELSE 1]
=============================================================================
