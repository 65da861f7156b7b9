--------------------------- MODULE MCClientSlots ---------------------------
(* Players of ClientSlots: two behind one router, one elsewhere who uses    *)
(* the name of the first.                                                   *)
EXTENDS ClientSlots, TLC

CONSTANTS p1, p2, p3, a, b, c

MCIpOf == [p \in {p1, p2, p3} |-> IF p = p3 THEN 20 ELSE 10]
MCQportOf == [p \in {p1, p2, p3} |-> IF p = p2 THEN 8 ELSE 7]
MCNameOf == [p \in {p1, p2, p3} |-> IF p = p2 THEN "b" ELSE "a"]

(* Ports are only compared. *)
PortsAlike == Permutations(Ports)

(* The limits: three players, two at one address and two of one name, two  *)
(* slots kept for the first, a change of level, and a game that is told of *)
(* spawned clients only.                                                   *)
Limit == INSTANCE ClientSlots WITH
  Players <- {p1, p2, p3}, MaxClients <- 3, ReservedSlots <- 2, Reserved <- {p1}, IpLimit <- 1,
  MaxChallenges <- 2, WantAll <- FALSE, Flood <- TRUE, NewPorts <- FALSE, MaxIssued <- 2, MaxLevels <- 1

VARIABLE part
MCInit == (part = "router" /\ Init) \/ (part = "limit" /\ Limit!Init)
MCNext == /\ UNCHANGED part
          /\ \/ part = "router" /\ Next
             \/ part = "limit" /\ Limit!Next
MCSpec == MCInit /\ [][MCNext]_<<vars, part>>
=============================================================================
