------------------------------- MODULE Sight -------------------------------
(***************************************************************************)
(* What can be seen and heard from where: the areas of a level, joined by        *)
(* portals that the game opens and closes, the compressed rows that tell which *)
(* clusters see or hear which, and who gets a sound (cmodel.c, sv_game.c,      *)
(* sv_send.c). A leaf stands for the points in it.                            *)
(***************************************************************************)
EXTENDS Integers, Sequences, FiniteSets, SequencesExt

CONSTANTS Portals,       \* map -> sequence of [num, area, other]: the portals of each area, both ways
          Areas,         \* 1..n: area 0 is not used
          Leafs,         \* leaf -> [cluster, area]; cluster -1 and area 0 in solid
          Pvs, Phs       \* cluster -> the clusters that are seen, heard

VARIABLES portalopen,    \* the open portals, by number
          flood          \* area -> floodnum
Nums == UNION {{p.num : p \in ToSet(Portals[m])} : m \in DOMAIN Portals}

(* FloodArea_r: floodvalid of an area is whether it has a number in this round. *)
RECURSIVE FloodArea(_, _, _, _, _)
FloodArea(m, open, area, n, fl) ==
  IF fl[area] # 0 THEN fl
  ELSE FoldLeft(LAMBDA f, p : IF p.area = area /\ p.num \in open THEN FloodArea(m, open, p.other, n, f) ELSE f,
                [fl EXCEPT ![area] = n], Portals[m])
(* FloodAreaConnections *)
FloodAreaConnections(m, open) ==
  FoldLeft(LAMBDA s, a : IF s.fl[a] # 0 THEN s ELSE [n |-> s.n + 1, fl |-> FloodArea(m, open, a, s.n + 1, s.fl)],
           [n |-> 0, fl |-> [a \in Areas \union {0} |-> 0]], SetToSortSeq(Areas, LAMBDA a, b : a < b)).fl
(* CM_SetAreaPortalState *)
SetAreaPortalState(m, num, open) ==
  /\ portalopen' = IF open THEN portalopen \union {num} ELSE portalopen \ {num}
  /\ flood' = FloodAreaConnections(m, portalopen')

(* CM_AreasConnected; CM_WriteAreaBits: from area 0, in solid, all are shown. *)
AreasConnected(a, b) == flood[a] = flood[b]
WriteAreaBits(area) == {a \in Areas \union {0} : flood[a] = flood[area] \/ area = 0}

-----------------------------------------------------------------------------
(* CM_DecompressVis: a byte 0 is followed by how many there are of them. *)
RECURSIVE Decompress(_, _, _)
Decompress(in, row, out) ==
  IF Len(out) >= row THEN out
  ELSE IF in[1] # 0 THEN Decompress(Tail(in), row, Append(out, in[1]))
  ELSE LET c == IF Len(out) + in[2] > row THEN row - Len(out) ELSE in[2]
       IN Decompress(SubSeq(in, 3, Len(in)), row, out \o [i \in 1..c |-> 0])
DecompressVis(in, row) == Decompress(in, row, <<>>)

(* CM_ClusterPVS, CM_ClusterPHS: from solid nothing. SV_FatPVS: the leafs around a viewer. *)
ClusterPVS(c) == IF c = -1 THEN {} ELSE Pvs[c]
ClusterPHS(c) == IF c = -1 THEN {} ELSE Phs[c]
FatPVS(leafs) == UNION {ClusterPVS(Leafs[l].cluster) : l \in leafs}

(* PF_inPVS, PF_inPHS *)
MutInPVS(p, q) ==   \* a door does not block sight
  Leafs[q].cluster # -1 /\ Leafs[q].cluster \in ClusterPVS(Leafs[p].cluster)
InPVS(p, q) ==
  /\ Leafs[q].cluster # -1 /\ Leafs[q].cluster \in ClusterPVS(Leafs[p].cluster)
  /\ AreasConnected(Leafs[p].area, Leafs[q].area)
InPHS(p, q) ==
  /\ Leafs[q].cluster # -1 /\ Leafs[q].cluster \in ClusterPHS(Leafs[p].cluster)
  /\ AreasConnected(Leafs[p].area, Leafs[q].area)

(* SV_StartSound, PF_StartSound: how a client at p is sent a sound from q, if at all. One for
   all (CHAN_NO_PHS_ADD) or that does not fade goes to everyone; of the channel of the first
   only the lower bits are left. Curses are not for who switched them off, nor from him. *)
Hears(s, c, p, q) ==
  \/ s.nophs \/ ~s.fades
  \/ ~c.noents /\ (IF s.pvs THEN InPVS(p, q) ELSE InPHS(p, q)) /\ (s.attncalc => c.near)
PFStartSound(s) == ~(s.curse /\ s.nocurse)
StartSound(s, c, p, q) ==
  IF ~PFStartSound(s) \/ (s.curse /\ c.nocurse) \/ ~Hears(s, c, p, q) THEN "none"
  ELSE IF s.reliable /\ ~s.nophs THEN "reliable" ELSE "datagram"
=============================================================================
