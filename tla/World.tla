------------------------------- MODULE World -------------------------------
(***************************************************************************)
(* The entities of a level in space (sv_world.c): the tree of areas that finds   *)
(* those in a box, traces against the world and the entities, and the clusters *)
(* and areas that say who can see an entity. The game moves and links them.    *)
(***************************************************************************)
EXTENDS Collision

CONSTANTS Ents, Owner,      \* entities, and the owner of each (0: none)
          Spots, Solids, BoxSizes,     \* where the game puts them, as what, with which <<mins, maxs>>
          Probes,           \* the moves [start, mins, maxs, axis, dir, len] it traces
          AreaDepth,        \* AREA_DEPTH
          MaxLeafs, MaxClusters,    \* MAX_TOTAL_ENT_LEAFS, MAX_ENT_CLUSTERS
          Boxes,            \* sizes <<half width, below, above>> of boxes, in pixels
          NoEnt

VARIABLES map,       \* the level
          ent,       \* what the game keeps of each: [solid, origin, size, linked, absmin, absmax, clusters, headnode]
          areas,     \* the lists of an area node: <<path, "trigger" or "solid">> -> sequence of entities
          asked      \* ghost: the last trace or search and its answer
wdVars == <<map, ent, areas, asked>>

(* SV_CreateAreaNode: a node is the path to it from the root, 0 for the upper half. *)
Paths == UNION {[1..n -> {0, 1}] : n \in 0..AreaDepth}
Half(b) == LET a == IF b.maxs[1] - b.mins[1] > b.maxs[2] - b.mins[2] THEN 1 ELSE 2
           IN [axis |-> a, dist |-> (b.maxs[a] + b.mins[a]) \div 2]
CreateAreaNode(b, path) ==
  Half(FoldLeft(LAMBDA c, up : IF up = 0 THEN [c EXCEPT !.mins[Half(c).axis] = Half(c).dist]
                               ELSE [c EXCEPT !.maxs[Half(c).axis] = Half(c).dist], b, path))
AreaNode(path) == CreateAreaNode(map.bounds, path)
Terminal(path) == Len(path) = AreaDepth

NoTrace == [kind |-> "none"]
WdInit ==
  /\ map \in Maps
  /\ ent = [e \in Ents |-> [solid |-> "not", origin |-> <<0, 0>>, size |-> CHOOSE s \in BoxSizes : TRUE, linked |-> FALSE,
                            absmin |-> <<0, 0>>, absmax |-> <<0, 0>>, clusters |-> <<>>, headnode |-> -1]]
  /\ areas = [n \in Paths \X {"trigger", "solid"} |-> <<>>]
  /\ asked = NoTrace

-----------------------------------------------------------------------------
(* SV_UnlinkEdict *)
Unlinked(as, e) == [n \in DOMAIN as |-> SelectSeq(as[n], LAMBDA x : x # e)]

(* SV_LinkEdict, where it can be seen: the clusters of the leafs it touches, or the node
   above all of them if they are too many. *)
Clusters(leafs, top) ==
  LET cs == FoldLeft(LAMBDA s, l : LET c == map.leafs[l].cluster IN IF c = -1 \/ Contains(s, c) THEN s ELSE Append(s, c), <<>>, leafs)
  IN IF Len(leafs) >= MaxLeafs \/ Len(cs) > MaxClusters THEN [clusters |-> <<>>, headnode |-> top]
     ELSE [clusters |-> cs, headnode |-> -1]
MutLinkLeafs(lo, hi) ==   \* a full list is taken for complete
  LET r == BoxLeafnums(map, 0, lo, hi, MaxLeafs)
      c == Clusters(r.leafs, r.topnode)
  IN IF c.headnode # -1 THEN [clusters |-> [i \in 1..1 |-> map.leafs[r.leafs[1]].cluster], headnode |-> -1] ELSE c
LinkLeafs(lo, hi) ==
  LET r == BoxLeafnums(map, 0, lo, hi, MaxLeafs) IN Clusters(r.leafs, r.topnode)

(* SV_LinkEdict, the first node its box crosses *)
Above(n, lo) == lo[n.axis] > n.dist
RECURSIVE LinkNode(_, _, _)
LinkNode(lo, hi, path) ==
  IF Terminal(path) THEN path
  ELSE LET n == AreaNode(path)
       IN IF Above(n, lo) THEN LinkNode(lo, hi, Append(path, 0))
          ELSE IF hi[n.axis] < n.dist THEN LinkNode(lo, hi, Append(path, 1))
          ELSE path

(* SV_LinkEdict, the box of an entity in the 16 bits that clients predict with, and what
   CL_PMTrace of a client makes of them; 31 stands for a model of the map. *)
Between(x, lo, hi) == IF x < lo THEN lo ELSE IF x > hi THEN hi ELSE x
PackSolid(w, below, above) ==
  Between((above + 32) \div 8, 1, 63) * 1024 + Between(below \div 8, 1, 31) * 32 + Between(w \div 8, 1, 31)
UnpackSolid(c) == <<8 * (c % 32), 8 * ((c \div 32) % 32), 8 * (c \div 1024) - 32>>

(* SV_LinkEdict, the box in space, a unit larger than the entity *)
AbsBox(origin, size) == <<Grown(Sum2(origin, size[1]), -Unit), Grown(Sum2(origin, size[2]), Unit)>>
LinkEdict(e, solid, origin, size) ==
  LET lo == AbsBox(origin, size)[1]
      hi == AbsBox(origin, size)[2]
      v  == LinkLeafs(lo, hi)
      kind == <<LinkNode(lo, hi, <<>>), IF solid = "trigger" THEN "trigger" ELSE "solid">>
      out == Unlinked(areas, e)
  IN /\ ent' = [ent EXCEPT ![e] = [solid |-> solid, origin |-> origin, size |-> size, linked |-> TRUE, absmin |-> lo, absmax |-> hi,
                                   clusters |-> v.clusters, headnode |-> v.headnode]]
     /\ areas' = IF solid = "not" THEN out ELSE [out EXCEPT ![kind] = Append(@, e)]
     /\ asked = NoTrace /\ UNCHANGED <<map, asked>>
Moves == \E e \in Ents, s \in Solids, o \in Spots, z \in BoxSizes : LinkEdict(e, s, o, z)
(* The game takes the entity out, or makes it not solid without linking it again. *)
Removes == \E e \in Ents, unlink \in BOOLEAN :
  /\ ent[e].linked
  /\ areas' = IF unlink THEN Unlinked(areas, e) ELSE areas
  /\ ent' = [ent EXCEPT ![e].linked = ~unlink, ![e].solid = "not"]
  /\ asked = NoTrace /\ UNCHANGED <<map, asked>>

-----------------------------------------------------------------------------
(* SV_AreaEdicts *)
Touches(e, lo, hi) == \A a \in Axes : ent[e].absmin[a] <= hi[a] /\ ent[e].absmax[a] >= lo[a]
RECURSIVE AreaEdictsR(_, _, _, _)
AreaEdictsR(path, lo, hi, type) ==
  SelectSeq(areas[<<path, type>>], LAMBDA e : ent[e].solid # "not" /\ Touches(e, lo, hi))
  \o IF Terminal(path) THEN <<>>
     ELSE LET n == AreaNode(path)
          IN (IF hi[n.axis] > n.dist THEN AreaEdictsR(Append(path, 0), lo, hi, type) ELSE <<>>)
             \o (IF lo[n.axis] < n.dist THEN AreaEdictsR(Append(path, 1), lo, hi, type) ELSE <<>>)
AreaEdicts(lo, hi, type, maxcount) ==
  LET all == AreaEdictsR(<<>>, lo, hi, type) IN SubSeq(all, 1, IF Len(all) < maxcount THEN Len(all) ELSE maxcount)

(* SV_HullForEntity: a box in this model, never a model of the map *)
HullForEntity(e) == InitBoxHull(ent[e].size[1], ent[e].size[2])

(* SV_ClipMoveToEntities: what the moving entity owns and its owner are left out; what it
   starts in replaces what was hit, however near. *)
Skipped(e, pass) == ent[e].solid = "not" \/ e = pass \/ (pass # NoEnt /\ (Owner[e] = pass \/ Owner[pass] = e))
ClipMoveToEntities(mv, t, touched, pass) ==
  FoldLeft(LAMBDA u, e :
     IF Skipped(e, pass) \/ u.allsolid THEN u
     ELSE LET r == TransformedBoxTrace(mv, HullForEntity(e), ent[e].origin)
          IN IF r.allsolid \/ r.startsolid \/ r.dist < u.dist THEN [r EXCEPT !.startsolid = @ \/ u.startsolid] ELSE u,
     t, touched)
(* SV_Trace *)
Trace(mv, pass) ==
  LET world == BoxTrace(map, 0, mv)
      a == PointAt(mv, 0)  b == PointAt(mv, mv.len)
      lo == [i \in Axes |-> (IF b[i] > a[i] THEN a[i] ELSE b[i]) + mv.mins[i] - Unit]
      hi == [i \in Axes |-> (IF b[i] > a[i] THEN b[i] ELSE a[i]) + mv.maxs[i] + Unit]
  IN IF IF mv.len = 0 THEN world.allsolid ELSE world.dist = 0 THEN world
     ELSE ClipMoveToEntities(mv, world, AreaEdicts(lo, hi, "solid", Cardinality(Ents)), pass)
(* SV_PointContents: whether a point is in something solid *)
PointContents(p) ==
  \/ map.leafs[PointLeafnum(map, 0, p)].solid
  \/ \E i \in 1..Len(AreaEdicts(p, p, "solid", Cardinality(Ents))) :
       LET e == AreaEdicts(p, p, "solid", Cardinality(Ents))[i]
       IN HullForEntity(e).leafs[PointLeafnum(HullForEntity(e), 0, [a \in Axes |-> p[a] - ent[e].origin[a]])].solid

Asks == \E mv \in Probes, pass \in Ents \union {NoEnt} :
  /\ asked = NoTrace /\ UNCHANGED <<map, ent, areas>>
  /\ asked' = [kind |-> "trace", mv |-> mv, pass |-> pass, world |-> Result(BoxTrace(map, 0, mv)),
               got |-> Result(Trace(mv, pass)), inside |-> PointContents(mv.start)]
Answered == asked # NoTrace /\ asked' = NoTrace /\ UNCHANGED <<map, ent, areas>>
WdNext == Moves \/ Removes \/ Asks \/ Answered
WdSpec == WdInit /\ [][WdNext]_wdVars

-----------------------------------------------------------------------------
(* CM_HeadnodeVisible, and whether a frame shows an entity to one who sees these clusters *)
RECURSIVE HeadnodeVisible(_, _)
HeadnodeVisible(num, bits) ==
  IF num < 0 THEN map.leafs[-1 - num].cluster \in bits
  ELSE HeadnodeVisible(map.nodes[num].children[1], bits) \/ HeadnodeVisible(map.nodes[num].children[2], bits)
Shown(e, bits) == IF ent[e].headnode # -1 THEN HeadnodeVisible(ent[e].headnode, bits)
                  ELSE \E i \in 1..Len(ent[e].clusters) : ent[e].clusters[i] \in bits

(* The tree of planes hides nothing: a trace through it ends where one that looks at every
   brush of the map does. A box that exactly touches a side is left out: it is in front of
   the plane for the tree and in the brush for the brush. *)
Grazes(m, mv) == \E i \in 1..Len(m.brushes) : \E k \in 1..4 : Ahead(mv, m.brushes[i][k], mv.start) = 0
TreeFindsAll == asked.kind = "trace" /\ ~Grazes(map, asked.mv) => asked.world = Result(EveryBrush(map, asked.mv))

(* A trace stops at the nearest of the world and the entities that are not left out, and
   tells of every one it starts in unless the world or another fills the start. *)
Others(pass) == {e \in Ents : ent[e].linked /\ ent[e].solid = "bbox"
                               /\ e # pass /\ (pass = NoEnt \/ (Owner[e] # pass /\ Owner[pass] # e))}
Seen(e, mv) == [mv EXCEPT !.start = [a \in Axes |-> @[a] - ent[e].origin[a]]]
OwnHit(e, mv) == Result(EveryBrush(HullForEntity(e), Seen(e, mv)))
NearestHit ==
  asked.kind = "trace" /\ (\A e \in Others(asked.pass) : ~Grazes(HullForEntity(e), Seen(e, asked.mv))) =>
    LET hits == {asked.world} \union {OwnHit(e, asked.mv) : e \in Others(asked.pass)}
    IN /\ asked.got.startsolid => \E h \in hits : h.startsolid
       /\ (\E h \in hits : h.startsolid) /\ asked.world.dist > 0 => asked.got.startsolid
       /\ (\A h \in hits : ~h.startsolid) => \A h \in hits : asked.got.dist <= h.dist /\ \E g \in hits : g.dist = asked.got.dist

(* A box that does not start in something never ends overlapping a brush or an entity. *)
NeverInside ==
  asked.kind = "trace" /\ ~asked.got.startsolid =>
    /\ \A i \in 1..Len(map.brushes) : ~Overlaps(asked.mv, asked.got.dist, map.brushes[i])
    /\ \A e \in Others(asked.pass) :
         ~Overlaps(Seen(e, asked.mv), asked.got.dist, BoxBrush(ent[e].size[1], ent[e].size[2]))

(* A search finds exactly the linked entities that touch the box, whatever nodes they hang on,
   and a point is in something solid exactly if it is in a brush or an entity. *)
Holds(b, p) == \A k \in 1..Len(b) : IF b[k].sign = 1 THEN p[b[k].axis] < b[k].dist ELSE -p[b[k].axis] <= b[k].dist
SearchIsExact ==
  asked.kind = "trace" =>
    /\ asked.inside <=> \/ \E i \in 1..Len(map.brushes) : Holds(map.brushes[i], asked.mv.start)
                        \/ \E e \in Ents : ent[e].linked /\ ent[e].solid = "bbox"
                             /\ Holds(HullForEntity(e).brushes[1], Seen(e, asked.mv).start)
    /\ \A type \in {"solid", "trigger"} :
      LET lo == Sum2(asked.mv.start, asked.mv.mins)
          hi == Sum2(asked.mv.start, asked.mv.maxs)
      IN ToSet(AreaEdicts(lo, hi, type, Cardinality(Ents)))
         = {e \in Ents : ent[e].linked /\ ent[e].solid = (IF type = "solid" THEN "bbox" ELSE "trigger") /\ Touches(e, lo, hi)}

(* Who sees a cluster sees every entity that touches it, also one in too many to list. *)
SeenWhereItIs ==
  asked = NoTrace =>
  \A e \in Ents : ent[e].linked =>
    \A i \in 1..Len(BoxLeafnums(map, 0, ent[e].absmin, ent[e].absmax, 1024).leafs) :
      LET c == map.leafs[BoxLeafnums(map, 0, ent[e].absmin, ent[e].absmax, 1024).leafs[i]].cluster
      IN c # -1 => Shown(e, {c})

(* Where things are, for traces, searches and frames, is where they were linked.                    *)
TracesAreExact == TreeFindsAll /\ NearestHit /\ NeverInside /\ SearchIsExact /\ SeenWhereItIs
=============================================================================
