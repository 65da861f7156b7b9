----------------------------- MODULE Collision -----------------------------
(***************************************************************************)
(* Traces of a box through a tree of planes whose leafs list the brushes in     *)
(* them (cmodel.c). Space has two axes, planes are axial and moves go along   *)
(* one axis, so that a fraction of a move is the distance travelled and all    *)
(* numbers are integers: the unit of length is DIST_EPSILON, 1/32.            *)
(***************************************************************************)
EXTENDS Integers, Sequences, FiniteSets, SequencesExt

CONSTANTS Maps          \* [nodes, leafs, brushes]: nodes and leafs are functions from 0
Axes == {1, 2}
Unit == 32
Epsilon == 1

(* A move of a box: [start, mins, maxs, axis, dir, len]; where it is after distance d. *)
PointAt(mv, d) == [mv.start EXCEPT ![mv.axis] = @ + mv.dir * d]
IsPoint(mv) == mv.len > 0 /\ mv.mins = <<0, 0>> /\ mv.maxs = <<0, 0>>
Larger(a, b) == IF a > b THEN a ELSE b
Clamp(d, hi) == IF d < 0 THEN 0 ELSE IF d > hi THEN hi ELSE d
Extent(mv, a) == IF IsPoint(mv) THEN 0 ELSE Larger(-mv.mins[a], mv.maxs[a])

(* A brush is a sequence of sides [axis, sign, dist], solid where sign * x <= dist. *)
BoxBrush(mins, maxs) == <<[axis |-> 1, sign |-> 1, dist |-> maxs[1]], [axis |-> 1, sign |-> -1, dist |-> -mins[1]],
                          [axis |-> 2, sign |-> 1, dist |-> maxs[2]], [axis |-> 2, sign |-> -1, dist |-> -mins[2]]>>
(* How far a side is from the box at p, the plane pushed out by the box. *)
Ahead(mv, side, p) ==
  LET ofs == IF side.sign < 0 THEN mv.maxs[side.axis] ELSE mv.mins[side.axis]
  IN side.sign * p[side.axis] - (side.dist - side.sign * ofs)

-----------------------------------------------------------------------------
(* CM_ClipBoxToBrush: enters at the last side crossed inwards, leaves at the first one
   crossed outwards. *)
Crossings(mv, brush) ==
  FoldLeft(LAMBDA c, side :
     LET d1 == Ahead(mv, side, mv.start)
         d2 == Ahead(mv, side, PointAt(mv, mv.len))
         d == [c EXCEPT !.getout = @ \/ d2 > 0, !.startout = @ \/ d1 > 0]
     IN IF d.miss \/ (d1 > 0 /\ d2 >= d1) THEN [d EXCEPT !.miss = TRUE]
        ELSE IF d1 <= 0 /\ d2 <= 0 THEN d
        ELSE IF d1 > d2 THEN [d EXCEPT !.enter = Larger(@, d1 - Epsilon)]
        ELSE [d EXCEPT !.leave = IF -(d1 + Epsilon) < @ THEN -(d1 + Epsilon) ELSE @],
     [miss |-> FALSE, getout |-> FALSE, startout |-> FALSE, enter |-> -mv.len, leave |-> mv.len], brush)
ClipBoxToBrush(mv, t, b) ==
  LET c == Crossings(mv, b) IN
  IF c.miss THEN t
  ELSE IF ~c.startout THEN [t EXCEPT !.startsolid = TRUE, !.allsolid = @ \/ ~c.getout]
  ELSE IF c.enter < c.leave /\ c.enter > -mv.len /\ c.enter < t.dist
  THEN [t EXCEPT !.dist = Larger(c.enter, 0)]
  ELSE t
(* CM_TestBoxInBrush *)
TestBoxInBrush(mv, t, b) ==
  IF \E i \in 1..Len(b) : Ahead(mv, b[i], mv.start) > 0 THEN t
  ELSE [t EXCEPT !.startsolid = TRUE, !.allsolid = TRUE, !.dist = 0]

(* CM_TraceToLeaf, CM_TestInLeaf: a brush is looked at once, nothing more after a hit at once.
   The test of a position is a move of no length. *)
NewTrace(mv) == [dist |-> mv.len, startsolid |-> FALSE, allsolid |-> FALSE, checked |-> {}]
Blocked(mv, t) == IF mv.len = 0 THEN t.allsolid ELSE t.dist = 0
InLeaf(m, leaf, mv, t, Test(_, _, _)) ==
  IF ~m.leafs[leaf].solid THEN t
  ELSE FoldLeft(LAMBDA u, b : IF Blocked(mv, u) \/ b \in u.checked THEN u
                              ELSE [Test(mv, u, m.brushes[b]) EXCEPT !.checked = @ \union {b}],
                t, m.leafs[leaf].brushes)
TraceToLeaf(m, leaf, mv, t) == InLeaf(m, leaf, mv, t, ClipBoxToBrush)
TestInLeaf(m, leaf, mv, t) == InLeaf(m, leaf, mv, t, TestBoxInBrush)

(* CM_RecursiveHullCheck, between the distances p1 and p2 of the move *)
RECURSIVE RecursiveHullCheck(_, _, _, _, _, _)
RecursiveHullCheck(m, num, p1, p2, mv, t) ==
  IF t.dist <= p1 THEN t
  ELSE IF num < 0 THEN TraceToLeaf(m, -1 - num, mv, t)
  ELSE LET n  == m.nodes[num]
           t1 == PointAt(mv, p1)[n.axis] - n.dist
           t2 == PointAt(mv, p2)[n.axis] - n.dist
           offset == Extent(mv, n.axis)
           full == p2 - p1
       IN IF t1 >= offset /\ t2 >= offset THEN RecursiveHullCheck(m, n.children[1], p1, p2, mv, t)
          ELSE IF t1 < -offset /\ t2 < -offset THEN RecursiveHullCheck(m, n.children[2], p1, p2, mv, t)
          ELSE LET side == IF t1 < t2 THEN 2 ELSE 1
                   mid  == IF t1 = t2 THEN p2
                           ELSE p1 + Clamp(IF t1 < t2 THEN offset - t1 - Epsilon ELSE t1 + offset + Epsilon, full)
                   mid2 == IF t1 = t2 THEN p1
                           ELSE p1 + Clamp(IF t1 < t2 THEN -(t1 + offset + Epsilon) ELSE t1 - offset - Epsilon, full)
               IN RecursiveHullCheck(m, n.children[3 - side], mid2, p2, mv,
                     RecursiveHullCheck(m, n.children[side], p1, mid, mv, t))

(* CM_BoxLeafnums_r: the leafs a box touches, in order, and the first node that splits it
   (-1: none). BOX_ON_PLANE_SIDE: in front if it is not behind, touching counts as in front. *)
RECURSIVE BoxLeafnumsR(_, _, _, _, _, _)
BoxLeafnumsR(m, num, lo, hi, max, r) ==
  IF num < 0 THEN IF Len(r.leafs) >= max THEN r ELSE [r EXCEPT !.leafs = Append(@, -1 - num)]
  ELSE LET n == m.nodes[num] IN
       IF n.dist <= lo[n.axis] THEN BoxLeafnumsR(m, n.children[1], lo, hi, max, r)
       ELSE IF n.dist >= hi[n.axis] THEN BoxLeafnumsR(m, n.children[2], lo, hi, max, r)
       ELSE BoxLeafnumsR(m, n.children[2], lo, hi, max,
               BoxLeafnumsR(m, n.children[1], lo, hi, max, [r EXCEPT !.topnode = IF @ = -1 THEN num ELSE @]))
BoxLeafnums(m, head, lo, hi, max) == BoxLeafnumsR(m, head, lo, hi, max, [leafs |-> <<>>, topnode |-> -1])

(* CM_PointLeafnum_r *)
RECURSIVE PointLeafnum(_, _, _)
PointLeafnum(m, num, p) ==
  IF num < 0 THEN -1 - num
  ELSE LET n == m.nodes[num] IN PointLeafnum(m, n.children[IF p[n.axis] - n.dist < 0 THEN 2 ELSE 1], p)

(* CM_BoxTrace *)
Grown(p, by) == [a \in Axes |-> p[a] + by]
Sum2(p, q) == [a \in Axes |-> p[a] + q[a]]
BoxTrace(m, head, mv) ==
  IF mv.len = 0
  THEN FoldLeft(LAMBDA t, leaf : IF t.allsolid THEN t ELSE TestInLeaf(m, leaf, mv, t), NewTrace(mv),
         BoxLeafnums(m, head, Grown(Sum2(mv.start, mv.mins), -Unit), Grown(Sum2(mv.start, mv.maxs), Unit), 1024).leafs)
  ELSE RecursiveHullCheck(m, head, 0, mv.len, mv, NewTrace(mv))

-----------------------------------------------------------------------------
(* CM_InitBoxHull, CM_HeadnodeForBox: the hull of an entity is a tree too; its sides
   alternate between the upper and the lower bound of an axis, the rest is empty. *)
InitBoxHull(mins, maxs) ==
  [nodes |-> [i \in 0..3 |->
      LET a == i \div 2 + 1
          upper == i % 2 = 0
          inner == IF i # 3 THEN i + 1 ELSE -1 - 1
      IN [axis |-> a, dist |-> IF upper THEN maxs[a] ELSE mins[a],
          children |-> IF upper THEN <<-1 - 0, inner>> ELSE <<inner, -1 - 0>>]],
   leafs |-> [l \in 0..1 |-> [solid |-> l = 1, brushes |-> IF l = 1 THEN <<1>> ELSE <<>>]],
   brushes |-> <<BoxBrush(mins, maxs)>>]

(* CM_TransformedBoxTrace: against the hull of an entity at origin, which does not turn. *)
TransformedBoxTrace(mv, hull, origin) ==
  BoxTrace(hull, 0, [mv EXCEPT !.start = [a \in Axes |-> @[a] - origin[a]]])

-----------------------------------------------------------------------------
(* What the tree stands for: every brush looked at, in any order. *)
EveryBrush(m, mv) ==
  FoldLeft(LAMBDA t, b : IF mv.len = 0 THEN TestBoxInBrush(mv, t, b) ELSE ClipBoxToBrush(mv, t, b),
           NewTrace(mv), m.brushes)
Result(t) == [dist |-> t.dist, startsolid |-> t.startsolid, allsolid |-> t.allsolid]
Overlaps(mv, d, b) == \A i \in 1..Len(b) : Ahead(mv, b[i], PointAt(mv, d)) < 0
=============================================================================
