------------------------------ MODULE RedBlack ------------------------------
(***************************************************************************)
(* The balanced trees of redblack.c, pointer by pointer, under the         *)
(* commands, aliases, variables, the file cache and the paks. One          *)
(* iteration of the loops that restore the balance is one step, so the     *)
(* tree is seen half-way. RB_Purge of files.c, which deletes what it reads *)
(* through an open list, is here too. A tree is one record of links; node  *)
(* Null is the sentinel RBNULL, whose up link is written by deletions.     *)
(***************************************************************************)
EXTENDS Integers, FiniteSets

CONSTANTS Keys,   \* what is stored: integers, for strcmp's order
          Nodes,  \* the nodes memory has
          Null    \* RBNULL

ASSUME RbAssumption == Keys \subseteq Int /\ Null \notin Nodes

VARIABLES tree,    \* the links
          at,      \* x of the loop under way
          rbPc,    \* where the operation under way stands
          nextp,   \* rblistp->nextp of the purge under way
          purging
rbVars == <<tree, at, rbPc, nextp, purging>>

Sides == {"left", "right"}
Other(s) == IF s = "left" THEN "right" ELSE "left"

Linked(t) ==   \* the nodes that can be reached from the root
  LET Grow[n \in 0..Cardinality(Nodes)] ==
        IF n = 0 THEN {t.root} \ {Null}
        ELSE UNION {{x, t.ch[x].left, t.ch[x].right} : x \in Grow[n-1]} \ {Null}
  IN Grow[Cardinality(Nodes)]

(* rbinit; the sentinel's links all point at itself. *)
Empty ==
  [root |-> Null, ch |-> [x \in Nodes \union {Null} |-> [s \in Sides |-> Null]],
   up |-> [x \in Nodes \union {Null} |-> Null], red |-> [x \in Nodes \union {Null} |-> FALSE],
   key |-> [x \in Nodes |-> CHOOSE k \in Keys : TRUE]]

RbInit == tree = Empty /\ at = Null /\ rbPc = "idle" /\ nextp = Null /\ purging = FALSE

SideOf(t, x) == IF t.ch[t.up[x]].left = x THEN "left" ELSE "right"

(* Puts y where x is below its parent; the parent of y is set by the caller. *)
Replace(t, x, y) ==
  IF t.up[x] = Null THEN [t EXCEPT !.root = y] ELSE [t EXCEPT !.ch[t.up[x]][SideOf(t, x)] = y]

(* rb_left_rotate for s = "left", rb_right_rotate for s = "right". *)
Rotate(t, s, x) ==
  LET o == Other(s)
      y == t.ch[x][o]
      b == t.ch[y][s]
      moved == [t EXCEPT !.ch[x][o] = b, !.up[b] = IF b # Null THEN x ELSE @, !.up[y] = t.up[x]]
  IN [Replace(moved, x, y) EXCEPT !.ch[y][s] = x, !.up[x] = y]

Colour(t, x, red) == [t EXCEPT !.red[x] = red]

(* The descent of rb_traverse: the node with the key or Null, and the last one passed. *)
Descend(t, k) ==
  LET Go[n \in 0..Cardinality(Nodes)] ==
        IF n = 0 THEN [x |-> t.root, y |-> Null]
        ELSE LET p == Go[n-1] IN
             IF p.x = Null \/ t.key[p.x] = k THEN p
             ELSE [x |-> t.ch[p.x][IF k < t.key[p.x] THEN "left" ELSE "right"], y |-> p.x]
  IN Go[Cardinality(Nodes)]

-----------------------------------------------------------------------------
(* Successor for s = "right", predecessor for s = "left". *)

Extreme(t, x, s) ==
  LET Go[n \in 0..Cardinality(Nodes)] ==
        IF n = 0 THEN x ELSE LET y == Go[n-1] IN IF t.ch[y][s] = Null THEN y ELSE t.ch[y][s]
  IN Go[Cardinality(Nodes)]

Neighbour(t, x, s) ==
  LET Climb[n \in 0..Cardinality(Nodes)] ==
        IF n = 0 THEN [x |-> x, y |-> t.up[x]]
        ELSE LET p == Climb[n-1] IN
             IF p.y = Null \/ p.x # t.ch[p.y][s] THEN p ELSE [x |-> p.y, y |-> t.up[p.y]]
  IN IF t.ch[x][s] # Null THEN Extreme(t, t.ch[x][s], Other(s)) ELSE Climb[Cardinality(Nodes)].y

Successor(t, x) == Neighbour(t, x, "right")

(* rb_lookup; y and cmp are those of the last comparison of the descent. *)
Lookup(t, mode, k) ==
  LET d == Descend(t, k)
      found == d.x # Null
      below == d.y # Null /\ k < t.key[d.y]
      above == d.y # Null /\ k > t.key[d.y]
  IN CASE mode = "FIRST" -> IF t.root = Null THEN Null ELSE Extreme(t, t.root, "left")
       [] mode = "LAST" -> IF t.root = Null THEN Null ELSE Extreme(t, t.root, "right")
       [] mode = "EQUAL" -> d.x
       [] mode \in {"GTEQ", "LTEQ"} /\ found -> d.x
       [] mode \in {"NEXT", "PREV"} /\ ~found -> Null
       [] mode \in {"GTEQ", "GREAT"} /\ ~found -> IF above THEN Neighbour(t, d.y, "right") ELSE d.y
       [] mode \in {"LTEQ", "LESS"} /\ ~found -> IF below THEN Neighbour(t, d.y, "left") ELSE d.y
       [] mode \in {"NEXT", "GREAT"} /\ found -> Neighbour(t, d.x, "right")
       [] mode \in {"PREV", "LESS"} /\ found -> Neighbour(t, d.x, "left")
Modes == {"FIRST", "LAST", "EQUAL", "GTEQ", "LTEQ", "GREAT", "LESS", "NEXT", "PREV"}

-----------------------------------------------------------------------------
(* rbsearch: a missing key gets a red leaf, and the loop climbs from it. *)
Search(k, z) ==
  LET d == Descend(tree, k)
      linked == IF d.y = Null THEN [tree EXCEPT !.root = z]
                ELSE [tree EXCEPT !.ch[d.y][IF k < tree.key[d.y] THEN "left" ELSE "right"] = z]
  IN /\ rbPc = "idle" /\ ~purging
     /\ d.x = Null /\ z \notin Linked(tree)
     /\ tree' = [linked EXCEPT !.key[z] = k, !.up[z] = d.y, !.red[z] = TRUE,
                               !.ch[z] = [s \in Sides |-> Null]]
     /\ at' = z /\ rbPc' = "insfix"
     /\ UNCHANGED <<nextp, purging>>

Raise(t, x) ==   \* one iteration: recolour and climb, or rotate
  LET p == t.up[x]
      g == t.up[p]
      s == SideOf(t, p)
      y == t.ch[g][Other(s)]
      inner == x = t.ch[p][Other(s)]
      x1 == IF inner THEN p ELSE x
      t1 == IF inner THEN Rotate(t, s, p) ELSE t
      g1 == t1.up[t1.up[x1]]
  IN IF t.red[y]
     THEN [t |-> Colour(Colour(Colour(t, p, FALSE), y, FALSE), g, TRUE), x |-> g]
     ELSE [t |-> Rotate(Colour(Colour(t1, t1.up[x1], FALSE), g1, TRUE), Other(s), g1), x |-> x1]

InsertFix ==
  /\ rbPc = "insfix"
  /\ IF at # tree.root /\ tree.red[tree.up[at]]
     THEN LET r == Raise(tree, at) IN tree' = r.t /\ at' = r.x /\ UNCHANGED rbPc
     ELSE tree' = Colour(tree, tree.root, FALSE) /\ at' = Null /\ rbPc' = "idle"
  /\ UNCHANGED <<nextp, purging>>

(* rb_delete: y leaves the tree and the key it held moves to z. *)
Unlink(t, z) ==
  LET y == IF t.ch[z].left = Null \/ t.ch[z].right = Null THEN z ELSE Successor(t, z)
      x == IF t.ch[y].left # Null THEN t.ch[y].left ELSE t.ch[y].right
      cut == Replace([t EXCEPT !.up[x] = t.up[y]], y, x)
  IN [t |-> [cut EXCEPT !.key[z] = t.key[y]], x |-> x, y |-> y]

Free(t, y) == [t EXCEPT !.ch[y] = Empty.ch[y], !.up[y] = Null, !.red[y] = FALSE, !.key[y] = Empty.key[y]]

DropKey(z) ==
  LET u == Unlink(tree, z)
      black == ~tree.red[u.y]
  IN /\ tree' = Free(u.t, u.y)
     /\ at' = IF black THEN u.x ELSE Null
     /\ rbPc' = IF black THEN "delfix" ELSE "idle"

RbDelete(k) ==
  LET z == Descend(tree, k).x
  IN rbPc = "idle" /\ ~purging /\ z # Null /\ DropKey(z) /\ UNCHANGED <<nextp, purging>>

Lower(t, x) ==   \* one iteration of rb_delete_fix, for a black node too few below x
  LET s == SideOf(t, x)
      o == Other(s)
      p == t.up[x]
      w0 == t.ch[p][o]
      t1 == IF t.red[w0] THEN Rotate(Colour(Colour(t, w0, FALSE), p, TRUE), s, p) ELSE t
      w1 == t1.ch[t1.up[x]][o]
      near == t1.ch[w1][s]
      far == t1.ch[w1][o]
      t2 == IF ~t1.red[far] THEN Rotate(Colour(Colour(t1, near, FALSE), w1, TRUE), o, w1) ELSE t1
      w2 == t2.ch[t2.up[x]][o]
      t3 == Colour(Colour([t2 EXCEPT !.red[w2] = t2.red[t2.up[x]]], t2.up[x], FALSE), t2.ch[w2][o], FALSE)
      t4 == Rotate(t3, s, t3.up[x])
  IN IF ~t1.red[near] /\ ~t1.red[far] THEN [t |-> Colour(t1, w1, TRUE), x |-> t1.up[x]]
                                      ELSE [t |-> t4, x |-> t4.root]

MutDeleteFix ==   \* the node the loop ends at stays red
  /\ rbPc = "delfix"
  /\ IF at # tree.root /\ ~tree.red[at]
     THEN LET r == Lower(tree, at) IN tree' = r.t /\ at' = r.x /\ UNCHANGED rbPc
     ELSE at' = Null /\ rbPc' = "idle" /\ UNCHANGED tree
  /\ UNCHANGED <<nextp, purging>>
DeleteFix ==
  /\ rbPc = "delfix"
  /\ IF at # tree.root /\ ~tree.red[at]
     THEN LET r == Lower(tree, at) IN tree' = r.t /\ at' = r.x /\ UNCHANGED rbPc
     ELSE tree' = Colour(tree, at, FALSE) /\ at' = Null /\ rbPc' = "idle"
  /\ UNCHANGED <<nextp, purging>>

-----------------------------------------------------------------------------
(* RB_Purge: rbopenlist, then read and delete until the list is at its end. *)
OpenList ==
  /\ rbPc = "idle" /\ ~purging
  /\ purging' = TRUE /\ nextp' = Extreme(tree, tree.root, "left")
  /\ UNCHANGED <<tree, at, rbPc>>

PurgeOne ==
  /\ rbPc = "idle" /\ purging /\ nextp # Null
  /\ nextp' = Successor(tree, nextp)
  /\ DropKey(Descend(tree, tree.key[nextp]).x)
  /\ UNCHANGED purging

(* rbdestroy frees what is still linked, and FS_InitCache makes a new tree. *)
CloseList ==
  /\ rbPc = "idle" /\ purging /\ nextp = Null
  /\ tree' = Empty /\ purging' = FALSE
  /\ UNCHANGED <<at, rbPc, nextp>>

(* Which free place a new node gets is left to the memory: nodes are only told apart. *)
NewNode == CHOOSE z \in Nodes : z \notin Linked(tree)
RbNext == InsertFix \/ DeleteFix \/ OpenList \/ PurgeOne \/ CloseList
          \/ \E k \in Keys : RbDelete(k) \/ (Linked(tree) # Nodes /\ Search(k, NewNode))
RbSpec == RbInit /\ [][RbNext]_rbVars

-----------------------------------------------------------------------------
KeysOf(t) == {t.key[x] : x \in Linked(t)}
Below(t, x, s) == IF t.ch[x][s] = Null THEN {} ELSE Linked([t EXCEPT !.root = t.ch[x][s]])

(* Black nodes on the leftmost path from x. *)
Height(t, x) == Cardinality({y \in Linked([t EXCEPT !.root = x]) :
   /\ ~t.red[y]
   /\ Extreme(t, y, "left") = Extreme(t, x, "left")})

(* The rules the comment of redblack.c lists, between two operations: no red
   node has a red child, and every path has the same number of black nodes. *)
Balanced == rbPc = "idle" =>
  /\ ~tree.red[tree.root] /\ ~tree.red[Null]
  /\ \A x \in Linked(tree) :
       /\ tree.red[x] => \A s \in Sides : ~tree.red[tree.ch[x][s]]
       /\ LET H(s) == IF tree.ch[x][s] = Null THEN 0 ELSE Height(tree, tree.ch[x][s])
          IN H("left") = H("right")

(* Half-way through a rotation chain too, the links form one search tree: every
   node is its children's parent, and a subtree lies on one side of its root. *)
SearchTree ==
  /\ tree.root # Null => tree.up[tree.root] = Null
  /\ \A x \in Linked(tree) : \A s \in Sides :
       /\ tree.ch[x][s] # Null => tree.up[tree.ch[x][s]] = x
       /\ \A y \in Below(tree, x, s) : IF s = "left" THEN tree.key[y] < tree.key[x]
                                                     ELSE tree.key[y] > tree.key[x]

(* A list that is read while its entries are deleted never stands on a freed
   node, and when it ends nothing is left in the tree: no cached file leaks. *)
PurgeIsComplete == purging =>
  IF nextp = Null THEN rbPc = "idle" => tree.root = Null
  ELSE nextp \in Linked(tree) /\ \A x \in Linked(tree) : tree.key[nextp] <= tree.key[x]

(* Every mode of rblookup gives the key the order of the set says. *)
LookupsAgree == rbPc = "idle" =>
  LET L == Linked(tree)
      K == KeysOf(tree)
      Sought(mode, k) ==
        CASE mode \in {"FIRST", "LAST"} -> K
          [] mode = "EQUAL" -> K \intersect {k}
          [] mode = "GTEQ" -> {j \in K : j >= k}
          [] mode = "LTEQ" -> {j \in K : j <= k}
          [] mode = "GREAT" \/ (mode = "NEXT" /\ k \in K) -> {j \in K : j > k}
          [] mode = "LESS" \/ (mode = "PREV" /\ k \in K) -> {j \in K : j < k}
          [] OTHER -> {}
      First(mode) == mode \in {"FIRST", "EQUAL", "GTEQ", "GREAT", "NEXT"}
  IN \A mode \in Modes, k \in Keys :
       LET S == Sought(mode, k)
           n == Lookup(tree, mode, k)
       IN IF S = {} THEN n = Null
          ELSE n \in L /\ tree.key[n] \in S
               /\ \A j \in S : IF First(mode) THEN tree.key[n] <= j ELSE tree.key[n] >= j

(* The tree is a set of keys to its callers: a step adds one key, or takes one
   away, or changes only the shape. *)
Set == INSTANCE KeySet WITH keys <- KeysOf(tree), Keys <- Keys
IsKeySet == Set!KsSpec

(* It is the key the caller named that comes or goes, though a deletion may free
   another node than the one that held it. *)
AsAsked == [][rbPc = "idle" /\ ~purging /\ tree' # tree =>
  LET before == KeysOf(tree)
      after == KeysOf(tree)'
  IN \A k \in Keys :
       /\ after = before \ {k} \/ ~RbDelete(k)
       /\ after = before \union {k} \/ Linked(tree) = Nodes \/ ~Search(k, NewNode)]_rbVars
=============================================================================
