------------------------------ MODULE MCLevel ------------------------------
(***************************************************************************)
(* What a level is made of, for TLC: a behaviour is about one of Parts, and  *)
(* the others stay as they start.                                          *)
(***************************************************************************)
EXTENDS World, MapLoad, Indexes, Savegames, Files, Zone, TLC

CONSTANT Parts
VARIABLE part
levelVars == <<wdVars, mlVars, ixVars, sgVars, fsVars, zVars, part>>

Init ==
  /\ part \in Parts
  /\ WdInit /\ IxInit /\ SgInit /\ FsInit
  /\ MlInit /\ (part = "maps" \/ (flushmap = FALSE /\ override = [n \in MapNames |-> NoFile]))
  /\ ZInit /\ (part = "zone" \/ ~zdebug)
Next ==
  \/ part = "world" /\ WdNext /\ UNCHANGED <<mlVars, ixVars, sgVars, fsVars, zVars, part>>
  \/ part = "maps" /\ MlNext /\ UNCHANGED <<wdVars, ixVars, sgVars, fsVars, zVars, part>>
  \/ part = "indexes" /\ IxNext /\ UNCHANGED <<wdVars, mlVars, sgVars, fsVars, zVars, part>>
  \/ part = "saves" /\ SgNext /\ UNCHANGED <<wdVars, mlVars, ixVars, fsVars, zVars, part>>
  \/ part = "files" /\ FsNext /\ UNCHANGED <<wdVars, mlVars, ixVars, sgVars, zVars, part>>
  \/ part = "zone" /\ ZNext /\ UNCHANGED <<wdVars, mlVars, ixVars, sgVars, fsVars, part>>
Spec == Init /\ [][Next]_levelVars

-----------------------------------------------------------------------------
(* World *)
U(n) == n * Unit
Plane(axis, d, front, back) == [axis |-> axis, dist |-> U(d), children |-> <<front, back>>]
Air(c) == [solid |-> FALSE, brushes |-> <<>>, cluster |-> c, area |-> 1]
Rock(bs) == [solid |-> TRUE, brushes |-> bs, cluster |-> -1, area |-> 0]
Leaf(i) == -1 - i
(* A room of 16 by 12 with a block in the middle and one at the right wall. *)
TheRoom ==
  [bounds |-> [mins |-> <<U(0), U(0)>>, maxs |-> <<U(16), U(12)>>],
   nodes |-> (0 :> Plane(1, 6, 1, Leaf(1)) @@ 1 :> Plane(1, 10, 4, 2) @@ 2 :> Plane(2, 8, Leaf(2), 3)
              @@ 3 :> Plane(2, 4, Leaf(0), Leaf(3)) @@ 4 :> Plane(2, 4, Leaf(4), 5) @@ 5 :> Plane(1, 12, Leaf(5), Leaf(6))),
   leafs |-> (0 :> Rock(<<1>>) @@ 1 :> Air(0) @@ 2 :> Air(1) @@ 3 :> Air(2) @@ 4 :> Air(3) @@ 5 :> Rock(<<2>>) @@ 6 :> Air(4)),
   brushes |-> <<BoxBrush(<<U(6), U(4)>>, <<U(10), U(8)>>), BoxBrush(<<U(12), U(0)>>, <<U(16), U(4)>>)>>]
TheMaps == {TheRoom}
NoOwner == [e \in Ents |-> IF e = 2 THEN 1 ELSE NoEnt]
Box(w, h) == <<<<-U(w), -U(h)>>, <<U(w), U(h)>>>>
TheSizes == {Box(1, 1)}
TheSpots == {<<U(3), U(8)>>, <<U(8), U(2)>>, <<U(10), U(4)>>}
Probe(x, y, size, axis, dir, len) ==
  [start |-> <<x, y>>, mins |-> size[1], maxs |-> size[2], axis |-> axis, dir |-> dir, len |-> len]
TheProbes ==
  {Probe(U(3), U(y), s, 1, 1, U(12)) : y \in {2, 3, 5}, s \in {Box(0, 0), Box(1, 1)}}
  \union {Probe(U(15), U(y), s, 1, -1, U(13)) : y \in {3, 5}, s \in {Box(0, 0), Box(1, 1)}}
  \union {Probe(x, U(10), s, 2, -1, U(9)) : x \in {U(3), U(5) + 2, U(11)}, s \in {Box(0, 0), Box(1, 1)}}
  \union {Probe(U(x), U(y), Box(1, 1), 2, 1, 0) : x \in {3, 5, 8}, y \in {2, 4}}
(* The code of a box is never that of a model of the map, and boxes on multiples of 8 that
   are in range come back as they are. *)
BoxIsCoded == part = "world" /\ asked.kind = "none" /\ (\A e \in Ents : ~ent[e].linked) =>
  \A z \in Boxes : LET c == PackSolid(z[1], z[2], z[3]) IN
    /\ c # 31
    /\ (\A i \in 1..3 : z[i] % 8 = 0) /\ z[1] \in 8..248 /\ z[2] \in 8..248 /\ z[3] \in -24..472 => UnpackSolid(c) = z

(* Where things are, for traces, frames and the client's own prediction. *)
WorldIsExact == TracesAreExact /\ BoxIsCoded

(* Sizes of boxes, as <<half width, below, above>> *)
SomeSizes == {0, 4, 8, 16, 32, 248, 256} \X {0, 8, 24, 256} \X {-32, -8, 0, 4, 32, 472, 480}

-----------------------------------------------------------------------------
(* MapLoad and Sight *)
BspOf(id) == [id |-> id, surfaces |-> 3, leafs |-> 4, solidleaf |-> TRUE, emptyleaf |-> TRUE, leafbrushes |-> 2, planes |-> 4,
             planetypes |-> TRUE, brushes |-> 2, brushsides |-> 8, texinfo |-> 2, models |-> 1, nodes |-> 3, areas |-> 4,
             areaportals |-> 4, visibility |-> 5, entities |-> 9]
(* Two good maps, one with a table too large in the middle, a name that is only an override's. *)
TheFiles == [n \in {"dm", "town", "big", "dm-noguns"} |->
  CASE n = "dm" -> BspOf("dm") [] n = "town" -> BspOf("town")
    [] n = "big" -> [BspOf("big") EXCEPT !.areas = 99] [] n = "dm-noguns" -> NoFile]
TheOverrides == [n \in DOMAIN TheFiles |-> IF n = "dm-noguns" THEN {NoFile, [source |-> "dm", ents |-> "noguns"]} ELSE {NoFile}]
OneOverride == [n \in DOMAIN TheFiles |-> IF n = "town" THEN {NoFile, [source |-> "town", ents |-> "busy"]} ELSE {NoFile}]
Both(n, a, b) == <<[num |-> n, area |-> a, other |-> b], [num |-> n, area |-> b, other |-> a]>>
ThePortals == [n \in DOMAIN TheFiles |->
  CASE n = "dm" -> Both(1, 1, 2) \o Both(2, 2, 3) \o Both(3, 3, 1) [] n = "town" -> Both(1, 2, 3) \o Both(2, 2, 3)
    [] OTHER -> <<>>]
TheLeafs == <<[cluster |-> 0, area |-> 1], [cluster |-> 1, area |-> 2], [cluster |-> 2, area |-> 3], [cluster |-> -1, area |-> 0]>>
ThePvs == (0 :> {0, 1} @@ 1 :> {0, 1, 2} @@ 2 :> {1, 2})
ThePhs == (0 :> {0, 1, 2} @@ 1 :> {0, 1, 2} @@ 2 :> {0, 1, 2})

(* The rows of a map file, by the rule they are written with: the compressor is external. *)
RECURSIVE Compress(_)
Compress(row) ==
  IF row = <<>> THEN <<>>
  ELSE IF row[1] # 0 THEN <<row[1]>> \o Compress(Tail(row))
  ELSE LET zeros == CHOOSE n \in 1..Len(row) : (\A i \in 1..n : row[i] = 0) /\ (n = Len(row) \/ row[n+1] # 0)
       IN <<0, zeros>> \o Compress(SubSeq(row, zeros + 1, Len(row)))
(* A row comes back as it was, also if the zeros at its end run on into the next one. *)
RowsComeBack ==
  part = "maps" /\ level = NoMap /\ loads = 0 => \A n \in 1..4 : \A row \in [1..n -> {0, 1, 255}] : \A cut \in 1..n :
    /\ DecompressVis(Compress(row), n) = row
    /\ DecompressVis(Compress(row), cut) = SubSeq(row, 1, cut)

(* A sound that is to arrive is not sent by datagram, and one that is for all is sent to all. *)
Sounds == [nophs : BOOLEAN, pvs : BOOLEAN, fades : BOOLEAN, attncalc : BOOLEAN, curse : BOOLEAN, nocurse : BOOLEAN, reliable : BOOLEAN]
Listeners == [noents : BOOLEAN, near : BOOLEAN, nocurse : BOOLEAN]
SoundsArrive ==
  part = "maps" /\ level # NoMap /\ loads = 1 => \A s \in Sounds, c \in Listeners, p, q \in DOMAIN Leafs :
    /\ StartSound(s, c, p, q) = "datagram" => ~s.reliable \/ s.nophs
    /\ (s.nophs \/ ~s.fades) /\ ~s.curse => StartSound(s, c, p, q) # "none"
    /\ StartSound(s, c, p, q) # "none" /\ ~s.nophs /\ s.fades => Leafs[q].area \in Joined[Leafs[p].area]

-----------------------------------------------------------------------------
(* Indexes *)
LowerOf == ("gun.mdx" :> "gun.mdx" @@ "GUN.mdx" :> "gun.mdx" @@ "hat.mdx" :> "hat.mdx" @@ "fry.wav" :> "fry.wav"
            @@ "pic.tga" :> "pic.tga" @@ "mod.dll" :> "mod.dll" @@ "box.mdx" :> "box.mdx")
KindOf == ("gun.mdx" :> "model" @@ "hat.mdx" :> "model" @@ "box.mdx" :> "model" @@ "fry.wav" :> "sound" @@ "pic.tga" :> "image"
           @@ "mod.dll" :> "other" @@ "gun.tga" :> "other")
Plain == [skins |-> <<>>, exe |-> FALSE, inpak |-> FALSE, listed |-> TRUE]
FileOf == ("gun.mdx" :> [Plain EXCEPT !.skins = <<"gun.tga", "pic.tga">>] @@ "hat.mdx" :> [Plain EXCEPT !.skins = <<"gun.tga">>]
           @@ "box.mdx" :> Plain @@ "fry.wav" :> [Plain EXCEPT !.listed = FALSE] @@ "pic.tga" :> Plain
           @@ "mod.dll" :> [Plain EXCEPT !.exe = TRUE] @@ "gun.tga" :> [Plain EXCEPT !.inpak = TRUE])
TheSkins == {<<1, 1, 2>>, <<1, 2, 1>>, <<2, 1, 1>>}
TheDefault == <<"\\", "m", "/", "d", " ", "d">>
TheTexts == {<<>>} \union [1..2 -> {"a", "\\", "!"}]
            \union {<<"a", "\\", "b">> \o s : s \in [1..4 -> {"b", "/", " "}] \union [1..2 -> {"/", "\\"}]}

(* A level that runs is one map, doors and rows of its visibility included, and what is heard is
   what is meant to be. *)
LevelIsWhole == LevelIsOneMap /\ RowsComeBack /\ SoundsArrive

-----------------------------------------------------------------------------
(* Files *)
SomeLower(f) == IF f = "A" THEN "a" ELSE f
SomePaks(d) ==
  IF d = "main" THEN {[num |-> 2, plain |-> TRUE, holds |-> {"a"}]}
  ELSE {[num |-> 10, plain |-> TRUE, holds |-> {"a"}], [num |-> 9, plain |-> TRUE, holds |-> {"a", "b"}],
        [num |-> 9, plain |-> FALSE, holds |-> {"b"}], [num |-> 3, plain |-> FALSE, holds |-> {"b"}]}
SomeLoose == {<<"mod", "A">>, <<"mod", "b">>, <<"main", "a">>}
SomeLinks == {[from |-> "b", to |-> "a"], [from |-> "b", to |-> "A"]}

-----------------------------------------------------------------------------
(* Zone *)
SubObjectsOf == [m \in Models |-> 1]
(* Places of the heap are alike, but for that of the first block. *)
Alike == Permutations(Addr \ {Oldest})

-----------------------------------------------------------------------------
(* Savegames: two saves are followed further only if they are of different games. *)
OtherGame == saves["s1"] # Wiped /\ saves["s2"] # Wiped => saves["s1"].game # saves["s2"].game
=============================================================================
