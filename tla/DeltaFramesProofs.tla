------------------------- MODULE DeltaFramesProofs -------------------------
(***************************************************************************)
(* Proofs about DeltaFrames, for any number of entities, clients, frames   *)
(* and levels: server and client agree on every frame, as long as no frame *)
(* has more entities than its share of the ring.                           *)
(***************************************************************************)
EXTENDS DeltaFrames, FiniteSetTheorems, TLAPS

----------------------------------------------------------------------------
(* Arithmetic of the ring.                                                 *)

LEMMA Multiples ==
  ASSUME NEW N \in Nat \ {0}, NEW p \in Int, NEW q \in Int, p < q
  PROVE  p * N + N <= q * N
<1>1. PICK d \in Nat : q = p + 1 + d
  <2>1. q - p - 1 \in Nat /\ q = p + 1 + (q - p - 1)
    OBVIOUS
  <2>2. QED
    BY <2>1
<1>2. q * N = p * N + N + d * N
  BY <1>1
<1>3. d * N \in Nat
  BY <1>1
<1>4. QED
  BY <1>2, <1>3

LEMMA Division ==
  ASSUME NEW N \in Int, N > 0, NEW a \in Int
  PROVE  \E q \in Int : a = N * q + (a % N)
OBVIOUS

LEMMA RemainderIs ==
  ASSUME NEW N \in Nat \ {0}, NEW a \in Int, NEW q \in Int, NEW r \in 0 .. N - 1, a = q * N + r
  PROVE  a % N = r
<1> DEFINE s == a % N
<1>1. s \in 0 .. N - 1
  OBVIOUS
<1>2. PICK p \in Int : a = N * p + s
  BY Division
<1> HIDE DEF s
<1>3. ~(p < q) /\ ~(q < p)
  <2>1. ASSUME p < q PROVE FALSE
    BY <1>1, <1>2, <2>1, Multiples
  <2>2. ASSUME q < p PROVE FALSE
    BY <1>1, <1>2, <2>2, Multiples
  <2>3. QED
    BY <2>1, <2>2
<1>4. p = q
  BY <1>3
<1>5. s = r
  BY <1>1, <1>2, <1>4
<1>6. QED
  BY <1>5 DEF s

(* How far an entry of the ring is from a place. *)
LEMMA Distance ==
  ASSUME NEW N \in Nat \ {0}, NEW a \in Int, NEW f \in Int
  PROVE  /\ a - f \in 0 .. N - 1 => ((a % N) - f) % N = a - f
         /\ f - a \in 1 .. N => ((a % N) - f) % N = a - f + N
<1> DEFINE s == a % N
<1>1. s \in 0 .. N - 1
  OBVIOUS
<1>2. PICK p \in Int : a = N * p + s
  <2>1. N \in Int /\ N > 0
    OBVIOUS
  <2>2. QED
    BY <2>1, Division
<1> HIDE DEF s
<1>3. s - f \in Int /\ -p \in Int /\ -p - 1 \in Int
  BY <1>1
<1>4. s - f = (-p) * N + (a - f)
  BY <1>1, <1>2
<1>5. s - f = (-p - 1) * N + (a - f + N)
  BY <1>1, <1>2
<1>6. ASSUME a - f \in 0 .. N - 1 PROVE (s - f) % N = a - f
  BY <1>3, <1>4, <1>6, RemainderIs
<1>7. ASSUME f - a \in 1 .. N PROVE (s - f) % N = a - f + N
  <2>1. a - f + N \in 0 .. N - 1
    BY <1>7
  <2>2. QED
    BY <1>3, <1>5, <2>1, RemainderIs
<1>8. QED
  BY <1>6, <1>7 DEF s

(* Numbers less than N apart have their own places. *)
LEMMA OwnPlace ==
  ASSUME NEW N \in Nat \ {0}, NEW a \in Int, NEW b \in Int, a < b, b - a < N
  PROVE  a % N # b % N
<1>1. SUFFICES ASSUME a % N = b % N PROVE FALSE
  OBVIOUS
<1>2. b - a \in 0 .. N - 1 /\ a - a \in 0 .. N - 1 /\ a - a = 0
  OBVIOUS
<1>3. ((b % N) - a) % N = b - a
  BY <1>2, Distance
<1>4. ((a % N) - a) % N = a - a
  BY <1>2, Distance
<1>5. QED
  BY <1>1, <1>2, <1>3, <1>4

LEMMA RingIs == RingSize \in Nat \ {0} /\ Backup \in Nat \ {0} /\ RingSize = Backup * ((1 + Others) * PerFrame)
<1>1. (1 + Others) * PerFrame \in Nat \ {0}
  <2>1. 1 + Others \in Nat \ {0} /\ PerFrame \in Nat \ {0}
    BY FrameSizes
  <2>2. \A a, b \in Nat \ {0} : a * b \in Nat \ {0}
    OBVIOUS
  <2>3. QED
    BY <2>1, <2>2
<1> DEFINE W == (1 + Others) * PerFrame
<1>2. W \in Nat \ {0} /\ Backup \in Nat \ {0}
  BY <1>1, FrameSizes
<1>3. RingSize = Backup * W
  BY FrameSizes DEF RingSize
<1> HIDE DEF W
<1>4. \A a, b \in Nat \ {0} : a * b \in Nat \ {0}
  OBVIOUS
<1>5. RingSize \in Nat \ {0}
  BY <1>2, <1>3, <1>4
<1>6. QED
  BY <1>2, <1>3, <1>5 DEF W

----------------------------------------------------------------------------
(* Lists of entities: no number but 0 is in a list twice.                  *)
IsList(list, n) ==
  /\ list \in [1 .. n -> Entries]
  /\ \A i, j \in 1 .. n : list[i].number = list[j].number /\ list[i].number # 0 => i = j

Ring == [0 .. RingSize - 1 -> Entries]

(* A list is written at its place in the ring, and nowhere else. *)
LEMMA PutIs ==
  ASSUME NEW r \in Ring, NEW n \in 0 .. RingSize, NEW list \in [1 .. n -> Entries], NEW f \in Nat
  PROVE  /\ Put(r, f, list) \in Ring
         /\ \A a \in f .. f + n - 1 : Put(r, f, list)[Slot(a)] = list[a - f + 1]
         /\ \A a \in Nat : a < f /\ f + n <= a + RingSize => Put(r, f, list)[Slot(a)] = r[Slot(a)]
<1> DEFINE At(k) == ((k - f) % RingSize) + 1
           P == Put(r, f, list)
<1>1. n \in Nat /\ Len(list) = n /\ DOMAIN r = 0 .. RingSize - 1
  BY RingIs DEF Ring
<1>2. P = [k \in 0 .. RingSize - 1 |-> IF At(k) <= n THEN list[At(k)] ELSE r[k]]
  BY <1>1 DEF Put
<1>3. \A k \in 0 .. RingSize - 1 : At(k) \in 1 .. RingSize
  BY RingIs
<1>4. \A a \in Nat : Slot(a) \in 0 .. RingSize - 1
  BY RingIs DEF Slot
<1>5. \A a \in f .. f + n - 1 : At(Slot(a)) = a - f + 1
  BY RingIs, Distance DEF Slot
<1>6. \A a \in Nat : a < f /\ f + n <= a + RingSize => At(Slot(a)) = a - f + RingSize + 1
  BY RingIs, Distance DEF Slot
<1> HIDE DEF P, At
<1>7. P \in Ring
  BY <1>1, <1>2, <1>3 DEF Ring
<1>8. \A a \in f .. f + n - 1 : P[Slot(a)] = list[a - f + 1]
  <2>1. ASSUME NEW a \in f .. f + n - 1 PROVE P[Slot(a)] = list[a - f + 1]
    <3>1. a \in Nat /\ a - f + 1 <= n
      BY <1>1
    <3>2. Slot(a) \in 0 .. RingSize - 1 /\ At(Slot(a)) = a - f + 1
      BY <1>4, <1>5, <3>1
    <3>3. QED
      BY <1>2, <3>1, <3>2
  <2>2. QED
    BY <2>1
<1>9. \A a \in Nat : a < f /\ f + n <= a + RingSize => P[Slot(a)] = r[Slot(a)]
  BY <1>1, <1>2, <1>4, <1>6, RingIs
<1>10. QED
  BY <1>7, <1>8, <1>9 DEF P

(* What a frame has in the ring, as long as its entries stay. *)
LEMMA StoredIs ==
  ASSUME NEW r \in Ring, NEW f \in [first : Nat, num : Nat]
  PROVE  /\ Stored(r, f) \in [1 .. f.num -> Entries]
         /\ \A i \in 1 .. f.num : Stored(r, f)[i] = r[Slot(f.first + i - 1)]
BY RingIs DEF Stored, Slot, Ring

LEMMA WholeList ==
  ASSUME NEW r \in Ring, NEW f \in [first : Nat, num : Nat], NEW list \in [1 .. f.num -> Entries],
         \A i \in 1 .. f.num : r[Slot(f.first + i - 1)] = list[i]
  PROVE  Stored(r, f) = list
BY StoredIs

----------------------------------------------------------------------------
(* Entities in the order of their numbers.                                 *)

(* The numbers of a finite set have the ranks from 0 on. *)
LEMMA RankIs ==
  ASSUME NEW S \in SUBSET Int, IsFiniteSet(S)
  PROVE  /\ Cardinality(S) \in Nat
         /\ \A n \in S : Rank(S, n) \in 0 .. Cardinality(S) - 1
         /\ \A m, n \in S : m < n => Rank(S, m) < Rank(S, n)
         /\ \A k \in 0 .. Cardinality(S) - 1 : \E n \in S : Rank(S, n) = k
<1> DEFINE Less(n) == {m \in S : m < n}
           C == Cardinality(S)
           rank == [n \in S |-> Rank(S, n)]
<1>1. C \in Nat
  BY FS_CardinalityType
<1>2. \A n \in S : IsFiniteSet(Less(n)) /\ Cardinality(Less(n)) \in Nat /\ Rank(S, n) = Cardinality(Less(n))
  BY FS_Subset, FS_CardinalityType DEF Rank
<1>3. ASSUME NEW n \in S PROVE Rank(S, n) \in 0 .. C - 1
  <2>1. Less(n) \in SUBSET S /\ Less(n) # S
    BY <1>3
  <2>2. Cardinality(Less(n)) <= C /\ Cardinality(Less(n)) # C
    BY <2>1, FS_Subset
  <2>3. QED
    BY <1>1, <1>2, <2>2
<1>4. ASSUME NEW m \in S, NEW n \in S, m < n PROVE Rank(S, m) < Rank(S, n)
  <2>1. Less(m) \in SUBSET Less(n) /\ m \in Less(n) /\ m \notin Less(m)
    <3>1. m \in Int /\ n \in Int /\ \A k \in S : k \in Int
      OBVIOUS
    <3>2. ~(m < m) /\ \A k \in S : k < m => k < n
      BY <1>4, <3>1
    <3>3. QED
      BY <1>4, <3>2
  <2>2. Cardinality(Less(m)) <= Cardinality(Less(n)) /\ Cardinality(Less(m)) # Cardinality(Less(n))
    BY <1>2, <2>1, FS_Subset
  <2>3. QED
    BY <1>2, <2>2
<1>5. IsFiniteSet(0 .. C - 1) /\ Cardinality(0 .. C - 1) = C
  <2>1. 0 \in Int /\ C - 1 \in Int
    BY <1>1
  <2>2. QED
    BY <1>1, <2>1, FS_Interval
<1>6. rank \in Injection(S, 0 .. C - 1)
  <2>1. rank \in [S -> 0 .. C - 1]
    BY <1>3
  <2>2. \A m, n \in S : rank[m] = rank[n] => m = n
    <3>1. ASSUME NEW m \in S, NEW n \in S, m # n PROVE Rank(S, m) # Rank(S, n)
      <4>1. m \in Int /\ n \in Int
        OBVIOUS
      <4>2. m < n \/ n < m
        BY <3>1, <4>1
      <4>3. Rank(S, m) \in Int /\ Rank(S, n) \in Int
        BY <1>3
      <4>4. QED
        BY <1>4, <4>2, <4>3
    <3>2. QED
      BY <3>1
  <2>3. QED
    BY <2>1, <2>2 DEF Injection, IsInjective
<1>7. rank \in Surjection(S, 0 .. C - 1)
  BY <1>5, <1>6, FS_Injection
<1>8. QED
  BY <1>1, <1>3, <1>4, <1>7 DEF Surjection

(* As many numbers as are asked for, or all. *)
LEMMA FirstIs ==
  ASSUME NEW S \in SUBSET Int, IsFiniteSet(S), NEW k \in Nat
  PROVE  /\ First(S, k) \in SUBSET S /\ IsFiniteSet(First(S, k))
         /\ Cardinality(First(S, k)) \in 0 .. k /\ Cardinality(First(S, k)) <= Cardinality(S)
<1> DEFINE F == First(S, k)
           rank == [n \in F |-> Rank(S, n)]
<1>1. F \in SUBSET S /\ \A n \in F : Rank(S, n) \in 0 .. k - 1
  BY RankIs DEF First
<1>2. IsFiniteSet(F) /\ Cardinality(F) <= Cardinality(S) /\ Cardinality(F) \in Nat
  BY <1>1, FS_Subset, FS_CardinalityType
<1>3. rank \in Injection(F, 0 .. k - 1)
  <2>1. rank \in [F -> 0 .. k - 1]
    BY <1>1
  <2>2. ASSUME NEW m \in F, NEW n \in F, m # n PROVE rank[m] # rank[n]
    <3>1. m \in S /\ n \in S /\ m \in Int /\ n \in Int
      BY <1>1
    <3>2. m < n \/ n < m
      BY <2>2, <3>1
    <3>3. Rank(S, m) \in Int /\ Rank(S, n) \in Int
      BY <1>1
    <3>4. QED
      BY <3>1, <3>2, <3>3, RankIs
  <2>3. QED
    BY <2>1, <2>2 DEF Injection, IsInjective
<1>4. IsFiniteSet(0 .. k - 1) /\ Cardinality(0 .. k - 1) = k
  <2>1. 0 \in Int /\ k - 1 \in Int
    OBVIOUS
  <2>2. QED
    BY <2>1, FS_Interval
<1>5. Cardinality(F) <= k
  BY <1>3, <1>4, FS_Injection
<1>6. QED
  BY <1>1, <1>2, <1>5

LEMMA EntryIs ==
  ASSUME NEW n \in 0 .. NumEdicts + 1, NEW s \in 0 .. 9
  PROVE  Entry(n, s) \in Entries /\ Entry(n, s).number = n
BY DEF Entry, Entries

LEMMA InOrderIs ==
  ASSUME NEW S \in SUBSET (1 .. NumEdicts), NEW snap, \A n \in S : snap[n] \in 0 .. 9
  PROVE  /\ IsFiniteSet(S) /\ Cardinality(S) \in Nat
         /\ IsList(InOrder(S, snap), Cardinality(S))
<1>1. IsFiniteSet(S) /\ S \in SUBSET Int /\ Cardinality(S) \in Nat
  <2>1. 1 \in Int /\ NumEdicts \in Int
    BY FrameSizes
  <2>2. IsFiniteSet(1 .. NumEdicts)
    BY <2>1, FS_Interval
  <2>3. S \in SUBSET Int
    BY <2>1
  <2>4. IsFiniteSet(S)
    BY <2>2, FS_Subset
  <2>5. QED
    BY <2>3, <2>4, FS_CardinalityType
<1> DEFINE N == Cardinality(S)
           Nth(i) == CHOOSE m \in S : Rank(S, m) = i - 1
<1>2. ASSUME NEW i \in 1 .. N PROVE Nth(i) \in S /\ Rank(S, Nth(i)) = i - 1
  <2>1. i - 1 \in 0 .. N - 1
    BY <1>1
  <2>2. \E m \in S : Rank(S, m) = i - 1
    BY <1>1, <2>1, RankIs
  <2>3. QED
    BY <2>2
<1>3. InOrder(S, snap) = [i \in 1 .. N |-> Entry(Nth(i), snap[Nth(i)])]
  BY DEF InOrder
<1> HIDE DEF Nth
<1>4. \A i \in 1 .. N : InOrder(S, snap)[i] = Entry(Nth(i), snap[Nth(i)])
  BY <1>3
<1>5. ASSUME NEW i \in 1 .. N PROVE InOrder(S, snap)[i] \in Entries /\ InOrder(S, snap)[i].number = Nth(i)
  <2>1. Nth(i) \in 0 .. NumEdicts + 1 /\ snap[Nth(i)] \in 0 .. 9
    <3>1. Nth(i) \in S
      BY <1>2
    <3>2. Nth(i) \in 1 .. NumEdicts /\ snap[Nth(i)] \in 0 .. 9
      BY <3>1
    <3>3. QED
      BY <3>2, FrameSizes
  <2>2. Entry(Nth(i), snap[Nth(i)]) \in Entries /\ Entry(Nth(i), snap[Nth(i)]).number = Nth(i)
    BY <2>1, EntryIs
  <2>3. QED
    BY <1>4, <2>2
<1>6. ASSUME NEW i \in 1 .. N, NEW j \in 1 .. N, Nth(i) = Nth(j) PROVE i = j
  <2>1. i - 1 = j - 1
    BY <1>2, <1>6
  <2>2. QED
    BY <1>1, <2>1
<1>7. InOrder(S, snap) \in [1 .. N -> Entries]
  BY <1>3, <1>4, <1>5
<1>8. QED
  BY <1>1, <1>5, <1>6, <1>7 DEF IsList

----------------------------------------------------------------------------
(* Deltas.                                                                 *)

(* A delta makes the base into the list. *)
LEMMA DeltaWorks ==
  ASSUME NEW m \in Nat, NEW base, IsList(base, m), NEW n \in Nat, NEW list, IsList(list, n)
  PROVE  Applied(Known(base), Delta(list, base)) = Known(list)
<1>1. ASSUME NEW k \in Nat, NEW l, IsList(l, k), NEW d \in Known(l), NEW e \in Known(l), d.number = e.number
      PROVE  d = e
  <2>1. PICK i \in 1 .. k : d = l[i] /\ l[i].number # 0
    BY <1>1 DEF Known, IsList
  <2>2. PICK j \in 1 .. k : e = l[j] /\ l[j].number # 0
    BY <1>1 DEF Known, IsList
  <2>3. QED
    BY <1>1, <2>1, <2>2 DEF IsList
<1> DEFINE B == Known(base)
           L == Known(list)
           D == Delta(list, base)
<1>2. D.update = L \ B /\ \A x : x \in D.remove <=> (\E e \in B : e.number = x) /\ ~\E e \in L : e.number = x
  BY DEF Delta, Numbers
<1>3. \A d, e \in B : d.number = e.number => d = e
  BY <1>1
<1>4. \A d, e \in L : d.number = e.number => d = e
  BY <1>1
<1> HIDE DEF B, L, D
<1>5. ASSUME NEW e
      PROVE  e \in Applied(B, D) <=> \/ e \in D.update
                                     \/ e \in B /\ e.number \notin D.remove /\ \A u \in D.update : u.number # e.number
  BY DEF Applied
<1>6. ASSUME NEW e \in Applied(B, D) PROVE e \in L
  <2>1. CASE e \in D.update
    BY <1>2, <2>1
  <2>2. CASE e \in B /\ e.number \notin D.remove /\ \A u \in D.update : u.number # e.number
    <3>1. PICK d \in L : d.number = e.number
      BY <1>2, <2>2
    <3>2. d \in B
      BY <1>2, <2>2, <3>1
    <3>3. QED
      BY <1>3, <2>2, <3>1, <3>2
  <2>3. QED
    BY <1>5, <1>6, <2>1, <2>2
<1>7. ASSUME NEW e \in L PROVE e \in Applied(B, D)
  <2>1. CASE e \notin B
    BY <1>2, <1>5, <2>1
  <2>2. CASE e \in B
    <3>1. e.number \notin D.remove
      BY <1>2
    <3>2. ASSUME NEW u \in D.update PROVE u.number # e.number
      BY <1>2, <1>4, <2>2
    <3>3. QED
      BY <1>5, <2>2, <3>1, <3>2
  <2>3. QED
    BY <2>1, <2>2
<1>8. QED
  BY <1>6, <1>7 DEF B, L, D

(* What is left out of a list leaves a list. *)
LEMMA LeftOutIs ==
  ASSUME NEW n \in Nat, NEW list, IsList(list, n), NEW base, NEW limit
  PROVE  IsList(LeftOut(list, base, limit), n)
<1> DEFINE over == Added(list, base) \ First(Added(list, base), limit)
           out == LeftOut(list, base, limit)
<1>1. out = [i \in 1 .. n |-> IF list[i].number \in over THEN [list[i] EXCEPT !.number = 0] ELSE list[i]]
  BY DEF LeftOut, IsList
<1> HIDE DEF over, out
<1>2. ASSUME NEW i \in 1 .. n
      PROVE  out[i] \in Entries /\ (out[i].number = 0 \/ out[i].number = list[i].number)
  <2>1. list[i] \in Entries
    BY DEF IsList
  <2>2. [list[i] EXCEPT !.number = 0] \in Entries /\ [list[i] EXCEPT !.number = 0].number = 0
    BY <2>1, FrameSizes DEF Entries
  <2>3. QED
    BY <1>1, <2>1, <2>2
<1>3. out \in [1 .. n -> Entries]
  BY <1>1, <1>2
<1>4. QED
  BY <1>2, <1>3 DEF IsList, out

LEMMA WrittenIs ==
  ASSUME NEW n \in Nat, NEW list, IsList(list, n), NEW base, NEW room
  PROVE  IsList(Written(list, base, room).list, n)
<1> DEFINE full == Attempt(list, base, NumEdicts + 1)
           half == Attempt(full.list, base, full.limit \div 2)
           none == Attempt(half.list, base, 0)
<1>1. IsList(full.list, n)
  BY LeftOutIs DEF Attempt
<1>2. IsList(half.list, n)
  BY <1>1, LeftOutIs DEF Attempt
<1>3. IsList(none.list, n)
  BY <1>2, LeftOutIs DEF Attempt
<1>4. Written(list, base, room) \in {full, half, none}
  BY DEF Written
<1>5. QED
  BY <1>1, <1>2, <1>3, <1>4

----------------------------------------------------------------------------
(* A frame in the ring.                                                    *)

(* No frame has more than its share of the ring, which svs.num_client_entities is counted with.  *)
FramesFit ==
  /\ \A v \in Views : Cardinality(Visible(v.seen)) <= PerFrame
  /\ OtherSizes \subseteq 0 .. Others * PerFrame

(* The share of all clients together. *)
Share == (1 + Others) * PerFrame

LEMMA ShareIs ==
  /\ Share \in Nat \ {0} /\ RingSize = Backup * Share /\ PerFrame + Others * PerFrame = Share
  /\ Share <= RingSize
<1>1. Share \in Nat \ {0} /\ RingSize = Backup * Share
  <2>1. 1 + Others \in Nat \ {0} /\ PerFrame \in Nat \ {0}
    BY FrameSizes
  <2>2. \A a, b \in Nat \ {0} : a * b \in Nat \ {0}
    OBVIOUS
  <2>3. Share \in Nat \ {0}
    BY <2>1, <2>2 DEF Share
  <2>4. QED
    BY <2>3, RingIs DEF Share
<1>2. PerFrame + Others * PerFrame = Share
  <2>1. \A a, b \in Nat : b + a * b = (1 + a) * b
    OBVIOUS
  <2>2. QED
    BY <2>1, FrameSizes DEF Share
<1>3. 1 * Share + Share <= Backup * Share
  BY <1>1, FrameSizes, Multiples
<1>4. QED
  BY <1>1, <1>2, <1>3

(* Entries from a on outlive a frame that is written at f. *)
Outlives(a, f) == a \in Nat /\ a < f /\ f + Share <= a + RingSize

LEMMA BuildIs ==
  ASSUME FramesFit, NEW v \in Views, NEW r \in Ring, next \in Nat
  PROVE  LET b == Build(r, v.seen, v.behind)
         IN  /\ b.frame.num \in 0 .. PerFrame /\ b.frame.num \in 0 .. FrameLimit
             /\ b.frame = [first |-> next, num |-> b.frame.num]
             /\ b.ring \in Ring /\ IsList(Stored(b.ring, b.frame), b.frame.num)
             /\ \A a : Outlives(a, next) => b.ring[Slot(a)] = r[Slot(a)]
<1> DEFINE D == DOMAIN v.seen
           V == Visible(v.seen)
           U == V \ v.behind
           list == InOrder(V, v.seen)
           kept == InOrder(U, v.seen)
           n == Cardinality(U)
           r1 == Put(r, next, list)
           r2 == Put(r1, next, kept)
<1>1. D \in SUBSET (1 .. NumEdicts) /\ (\A m \in D : v.seen[m] \in 0 .. 9) /\ Cardinality(V) <= PerFrame
  BY FrameSizes DEF FramesFit
<1>2. IsFiniteSet(D) /\ D \in SUBSET Int
  <2>1. 1 \in Int /\ NumEdicts \in Int
    BY FrameSizes
  <2>2. IsFiniteSet(1 .. NumEdicts)
    BY <2>1, FS_Interval
  <2>3. IsFiniteSet(D)
    BY <1>1, <2>2, FS_Subset
  <2>4. QED
    BY <1>1, <2>1, <2>3
<1>3. V \in SUBSET D /\ IsFiniteSet(V) /\ Cardinality(V) \in 0 .. FrameLimit /\ Cardinality(V) <= Cardinality(D)
  <2>1. FrameLimit \in Nat
    BY FrameSizes
  <2>2. QED
    BY <1>2, <2>1, FirstIs DEF Visible
<1>4. U \in SUBSET V /\ n <= Cardinality(V)
  BY <1>3, FS_Subset
<1>5. V \in SUBSET (1 .. NumEdicts) /\ U \in SUBSET (1 .. NumEdicts)
  BY <1>1, <1>3, <1>4
<1>6. (\A m \in V : v.seen[m] \in 0 .. 9) /\ (\A m \in U : v.seen[m] \in 0 .. 9)
  BY <1>1, <1>3, <1>4
<1>7. Cardinality(V) \in Nat /\ n \in Nat /\ IsList(list, Cardinality(V)) /\ IsList(kept, n)
  BY <1>5, <1>6, InOrderIs
<1>8. n \in 0 .. PerFrame /\ n \in 0 .. FrameLimit /\ Cardinality(V) \in 0 .. PerFrame
  <2>1. Cardinality(D) \in Nat /\ PerFrame \in Nat /\ FrameLimit \in Nat
    BY <1>2, FS_CardinalityType, FrameSizes
  <2>2. QED
    BY <1>1, <1>3, <1>4, <1>7, <2>1
<1>9. PerFrame <= Share /\ Share <= RingSize /\ Share \in Nat /\ RingSize \in Nat /\ PerFrame \in Nat
  <2>1. \A a, b \in Nat : a * b \in Nat
    OBVIOUS
  <2>2. Others * PerFrame \in Nat
    BY <2>1, FrameSizes
  <2>3. QED
    BY <2>2, ShareIs, RingIs, FrameSizes
<1> HIDE DEF D, V, U, list, kept, n, r1, r2
<1>10. list \in [1 .. Cardinality(V) -> Entries] /\ kept \in [1 .. n -> Entries]
  BY <1>7 DEF IsList
<1>11. Cardinality(V) \in 0 .. RingSize /\ n \in 0 .. RingSize
  BY <1>8, <1>9
<1>12. r1 \in Ring /\ \A a \in Nat : a < next /\ next + Cardinality(V) <= a + RingSize => r1[Slot(a)] = r[Slot(a)]
  BY <1>10, <1>11, PutIs DEF r1
<1>13. /\ r2 \in Ring
       /\ \A a \in next .. next + n - 1 : r2[Slot(a)] = kept[a - next + 1]
       /\ \A a \in Nat : a < next /\ next + n <= a + RingSize => r2[Slot(a)] = r1[Slot(a)]
  BY <1>10, <1>11, <1>12, PutIs DEF r2
<1>14. ASSUME NEW a, Outlives(a, next) PROVE r2[Slot(a)] = r[Slot(a)]
  <2>1. a \in Nat /\ a < next /\ next + Cardinality(V) <= a + RingSize /\ next + n <= a + RingSize
    BY <1>8, <1>9, <1>14 DEF Outlives
  <2>2. QED
    BY <1>12, <1>13, <2>1
<1> DEFINE f == [first |-> next, num |-> n]
<1>15. Stored(r2, f) = kept
  <2>1. f \in [first : Nat, num : Nat] /\ f.first = next /\ f.num = n
    BY <1>7
  <2>2. ASSUME NEW i \in 1 .. n PROVE r2[Slot(next + i - 1)] = kept[i]
    <3>1. next + i - 1 \in next .. next + n - 1 /\ next + i - 1 - next + 1 = i
      BY <1>7
    <3>2. QED
      BY <1>13, <3>1
  <2> HIDE DEF f
  <2>3. QED
    BY <1>10, <1>13, <2>1, <2>2, WholeList
<1>16. Build(r, v.seen, v.behind) = [frame |-> f, ring |-> r2]
  <2>1. Len(kept) = n
    BY <1>7, <1>10
  <2>2. QED
    BY <2>1 DEF Build, V, U, list, kept, r1, r2
<1>17. QED
  BY <1>7, <1>8, <1>13, <1>14, <1>15, <1>16

(* The frame as it was sent, and those of the other clients. *)
LEMMA WriteIs ==
  ASSUME NEW r \in Ring, NEW f \in Nat, NEW n \in Nat, NEW o, IsList(o, n), NEW m \in Nat, n + m <= Share
  PROVE  LET w == Put(Put(r, f, o), f + n, [i \in 1 .. m |-> Foreign])
         IN  /\ w \in Ring /\ Stored(w, [first |-> f, num |-> n]) = o
             /\ \A a : Outlives(a, f) => w[Slot(a)] = r[Slot(a)]
<1> DEFINE others == [i \in 1 .. m |-> Foreign]
           r1 == Put(r, f, o)
           w == Put(r1, f + n, others)
           frame == [first |-> f, num |-> n]
<1>1. Share \in Nat /\ RingSize \in Nat /\ Share <= RingSize /\ n \in 0 .. RingSize /\ m \in 0 .. RingSize /\ f + n \in Nat
  BY ShareIs, RingIs
<1>2. others \in [1 .. m -> Entries]
  <2>1. NumEdicts + 1 \in 0 .. NumEdicts + 1
    BY FrameSizes
  <2>2. Foreign \in Entries
    BY <2>1, EntryIs DEF Foreign
  <2>3. QED
    BY <2>2
<1>3. o \in [1 .. n -> Entries]
  BY DEF IsList
<1> HIDE DEF others, r1, w
<1>4. /\ r1 \in Ring
      /\ \A a \in f .. f + n - 1 : r1[Slot(a)] = o[a - f + 1]
      /\ \A a \in Nat : a < f /\ f + n <= a + RingSize => r1[Slot(a)] = r[Slot(a)]
  BY <1>1, <1>3, PutIs DEF r1
<1>5. /\ w \in Ring
      /\ \A a \in Nat : a < f + n /\ f + n + m <= a + RingSize => w[Slot(a)] = r1[Slot(a)]
  BY <1>1, <1>2, <1>4, PutIs DEF w
<1>6. Stored(w, frame) = o
  <2>1. frame \in [first : Nat, num : Nat] /\ frame.first = f /\ frame.num = n
    OBVIOUS
  <2>2. Stored(w, frame) \in [1 .. n -> Entries] /\ \A i \in 1 .. n : Stored(w, frame)[i] = w[Slot(f + i - 1)]
    BY <1>5, <2>1, StoredIs
  <2>3. ASSUME NEW i \in 1 .. n PROVE w[Slot(f + i - 1)] = o[i]
    <3>1. f + i - 1 \in f .. f + n - 1 /\ f + i - 1 - f + 1 = i
      OBVIOUS
    <3>2. f + i - 1 \in Nat /\ f + i - 1 < f + n /\ f + n + m <= (f + i - 1) + RingSize
      BY <1>1
    <3>3. QED
      BY <1>4, <1>5, <3>1, <3>2
  <2>4. QED
    BY <1>3, <2>2, <2>3
<1>7. ASSUME NEW a, Outlives(a, f) PROVE w[Slot(a)] = r[Slot(a)]
  <2>1. a \in Nat /\ a < f /\ a < f + n /\ f + n <= a + RingSize /\ f + n + m <= a + RingSize
    BY <1>1, <1>7 DEF Outlives
  <2>2. QED
    BY <1>4, <1>5, <2>1
<1>8. QED
  BY <1>5, <1>6, <1>7 DEF w, r1, others

(* A frame none of whose entries was written over is as it was. *)
LEMMA Unwritten ==
  ASSUME NEW r \in Ring, NEW w \in Ring, NEW f \in [first : Nat, num : Nat],
         \A a \in f.first .. f.first + f.num - 1 : w[Slot(a)] = r[Slot(a)]
  PROVE  Stored(w, f) = Stored(r, f)
<1>1. ASSUME NEW i \in 1 .. f.num PROVE Stored(w, f)[i] = Stored(r, f)[i]
  <2>1. f.first + i - 1 \in f.first .. f.first + f.num - 1
    OBVIOUS
  <2>2. QED
    BY <2>1, StoredIs
<1>2. QED
  BY <1>1, StoredIs

----------------------------------------------------------------------------
(* The invariant.                                                          *)

Packets == [num : 1 .. MaxFrames, base : -1 .. MaxFrames, delta : [update : SUBSET Entries, remove : SUBSET Int],
            meant : SUBSET Entries]
ClientFrames == [num : -1 .. MaxFrames, ents : SUBSET Entries, meant : SUBSET Entries]
Clients == [frames : [0 .. Backup - 1 -> ClientFrames], cur : -1 .. MaxFrames, valid : BOOLEAN]
ServerFrames == [first : Nat, num : 0 .. FrameLimit]
Servers == [state : {"cs_connected", "cs_spawned"}, lastframe : -1 .. MaxFrames,
            frames : [0 .. Backup - 1 -> ServerFrames], demo : BOOLEAN, demostart : 1 .. MaxFrames + 2,
            first : 1 .. MaxFrames + 2, broken : BOOLEAN]

TypesInv ==
  /\ count \in [frames : 0 .. MaxFrames, levels : Nat, demos : Nat]
  /\ framenum \in 1 .. count.frames + 1
  /\ ring \in Ring /\ next \in Nat
  /\ server \in Servers /\ client \in Clients
  /\ wire \in Seq(Packets) /\ Len(wire) <= MaxWire

Has(c, m) == c.frames[m % Backup].num = m

(* The client has every frame in its place. *)
ClientOK(c) ==
  /\ c.valid /\ (c.cur > 0 => Has(c, c.cur))
  /\ \A k \in 0 .. Backup - 1 :
       /\ c.frames[k].ents = c.frames[k].meant
       /\ c.frames[k].num > 0 => c.frames[k].num <= c.cur /\ k = c.frames[k].num % Backup

(* A frame under way can be read by the client, who has the base it is from. *)
Readable(p, c) ==
  /\ p.num > c.cur
  /\ p.base = -1 => Applied({}, p.delta) = p.meant
  /\ p.base # -1 => /\ p.base \in 1 .. c.cur /\ p.num - p.base < Backup /\ Has(c, p.base)
                    /\ Applied(c.frames[p.base % Backup].ents, p.delta) = p.meant

WireOK(w, c) ==
  \A i \in 1 .. Len(w) : Readable(w[i], c) /\ \A j \in 1 .. Len(w) : i < j => w[i].num < w[j].num

(* The server still has frame m, with the entities that were sent. *)
Held(f, r, end, age, meant) ==
  /\ f.first + f.num <= end /\ end <= f.first + age * Share
  /\ IsList(Stored(r, f), f.num) /\ Known(Stored(r, f)) = meant
Stays(m, meant) == Held(server.frames[m % Backup], ring, next, framenum - m, meant)

Recent(m) == m > 0 /\ framenum - m < Backup

LevelOK ==
  /\ server.lastframe <= 0 \/ server.lastframe <= client.cur
  /\ client.cur < framenum
  /\ Recent(server.lastframe) => Has(client, server.lastframe)
  /\ \A k \in 0 .. Backup - 1 :
       Recent(client.frames[k].num) => Stays(client.frames[k].num, client.frames[k].meant)
  /\ \A i \in 1 .. Len(wire) : /\ wire[i].num < framenum
                               /\ Recent(wire[i].num) => Stays(wire[i].num, wire[i].meant)

(* What the client may acknowledge, and from where on a demo has it. *)
InDemo(m) == m > 0 /\ m >= server.demostart => m >= server.first
DemoOK ==
  InDemo(server.lastframe) /\ InDemo(client.cur) /\ \A i \in 1 .. Len(wire) : InDemo(wire[i].num)

Inv ==
  /\ TypesInv /\ ClientOK(client) /\ WireOK(wire, client) /\ ~server.broken
  /\ server.state = "cs_connected" => server.lastframe = -1
  /\ server.state = "cs_spawned" => LevelOK
  /\ server.state = "cs_spawned" /\ server.demo => DemoOK

LEMMA Starts == Init => Inv
<1> SUFFICES ASSUME Init PROVE Inv
  OBVIOUS
<1>1. RingSize \in Nat \ {0} /\ Backup \in Nat \ {0} /\ 0 \in 0 .. NumEdicts + 1 /\ MaxFrames \in Nat /\ MaxWire \in Nat
      /\ FrameLimit \in Nat
  BY RingIs, FrameSizes
<1>2. ring \in Ring /\ next \in Nat
  BY <1>1, EntryIs DEF Init, Ring, Nothing
<1>3. server \in Servers
  <2>1. [k \in 0 .. Backup - 1 |-> [first |-> 0, num |-> 0]] \in [0 .. Backup - 1 -> ServerFrames]
    BY <1>1 DEF ServerFrames
  <2>2. MaxFrames + 2 \in 1 .. MaxFrames + 2 /\ 0 \in -1 .. MaxFrames
    BY <1>1
  <2>3. QED
    BY <2>1, <2>2 DEF Init, Servers
<1>4. client \in Clients
  <2>1. NoFrame \in ClientFrames
    BY <1>1 DEF NoFrame, ClientFrames
  <2>2. -1 \in -1 .. MaxFrames
    BY <1>1
  <2>3. QED
    BY <2>1, <2>2 DEF Init, Clients
<1>5. \A k \in 0 .. Backup - 1 : client.frames[k].num = -1 /\ client.frames[k].ents = {} /\ client.frames[k].meant = {}
  BY DEF Init, NoFrame
<1>6. client.cur = -1 /\ client.valid /\ wire = <<>> /\ framenum = 1 /\ count = [frames |-> 0, levels |-> 0, demos |-> 0]
  BY DEF Init
<1>7. server.lastframe = 0 /\ ~server.broken /\ server.state = "cs_spawned" /\ ~server.demo
  BY DEF Init
<1>8. TypesInv
  <2>1. count \in [frames : 0 .. MaxFrames, levels : Nat, demos : Nat] /\ framenum \in 1 .. count.frames + 1
    BY <1>1, <1>6
  <2>2. wire \in Seq(Packets) /\ Len(wire) <= MaxWire
    BY <1>1, <1>6
  <2>3. QED
    BY <1>2, <1>3, <1>4, <2>1, <2>2 DEF TypesInv
<1>9. ClientOK(client)
  <2>1. ~(client.cur > 0) /\ \A k \in 0 .. Backup - 1 : ~(client.frames[k].num > 0)
    BY <1>5, <1>6
  <2>2. QED
    BY <1>5, <1>6, <2>1, Zenon DEF ClientOK
<1>10. WireOK(wire, client)
  BY <1>6 DEF WireOK
<1>11. LevelOK
  BY <1>5, <1>6, <1>7 DEF LevelOK, Recent
<1>12. QED
  BY <1>7, <1>8, <1>9, <1>10, <1>11 DEF Inv

(* Frames stay as they are when nothing is written and no number changes.  *)
LEMMA StaysStill ==
  ASSUME UNCHANGED <<framenum, ring, next>>, server'.frames = server.frames, NEW m, NEW meant
  PROVE  /\ Stays(m, meant) <=> Stays(m, meant)'
         /\ Recent(m) <=> Recent(m)'
BY DEF Stays, Recent

LEMMA ReadMoveStep == Inv /\ ReadMove => Inv'
<1> SUFFICES ASSUME Inv, ReadMove PROVE Inv'
  OBVIOUS
<1> DEFINE f == MoveFrame(server, Acknowledged)
<1>1. server' = [server EXCEPT !.lastframe = f] /\ UNCHANGED <<framenum, ring, next, client, wire, count>>
  BY DEF ReadMove
<1>2. server \in Servers /\ client \in Clients /\ client.valid /\ client.cur \in -1 .. MaxFrames
  BY DEF Inv, TypesInv, ClientOK, Clients
<1>3. f = (IF server.state # "cs_spawned" THEN -1 ELSE client.cur) /\ f \in -1 .. MaxFrames
  BY <1>2, FrameSizes DEF MoveFrame, Acknowledged
<1> HIDE DEF f
<1>4. /\ server' \in Servers /\ server'.state = server.state /\ server'.lastframe = f /\ server'.frames = server.frames
      /\ server'.demo = server.demo /\ server'.demostart = server.demostart /\ server'.first = server.first
      /\ server'.broken = server.broken
  BY <1>1, <1>2, <1>3 DEF Servers
<1>5. TypesInv' /\ ClientOK(client)' /\ WireOK(wire, client)' /\ ~server'.broken
  BY <1>1, <1>4 DEF Inv, TypesInv, ClientOK, WireOK, Has, Readable, Applied, Ring, Entries, Servers, ServerFrames, Clients, ClientFrames, Packets
<1>6. server'.state = "cs_connected" => server'.lastframe = -1
  BY <1>3, <1>4
<1>7. ASSUME server'.state = "cs_spawned" PROVE LevelOK'
  <2>1. LevelOK /\ f = client.cur
    BY <1>3, <1>4, <1>7 DEF Inv
  <2>2. Recent(f) => Has(client, f)
    BY <2>1 DEF Inv, ClientOK, Recent
  <2>3. \A m : Recent(m) <=> Recent(m)'
    BY <1>1 DEF Recent
  <2>4. \A m, meant : Stays(m, meant) <=> Stays(m, meant)'
    BY <1>1, <1>4, StaysStill
  <2>5. QED
    BY <1>1, <1>2, <1>4, <2>1, <2>2, <2>3, <2>4 DEF LevelOK, Has
<1>8. ASSUME server'.state = "cs_spawned", server'.demo PROVE DemoOK'
  <2>1. DemoOK /\ f = client.cur
    BY <1>3, <1>4, <1>8 DEF Inv
  <2>2. QED
    BY <1>1, <1>4, <2>1 DEF DemoOK, InDemo
<1>9. QED
  BY <1>5, <1>6, <1>7, <1>8 DEF Inv

(* A step that leaves frames and packets alone and may end the level, or begin or end a demo. *)
LEMMA OtherSteps == Inv /\ (SpawnServer \/ ClientRecord \/ ClientStop \/ RunFrame \/ UNCHANGED vars) => Inv'
<1> SUFFICES ASSUME Inv, SpawnServer \/ ClientRecord \/ ClientStop \/ RunFrame \/ UNCHANGED vars PROVE Inv'
  OBVIOUS
<1>1. server \in Servers /\ MaxFrames \in Nat /\ count \in [frames : 0 .. MaxFrames, levels : Nat, demos : Nat]
      /\ framenum \in 1 .. count.frames + 1
  BY FrameSizes DEF Inv, TypesInv
<1>2. UNCHANGED <<ring, next, client, wire>>
  BY DEF SpawnServer, ClientRecord, ClientStop, RunFrame, vars
<1>3. /\ server' \in Servers /\ server'.frames = server.frames /\ ~server'.broken
      /\ server'.lastframe = server.lastframe \/ server'.lastframe = -1
  <2>1. ~server.broken
    BY DEF Inv
  <2>2. MaxFrames + 2 \in 1 .. MaxFrames + 2 /\ -1 \in -1 .. MaxFrames
    BY <1>1
  <2>3. CASE SpawnServer
    BY <1>1, <2>1, <2>2, <2>3 DEF SpawnServer, Servers
  <2>4. CASE ClientRecord
    BY <1>1, <2>1, <2>2, <2>4 DEF ClientRecord, Servers
  <2>5. CASE ClientStop
    BY <1>1, <2>1, <2>5 DEF ClientStop, Servers
  <2>6. CASE RunFrame \/ UNCHANGED vars
    BY <1>1, <2>1, <2>6 DEF RunFrame, vars
  <2>7. QED
    BY <2>3, <2>4, <2>5, <2>6
<1>4. count' \in [frames : 0 .. MaxFrames, levels : Nat, demos : Nat] /\ framenum' \in 1 .. count'.frames + 1
  <2>1. CASE SpawnServer
    BY <1>1, <2>1 DEF SpawnServer
  <2>2. CASE ClientRecord
    BY <1>1, <2>2 DEF ClientRecord
  <2>3. CASE ClientStop \/ UNCHANGED vars
    BY <1>1, <2>3 DEF ClientStop, vars
  <2>4. CASE RunFrame
    <3>1. count' = [count EXCEPT !.frames = @ + 1] /\ count.frames < MaxFrames /\ framenum' = framenum + 1
      BY <2>4 DEF RunFrame
    <3>2. QED
      BY <1>1, <3>1
  <2>5. QED
    BY <2>1, <2>2, <2>3, <2>4
<1>5. TypesInv' /\ ClientOK(client)' /\ WireOK(wire, client)'
  BY <1>2, <1>3, <1>4 DEF Inv, TypesInv, ClientOK, WireOK, Has, Readable, Applied, Ring, Entries, Servers, ServerFrames, Clients, ClientFrames, Packets
<1>6. ASSUME server'.state = "cs_connected" PROVE server'.lastframe = -1
  <2>1. server.state = "cs_connected" => server.lastframe = -1
    BY DEF Inv
  <2>2. QED
    BY <1>1, <1>6, <2>1 DEF SpawnServer, ClientRecord, ClientStop, RunFrame, vars, Servers
<1>7. ASSUME server'.state = "cs_spawned" PROVE LevelOK' /\ (server'.demo => DemoOK')
  <2>1. ~SpawnServer /\ ~RunFrame
    BY <1>1, <1>7 DEF SpawnServer, RunFrame, Servers
  <2>2. LevelOK /\ (server.demo => DemoOK) /\ framenum' = framenum
    BY <1>1, <1>7, <2>1 DEF Inv, ClientRecord, ClientStop, vars, Servers
  <2>3. server'.lastframe = server.lastframe
    BY <1>1, <2>1 DEF ClientRecord, ClientStop, vars, Servers
  <2>4. LevelOK'
    <3>1. \A m : Recent(m) <=> Recent(m)'
      BY <2>2 DEF Recent
    <3>2. \A m, meant : Stays(m, meant) <=> Stays(m, meant)'
      BY <1>2, <1>3, <2>2, StaysStill
    <3>3. QED
      BY <1>2, <2>2, <2>3, <3>1, <3>2 DEF LevelOK, Has
  <2>5. ASSUME server'.demo PROVE DemoOK'
    <3>1. CASE ClientRecord
      <4>1. server'.demostart = MaxFrames + 2
        BY <1>1, <3>1 DEF ClientRecord, Servers
      <4>2. server'.lastframe <= MaxFrames /\ client'.cur <= MaxFrames /\ client'.cur \in Int /\ server'.lastframe \in Int
        BY <1>3, <1>5 DEF TypesInv, Servers, Clients
      <4>3. \A i \in 1 .. Len(wire') : wire'[i].num <= MaxFrames /\ wire'[i].num \in Int
        <5>1. wire' \in Seq(Packets)
          BY <1>5 DEF TypesInv, Packets, Entries
        <5>2. \A i \in 1 .. Len(wire') : wire'[i] \in Packets
          BY <5>1
        <5>3. QED
          BY <5>2 DEF Packets
      <4>4. QED
        BY <1>1, <4>1, <4>2, <4>3 DEF DemoOK, InDemo
    <3>2. CASE UNCHANGED vars
      BY <2>2, <2>5, <3>2 DEF DemoOK, InDemo, vars
    <3>3. CASE ClientStop
      BY <1>1, <2>5, <3>3 DEF ClientStop, Servers
    <3>4. QED
      BY <2>1, <3>1, <3>2, <3>3
  <2>6. QED
    BY <2>4, <2>5
<1>8. QED
  BY <1>3, <1>5, <1>6, <1>7 DEF Inv

(* The client has loaded a level. *)
LEMMA BeginStep == Inv /\ Begin => Inv'
<1> SUFFICES ASSUME Inv, Begin PROVE Inv'
  OBVIOUS
<1>1. MaxFrames \in Nat /\ MaxWire \in Nat /\ framenum \in Nat \ {0}
  BY FrameSizes DEF Inv, TypesInv
<1>2. /\ server' \in Servers /\ server'.lastframe = -1 /\ ~server'.broken /\ server'.state = "cs_spawned"
  <2>1. server \in Servers /\ server.lastframe = -1 /\ ~server.broken
    BY DEF Inv, TypesInv, Begin
  <2>2. MaxFrames + 2 \in 1 .. MaxFrames + 2
    BY <1>1
  <2>3. server' = [server EXCEPT !.state = "cs_spawned", !.first = MaxFrames + 2]
    BY DEF Begin
  <2>4. QED
    BY <2>1, <2>2, <2>3 DEF Servers
<1>3. client' \in Clients /\ client'.cur = -1 /\ client'.valid
      /\ \A k \in 0 .. Backup - 1 : client'.frames[k].num = -1 /\ client'.frames[k].ents = {} /\ client'.frames[k].meant = {}
  <2>1. NoFrame \in ClientFrames /\ -1 \in -1 .. MaxFrames
    BY <1>1 DEF NoFrame, ClientFrames
  <2>2. QED
    BY <2>1 DEF Begin, Clients, NoFrame
<1>4. wire' = <<>> /\ UNCHANGED <<framenum, ring, next, count>>
  BY DEF Begin
<1>5. TypesInv'
  <2>1. wire' \in Seq(Packets) /\ Len(wire') <= MaxWire
    BY <1>1, <1>4
  <2>2. QED
    BY <1>2, <1>3, <1>4, <2>1 DEF Inv, TypesInv, Ring, Entries, Servers, ServerFrames, Clients, ClientFrames, Packets
<1>6. ClientOK(client)' /\ WireOK(wire, client)'
  <2>1. ~(client'.cur > 0) /\ \A k \in 0 .. Backup - 1 : ~(client'.frames[k].num > 0)
    BY <1>3
  <2>2. ClientOK(client)'
    BY <1>3, <2>1, Zenon DEF ClientOK
  <2>3. WireOK(wire, client)'
    BY <1>4 DEF WireOK
  <2>4. QED
    BY <2>2, <2>3
<1>7. LevelOK'
  BY <1>1, <1>2, <1>3, <1>4 DEF LevelOK, Recent
<1>8. DemoOK'
  BY <1>2, <1>3, <1>4 DEF DemoOK, InDemo
<1>9. QED
  BY <1>2, <1>5, <1>6, <1>7, <1>8 DEF Inv

(* The client gets a frame. *)
LEMMA ReceiveStep == ASSUME NEW i \in 1 .. MaxWire PROVE Inv /\ Receive(i) => Inv'
<1> SUFFICES ASSUME Inv, Receive(i) PROVE Inv'
  OBVIOUS
<1> DEFINE p == wire[i]
           n == p.num
           old == client.frames[p.base % Backup]
           ok == p.base = -1 \/ old.num = p.base
           new == [num |-> IF ok THEN n ELSE -1, meant |-> p.meant,
                   ents |-> Applied(IF p.base = -1 THEN {} ELSE old.ents, p.delta)]
           got == [num |-> n, meant |-> p.meant, ents |-> p.meant]
           place == n % Backup
<1>1. MaxFrames \in Nat /\ MaxWire \in Nat /\ Backup \in Nat \ {0} /\ i \in 1 .. Len(wire) /\ i \in Nat
  BY FrameSizes, RingIs DEF Receive, Inv, TypesInv
<1>2. /\ client' = [frames |-> [client.frames EXCEPT ![place] = new], cur |-> n, valid |-> ok]
      /\ wire' = SubSeq(wire, i + 1, Len(wire)) /\ UNCHANGED <<framenum, ring, next, server, count>>
  BY DEF Receive
<1>3. wire \in Seq(Packets) /\ client \in Clients /\ client.cur \in -1 .. MaxFrames /\ client.frames \in [0 .. Backup - 1 -> ClientFrames]
  BY DEF Inv, TypesInv, Clients
<1>4. p \in Packets /\ n \in 1 .. MaxFrames /\ p.base \in -1 .. MaxFrames /\ p.meant \in SUBSET Entries
  <2>1. p \in Packets
    BY <1>1, <1>3
  <2>2. \A q \in Packets : q.num \in 1 .. MaxFrames /\ q.base \in -1 .. MaxFrames /\ q.meant \in SUBSET Entries
    BY DEF Packets
  <2>3. QED
    BY <2>1, <2>2
<1>5. Readable(p, client)
  BY <1>1 DEF Inv, WireOK
<1>6. ok /\ new = got
  <2>1. CASE p.base = -1
    BY <1>5, <2>1 DEF Readable
  <2>2. CASE p.base # -1
    <3>1. old.num = p.base /\ Applied(old.ents, p.delta) = p.meant
      BY <1>5, <2>2 DEF Readable, Has
    <3>2. QED
      BY <2>2, <3>1
  <2>3. QED
    BY <2>1, <2>2
<1>7. place \in 0 .. Backup - 1
  BY <1>1, <1>4
<1>8. got \in ClientFrames /\ got.num = n /\ got.ents = got.meant /\ got.meant = p.meant
  BY <1>1, <1>4 DEF ClientFrames
<1> HIDE DEF ok, new, got, old
<1>9. client'.frames = [client.frames EXCEPT ![place] = got] /\ client'.cur = n /\ client'.valid
  BY <1>2, <1>6
<1> HIDE DEF place
<1>10. /\ client' \in Clients /\ client'.frames[place] = got
       /\ \A k \in 0 .. Backup - 1 : k # place => client'.frames[k] = client.frames[k]
  <2>1. client'.frames \in [0 .. Backup - 1 -> ClientFrames]
    BY <1>3, <1>8, <1>9
  <2>2. n \in -1 .. MaxFrames
    BY <1>1, <1>4
  <2>3. client' \in Clients
    BY <1>2, <1>6, <1>9, <2>1, <2>2 DEF Clients
  <2>4. QED
    BY <1>3, <1>7, <1>9, <2>3
<1> HIDE DEF p, n
<1>11. n > client.cur /\ n \in Nat
  BY <1>4, <1>5 DEF Readable, n
<1>12. ASSUME NEW m \in 1 .. MaxFrames, m < n, n - m < Backup
       PROVE  /\ client'.frames[m % Backup] = client.frames[m % Backup]
              /\ Has(client, m) => Has(client', m)
  <2>1. m % Backup # place
    <3>1. m \in Int /\ n \in Int
      BY <1>11
    <3>2. QED
      BY <1>1, <1>12, <3>1, OwnPlace DEF place
  <2>2. m % Backup \in 0 .. Backup - 1
    BY <1>1
  <2>3. QED
    BY <1>10, <2>1, <2>2 DEF Has
<1>13. ClientOK(client)'
  <2>1. client'.valid
    BY <1>9
  <2>2. Has(client', client'.cur)
    BY <1>8, <1>9, <1>10 DEF Has, place
  <2>3. ASSUME NEW k \in 0 .. Backup - 1
        PROVE  /\ client'.frames[k].ents = client'.frames[k].meant
               /\ client'.frames[k].num > 0 => client'.frames[k].num <= client'.cur /\ k = client'.frames[k].num % Backup
    <3>1. CASE k = place
      <4>1. client'.frames[k] = got
        BY <1>10, <3>1
      <4>2. n <= client'.cur /\ k = n % Backup
        BY <1>9, <1>11, <3>1 DEF place
      <4>3. QED
        BY <1>8, <4>1, <4>2
    <3>2. CASE k # place
      <4>1. client'.frames[k] = client.frames[k] /\ client.frames[k].num \in Int
        <5>1. client.frames[k] \in ClientFrames
          BY <1>3
        <5>2. client.frames[k].num \in Int
          BY <5>1 DEF ClientFrames
        <5>3. QED
          BY <1>10, <3>2, <5>2
      <4>2. /\ client.frames[k].ents = client.frames[k].meant
            /\ client.frames[k].num > 0 => client.frames[k].num <= client.cur /\ k = client.frames[k].num % Backup
        BY DEF Inv, ClientOK
      <4>3. client.frames[k].num > 0 => client.frames[k].num <= n
        BY <1>3, <1>11, <4>1, <4>2
      <4>4. QED
        BY <1>9, <4>1, <4>2, <4>3
    <3>3. QED
      BY <3>1, <3>2
  <2>4. QED
    BY <2>1, <2>2, <2>3 DEF ClientOK
<1>14. /\ wire' \in Seq(Packets) /\ Len(wire') = Len(wire) - i
       /\ \A j \in 1 .. Len(wire') : wire'[j] = wire[i + j] /\ i + j \in 1 .. Len(wire)
  BY <1>1, <1>2, <1>3
<1>15. WireOK(wire, client)'
  <2>1. ASSUME NEW j \in 1 .. Len(wire') PROVE Readable(wire'[j], client')
    <3>1. wire'[j] = wire[i + j] /\ i + j \in 1 .. Len(wire) /\ i < i + j
      BY <1>1, <1>14
    <3> DEFINE q == wire[i + j]
    <3>2. Readable(q, client) /\ n < q.num
      BY <1>1, <3>1 DEF Inv, WireOK, n, p
    <3>3. q \in Packets
      BY <1>3, <3>1
    <3> HIDE DEF q
    <3>4. q.num \in 1 .. MaxFrames /\ q.base \in -1 .. MaxFrames
      BY <3>3 DEF Packets
    <3>5. CASE q.base = -1
      BY <1>9, <3>1, <3>2, <3>5 DEF Readable, q
    <3>6. CASE q.base # -1
      <4>1. q.base \in 1 .. client.cur /\ q.num - q.base < Backup /\ Has(client, q.base)
            /\ Applied(client.frames[q.base % Backup].ents, q.delta) = q.meant
        BY <3>2, <3>6 DEF Readable
      <4>2. q.base \in 1 .. MaxFrames /\ q.base < n /\ n - q.base < Backup
        BY <1>1, <1>3, <1>11, <3>2, <3>4, <4>1
      <4>3. client'.frames[q.base % Backup] = client.frames[q.base % Backup] /\ Has(client', q.base)
        BY <1>12, <4>1, <4>2
      <4>4. q.base \in 1 .. client'.cur /\ q.num > client'.cur
        BY <1>9, <1>11, <3>2, <4>1, <4>2
      <4>5. QED
        BY <3>1, <3>6, <4>1, <4>3, <4>4 DEF Readable, q
    <3>7. QED
      BY <3>5, <3>6
  <2>2. ASSUME NEW j \in 1 .. Len(wire'), NEW k \in 1 .. Len(wire'), j < k PROVE wire'[j].num < wire'[k].num
    <3>1. i + j < i + k /\ wire'[j] = wire[i + j] /\ wire'[k] = wire[i + k] /\ i + j \in 1 .. Len(wire) /\ i + k \in 1 .. Len(wire)
      BY <1>1, <1>14, <2>2
    <3>2. QED
      BY <3>1 DEF Inv, WireOK
  <2>3. QED
    BY <2>1, <2>2 DEF WireOK
<1>16. TypesInv'
  <2>1. Len(wire') <= MaxWire
    BY <1>1, <1>3, <1>14 DEF Inv, TypesInv
  <2>2. QED
    BY <1>2, <1>10, <1>14, <2>1 DEF Inv, TypesInv, Ring, Entries, Servers, ServerFrames, Clients, ClientFrames, Packets
<1>17. ASSUME server'.state = "cs_spawned" PROVE LevelOK'
  <2>1. LevelOK /\ server.lastframe \in -1 .. MaxFrames /\ framenum \in Nat
    BY <1>2, <1>17 DEF Inv, TypesInv, Servers
  <2>2. \A m : Recent(m) <=> Recent(m)'
    BY <1>2 DEF Recent
  <2>3. \A m, meant : Stays(m, meant) <=> Stays(m, meant)'
    BY <1>2, StaysStill
  <2>4. n < framenum /\ (Recent(n) => Stays(n, p.meant))
    BY <1>1, <2>1 DEF LevelOK, n, p
  <2>5. server'.lastframe <= 0 \/ server'.lastframe <= client'.cur
    BY <1>2, <1>3, <1>9, <1>11, <2>1 DEF LevelOK
  <2>6. client'.cur < framenum'
    BY <1>2, <1>9, <2>4
  <2>7. Recent(server.lastframe) => Has(client', server.lastframe)
    <3>1. SUFFICES ASSUME Recent(server.lastframe) PROVE Has(client', server.lastframe)
      OBVIOUS
    <3>2. server.lastframe \in 1 .. MaxFrames /\ server.lastframe <= client.cur /\ framenum - server.lastframe < Backup
      BY <1>3, <2>1, <3>1 DEF LevelOK, Recent
    <3>3. server.lastframe < n /\ n - server.lastframe < Backup
      BY <1>1, <1>3, <1>11, <2>1, <2>4, <3>2
    <3>4. QED
      BY <1>12, <2>1, <3>1, <3>2, <3>3 DEF LevelOK
  <2>8. ASSUME NEW k \in 0 .. Backup - 1, Recent(client'.frames[k].num)
        PROVE  Stays(client'.frames[k].num, client'.frames[k].meant)
    <3>1. CASE k = place
      <4>1. client'.frames[k].num = n /\ client'.frames[k].meant = p.meant
        BY <1>8, <1>10, <3>1
      <4>2. QED
        BY <2>4, <2>8, <4>1
    <3>2. CASE k # place
      BY <1>10, <2>1, <2>8, <3>2 DEF LevelOK
    <3>3. QED
      BY <3>1, <3>2
  <2>9. ASSUME NEW j \in 1 .. Len(wire')
        PROVE  wire'[j].num < framenum /\ (Recent(wire'[j].num) => Stays(wire'[j].num, wire'[j].meant))
    BY <1>14, <2>1 DEF LevelOK
  <2>10. QED
    BY <1>2, <2>2, <2>3, <2>5, <2>6, <2>7, <2>8, <2>9 DEF LevelOK, Has
<1>18. ASSUME server'.state = "cs_spawned", server'.demo PROVE DemoOK'
  <2>1. DemoOK
    BY <1>2, <1>18 DEF Inv
  <2>2. InDemo(n) /\ \A j \in 1 .. Len(wire') : InDemo(wire'[j].num)
    BY <1>1, <1>14, <2>1 DEF DemoOK, n, p
  <2>3. QED
    BY <1>2, <1>9, <2>1, <2>2 DEF DemoOK, InDemo
<1>19. QED
  BY <1>2, <1>13, <1>15, <1>16, <1>17, <1>18 DEF Inv

(* Frames that are still needed outlive the one that is built.             *)
LEMMA StaysUntilBuilt ==
  ASSUME TypesInv, NEW m \in Nat, NEW meant, Stays(m, meant), m < framenum, framenum - m < Backup
  PROVE  LET f == server.frames[m % Backup]
         IN  f \in [first : Nat, num : Nat] /\ \A a \in f.first .. f.first + f.num - 1 : Outlives(a, next)
<1> DEFINE f == server.frames[m % Backup]
<1>1. Backup \in Nat \ {0} /\ Share \in Nat \ {0} /\ RingSize = Backup * Share /\ framenum \in Nat /\ next \in Nat
  BY RingIs, ShareIs DEF TypesInv
<1>2. f \in ServerFrames
  <2>1. m % Backup \in 0 .. Backup - 1
    BY <1>1
  <2>2. QED
    BY <2>1 DEF TypesInv, Servers
<1>3. f \in [first : Nat, num : Nat] /\ f.first \in Nat /\ f.num \in Nat
  BY <1>2, FrameSizes DEF ServerFrames
<1>4. f.first + f.num <= next /\ next <= f.first + (framenum - m) * Share
  BY DEF Stays, Held
<1>5. (framenum - m) * Share + Share <= RingSize
  <2>1. framenum - m \in Int /\ Backup \in Int
    BY <1>1
  <2>2. QED
    BY <1>1, <2>1, Multiples
<1> DEFINE d == (framenum - m) * Share
<1>6. d \in Int
  <2>1. \A a, b \in Int : a * b \in Int
    OBVIOUS
  <2>2. QED
    BY <1>1, <2>1
<1>7. d + Share <= RingSize /\ next <= f.first + d /\ RingSize \in Nat
  BY <1>4, <1>5, RingIs
<1> HIDE DEF d, f
<1>8. ASSUME NEW a \in f.first .. f.first + f.num - 1 PROVE Outlives(a, next)
  BY <1>1, <1>3, <1>4, <1>6, <1>7 DEF Outlives
<1>9. QED
  BY <1>3, <1>8 DEF f

(* The base of a delta is a frame that the server and the client have. *)
LEMMA BaseIs ==
  ASSUME Inv, server.state = "cs_spawned", BaseOf(server) # -1
  PROVE  LET b == BaseOf(server)
         IN  /\ b = server.lastframe /\ b \in 1 .. client.cur /\ b < framenum /\ framenum - b < Backup - 2
             /\ Has(client, b) /\ Stays(b, client.frames[b % Backup].ents)
             /\ server.demo => server.demostart <= b
<1> DEFINE b == BaseOf(server)
<1>1. b = server.lastframe /\ ~DemoWaits(server) /\ ~(server.lastframe <= 0) /\ ~TooOld(server)
  BY DEF BaseOf
<1>2. server \in Servers /\ client \in Clients /\ framenum \in Nat /\ Backup \in Nat \ {0} /\ Backup > 2 /\ LevelOK
  BY FrameSizes, RingIs DEF Inv, TypesInv
<1>3. b \in -1 .. MaxFrames /\ client.cur \in -1 .. MaxFrames /\ server.demostart \in Int
  BY <1>1, <1>2 DEF Servers, Clients
<1>4. b \in 1 .. client.cur /\ b < framenum /\ framenum - b < Backup - 2
  BY <1>1, <1>2, <1>3 DEF LevelOK, TooOld
<1>5. Recent(b)
  BY <1>2, <1>4 DEF Recent
<1>6. Has(client, b)
  BY <1>1, <1>2, <1>5 DEF LevelOK
<1>7. b % Backup \in 0 .. Backup - 1
  BY <1>2, <1>3
<1>8. client.frames[b % Backup].num = b
  BY <1>6 DEF Has
<1>9. client.frames[b % Backup].ents = client.frames[b % Backup].meant
  BY <1>7 DEF Inv, ClientOK
<1>10. Stays(b, client.frames[b % Backup].ents)
  BY <1>2, <1>5, <1>7, <1>8, <1>9 DEF LevelOK
<1>11. server.demo => server.demostart <= b
  <2>1. server.lastframe >= 0
    BY <1>1, <1>3, <1>4
  <2>2. server.demo => ~(server.demostart > server.lastframe)
    BY <1>1, <2>1 DEF DemoWaits
  <2>3. QED
    BY <1>1, <1>3, <2>2
<1>12. QED
  BY <1>1, <1>4, <1>6, <1>10, <1>11

(* A frame that stays as it was written. *)
LEMMA StaysOver ==
  ASSUME TypesInv, NEW m \in Nat, NEW meant, Stays(m, meant), m < framenum, framenum' - m < Backup,
         framenum' = framenum + 1, ring' \in Ring, next' \in Nat, next <= next', next' <= next + Share,
         server'.frames[m % Backup] = server.frames[m % Backup],
         \A a : Outlives(a, next) => ring'[Slot(a)] = ring[Slot(a)]
  PROVE  Stays(m, meant)'
<1> DEFINE f == server.frames[m % Backup]
<1>1. framenum \in Nat /\ ring \in Ring /\ next \in Nat /\ Share \in Nat /\ Backup \in Nat
  BY ShareIs, RingIs DEF TypesInv
<1>2. f \in [first : Nat, num : Nat] /\ \A a \in f.first .. f.first + f.num - 1 : Outlives(a, next)
  BY <1>1, StaysUntilBuilt
<1>3. Stored(ring', f) = Stored(ring, f)
  BY <1>1, <1>2, Unwritten
<1>4. f.first + f.num <= next /\ next <= f.first + (framenum - m) * Share
      /\ IsList(Stored(ring, f), f.num) /\ Known(Stored(ring, f)) = meant
  BY DEF Stays, Held
<1>5. (framenum' - m) * Share = (framenum - m) * Share + Share
  BY <1>1
<1> DEFINE d == (framenum - m) * Share
<1>6. d \in Int
  <2>1. \A a, b \in Int : a * b \in Int
    OBVIOUS
  <2>2. QED
    BY <1>1, <2>1
<1>7. f.first \in Nat /\ f.num \in Nat
  BY <1>2
<1> HIDE DEF d
<1>8. f.first + f.num <= next' /\ next' <= f.first + (d + Share)
  BY <1>1, <1>4, <1>6, <1>7 DEF d
<1>9. f.first + f.num <= next' /\ next' <= f.first + (framenum' - m) * Share
  BY <1>5, <1>8 DEF d
<1>10. server'.frames[m % Backup] = f
  OBVIOUS
<1>11. IsList(Stored(ring', f), f.num) /\ Known(Stored(ring', f)) = meant
  BY <1>3, <1>4
<1> HIDE DEF f
<1>12. Held(f, ring', next', framenum' - m, meant)
  BY <1>9, <1>11 DEF Held
<1>13. QED
  BY <1>10, <1>12 DEF Stays

(* SV_BuildClientFrame, SV_WriteFrameToClient and SV_SendClientDatagram.   *)
LEMMA SendFrameStep ==
  ASSUME FramesFit, NEW v \in Views, NEW others \in OtherSizes
  PROVE  Inv /\ SendFrame(v, others) => Inv'
<1> SUFFICES ASSUME Inv, SendFrame(v, others) PROVE Inv'
  OBVIOUS
<1> DEFINE built == Build(ring, v.seen, v.behind)
           F == built.frame
           num == F.num
           base == BaseOf(server)
           old == IF base = -1 THEN <<>> ELSE Stored(built.ring, server.frames[base % Backup])
           list == Stored(built.ring, F)
           out == Written(list, old, v.room)
           sent == Fits(out, old, v.room)
           place == framenum % Backup
           s == [server EXCEPT !.frames[place] = F, !.demostart = DemoStart(server)]
           pkt == [num |-> framenum, base |-> base, delta |-> Delta(out.list, old), meant |-> Known(out.list)]
           w == Append(wire, pkt)
<1>1. /\ server.state = "cs_spawned" /\ count.frames < MaxFrames
      /\ framenum' = framenum + 1 /\ client' = client
      /\ ring' = Put(Put(built.ring, next, Kept(list, out)), next + num, [i \in 1 .. others |-> Foreign])
      /\ next' = next + num + others
      /\ server' = Recorded(s, sent, base)
      /\ wire' = IF ~sent THEN wire ELSE IF Len(w) > MaxWire THEN Tail(w) ELSE w
  BY DEF SendFrame
<1>2. /\ count \in [frames : 0 .. MaxFrames, levels : Nat, demos : Nat]
      /\ framenum \in 1 .. count.frames + 1 /\ ring \in Ring /\ next \in Nat
      /\ server \in Servers /\ client \in Clients /\ wire \in Seq(Packets) /\ Len(wire) <= MaxWire
      /\ LevelOK /\ TypesInv
  BY <1>1 DEF Inv, TypesInv
<1>3. Backup \in Nat \ {0} /\ Backup > 2 /\ MaxFrames \in Nat /\ MaxWire \in Nat /\ Share \in Nat \ {0} /\ PerFrame \in Nat
      /\ framenum \in 1 .. MaxFrames
  <2>1. Backup \in Nat \ {0} /\ Backup > 2 /\ MaxFrames \in Nat /\ MaxWire \in Nat /\ Share \in Nat \ {0} /\ PerFrame \in Nat
    BY RingIs, ShareIs, FrameSizes
  <2>2. QED
    BY <1>1, <1>2, <2>1
<1>4. /\ num \in 0 .. PerFrame /\ num \in 0 .. FrameLimit /\ F = [first |-> next, num |-> num]
      /\ built.ring \in Ring /\ IsList(list, num)
      /\ \A a : Outlives(a, next) => built.ring[Slot(a)] = ring[Slot(a)]
  BY <1>2, BuildIs
<1>5. others \in Nat /\ num + others <= Share /\ num \in Nat
  <2>1. others \in 0 .. Others * PerFrame
    BY DEF FramesFit
  <2>2. \A a, b \in Nat : a * b \in Nat
    OBVIOUS
  <2>3. Others * PerFrame \in Nat /\ PerFrame + Others * PerFrame = Share
    BY <2>2, ShareIs, FrameSizes
  <2>4. QED
    BY <1>3, <1>4, <2>1, <2>3
<1> HIDE DEF built, place
<1>6. IsList(out.list, num)
  BY <1>4, <1>5, WrittenIs
<1>7. /\ ring' \in Ring /\ Stored(ring', F) = out.list
      /\ \A a : Outlives(a, next) => ring'[Slot(a)] = ring[Slot(a)]
  <2> HIDE DEF F, num, list, out
  <2>1. ring' = Put(Put(built.ring, next, out.list), next + num, [i \in 1 .. others |-> Foreign])
    BY <1>1 DEF Kept
  <2>2. /\ ring' \in Ring /\ Stored(ring', [first |-> next, num |-> num]) = out.list
        /\ \A a : Outlives(a, next) => ring'[Slot(a)] = built.ring[Slot(a)]
    <3>1. built.ring \in Ring /\ next \in Nat
      BY <1>2, <1>4
    <3> DEFINE x == Put(Put(built.ring, next, out.list), next + num, [i \in 1 .. others |-> Foreign])
    <3>2. /\ x \in Ring /\ Stored(x, [first |-> next, num |-> num]) = out.list
          /\ \A a : Outlives(a, next) => x[Slot(a)] = built.ring[Slot(a)]
      BY <1>5, <1>6, <3>1, WriteIs
    <3> HIDE DEF x
    <3>3. ring' = x
      BY <2>1 DEF x
    <3>4. QED
      BY <3>2, <3>3
  <2>3. QED
    BY <1>4, <2>2
<1> HIDE DEF F, num, list, out, base, old, sent
<1>8. F \in ServerFrames /\ F.first = next /\ F.num = num
  <2>1. [first |-> next, num |-> num] \in ServerFrames
    BY <1>2, <1>4 DEF ServerFrames
  <2>2. QED
    BY <1>4, <2>1
<1>9. place \in 0 .. Backup - 1
  BY <1>3 DEF place
(* The base, and the delta from it. *)
<1>10. base # -1 => /\ base = server.lastframe /\ base \in 1 .. client.cur /\ base < framenum /\ framenum - base < Backup - 2
                    /\ Has(client, base) /\ Stays(base, client.frames[base % Backup].ents)
                    /\ (server.demo => server.demostart <= base)
  BY <1>1, BaseIs DEF base
<1>11. client.cur \in -1 .. MaxFrames /\ client.cur < framenum
  BY <1>2 DEF Clients, LevelOK
<1>12. base \in -1 .. MaxFrames
  BY <1>3, <1>10, <1>11
<1>13. /\ base = -1 => Applied({}, Delta(out.list, old)) = Known(out.list)
       /\ base # -1 => Applied(client.frames[base % Backup].ents, Delta(out.list, old)) = Known(out.list)
  <2>1. CASE base = -1
    <3>1. old = <<>> /\ IsList(old, 0) /\ Known(old) = {}
      BY <2>1 DEF old, IsList, Known
    <3>2. QED
      BY <1>5, <1>6, <2>1, <3>1, DeltaWorks
  <2>2. CASE base # -1
    <3> DEFINE f == server.frames[base % Backup]
    <3>1. base \in Nat /\ base < framenum /\ framenum - base < Backup /\ Stays(base, client.frames[base % Backup].ents)
      BY <1>3, <1>10, <1>11, <2>2
    <3>2. f \in [first : Nat, num : Nat] /\ \A a \in f.first .. f.first + f.num - 1 : Outlives(a, next)
      BY <1>2, <3>1, StaysUntilBuilt
    <3>3. Stored(built.ring, f) = Stored(ring, f)
      BY <1>2, <1>4, <3>2, Unwritten
    <3>4. IsList(Stored(ring, f), f.num) /\ Known(Stored(ring, f)) = client.frames[base % Backup].ents
      BY <3>1 DEF Stays, Held
    <3>5. old = Stored(built.ring, f) /\ f.num \in Nat
      BY <2>2, <3>2 DEF old
    <3> HIDE DEF f
    <3>6. QED
      BY <1>5, <1>6, <2>2, <3>3, <3>4, <3>5, DeltaWorks
  <2>3. QED
    BY <2>1, <2>2
<1>14. pkt.num = framenum /\ pkt.base = base /\ pkt.meant = Known(out.list) /\ pkt.delta = Delta(out.list, old)
  OBVIOUS
<1>15. pkt \in Packets
  <2>1. \A l, n : IsList(l, n) => Known(l) \in SUBSET Entries /\ Numbers(l) \in SUBSET Int
    BY FrameSizes DEF IsList, Known, Numbers, Entries
  <2>2. IsList(out.list, num) /\ \E n : IsList(old, n)
    <3>1. CASE base = -1
      <4>1. IsList(old, 0)
        BY <3>1 DEF old, IsList
      <4>2. QED
        BY <1>6, <4>1
    <3>2. CASE base # -1
      <4> DEFINE f == server.frames[base % Backup]
      <4>1. base \in Nat /\ base < framenum /\ framenum - base < Backup /\ Stays(base, client.frames[base % Backup].ents)
        BY <1>3, <1>10, <1>11, <3>2
      <4>2. f \in [first : Nat, num : Nat] /\ \A a \in f.first .. f.first + f.num - 1 : Outlives(a, next)
        BY <1>2, <4>1, StaysUntilBuilt
      <4>3. Stored(built.ring, f) = Stored(ring, f)
        BY <1>2, <1>4, <4>2, Unwritten
      <4>4. IsList(Stored(ring, f), f.num)
        BY <4>1 DEF Stays, Held
      <4>5. QED
        BY <1>6, <3>2, <4>3, <4>4 DEF old
    <3>3. QED
      BY <3>1, <3>2
  <2>3. Delta(out.list, old) \in [update : SUBSET Entries, remove : SUBSET Int]
    <3>1. Known(out.list) \in SUBSET Entries /\ Numbers(old) \in SUBSET Int
      BY <2>1, <2>2
    <3>2. {e \in Known(out.list) : e \notin Known(old)} \in SUBSET Entries /\ Numbers(old) \ Numbers(out.list) \in SUBSET Int
      BY <3>1
    <3>3. QED
      BY <3>2 DEF Delta
  <2>4. Known(out.list) \in SUBSET Entries
    BY <2>1, <2>2
  <2>5. QED
    BY <1>3, <1>12, <2>3, <2>4 DEF Packets
<1>16. Readable(pkt, client)
  <2>1. framenum > client.cur
    BY <1>3, <1>11
  <2>2. base # -1 => framenum - base < Backup
    BY <1>3, <1>10, <1>11
  <2>3. QED
    BY <1>10, <1>13, <1>14, <2>1, <2>2 DEF Readable
<1> HIDE DEF pkt
(* The frames under way. *)
<1>17. /\ w \in Seq(Packets) /\ Len(w) = Len(wire) + 1 /\ w[Len(w)] = pkt
       /\ \A j \in 1 .. Len(wire) : w[j] = wire[j] /\ wire[j] \in Packets
  BY <1>2, <1>15
<1>18. WireOK(wire, client) /\ WireOK(w, client)
  <2>1. WireOK(wire, client)
    BY DEF Inv
  <2>2. ASSUME NEW j \in 1 .. Len(w) PROVE Readable(w[j], client)
    BY <1>2, <1>16, <1>17, <2>1 DEF WireOK
  <2>3. ASSUME NEW j \in 1 .. Len(w), NEW k \in 1 .. Len(w), j < k PROVE w[j].num < w[k].num
    <3>1. j \in 1 .. Len(wire)
      BY <1>2, <1>17, <2>3
    <3>2. CASE k = Len(w)
      BY <1>2, <1>14, <1>17, <3>1, <3>2 DEF LevelOK
    <3>3. CASE k # Len(w)
      <4>1. k \in 1 .. Len(wire)
        BY <1>2, <1>17, <3>3
      <4>2. QED
        BY <1>17, <2>1, <2>3, <3>1, <4>1 DEF WireOK
    <3>4. QED
      BY <3>2, <3>3
  <2>4. QED
    BY <2>1, <2>2, <2>3 DEF WireOK
<1> HIDE DEF w
<1>19. /\ wire' \in Seq(Packets) /\ Len(wire') <= MaxWire /\ WireOK(wire', client)
       /\ \A j \in 1 .. Len(wire') : (\E k \in 1 .. Len(wire) : wire'[j] = wire[k]) \/ (sent /\ wire'[j] = pkt)
  <2>1. CASE ~sent
    BY <1>1, <1>2, <1>18, <2>1
  <2>2. CASE sent /\ Len(w) <= MaxWire
    <3>1. wire' = w
      BY <1>1, <1>2, <1>3, <1>17, <2>2
    <3>2. QED
      BY <1>2, <1>17, <1>18, <2>2, <3>1
  <2>3. CASE sent /\ Len(w) > MaxWire
    <3>1. wire' = Tail(w)
      BY <1>1, <2>3
    <3>2. wire' \in Seq(Packets) /\ Len(wire') = Len(w) - 1 /\ \A j \in 1 .. Len(wire') : wire'[j] = w[j + 1] /\ j + 1 \in 1 .. Len(w)
      BY <1>2, <1>17, <3>1
    <3>3. Len(wire') <= MaxWire
      BY <1>2, <1>3, <1>17, <3>2
    <3>4. WireOK(wire', client)
      <4>1. ASSUME NEW j \in 1 .. Len(wire') PROVE Readable(wire'[j], client)
        BY <1>18, <3>2 DEF WireOK
      <4>2. ASSUME NEW j \in 1 .. Len(wire'), NEW k \in 1 .. Len(wire'), j < k PROVE wire'[j].num < wire'[k].num
        <5>1. j + 1 < k + 1 /\ j + 1 \in 1 .. Len(w) /\ k + 1 \in 1 .. Len(w)
          BY <3>2, <4>2
        <5>2. QED
          BY <1>18, <3>2, <5>1 DEF WireOK
      <4>3. QED
        BY <4>1, <4>2 DEF WireOK
    <3>5. ASSUME NEW j \in 1 .. Len(wire') PROVE (\E k \in 1 .. Len(wire) : wire'[j] = wire[k]) \/ wire'[j] = pkt
      <4>1. wire'[j] = w[j + 1] /\ j + 1 \in 1 .. Len(w)
        BY <3>2
      <4>2. CASE j + 1 = Len(w)
        BY <1>17, <4>1, <4>2
      <4>3. CASE j + 1 # Len(w)
        <5>1. j + 1 \in 1 .. Len(wire)
          BY <1>2, <1>17, <4>1, <4>3
        <5>2. QED
          BY <1>17, <4>1, <5>1
      <4>4. QED
        BY <4>2, <4>3
    <3>6. QED
      BY <2>3, <3>2, <3>3, <3>4, <3>5
  <2>4. QED
    <3>1. Len(w) <= MaxWire \/ Len(w) > MaxWire
      BY <1>2, <1>3, <1>17
    <3>2. QED
      BY <2>1, <2>2, <2>3, <3>1
(* The server. *)
<1>20. /\ DemoStart(server) \in 1 .. MaxFrames + 2
       /\ DemoStart(server) = server.demostart \/ DemoStart(server) = framenum
  BY <1>2, <1>3 DEF DemoStart, Servers
<1>21. /\ s \in Servers /\ s.frames = [server.frames EXCEPT ![place] = F] /\ s.demostart = DemoStart(server)
       /\ s.state = server.state /\ s.lastframe = server.lastframe /\ s.demo = server.demo /\ s.first = server.first
       /\ s.broken = server.broken
  <2>1. [server.frames EXCEPT ![place] = F] \in [0 .. Backup - 1 -> ServerFrames]
    BY <1>2, <1>8, <1>9 DEF Servers
  <2>2. s = [[server EXCEPT !.frames = [server.frames EXCEPT ![place] = F]] EXCEPT !.demostart = DemoStart(server)]
    BY <1>2 DEF Servers
  <2> DEFINE g == [server.frames EXCEPT ![place] = F]
  <2> HIDE DEF g, s
  <2>3. s = [[server EXCEPT !.frames = g] EXCEPT !.demostart = DemoStart(server)]
    BY <2>2 DEF g
  <2>4. g \in [0 .. Backup - 1 -> ServerFrames]
    BY <2>1 DEF g
  <2>5. /\ s \in Servers /\ s.frames = g /\ s.demostart = DemoStart(server)
        /\ s.state = server.state /\ s.lastframe = server.lastframe /\ s.demo = server.demo /\ s.first = server.first
        /\ s.broken = server.broken
    BY <1>2, <1>20, <2>3, <2>4 DEF Servers
  <2>6. QED
    BY <2>5 DEF g, s
<1> HIDE DEF s
<1> DEFINE first == IF framenum < s.first THEN framenum ELSE s.first
           broken == s.broken \/ (base # -1 /\ base < s.first)
<1>22. ASSUME server.demo PROVE ~broken
  <2>1. ~s.broken
    BY <1>21 DEF Inv
  <2>2. ASSUME base # -1 PROVE ~(base < s.first)
    <3>1. base = server.lastframe /\ base \in 1 .. client.cur /\ server.demostart <= base /\ s.first = server.first
      BY <1>10, <1>21, <1>22, <2>2
    <3>2. InDemo(base)
      BY <1>1, <1>22, <3>1 DEF Inv, DemoOK
    <3>3. server.first \in Int /\ server.demostart \in Int
      BY <1>2 DEF Servers
    <3>4. QED
      BY <1>11, <3>1, <3>2, <3>3 DEF InDemo
  <2>3. QED
    BY <2>1, <2>2
<1>23. first \in 1 .. MaxFrames + 2 /\ first <= framenum /\ first <= server.first
  BY <1>2, <1>3, <1>21 DEF Servers
<1> HIDE DEF first, broken
<1>24. /\ server' \in Servers /\ server'.frames = s.frames /\ server'.demostart = DemoStart(server)
       /\ server'.state = server.state /\ server'.lastframe = server.lastframe /\ server'.demo = server.demo
       /\ ~server'.broken
       /\ server'.first = (IF server.demo /\ sent THEN first ELSE server.first)
  <2>1. CASE server.demo /\ sent
    <3>1. server' = [s EXCEPT !.first = first, !.broken = broken]
      BY <1>1, <1>21, <2>1 DEF Recorded, first, broken
    <3>2. broken = FALSE
      BY <1>22, <2>1 DEF broken
    <3>3. server' = [s EXCEPT !.first = first, !.broken = FALSE]
      BY <3>1, <3>2
    <3>4. QED
      BY <1>21, <1>23, <2>1, <3>3 DEF Servers
  <2>2. CASE ~(server.demo /\ sent)
    <3>1. server' = s
      BY <1>1, <1>21, <2>2 DEF Recorded
    <3>2. ~server.broken
      BY DEF Inv
    <3>3. QED
      BY <1>21, <2>2, <3>1, <3>2
  <2>3. QED
    BY <2>1, <2>2
<1>25. count' \in [frames : 0 .. MaxFrames, levels : Nat, demos : Nat] /\ framenum' \in 1 .. count'.frames + 1
  <2> DEFINE c == count.frames + 1
  <2>1. count' = [count EXCEPT !.frames = c]
    BY DEF SendFrame
  <2>2. c \in 0 .. MaxFrames /\ framenum' \in 1 .. c + 1
    BY <1>1, <1>2, <1>3
  <2> HIDE DEF c
  <2>3. count' \in [frames : 0 .. MaxFrames, levels : Nat, demos : Nat] /\ count'.frames = c
    BY <1>2, <2>1, <2>2
  <2>4. QED
    BY <2>2, <2>3
<1>26. next' \in Nat /\ next <= next' /\ next' <= next + Share /\ next' = next + num + others
  BY <1>1, <1>2, <1>3, <1>5
<1>27. TypesInv'
  <2>1. client' \in Clients
    BY <1>1, <1>2
  <2>2. QED
    BY <1>7, <1>19, <1>24, <1>25, <1>26, <2>1
       DEF TypesInv, Ring, Entries, Servers, ServerFrames, Clients, ClientFrames, Packets
<1>28. ClientOK(client)' /\ WireOK(wire, client)'
  <2>1. ClientOK(client)
    BY DEF Inv
  <2>2. QED
    BY <1>1, <1>19, <2>1
<1>29. ASSUME NEW m \in Nat, m < framenum, NEW meant, Recent(m) => Stays(m, meant)
       PROVE  Recent(m)' => Stays(m, meant)'
  <2>1. SUFFICES ASSUME Recent(m)' PROVE Stays(m, meant)'
    OBVIOUS
  <2>2. framenum' - m < Backup /\ m \in Nat \ {0} /\ framenum - m < Backup
    BY <1>1, <1>3, <1>29, <2>1 DEF Recent
  <2>3. Stays(m, meant)
    BY <1>29, <2>2 DEF Recent
  <2>4. m % Backup # place /\ m % Backup \in 0 .. Backup - 1
    <3>1. m \in Int /\ framenum \in Int /\ m < framenum /\ framenum - m < Backup /\ Backup \in Nat \ {0}
      BY <1>3, <1>29, <2>2
    <3>2. m % Backup # framenum % Backup
      BY <3>1, OwnPlace
    <3>3. m % Backup \in 0 .. Backup - 1
      BY <3>1
    <3>4. QED
      BY <3>2, <3>3 DEF place
  <2>5. server'.frames[m % Backup] = server.frames[m % Backup]
    BY <1>2, <1>21, <1>24, <2>4 DEF Servers
  <2>6. QED
    BY <1>1, <1>2, <1>7, <1>26, <1>29, <2>2, <2>3, <2>5, StaysOver
<1>30. ASSUME NEW m, m = framenum, NEW meant, meant = pkt.meant PROVE Stays(m, meant)'
  <2>1. server'.frames[place] = F
    BY <1>2, <1>9, <1>21, <1>24 DEF Servers
  <2>2. framenum' - framenum = 1 /\ 1 * Share = Share
    BY <1>1, <1>3
  <2>3. F.first + F.num <= next' /\ next' <= F.first + 1 * Share
    BY <1>2, <1>3, <1>5, <1>8, <1>26, <2>2
  <2>4. Held(F, ring', next', 1, pkt.meant)
    BY <1>6, <1>7, <1>8, <1>14, <2>3 DEF Held
  <2>5. server'.frames[framenum % Backup] = F
    BY <2>1 DEF place
  <2>6. Held(server'.frames[framenum % Backup], ring', next', framenum' - framenum, pkt.meant)
    BY <2>2, <2>4, <2>5
  <2>7. QED
    BY <1>30, <2>6 DEF Stays
<1>31. LevelOK'
  <2>1. server'.lastframe <= 0 \/ server'.lastframe <= client'.cur
    BY <1>1, <1>2, <1>24 DEF LevelOK
  <2>2. client'.cur < framenum'
    BY <1>1, <1>3, <1>11
  <2>3. \A m \in Int : Recent(m)' => Recent(m)
    BY <1>1, <1>3 DEF Recent
  <2>4. Has(client, server.lastframe) \/ ~(server'.lastframe > 0 /\ framenum' - server'.lastframe < Backup)
    <3>1. server.lastframe \in Int /\ server'.lastframe = server.lastframe
      BY <1>2, <1>24 DEF Servers
    <3>2. server'.lastframe > 0 /\ framenum' - server'.lastframe < Backup => Recent(server.lastframe)
      BY <1>1, <1>3, <3>1 DEF Recent
    <3>3. QED
      BY <1>2, <3>2 DEF LevelOK
  <2>5. ASSUME NEW m, m \in Int, m < framenum, NEW meant, Recent(m) => Stays(m, meant)
        PROVE  m > 0 /\ framenum' - m < Backup => Held(server'.frames[m % Backup], ring', next', framenum' - m, meant)
    <3>1. SUFFICES ASSUME m > 0, framenum' - m < Backup
                   PROVE  Held(server'.frames[m % Backup], ring', next', framenum' - m, meant)
      OBVIOUS
    <3>2. m \in Nat
      BY <2>5, <3>1
    <3>3. Recent(m)' => Stays(m, meant)'
      BY <1>29, <2>5, <3>2
    <3>4. Recent(m)'
      BY <3>1 DEF Recent
    <3>5. QED
      BY <3>3, <3>4 DEF Stays
  <2>6. ASSUME NEW k \in 0 .. Backup - 1
        PROVE  LET f == client.frames[k]
               IN  f.num > 0 /\ framenum' - f.num < Backup => Held(server'.frames[f.num % Backup], ring', next', framenum' - f.num, f.meant)
    <3>1. client.frames[k] \in ClientFrames
      BY <1>2 DEF Clients
    <3>2. client.frames[k].num \in Int /\ (client.frames[k].num > 0 => client.frames[k].num <= client.cur)
      BY <3>1 DEF Inv, ClientOK, ClientFrames
    <3>3. client.frames[k].num < framenum
      BY <1>3, <1>11, <3>2
    <3>4. Recent(client.frames[k].num) => Stays(client.frames[k].num, client.frames[k].meant)
      BY <1>2 DEF LevelOK
    <3>5. QED
      BY <2>5, <3>2, <3>3, <3>4
  <2>7. ASSUME NEW j \in 1 .. Len(wire')
        PROVE  LET p == wire'[j]
               IN  /\ p.num < framenum'
                   /\ p.num > 0 /\ framenum' - p.num < Backup => Held(server'.frames[p.num % Backup], ring', next', framenum' - p.num, p.meant)
    <3>1. CASE \E k \in 1 .. Len(wire) : wire'[j] = wire[k]
      <4>1. PICK k \in 1 .. Len(wire) : wire'[j] = wire[k]
        BY <3>1
      <4> DEFINE p == wire[k]
      <4>2. p.num \in Int /\ p.num < framenum /\ (Recent(p.num) => Stays(p.num, p.meant))
        <5>1. p \in Packets
          BY <1>2
        <5>2. p.num \in Int
          BY <5>1 DEF Packets
        <5>3. QED
          BY <1>2, <5>2 DEF LevelOK
      <4>3. p.num > 0 /\ framenum' - p.num < Backup => Held(server'.frames[p.num % Backup], ring', next', framenum' - p.num, p.meant)
        BY <2>5, <4>2
      <4>4. p.num < framenum'
        BY <1>1, <1>3, <4>2
      <4>5. QED
        BY <4>1, <4>3, <4>4
    <3>2. CASE wire'[j] = pkt
      <4>1. \A m, meant : m = framenum /\ meant = pkt.meant => Held(server'.frames[m % Backup], ring', next', framenum' - m, meant)
        BY <1>30 DEF Stays
      <4>2. Held(server'.frames[framenum % Backup], ring', next', framenum' - framenum, pkt.meant)
        BY <4>1
      <4>3. wire'[j].num = framenum /\ wire'[j].meant = pkt.meant /\ framenum < framenum'
        BY <1>1, <1>3, <1>14, <3>2
      <4>4. QED
        BY <4>2, <4>3
    <3>3. QED
      BY <1>19, <3>1, <3>2
  <2>8. QED
    BY <1>1, <1>24, <2>1, <2>2, <2>4, <2>6, <2>7 DEF LevelOK, Recent, Stays, Has
<1>32. ASSUME server'.demo PROVE DemoOK'
  <2>1. DemoOK /\ server.demo
    BY <1>1, <1>24, <1>32 DEF Inv
  <2>2. server.lastframe \in Int /\ server.first \in Int /\ server.demostart \in Int /\ server'.first \in Int
    BY <1>2, <1>24 DEF Servers
  <2>3. server'.first <= server.first /\ (sent => server'.first <= framenum)
    BY <1>23, <1>24, <2>1, <2>2
  <2>4. ASSUME NEW m \in Int, m < framenum, InDemo(m) PROVE m > 0 /\ m >= server'.demostart => m >= server'.first
    BY <1>3, <1>20, <1>24, <2>2, <2>3, <2>4 DEF InDemo
  <2>5. server.lastframe < framenum
    BY <1>2, <1>3, <1>11, <2>2 DEF LevelOK
  <2>6. client.cur \in Int /\ client.cur < framenum
    BY <1>11
  <2>7. ASSUME NEW j \in 1 .. Len(wire')
        PROVE  wire'[j].num > 0 /\ wire'[j].num >= server'.demostart => wire'[j].num >= server'.first
    <3>1. CASE \E k \in 1 .. Len(wire) : wire'[j] = wire[k]
      <4>1. PICK k \in 1 .. Len(wire) : wire'[j] = wire[k]
        BY <3>1
      <4>2. wire[k] \in Packets
        BY <1>2
      <4>3. wire[k].num \in Int /\ wire[k].num < framenum /\ InDemo(wire[k].num)
        BY <1>2, <2>1, <4>2 DEF LevelOK, DemoOK, Packets
      <4>4. QED
        BY <2>4, <4>1, <4>3
    <3>2. CASE sent /\ wire'[j] = pkt
      BY <1>3, <1>14, <2>2, <2>3, <3>2
    <3>3. QED
      BY <1>19, <3>1, <3>2
  <2>8. QED
    BY <1>1, <1>24, <2>1, <2>2, <2>4, <2>5, <2>6, <2>7 DEF DemoOK, InDemo
<1>33. QED
  BY <1>1, <1>24, <1>27, <1>28, <1>31, <1>32 DEF Inv

LEMMA StepInv == ASSUME FramesFit PROVE Inv /\ [Next]_vars => Inv'
<1>1. ASSUME NEW v \in Views, NEW n \in OtherSizes PROVE Inv /\ SendFrame(v, n) => Inv'
  BY SendFrameStep
<1>2. ASSUME NEW i \in 1 .. MaxWire PROVE Inv /\ Receive(i) => Inv'
  BY ReceiveStep
<1>3. QED
  BY <1>1, <1>2, ReadMoveStep, OtherSteps, BeginStep DEF Next

LEMMA InvShows == Inv => FramesAgree /\ BasesAreUsable /\ DemoIsComplete
<1> SUFFICES ASSUME Inv PROVE FramesAgree /\ BasesAreUsable /\ DemoIsComplete
  OBVIOUS
<1>1. Backup \in Nat \ {0} /\ Backup > 2 /\ MaxFrames \in Nat /\ TypesInv /\ ClientOK(client)
  BY RingIs, FrameSizes DEF Inv
<1>2. FramesAgree
  BY <1>1 DEF FramesAgree, ClientOK
<1>3. TypeOK
  <2>1. framenum \in 1 .. MaxFrames + 1
    BY <1>1 DEF TypesInv
  <2>2. \A k \in 0 .. RingSize - 1 : ring[k] \in Entries
    BY <1>1 DEF TypesInv, Ring
  <2>3. /\ server.state \in {"cs_connected", "cs_spawned"} /\ server.lastframe \in -1 .. MaxFrames
        /\ server.demostart \in 1 .. MaxFrames + 2
    BY <1>1 DEF TypesInv, Servers
  <2>4. \A k \in 0 .. Backup - 1 : server.frames[k].num \in 0 .. FrameLimit
    <3>1. \A k \in 0 .. Backup - 1 : server.frames[k] \in ServerFrames
      BY <1>1 DEF TypesInv, Servers
    <3>2. QED
      BY <3>1 DEF ServerFrames
  <2>5. QED
    BY <1>1, <2>1, <2>2, <2>3, <2>4 DEF TypeOK, TypesInv
<1>4. BaseIsKept
  <2> DEFINE b == server.lastframe
  <2>1. SUFFICES ASSUME server.state = "cs_spawned", b > 0, ~TooOld(server), client.frames[b % Backup].num = b
                 PROVE  Known(Stored(ring, server.frames[b % Backup])) = client.frames[b % Backup].ents
    BY DEF BaseIsKept
  <2>2. LevelOK /\ b \in Nat /\ framenum \in Nat
    BY <1>1, <1>3, <2>1 DEF Inv, TypeOK
  <2>3. framenum - b < Backup
    BY <1>1, <2>1, <2>2 DEF TooOld
  <2>4. b % Backup \in 0 .. Backup - 1
    BY <1>1, <2>2
  <2>5. Stays(b, client.frames[b % Backup].meant)
    BY <2>1, <2>2, <2>3, <2>4 DEF LevelOK, Recent
  <2>6. client.frames[b % Backup].ents = client.frames[b % Backup].meant
    BY <1>1, <2>4 DEF ClientOK
  <2>7. QED
    BY <2>5, <2>6 DEF Stays, Held
<1>5. DeltaIsUsable /\ DemoIsComplete
  BY <1>1 DEF Inv, ClientOK, DeltaIsUsable, DemoIsComplete
<1>6. QED
  BY <1>2, <1>3, <1>4, <1>5 DEF BasesAreUsable

----------------------------------------------------------------------------
(* If frames fit in their shares of the ring, the client has of every frame what the server sent,  *)
(* after any losses, late acknowledgements, reductions and level changes (sv_ents.c:511-641).       *)
THEOREM FramesAlwaysAgree == ASSUME FramesFit PROVE Spec => []FramesAgree
<1>1. Inv => FramesAgree
  BY InvShows
<1>2. Inv /\ [Next]_vars => Inv'
  BY StepInv
<1>3. QED
  BY <1>1, <1>2, Starts, PTL DEF Spec

(* And the frame a delta is made from is still in the ring as the client has it, who can always    *)
(* use the delta (sv_ents.c:1381-1393).                                                             *)
THEOREM BasesAreThere == ASSUME FramesFit PROVE Spec => []BasesAreUsable
<1>1. Inv => BasesAreUsable
  BY InvShows
<1>2. Inv /\ [Next]_vars => Inv'
  BY StepInv
<1>3. QED
  BY <1>1, <1>2, Starts, PTL DEF Spec

(* And every delta in a demo is from a frame that is in the demo (sv_ents.c:1366-1374).            *)
THEOREM DemosAreComplete == ASSUME FramesFit PROVE Spec => []DemoIsComplete
<1>1. Inv => DemoIsComplete
  BY InvShows
<1>2. Inv /\ [Next]_vars => Inv'
  BY StepInv
<1>3. QED
  BY <1>1, <1>2, Starts, PTL DEF Spec
=============================================================================
