--------------------------- MODULE MsgQueueProofs ---------------------------
(***************************************************************************)
(* Proofs about the message list of a client: for every length of the      *)
(* list, every size of packets and every set of messages that the          *)
(* assumptions of MsgQueue allow.                                          *)
(*                                                                         *)
(* The loops over the list are recursive functions of the slot.  What they *)
(* come to is proved by taking the least slot at which it would fail       *)
(* (LeastOf), once such a function exists (Recursion).  The invariant Inv  *)
(* holds between handlers, Good also between the steps of one, of which    *)
(* each has a lemma; Lay is what the stored layout needs beside it.        *)
(***************************************************************************)
EXTENDS MsgQueue, FiniteSetTheorems, WellFoundedInduction, TLAPS

(* Sets of numbers have a least member, and a greatest if they are bounded. *)
LEMMA LeastOf ==
  ASSUME NEW S \in SUBSET Nat, S # {}
  PROVE  \E x \in S : \A y \in S : x <= y
<1> DEFINE T == {0 .. y : y \in S}
<1>1. T \subseteq FiniteSubsetsOf(Nat) /\ T # {}
  <2>1. ASSUME NEW y \in S PROVE 0 .. y \in FiniteSubsetsOf(Nat)
    <3>1. 0 \in Int /\ y \in Int /\ 0 .. y \subseteq Nat
      OBVIOUS
    <3>2. IsFiniteSet(0 .. y)
      BY <3>1, FS_Interval
    <3>3. QED
      BY <3>1, <3>2 DEF FiniteSubsetsOf
  <2>2. QED
    BY <2>1
<1>2. PICK low \in T : \A t \in T : <<t, low>> \notin StrictSubsetOrdering(Nat)
  BY <1>1, WFMin, FS_StrictSubsetOrderingWellFounded
<1>3. PICK x \in S : low = 0 .. x
  BY <1>2
<1>4. ASSUME NEW y \in S PROVE x <= y
  <2>1. <<0 .. y, 0 .. x>> \notin StrictSubsetOrdering(Nat)
    BY <1>2, <1>3
  <2>2. x \in Nat /\ y \in Nat
    OBVIOUS
  <2>3. SUFFICES ASSUME y < x PROVE FALSE
    BY <2>2
  <2>4. 0 .. y \subseteq 0 .. x /\ x \in 0 .. x /\ x \notin 0 .. y /\ 0 .. x \subseteq Nat
    BY <2>2, <2>3
  <2>5. QED
    BY <2>1, <2>4 DEF StrictSubsetOrdering
<1>5. QED
  BY <1>4

LEMMA GreatestOf ==
  ASSUME NEW N \in Nat, NEW S \in SUBSET (0 .. N), S # {}
  PROVE  \E x \in S : \A y \in S : x >= y
<1> DEFINE T == {N - x : x \in S}
<1>1. T \in SUBSET Nat /\ T # {}
  <2>1. ASSUME NEW x \in S PROVE N - x \in Nat
    <3>1. x \in 0 .. N
      OBVIOUS
    <3>2. QED
      BY <3>1
  <2>2. QED
    BY <2>1
<1>2. PICK t \in T : \A u \in T : t <= u
  <2> HIDE DEF T
  <2>1. QED
    BY <1>1, LeastOf
<1>3. PICK x \in S : t = N - x
  BY <1>2
<1>4. ASSUME NEW y \in S PROVE x >= y
  <2>1. N - x <= N - y /\ x \in 0 .. N /\ y \in 0 .. N
    BY <1>2, <1>3
  <2>2. QED
    BY <2>1
<1>5. QED
  BY <1>3, <1>4

(* A function defined by recursion over 0 .. N exists: f[i] is what the i-th step makes of f[i-1]. *)
Recurs(f, N, D, a, s) == f \in [0 .. N -> D] /\ f[0] = a /\ \A i \in 1 .. N : f[i] = s[i][f[i-1]]
LEMMA Recursion ==
  ASSUME NEW N \in Nat, NEW D, NEW a \in D, NEW s \in [1 .. N -> [D -> D]]
  PROVE  \E f : Recurs(f, N, D, a, s)
<1> DEFINE Upto(n, f) == f \in [0 .. n -> D] /\ f[0] = a /\ \A i \in 1 .. n : f[i] = s[i][f[i-1]]
           Bad == {n \in 0 .. N : ~\E f : Upto(n, f)}
<1>1. SUFFICES ASSUME Bad # {} PROVE FALSE
  <2>1. N \notin Bad
    BY <1>1
  <2>2. PICK f : Upto(N, f)
    BY <2>1
  <2>3. QED
    BY <2>2 DEF Recurs
<1>2. Bad \in SUBSET Nat
  OBVIOUS
<1>3. PICK n \in Bad : \A k \in Bad : n <= k
  <2> HIDE DEF Bad
  <2>1. QED
    BY <1>1, <1>2, LeastOf
<1>4. n \in 0 .. N /\ ~\E f : Upto(n, f)
  BY <1>3
<1>5. CASE n = 0
  <2>1. Upto(0, [i \in 0 .. 0 |-> a])
    OBVIOUS
  <2>2. QED
    BY <1>4, <1>5, <2>1
<1>6. CASE n # 0
  <2>1. n - 1 \in 0 .. N /\ ~(n <= n - 1)
    BY <1>4, <1>6
  <2>2. n - 1 \notin Bad
    BY <1>3, <2>1
  <2>3. PICK f : Upto(n - 1, f)
    BY <2>1, <2>2
  <2> DEFINE g == [i \in 0 .. n |-> IF i = n THEN s[n][f[n-1]] ELSE f[i]]
  <2>4. n \in 1 .. N /\ n - 1 \in 0 .. n - 1
    BY <1>4, <1>6
  <2>5. s[n] \in [D -> D] /\ f[n-1] \in D
    BY <2>3, <2>4
  <2>6. g \in [0 .. n -> D]
    <3>1. ASSUME NEW i \in 0 .. n PROVE (IF i = n THEN s[n][f[n-1]] ELSE f[i]) \in D
      <4>1. i # n => i \in 0 .. n - 1
        BY <2>4
      <4>2. QED
        BY <2>3, <2>5, <4>1
    <3>2. QED
      BY <3>1
  <2>7. g[0] = a
    <3>1. 0 \in 0 .. n /\ 0 # n
      BY <2>4
    <3>2. QED
      BY <2>3, <3>1
  <2>8. ASSUME NEW i \in 1 .. n PROVE g[i] = s[i][g[i-1]]
    <3>1. i \in 0 .. n /\ i - 1 \in 0 .. n /\ i - 1 # n /\ (i # n => i \in 1 .. n - 1)
      BY <2>4
    <3>2. g[i-1] = f[i-1]
      BY <3>1
    <3>3. g[i] = IF i = n THEN s[n][f[n-1]] ELSE f[i]
      BY <3>1
    <3>4. QED
      BY <2>3, <3>1, <3>2, <3>3
  <2>9. Upto(n, g)
    BY <2>6, <2>7, <2>8
  <2>10. QED
    BY <1>4, <2>9
<1>7. QED
  BY <1>4, <1>5, <1>6

-----------------------------------------------------------------------------
(* The types.                                                              *)

Notes == {"OVERFLOWED", "OVERFLOW_DONE"}
Slots == 1 .. MaxList - 2
Texts == {q.text : q \in Requests} \cup {"disconnect", "overflowed"}
Entries == [type : Types, text : Texts, size : 1 .. BuffSize, reliable : BOOLEAN, heap : BOOLEAN, slot : Slots, nr : Nat]
Buffers == [data : SUBSET [slot : Slots, text : Texts], size : 0 .. BuffSize, packed : BOOLEAN]
States == {Free, Zombie, Connected, Spawning, Spawned}
Client ==
  [state : States, open : BOOLEAN, list : SUBSET Entries, notes : SUBSET Notes, layout : LayoutTexts \cup {None},
   layout_unreliable : Nat, outgoing_sequence : Nat \ {0}, incoming_acknowledged : Nat, last_reliable_sequence : Nat,
   message : Buffers, reliable_buf : Buffers, toobig : BOOLEAN, reliable_got : BOOLEAN, received : SUBSET Nat,
   shown : LayoutTexts \cup {None}, adds : Nat, asked : Nat, took : SUBSET [nr : Nat, text : Texts], misfreed : BOOLEAN]
OneASlot(list) == \A m, n \in list : m.slot = n.slot => m = n

(* The entry that comes first, and the end of the list. *)
LEMMA FirstIs ==
  ASSUME NEW S \in SUBSET Entries, S # {}
  PROVE  First(S) \in S /\ \A n \in S : First(S).slot <= n.slot
<1> DEFINE T == {m.slot : m \in S}
<1>1. T \in SUBSET Nat /\ T # {}
  <2>1. ASSUME NEW m \in S PROVE m.slot \in Nat
    <3>1. m \in Entries
      OBVIOUS
    <3>2. QED
      BY <3>1, MessageSizes DEF Entries, Slots
  <2>2. QED
    BY <2>1
<1>2. PICK x \in T : \A y \in T : x <= y
  <2> HIDE DEF T
  <2>1. QED
    BY <1>1, LeastOf
<1>3. PICK m \in S : m.slot = x
  BY <1>2
<1>4. \A n \in S : m.slot <= n.slot
  BY <1>2, <1>3
<1>5. QED
  BY <1>4 DEF First

LEMMA EndIndexIs ==
  ASSUME NEW c, c.list \subseteq Entries
  PROVE  EndIndex(c) \in Nat /\ (\A m \in c.list : m.slot <= EndIndex(c)) /\ EndIndex(c) \in {0} \cup {m.slot : m \in c.list}
<1> DEFINE T == {0} \cup {m.slot : m \in c.list}
<1>1. T \in SUBSET (0 .. MaxList) /\ T # {} /\ MaxList \in Nat
  <2>1. ASSUME NEW m \in c.list PROVE m.slot \in 0 .. MaxList
    <3>1. m \in Entries
      OBVIOUS
    <3>2. QED
      BY <3>1, MessageSizes DEF Entries, Slots
  <2>2. QED
    BY <2>1, MessageSizes
<1>2. \E x \in T : \A y \in T : x >= y
  <2> HIDE DEF T
  <2>1. QED
    BY <1>1, GreatestOf
<1>3. EndIndex(c) = CHOOSE x \in T : \A y \in T : x >= y
  BY DEF EndIndex, Max
<1>4. EndIndex(c) \in T /\ \A y \in T : EndIndex(c) >= y
  <2> HIDE DEF T
  <2>1. QED
    BY <1>2, <1>3
<1>5. EndIndex(c) \in Nat
  BY <1>1, <1>4
<1>6. ASSUME NEW m \in c.list PROVE m.slot <= EndIndex(c)
  <2>1. m.slot \in T /\ m.slot \in Nat
    BY <1>1
  <2>2. QED
    BY <1>4, <1>5, <2>1
<1>7. QED
  BY <1>4, <1>5, <1>6

(* What the loop of SV_WriteReliableMessages takes: the first messages, as many as fit. *)
LEMMA WrittenIs ==
  ASSUME NEW c \in Client, OneASlot(c.list), NEW bs \in Nat, c.message = Empty
  PROVE  /\ Written(c, bs).taken \subseteq Reliables(c)
         /\ Written(c, bs).size \in Nat /\ Written(c, bs).size <= bs
         /\ \A m \in Written(c, bs).taken, n \in Reliables(c) : n.slot < m.slot => n \in Written(c, bs).taken
         /\ Reliables(c) # {} /\ First(Reliables(c)).size <= bs => Written(c, bs).taken # {}
<1> DEFINE R == Reliables(c)
           D == [size : Nat, taken : SUBSET R, prev : Types \cup {"none"}]
           start == [size |-> c.message.size, taken |-> {}, prev |-> "none"]
           next(k, a) == {m \in R : /\ m.slot = k /\ a.size + m.size <= bs
                                    /\ \A n \in R : n.slot < k => n \in a.taken}
           step(k, a) == IF next(k, a) = {} THEN a
                         ELSE [size |-> a.size + Cost(a.prev, First(next(k, a))), taken |-> a.taken \cup next(k, a),
                               prev |-> First(next(k, a)).type]
           s == [k \in 1 .. MaxList |-> [a \in D |-> step(k, a)]]
<1>1. R \subseteq Entries /\ OneASlot(R) /\ start.size = 0 /\ start \in D /\ MaxList \in Nat
  <2>1. R \subseteq Entries /\ OneASlot(R)
    BY DEF Reliables, Client, OneASlot
  <2>2. c.message.size = 0
    BY DEF Empty
  <2>3. QED
    BY <2>1, <2>2, MessageSizes
<1>2. ASSUME NEW m \in R PROVE m.size \in Nat \ {0} /\ m.slot \in 1 .. MaxList /\ m.type \in Types
  <2>1. m \in Entries
    BY <1>1
  <2>2. QED
    BY <2>1, MessageSizes DEF Entries, Slots
<1> HIDE DEF R
<1>3. ASSUME NEW k, NEW a, next(k, a) # {}
      PROVE  First(next(k, a)) \in next(k, a) /\ next(k, a) = {First(next(k, a))} /\ First(next(k, a)) \in R
             /\ First(next(k, a)).slot = k /\ a.size + First(next(k, a)).size <= bs
  <2>1. next(k, a) \in SUBSET Entries
    BY <1>1
  <2>2. First(next(k, a)) \in next(k, a)
    <3> HIDE DEF next
    <3>1. QED
      BY <1>3, <2>1, FirstIs
  <2>3. ASSUME NEW m \in next(k, a) PROVE m = First(next(k, a))
    BY <1>1, <2>2 DEF OneASlot
  <2>4. QED
    BY <2>2, <2>3
<1>4. ASSUME NEW a \in D, NEW m \in R
      PROVE  a.size + Cost(a.prev, m) \in Nat /\ a.size + Cost(a.prev, m) <= a.size + m.size
  BY <1>2 DEF Cost
<1>5. ASSUME NEW k \in 1 .. MaxList, NEW a \in D PROVE step(k, a) \in D
  <2>1. CASE next(k, a) = {}
    BY <2>1
  <2>2. CASE next(k, a) # {}
    <3>1. First(next(k, a)) \in R
      BY <1>3, <2>2
    <3>2. next(k, a) \subseteq R
      OBVIOUS
    <3>3. a.size + Cost(a.prev, First(next(k, a))) \in Nat /\ First(next(k, a)).type \in Types
      BY <1>2, <1>4, <3>1
    <3> HIDE DEF next
    <3>4. QED
      BY <2>2, <3>2, <3>3
  <2>3. QED
    BY <2>1, <2>2
<1>6. s \in [1 .. MaxList -> [D -> D]]
  <2> HIDE DEF step, D
  <2>1. QED
    BY <1>5
<1>7. PICK f : Recurs(f, MaxList, D, start, s)
  <2> HIDE DEF s, D, start
  <2>1. QED
    BY <1>1, <1>6, Recursion
<1>8. f \in [0 .. MaxList -> D] /\ f[0] = start /\ \A k \in 1 .. MaxList : f[k] = step(k, f[k-1])
  <2>1. f \in [0 .. MaxList -> D] /\ f[0] = start /\ \A k \in 1 .. MaxList : f[k] = s[k][f[k-1]]
    BY <1>7 DEF Recurs
  <2>2. ASSUME NEW k \in 1 .. MaxList PROVE f[k] = step(k, f[k-1])
    <3>1. k - 1 \in 0 .. MaxList
      BY <1>1
    <3>2. f[k-1] \in D
      BY <2>1, <3>1
    <3> HIDE DEF step, D
    <3>3. QED
      BY <2>1, <3>2
  <2>3. QED
    BY <2>1, <2>2
<1> DEFINE Is(g) == g = [k \in 0 .. MaxList |-> IF k = 0 THEN start ELSE step(k, g[k-1])]
<1>9. Is(f)
  <2> HIDE DEF step, D, start
  <2>1. \A k \in 0 .. MaxList : k = 0 \/ k \in 1 .. MaxList
    OBVIOUS
  <2>2. QED
    BY <1>8, <2>1
<1> DEFINE h == CHOOSE g : Is(g)
<1>10. Is(h)
  <2> HIDE DEF Is
  <2>1. QED
    BY <1>9
<1>11. Written(c, bs) = h[MaxList]
  BY DEF Written, R
<1> HIDE DEF h
<1>12. h[0] = start /\ \A k \in 1 .. MaxList : h[k] = step(k, h[k-1])
  <2>1. h = [k \in 0 .. MaxList |-> IF k = 0 THEN start ELSE step(k, h[k-1])]
    BY <1>10
  <2> HIDE DEF step, start
  <2>2. 0 \in 0 .. MaxList /\ \A k \in 1 .. MaxList : k \in 0 .. MaxList /\ k # 0
    BY <1>1
  <2>3. QED
    BY <2>1, <2>2
<1> DEFINE P(k) == /\ h[k] \in D /\ h[k].size <= bs
                   /\ \A m \in h[k].taken : m.slot <= k /\ \A n \in R : n.slot < m.slot => n \in h[k].taken
                   /\ \A m \in R : m.slot <= k /\ m.size <= bs /\ (\A n \in R : m.slot <= n.slot) => m \in h[k].taken
                   /\ h[k].taken = {} => h[k].size = 0
           Bad == {k \in 0 .. MaxList : ~P(k)}
<1>13. P(0)
  <2>1. h[0].taken = {} /\ h[0].size = 0 /\ h[0] \in D
    BY <1>1, <1>12
  <2>2. \A m \in R : ~(m.slot <= 0)
    BY <1>2
  <2>3. QED
    BY <2>1, <2>2
<1>14. ASSUME NEW k \in 1 .. MaxList, P(k-1) PROVE P(k)
  <2> DEFINE a == h[k-1]
  <2>1. h[k] = step(k, a) /\ a \in D
    BY <1>12, <1>14
  <2>2. h[k] \in D
    <3> HIDE DEF step, D
    <3>1. QED
      BY <1>5, <2>1
  <2>3. a.size <= bs /\ (a.taken = {} => a.size = 0) /\ (\A m \in a.taken : m.slot <= k - 1 /\ \A n \in R : n.slot < m.slot => n \in a.taken)
        /\ \A m \in R : m.slot <= k - 1 /\ m.size <= bs /\ (\A n \in R : m.slot <= n.slot) => m \in a.taken
    BY <1>14
  <2>4. a.taken \subseteq R
    BY <2>1
  <2> HIDE DEF a
  <2>5. CASE next(k, a) = {}
    <3>1. h[k] = a
      BY <2>1, <2>5
    <3>2. \A m \in a.taken : m.slot <= k
      BY <1>2, <2>3, <2>4
    <3>3. ASSUME NEW m \in R, m.slot <= k, m.size <= bs, \A n \in R : m.slot <= n.slot PROVE m \in a.taken
      <4>1. m.slot \in Nat /\ m.size \in Nat
        BY <1>2
      <4>2. CASE m.slot <= k - 1
        BY <2>3, <3>3, <4>2
      <4>3. CASE ~(m.slot <= k - 1)
        <5>1. m.slot = k
          BY <3>3, <4>1, <4>3
        <5>2. \A n \in R : ~(n.slot < k)
          BY <1>2, <3>3, <5>1
        <5>3. m \notin next(k, a)
          BY <2>5
        <5>4. ~(a.size + m.size <= bs)
          BY <5>1, <5>2, <5>3
        <5>5. a.size # 0 /\ a.size \in Nat
          BY <2>1, <3>3, <4>1, <5>4
        <5>6. PICK x \in a.taken : x \in R
          BY <2>3, <2>4, <5>5
        <5>7. m.slot <= x.slot /\ x.slot <= k - 1
          BY <2>3, <3>3, <5>6
        <5>8. QED
          BY <1>2, <4>3, <5>6, <5>7
      <4>4. QED
        BY <4>2, <4>3
    <3>4. QED
      BY <2>2, <2>3, <3>1, <3>2, <3>3
  <2>6. CASE next(k, a) # {}
    <3> DEFINE m == First(next(k, a))
    <3>1. m \in R /\ m.slot = k /\ a.size + m.size <= bs /\ next(k, a) = {m} /\ m \in next(k, a)
      <4> HIDE DEF next
      <4>1. QED
        BY <1>3, <2>6
    <3>2. \A n \in R : n.slot < k => n \in a.taken
      BY <3>1
    <3>3. h[k].size = a.size + Cost(a.prev, m) /\ h[k].taken = a.taken \cup {m}
      <4> HIDE DEF next
      <4>1. QED
        BY <2>1, <2>6, <3>1
    <3> HIDE DEF m
    <3>4. h[k].size <= bs
      <4>1. a.size + Cost(a.prev, m) <= a.size + m.size /\ a.size + Cost(a.prev, m) \in Nat
        BY <1>4, <2>1, <3>1
      <4>2. m.size \in Nat /\ a.size \in Nat
        BY <1>2, <2>1, <3>1
      <4>3. QED
        BY <3>1, <3>3, <4>1, <4>2
    <3>5. ASSUME NEW x \in h[k].taken PROVE x.slot <= k /\ \A n \in R : n.slot < x.slot => n \in h[k].taken
      <4>1. CASE x = m
        BY <3>1, <3>2, <3>3, <4>1
      <4>2. CASE x \in a.taken
        BY <1>2, <2>3, <2>4, <3>3, <4>2
      <4>3. QED
        BY <3>3, <3>5, <4>1, <4>2
    <3>6. ASSUME NEW x \in R, x.slot <= k, x.size <= bs, \A n \in R : x.slot <= n.slot PROVE x \in h[k].taken
      <4>1. CASE x.slot <= k - 1
        BY <2>3, <3>3, <3>6, <4>1
      <4>2. CASE ~(x.slot <= k - 1)
        <5>1. x.slot = k
          BY <1>2, <3>6, <4>2
        <5>2. x = m
          BY <1>1, <3>1, <5>1 DEF OneASlot
        <5>3. QED
          BY <3>3, <5>2
      <4>3. QED
        BY <4>1, <4>2
    <3>7. h[k].taken # {}
      BY <3>3
    <3>8. QED
      BY <2>2, <3>4, <3>5, <3>6, <3>7
  <2>7. QED
    BY <2>5, <2>6
<1> HIDE DEF P
<1>15. P(MaxList)
  <2>1. SUFFICES ASSUME Bad # {} PROVE FALSE
    BY <1>1
  <2>2. Bad \in SUBSET Nat
    OBVIOUS
  <2>3. PICK k \in Bad : \A j \in Bad : k <= j
    <3> HIDE DEF Bad
    <3>1. QED
      BY <2>1, <2>2, LeastOf
  <2>4. k \in 0 .. MaxList /\ ~P(k)
    BY <2>3
  <2>5. k # 0
    BY <1>13, <2>4
  <2>6. k \in 1 .. MaxList /\ k - 1 \in 0 .. MaxList /\ ~(k <= k - 1)
    BY <1>1, <2>4, <2>5
  <2>7. P(k-1)
    BY <2>3, <2>6
  <2>8. QED
    BY <1>14, <2>4, <2>6, <2>7
<1> DEFINE w == h[MaxList]
<1>16. w.size \in Nat /\ w.size <= bs /\ w.taken \subseteq R
       /\ \A m \in w.taken, n \in R : n.slot < m.slot => n \in w.taken
  BY <1>15 DEF P
<1>17. ASSUME R # {}, First(R).size <= bs PROVE w.taken # {}
  <2>1. First(R) \in R /\ \A n \in R : First(R).slot <= n.slot
    BY <1>1, <1>17, FirstIs
  <2>2. First(R).slot <= MaxList
    BY <1>2, <2>1
  <2>3. First(R) \in w.taken
    <3>1. \A m \in R : m.slot <= MaxList /\ m.size <= bs /\ (\A n \in R : m.slot <= n.slot) => m \in w.taken
      BY <1>15 DEF P
    <3>2. QED
      BY <1>17, <2>1, <2>2, <3>1
  <2>4. QED
    BY <2>3
<1> HIDE DEF w
<1>18. Written(c, bs) = w
  BY <1>11 DEF w
<1>19. Reliables(c) = R
  BY DEF R
<1>20. QED
  BY <1>16, <1>17, <1>18, <1>19

(* What a pass over the list leaves of the room, and what it may take. *)
LEMMA PassIs ==
  ASSUME NEW list \in SUBSET Entries, OneASlot(list), NEW g \in [used : Nat, taken : SUBSET list], NEW room \in Nat, g.used <= room,
         NEW wanted \in SUBSET list
  PROVE  /\ Pass(g, room, wanted) \in [used : Nat, taken : SUBSET list] /\ Pass(g, room, wanted).used <= room
         /\ Pass(g, room, wanted).taken \subseteq g.taken \cup wanted
<1> DEFINE D == [used : Nat, taken : SUBSET list]
           next(k, a) == {m \in wanted \ g.taken : m.slot = k /\ a.used + m.size <= room}
           step(k, a) == IF next(k, a) = {} THEN a ELSE Datagram(a.used + First(next(k, a)).size, a.taken \cup next(k, a))
           s == [k \in 1 .. MaxList |-> [a \in D |-> step(k, a)]]
<1>1. g \in D /\ MaxList \in Nat
  BY MessageSizes
<1>2. ASSUME NEW k, NEW a \in D, next(k, a) # {}
      PROVE  /\ step(k, a) \in D /\ step(k, a).used <= room /\ step(k, a).taken \subseteq a.taken \cup wanted
  <2> DEFINE m == First(next(k, a))
  <2>1. next(k, a) \in SUBSET Entries /\ next(k, a) \subseteq wanted
    OBVIOUS
  <2>2. m \in next(k, a)
    <3> HIDE DEF next
    <3>1. QED
      BY <1>2, <2>1, FirstIs
  <2>3. m \in Entries /\ a.used + m.size <= room
    BY <2>1, <2>2
  <2>4. m.size \in Nat
    BY <2>3, MessageSizes DEF Entries
  <2>5. step(k, a) = Datagram(a.used + m.size, a.taken \cup next(k, a))
    BY <1>2
  <2> HIDE DEF next, m, step
  <2>6. step(k, a) = [used |-> a.used + m.size, taken |-> a.taken \cup next(k, a)]
    BY <2>5 DEF Datagram
  <2>7. a.used + m.size \in Nat /\ a.taken \cup next(k, a) \in SUBSET list
    BY <2>1, <2>4
  <2>8. QED
    BY <2>1, <2>3, <2>6, <2>7
<1>3. ASSUME NEW k \in 1 .. MaxList, NEW a \in D PROVE step(k, a) \in D
  <2>1. CASE next(k, a) = {}
    BY <2>1
  <2>2. CASE next(k, a) # {}
    <3> HIDE DEF next, step, D
    <3>1. QED
      BY <1>2, <2>2
  <2>3. QED
    BY <2>1, <2>2
<1>4. s \in [1 .. MaxList -> [D -> D]]
  <2> HIDE DEF step, D
  <2>1. QED
    BY <1>3
<1>5. PICK f : Recurs(f, MaxList, D, g, s)
  <2> HIDE DEF s, D
  <2>1. QED
    BY <1>1, <1>4, Recursion
<1>6. f \in [0 .. MaxList -> D] /\ f[0] = g /\ \A k \in 1 .. MaxList : f[k] = step(k, f[k-1])
  <2>1. f \in [0 .. MaxList -> D] /\ f[0] = g /\ \A k \in 1 .. MaxList : f[k] = s[k][f[k-1]]
    BY <1>5 DEF Recurs
  <2>2. ASSUME NEW k \in 1 .. MaxList PROVE f[k] = step(k, f[k-1])
    <3>1. k - 1 \in 0 .. MaxList
      BY <1>1
    <3>2. f[k-1] \in D
      BY <2>1, <3>1
    <3> HIDE DEF step, D
    <3>3. QED
      BY <2>1, <3>2
  <2>3. QED
    BY <2>1, <2>2
<1> DEFINE Is(h_) == h_ = [k \in 0 .. MaxList |-> IF k = 0 THEN g ELSE step(k, h_[k-1])]
<1>7. Is(f)
  <2> HIDE DEF step, D
  <2>1. \A k \in 0 .. MaxList : k = 0 \/ k \in 1 .. MaxList
    OBVIOUS
  <2>2. QED
    BY <1>6, <2>1
<1> DEFINE h == CHOOSE x : Is(x)
<1>8. Is(h)
  <2> HIDE DEF Is
  <2>1. QED
    BY <1>7
<1>9. Pass(g, room, wanted) = IF g.used + Spare >= room THEN g ELSE h[MaxList]
  BY DEF Pass
<1> HIDE DEF h
<1>10. h[0] = g /\ \A k \in 1 .. MaxList : h[k] = step(k, h[k-1])
  <2>1. h = [k \in 0 .. MaxList |-> IF k = 0 THEN g ELSE step(k, h[k-1])]
    BY <1>8
  <2> HIDE DEF step
  <2>2. 0 \in 0 .. MaxList /\ \A k \in 1 .. MaxList : k \in 0 .. MaxList /\ k # 0
    BY <1>1
  <2>3. QED
    BY <2>1, <2>2
<1> DEFINE P(k) == h[k] \in D /\ h[k].used <= room /\ h[k].taken \subseteq g.taken \cup wanted
           Bad == {k \in 0 .. MaxList : ~P(k)}
<1>11. P(0)
  BY <1>1, <1>10
<1>12. ASSUME NEW k \in 1 .. MaxList, P(k-1) PROVE P(k)
  <2> DEFINE a == h[k-1]
  <2>1. h[k] = step(k, a) /\ a \in D /\ a.used <= room /\ a.taken \subseteq g.taken \cup wanted
    BY <1>10, <1>12
  <2> HIDE DEF a
  <2>2. CASE next(k, a) = {}
    BY <2>1, <2>2
  <2>3. CASE next(k, a) # {}
    <3> HIDE DEF next, step, D
    <3>1. step(k, a) \in D /\ step(k, a).used <= room /\ step(k, a).taken \subseteq a.taken \cup wanted
      BY <1>2, <2>1, <2>3
    <3>2. QED
      BY <2>1, <3>1
  <2>4. QED
    BY <2>2, <2>3
<1> HIDE DEF P
<1>13. P(MaxList)
  <2>1. SUFFICES ASSUME Bad # {} PROVE FALSE
    BY <1>1
  <2>2. Bad \in SUBSET Nat
    OBVIOUS
  <2>3. PICK k \in Bad : \A j \in Bad : k <= j
    <3> HIDE DEF Bad
    <3>1. QED
      BY <2>1, <2>2, LeastOf
  <2>4. k \in 0 .. MaxList /\ ~P(k)
    BY <2>3
  <2>5. k # 0
    BY <1>11, <2>4
  <2>6. k \in 1 .. MaxList /\ k - 1 \in 0 .. MaxList /\ ~(k <= k - 1)
    BY <1>1, <2>4, <2>5
  <2>7. P(k-1)
    BY <2>3, <2>6
  <2>8. QED
    BY <1>12, <2>4, <2>6, <2>7
<1>14. h[MaxList] \in D /\ h[MaxList].used <= room /\ h[MaxList].taken \subseteq g.taken \cup wanted
  BY <1>13 DEF P
<1>15. QED
  BY <1>9, <1>14

(* Both passes take unreliable messages only, as far as the room goes. *)
LEMMA FilledIs ==
  ASSUME NEW c \in Client, OneASlot(c.list), NEW d \in [used : Nat, taken : SUBSET c.list], d.taken \subseteq Unreliables(c),
         NEW room \in Nat, d.used <= room, NEW dropped, NEW g, g = Filled(c, d, room, dropped)
  PROVE  /\ g \in [used : Nat, taken : SUBSET c.list] /\ g.used <= room /\ g.taken \subseteq Unreliables(c)
<1> DEFINE e == Pass(d, room, Effects(c, dropped))
<1>1. c.list \in SUBSET Entries /\ Effects(c, dropped) \subseteq Unreliables(c) /\ Unreliables(c) \in SUBSET c.list
  BY DEF Client, Effects, Unreliables
<1>2. e \in [used : Nat, taken : SUBSET c.list] /\ e.used <= room /\ e.taken \subseteq d.taken \cup Effects(c, dropped)
  <2>1. Effects(c, dropped) \in SUBSET c.list
    BY <1>1
  <2>2. QED
    BY <1>1, <2>1, PassIs
<1>3. g = Pass(e, room, Unreliables(c))
  BY DEF Filled
<1> HIDE DEF e
<1>4. g \in [used : Nat, taken : SUBSET c.list] /\ g.used <= room /\ g.taken \subseteq e.taken \cup Unreliables(c)
  BY <1>1, <1>2, <1>3, PassIs
<1>5. QED
  BY <1>1, <1>2, <1>4

-----------------------------------------------------------------------------
(* What holds of a client after each step of a handler. *)

(* What may be put on the list. *)
Messages == Requests \cup {Disconnect, OverflowPrint}

(* Reliable messages wait and left in the order of their numbers. *)
InOrder(list, asked, took) ==
  LET waits == {m \in list : m.nr # 0}
      gone  == {m.nr : m \in took} \ {0}
  IN  /\ 1 .. asked = gone \cup {m.nr : m \in waits}
      /\ \A m \in waits : \A k \in gone : k < m.nr
      /\ \A m, n \in waits : m.slot < n.slot => m.nr < n.nr

Sequenced(c) == c.incoming_acknowledged < c.outgoing_sequence /\ c.received \subseteq 1 .. c.outgoing_sequence - 1
Numbered(list) == OneASlot(list) /\ \A m \in list : m.nr # 0 => m.reliable /\ m.type # "layout"
Live(c) == c.state \in {Connected, Spawning, Spawned}
Noted(c) == /\ "OVERFLOW_DONE" \in c.notes => "OVERFLOWED" \in c.notes
            /\ Overflowing(c) => c.list = {}
            /\ Live(c) => c.open
Good(c) == /\ c \in Client /\ ~c.toobig /\ Sequenced(c) /\ Numbered(c.list) /\ Noted(c)
           /\ c.open /\ "OVERFLOWED" \notin c.notes => InOrder(c.list, c.asked, c.took)

(* What the steps that work on the list leave alone. *)
Untouched(c, d) ==
  /\ d.state = c.state /\ d.open = c.open /\ d.took = c.took /\ d.outgoing_sequence = c.outgoing_sequence
  /\ d.incoming_acknowledged = c.incoming_acknowledged /\ d.last_reliable_sequence = c.last_reliable_sequence
  /\ d.message = c.message /\ d.reliable_buf = c.reliable_buf /\ d.toobig = c.toobig /\ d.reliable_got = c.reliable_got
  /\ d.received = c.received /\ d.shown = c.shown /\ d.adds = c.adds

LEMMA MessagesAre ==
  ASSUME NEW m \in Messages
  PROVE  /\ m \in [type : Types, text : Texts, size : Nat \ {0}, reliable : BOOLEAN]
         /\ m.text \in LayoutTexts <=> IsLayout(m)
         /\ m.type = "modelskins" => m.size + PadSize <= BuffSize
<1>1. CASE m \in Requests
  BY <1>1, MessageRequests DEF LayoutTexts, Texts
<1>2. {"disconnect", "overflowed"} \cap LayoutTexts = {}
  BY MessageRequests
<1>3. ASSUME NEW t \in {"print", "disconnect"}, NEW x \in {"disconnect", "overflowed"}, NEW n \in {1, 2},
             m = [type |-> t, text |-> x, size |-> n, reliable |-> TRUE]
      PROVE  /\ m \in [type : Types, text : Texts, size : Nat \ {0}, reliable : BOOLEAN]
             /\ m.text \in LayoutTexts <=> IsLayout(m)
             /\ m.type = "modelskins" => m.size + PadSize <= BuffSize
  <2>1. t \in Types /\ t # "layout" /\ t # "modelskins"
    BY DEF Types
  <2>2. x \in Texts /\ n \in Nat \ {0}
    BY DEF Texts
  <2>3. x \notin LayoutTexts
    BY <1>2
  <2>4. m.type = t /\ m.text = x
    BY <1>3
  <2>5. m \in [type : Types, text : Texts, size : Nat \ {0}, reliable : BOOLEAN]
    BY <1>3, <2>1, <2>2
  <2>6. QED
    BY <2>1, <2>3, <2>4, <2>5 DEF IsLayout
<1>4. CASE m \in {Disconnect, OverflowPrint}
  BY <1>3, <1>4 DEF Disconnect, OverflowPrint
<1>5. QED
  BY <1>1, <1>4 DEF Messages

(* Entries without a number go, and nothing else changes: SV_DeleteMessage. *)
LEMMA DeleteIs ==
  ASSUME NEW c, Good(c), NEW gone, \A m \in gone : m \in c.list => m.nr = 0, NEW d, d = DeleteMessages(c, gone)
  PROVE  Good(d) /\ Untouched(c, d) /\ d.list = c.list \ gone /\ d.notes = c.notes /\ d.asked = c.asked
         /\ d.layout = c.layout /\ d.layout_unreliable = c.layout_unreliable
<1>1. d \in Client /\ d.list = c.list \ gone /\ d = [c EXCEPT !.list = c.list \ gone, !.misfreed = d.misfreed] /\ d.misfreed \in BOOLEAN
  BY DEF Good, Client, DeleteMessages
<1>2. d.state = c.state /\ d.open = c.open /\ d.notes = c.notes /\ d.asked = c.asked /\ d.took = c.took /\ d.toobig = c.toobig
      /\ d.received = c.received /\ d.incoming_acknowledged = c.incoming_acknowledged /\ d.outgoing_sequence = c.outgoing_sequence
  BY DEF Good, Client, DeleteMessages
<1>3. {m \in d.list : m.nr # 0} = {m \in c.list : m.nr # 0}
  BY <1>1
<1>4. InOrder(c.list, c.asked, c.took) => InOrder(d.list, d.asked, d.took)
  BY <1>2, <1>3 DEF InOrder
<1>5. Numbered(d.list) /\ Noted(d) /\ Sequenced(d)
  BY <1>1, <1>2 DEF Good, Numbered, OneASlot, Noted, Overflowing, Live, Sequenced
<1>6. Good(d)
  BY <1>1, <1>2, <1>4, <1>5 DEF Good
<1>7. Untouched(c, d) /\ d.layout = c.layout /\ d.layout_unreliable = c.layout_unreliable
  BY DEF Untouched, Good, Client, DeleteMessages
<1>8. QED
  BY <1>1, <1>2, <1>6, <1>7

(* SV_ClearMessageList with NOTE_OVERFLOWED. *)
LEMMA OverflowIs ==
  ASSUME NEW c, Good(c), NEW d, d = Overflow(c)
  PROVE  Good(d) /\ Untouched(c, d) /\ d.notes = c.notes \cup {"OVERFLOWED"} /\ d.list = {}
<1> DEFINE N == c.notes \cup {"OVERFLOWED"}
<1>1. N \in SUBSET Notes /\ c \in Client
  BY DEF Good, Client, Notes
<1>2. d = [c EXCEPT !.list = {}, !.misfreed = d.misfreed, !.notes = N] /\ d.misfreed \in BOOLEAN
  BY DEF Good, Client, Overflow, ClearMessageList, DeleteMessages
<1>3. "OVERFLOWED" \in N /\ ("OVERFLOW_DONE" \in N <=> "OVERFLOW_DONE" \in c.notes)
  OBVIOUS
<1> HIDE DEF N
<1>4. d \in Client
  BY <1>1, <1>2 DEF Client
<1>5. d.list = {} /\ d.notes = N /\ d.state = c.state /\ d.open = c.open /\ d.toobig = c.toobig
      /\ d.received = c.received /\ d.incoming_acknowledged = c.incoming_acknowledged /\ d.outgoing_sequence = c.outgoing_sequence
  BY <1>1, <1>2 DEF Client
<1>6. Good(d)
  BY <1>3, <1>4, <1>5 DEF Good, Numbered, OneASlot, Noted, Overflowing, Live, Sequenced
<1>7. Untouched(c, d)
  BY <1>1, <1>2 DEF Untouched, Client
<1>8. QED
  BY <1>5, <1>6, <1>7 DEF N

(* The list closes: SV_CloseMessageList, for a client that is let go. *)
LEMMA CloseIs ==
  ASSUME NEW c, Good(c), NEW s \in {Free, Zombie}, NEW d, d = [CloseMessageList(c) EXCEPT !.state = s]
  PROVE  Good(d) /\ ~d.open
<1>1. c \in Client
  BY DEF Good
<1>2. d = [c EXCEPT !.list = {}, !.misfreed = d.misfreed, !.open = FALSE, !.state = s] /\ d.misfreed \in BOOLEAN
  BY <1>1 DEF Client, CloseMessageList, ClearMessageList, DeleteMessages
<1>3. s \in States /\ s \notin {Connected, Spawning, Spawned}
  BY DEF States, Free, Zombie, Connected, Spawning, Spawned
<1>4. d \in Client
  BY <1>1, <1>2, <1>3 DEF Client
<1>5. d.list = {} /\ d.notes = c.notes /\ d.state = s /\ ~d.open /\ d.toobig = c.toobig
      /\ d.received = c.received /\ d.incoming_acknowledged = c.incoming_acknowledged /\ d.outgoing_sequence = c.outgoing_sequence
  BY <1>1, <1>2 DEF Client
<1>6. QED
  BY <1>3, <1>4, <1>5 DEF Good, Numbered, OneASlot, Noted, Overflowing, Live, Sequenced

(* Steps that leave the list alone. *)
LEMMA SameIs ==
  ASSUME NEW c, Good(c), NEW d \in Client, d.list = c.list, d.notes = c.notes, d.open = c.open, d.asked = c.asked, d.took = c.took,
         d.toobig = c.toobig, Sequenced(d), Live(d) => d.open
  PROVE  Good(d)
BY DEF Good, Noted, Overflowing

(* The layout that is kept to recognise the next. *)
LEMMA StoredIs ==
  ASSUME NEW c, Good(c), NEW m \in Messages, NEW d, d = Stored(c, m)
  PROVE  /\ Good(d) /\ Untouched(c, d) /\ d.list = c.list /\ d.notes = c.notes /\ d.asked = c.asked
         /\ d.layout = IF IsLayout(m) THEN m.text ELSE c.layout
         /\ d.layout_unreliable = IF IsLayout(m) /\ m.reliable THEN 0 ELSE c.layout_unreliable
<1> DEFINE n == IF m.reliable THEN 0 ELSE c.layout_unreliable
<1>1. c \in Client
  BY DEF Good
<1>2. CASE IsLayout(m)
  <2>1. m.text \in LayoutTexts \cup {None}
    BY <1>2, MessagesAre
  <2>2. n \in Nat
    BY <1>1 DEF Client
  <2>3. d = [c EXCEPT !.layout = m.text, !.layout_unreliable = n]
    BY <1>1, <1>2 DEF Stored, Client
  <2>4. d.layout_unreliable = n /\ d.layout = m.text
    BY <1>1, <2>3 DEF Client
  <2> HIDE DEF n
  <2>5. d \in Client
    BY <1>1, <2>1, <2>2, <2>3 DEF Client
  <2>6. Untouched(c, d) /\ d.list = c.list /\ d.notes = c.notes /\ d.asked = c.asked
    BY <1>1, <2>3 DEF Client, Untouched
  <2>7. Sequenced(d) /\ (Live(d) => d.open)
    BY <2>6 DEF Good, Noted, Live, Sequenced, Untouched
  <2>8. Good(d)
    BY <2>5, <2>6, <2>7, SameIs DEF Untouched
  <2>9. QED
    BY <1>2, <2>4, <2>6, <2>8 DEF n
<1>3. CASE ~IsLayout(m)
  BY <1>3 DEF Stored, Untouched
<1>4. QED
  BY <1>2, <1>3

(* A new entry at the end of the list. *)
LEMMA LinkedIs ==
  ASSUME NEW c, Good(c), NEW m \in Messages, NEW d, d = Linked(c, m), EndIndex(c) + 1 < MaxList - 1, m.size < BuffSize,
         ~Overflowing(c)
  PROVE  /\ Good(d) /\ Untouched(c, d) /\ d.notes = c.notes
         /\ \E e \in Entries : /\ d.list = {o \in c.list : ~(IsLayout(o) /\ IsLayout(m))} \cup {e}
                               /\ e.text = m.text /\ e.type = m.type /\ (~IsLayout(m) => e.reliable = m.reliable)
                               /\ (IsLayout(m) => e.reliable = (m.reliable \/ \E o \in c.list : IsLayout(o) /\ o.reliable))
                               /\ e.slot = EndIndex(c) + 1 /\ \A o \in c.list : o.slot < e.slot
         /\ d.layout = c.layout /\ d.layout_unreliable = c.layout_unreliable
<1> DEFINE old == {o \in c.list : IsLayout(o) /\ IsLayout(m)}
           e == Entry(c, m, old)
           kept == c.list \ old
           n == IF Counted(m) THEN c.asked + 1 ELSE c.asked
<1>1. c \in Client /\ c.list \in SUBSET Entries /\ OneASlot(c.list) /\ c.asked \in Nat
  BY DEF Good, Client, Numbered
<1>2. m.type \in Types /\ m.text \in Texts /\ m.size \in Nat \ {0} /\ m.reliable \in BOOLEAN /\ (m.type = "modelskins" => m.size + PadSize <= BuffSize)
  BY MessagesAre
<1>3. EndIndex(c) \in Nat /\ \A o \in c.list : o.slot <= EndIndex(c)
  BY <1>1, EndIndexIs
<1>4. EndIndex(c) + 1 \in Slots /\ \A o \in c.list : o.slot < EndIndex(c) + 1
  <2>1. \A o \in c.list : o.slot \in Nat
    BY <1>1, MessageSizes DEF Entries, Slots
  <2>2. QED
    BY <1>3, <2>1, MessageSizes DEF Slots
<1>5. PaddedSize(c, m) \in 1 .. BuffSize
  BY <1>2, MessageSizes DEF PaddedSize
<1>6. e = [type |-> m.type, text |-> m.text, size |-> PaddedSize(c, m), reliable |-> m.reliable \/ \E o \in old : o.reliable,
           heap |-> m.size > LocalMax, slot |-> EndIndex(c) + 1, nr |-> IF Counted(m) THEN c.asked + 1 ELSE 0]
  BY DEF Entry
<1>7. e.type = m.type /\ e.text = m.text /\ e.slot = EndIndex(c) + 1 /\ e.nr = (IF Counted(m) THEN c.asked + 1 ELSE 0)
      /\ e.reliable = (m.reliable \/ \E o \in old : o.reliable)
  BY <1>6
<1>8. e \in Entries
  <2> DEFINE r == m.reliable \/ \E o \in old : o.reliable
             p == m.size > LocalMax
             k == IF Counted(m) THEN c.asked + 1 ELSE 0
  <2>1. r \in BOOLEAN /\ p \in BOOLEAN
    OBVIOUS
  <2>2. k \in Nat
    BY <1>1
  <2> HIDE DEF r, p, k, old
  <2>3. e = [type |-> m.type, text |-> m.text, size |-> PaddedSize(c, m), reliable |-> r, heap |-> p, slot |-> EndIndex(c) + 1, nr |-> k]
    BY <1>6 DEF r, p, k, old
  <2> HIDE DEF e
  <2>4. QED
    BY <1>2, <1>4, <1>5, <2>1, <2>2, <2>3 DEF Entries
<1> HIDE DEF e
<1>9. n \in Nat /\ d = [c EXCEPT !.list = kept \cup {e}, !.misfreed = d.misfreed, !.asked = n] /\ d.misfreed \in BOOLEAN
  <2>1. n \in Nat
    BY <1>1
  <2>2. d = [[c EXCEPT !.list = kept, !.misfreed = @ \/ \E x \in old : Freed(x) /\ ~x.heap] EXCEPT !.list = @ \cup {e}, !.asked = n]
    BY <1>1 DEF Linked, DeleteMessages, e, Client
  <2>3. QED
    BY <1>1, <2>1, <2>2 DEF Client
<1>10. kept \cup {e} \in SUBSET Entries
  BY <1>1, <1>8
<1>11. n = IF Counted(m) THEN c.asked + 1 ELSE c.asked
  OBVIOUS
<1>12. kept \subseteq c.list /\ \A o \in c.list : o \in kept \/ (IsLayout(o) /\ IsLayout(m))
  OBVIOUS
<1>13. kept = {o \in c.list : ~(IsLayout(o) /\ IsLayout(m))}
  OBVIOUS
<1> HIDE DEF kept, n
<1>14. d \in Client /\ d.list = kept \cup {e} /\ d.asked = n /\ d.notes = c.notes /\ Untouched(c, d)
       /\ d.layout = c.layout /\ d.layout_unreliable = c.layout_unreliable
  BY <1>1, <1>9, <1>10 DEF Client, Untouched
<1>15. Numbered(d.list)
  <2>1. OneASlot(d.list)
    <3>1. \A o \in kept : o.slot # e.slot
      <4>1. \A o \in c.list : o.slot \in Nat
        BY <1>1, MessageSizes DEF Entries, Slots
      <4>2. QED
        BY <1>3, <1>4, <1>7, <1>12, <4>1
    <3>2. QED
      BY <1>1, <1>12, <1>14, <3>1 DEF OneASlot
  <2>2. e.nr # 0 => e.reliable /\ e.type # "layout"
    BY <1>7 DEF Counted, IsLayout
  <2>3. QED
    BY <1>12, <1>14, <2>1, <2>2 DEF Good, Numbered
<1>16. ASSUME InOrder(c.list, c.asked, c.took) PROVE InOrder(d.list, d.asked, d.took)
  <2> DEFINE W == {o \in c.list : o.nr # 0}
             V == {o \in d.list : o.nr # 0}
             gone == {o.nr : o \in c.took} \ {0}
  <2>1. 1 .. c.asked = gone \cup {o.nr : o \in W} /\ (\A o \in W : \A k \in gone : k < o.nr)
        /\ \A o, p \in W : o.slot < p.slot => o.nr < p.nr
    BY <1>16 DEF InOrder
  <2>2. d.took = c.took
    BY <1>14 DEF Untouched
  <2>3. W \subseteq kept
    BY <1>12 DEF Good, Numbered, IsLayout
  <2>4. CASE Counted(m)
    <3>1. e.nr = c.asked + 1 /\ d.asked = c.asked + 1 /\ e.nr # 0
      BY <1>1, <1>7, <1>11, <1>14, <2>4
    <3>2. V = W \cup {e}
      BY <1>12, <1>14, <2>3, <3>1
    <3>3. gone \subseteq 1 .. c.asked /\ \A o \in W : o.nr \in 1 .. c.asked
      BY <2>1
    <3>4. \A o \in W : o.slot < e.slot /\ o.slot \in Nat
      BY <1>1, <1>4, <1>7, MessageSizes DEF Entries, Slots
    <3>5. e.slot \in Nat
      BY <1>3, <1>7
    <3> HIDE DEF W, V, gone
    <3>6. 1 .. d.asked = (1 .. c.asked) \cup {e.nr}
      BY <1>1, <3>1
    <3>7. {o.nr : o \in V} = {o.nr : o \in W} \cup {e.nr}
      BY <3>2
    <3>8. 1 .. d.asked = gone \cup {o.nr : o \in V}
      BY <2>1, <3>6, <3>7
    <3>9. \A o \in V : \A k \in gone : k < o.nr
      BY <1>1, <2>1, <3>1, <3>2, <3>3
    <3>10. ASSUME NEW o \in V, NEW p \in V, o.slot < p.slot PROVE o.nr < p.nr
      <4>1. CASE o \in W /\ p \in W
        BY <2>1, <3>10, <4>1
      <4>2. CASE o \in W /\ p = e
        BY <1>1, <3>1, <3>3, <4>2
      <4>3. CASE o = e /\ p \in W
        BY <3>4, <3>5, <3>10, <4>3
      <4>4. CASE o = e /\ p = e
        BY <3>5, <3>10, <4>4
      <4>5. QED
        BY <3>2, <4>1, <4>2, <4>3, <4>4
    <3>11. QED
      BY <2>2, <3>8, <3>9, <3>10 DEF InOrder, V, gone
  <2>5. CASE ~Counted(m)
    <3>1. e.nr = 0 /\ d.asked = c.asked
      BY <1>7, <1>11, <1>14, <2>5
    <3>2. V = W
      BY <1>12, <1>14, <2>3, <3>1
    <3> HIDE DEF W
    <3>3. QED
      BY <2>1, <2>2, <3>1, <3>2 DEF InOrder
  <2>6. QED
    BY <2>4, <2>5
<1>17. Noted(d) /\ Sequenced(d) /\ ~d.toobig /\ d.open = c.open
  BY <1>14 DEF Good, Noted, Overflowing, Live, Sequenced, Untouched
<1>18. Good(d)
  BY <1>14, <1>15, <1>16, <1>17 DEF Good
<1>19. (\A o \in c.list : o.slot < e.slot) /\ (~IsLayout(m) => e.reliable = m.reliable)
       /\ (IsLayout(m) => e.reliable = (m.reliable \/ \E o \in c.list : IsLayout(o) /\ o.reliable))
  <2>1. ~IsLayout(m) => old = {}
    OBVIOUS
  <2>2. IsLayout(m) => old = {o \in c.list : IsLayout(o)}
    OBVIOUS
  <2> HIDE DEF old
  <2>3. m.reliable \in BOOLEAN
    BY <1>2
  <2>4. ~IsLayout(m) => e.reliable = m.reliable
    BY <1>7, <2>1, <2>3
  <2>5. IsLayout(m) => e.reliable = (m.reliable \/ \E o \in c.list : IsLayout(o) /\ o.reliable)
    BY <1>7, <2>2
  <2>6. QED
    BY <1>4, <1>7, <2>4, <2>5
<1>20. QED
  BY <1>7, <1>8, <1>13, <1>14, <1>18, <1>19

(* SV_AddMessageSingle: nothing, an overflow, or a new entry. *)
Linkable(c, m) ==
  Live(c) /\ c.open /\ ~Overflowing(c) /\ ~DuplicateLayout(c, m) /\ EndIndex(c) + 1 < MaxList - 1 /\ m.size < BuffSize
LEMMA AddIs ==
  ASSUME NEW c, Good(c), NEW m \in Messages, NEW d, d = AddMessageSingle(c, m)
  PROVE  /\ Good(d) /\ Untouched(c, d)
         /\ \/ d = c /\ ~Linkable(c, m)
            \/ d.notes = c.notes \cup {"OVERFLOWED"} /\ ~Linkable(c, m) /\ Live(c)
            \/ d = Linked(Stored(c, m), m) /\ Linkable(c, m) /\ d.notes = c.notes
<1>1. c \in Client /\ c.list \in SUBSET Entries
  BY DEF Good, Client
<1>2. EndIndex(c) \in Nat /\ m.size \in Nat
  <2>1. EndIndex(c) \in Nat
    BY <1>1, EndIndexIs
  <2>2. QED
    BY <2>1, MessagesAre
<1>3. CASE c.state \in {Free, Zombie} \/ ~c.open \/ Overflowing(c) \/ DuplicateLayout(c, m)
  <2>1. ~Live(c) <=> c.state \in {Free, Zombie}
    BY <1>1 DEF Client, Live, States, Free, Zombie, Connected, Spawning, Spawned
  <2>2. d = c
    BY <1>3 DEF AddMessageSingle
  <2>3. QED
    BY <1>3, <2>1, <2>2 DEF Linkable, Untouched
<1>4. CASE ~(c.state \in {Free, Zombie} \/ ~c.open \/ Overflowing(c) \/ DuplicateLayout(c, m))
  <2> DEFINE s == Stored(c, m)
  <2>1. Live(c)
    BY <1>1, <1>4 DEF Client, Live, States
  <2>2. Good(s) /\ Untouched(c, s) /\ s.list = c.list /\ s.notes = c.notes
    BY StoredIs
  <2>3. EndIndex(s) = EndIndex(c) /\ ~Overflowing(s)
    BY <1>4, <2>2 DEF EndIndex, Overflowing
  <2>4. CASE EndIndex(c) + 1 >= MaxList - 1 \/ m.size >= BuffSize
    <3>1. d = Overflow(s)
      BY <1>4, <2>4 DEF AddMessageSingle
    <3>2. Good(d) /\ Untouched(s, d) /\ d.notes = s.notes \cup {"OVERFLOWED"}
      BY <2>2, <3>1, OverflowIs
    <3>3. ~(EndIndex(c) + 1 < MaxList - 1 /\ m.size < BuffSize)
      BY <1>2, <2>4, MessageSizes
    <3>4. QED
      BY <2>1, <2>2, <3>2, <3>3 DEF Linkable, Untouched
  <2>5. CASE ~(EndIndex(c) + 1 >= MaxList - 1 \/ m.size >= BuffSize)
    <3>1. d = Linked(s, m)
      BY <1>4, <2>5 DEF AddMessageSingle
    <3>2. EndIndex(c) + 1 < MaxList - 1 /\ m.size < BuffSize
      BY <1>2, <2>5, MessageSizes
    <3> HIDE DEF s
    <3>3. Good(d) /\ Untouched(s, d) /\ d.notes = s.notes
      BY <2>2, <2>3, <3>1, <3>2, LinkedIs
    <3>4. Untouched(c, d)
      BY <2>2, <3>3 DEF Untouched
    <3>5. QED
      BY <1>4, <2>1, <2>2, <3>1, <3>2, <3>3, <3>4 DEF Linkable, s
  <2>6. QED
    BY <2>4, <2>5
<1>5. QED
  BY <1>3, <1>4

(* SV_WriteReliableMessages: the first reliable messages move to the channel. *)
Wrote(c, d, bs, W) ==
  /\ d.state = c.state /\ d.open = c.open /\ d.notes = c.notes /\ d.layout = c.layout /\ d.layout_unreliable = c.layout_unreliable
  /\ d.outgoing_sequence = c.outgoing_sequence /\ d.incoming_acknowledged = c.incoming_acknowledged
  /\ d.last_reliable_sequence = c.last_reliable_sequence /\ d.reliable_buf = c.reliable_buf /\ d.toobig = c.toobig
  /\ d.reliable_got = c.reliable_got /\ d.received = c.received /\ d.shown = c.shown /\ d.asked = c.asked
  /\ W \subseteq Reliables(c) /\ d.list = c.list \ W
  /\ d.took = c.took \cup {[nr |-> m.nr, text |-> m.text] : m \in W}
  /\ d.message.size <= bs /\ d.message.data = {[slot |-> m.slot, text |-> m.text] : m \in W}
  /\ c.reliable_buf # Empty => d.message = Empty
  /\ c.reliable_buf = Empty /\ c.open /\ c.state # Free /\ Reliables(c) # {} => d.message # Empty
  /\ W = {} => d.message = Empty
WroteSome(c, d, bs) == \E W : Wrote(c, d, bs, W)

LEMMA WriteIs ==
  ASSUME NEW c, Good(c), c.message = Empty, NEW bs \in Nat, bs <= BuffSize, NEW d, d = WriteReliableMessages(c, bs),
         c.reliable_buf = Empty /\ Reliables(c) # {} => First(Reliables(c)).size <= bs
  PROVE  Good(d) /\ WroteSome(c, d, bs)
<1> DEFINE w == Written(c, bs)
           W == w.taken
<1>1. c \in Client /\ c.list \in SUBSET Entries /\ OneASlot(c.list) /\ Empty.size = 0 /\ Empty.data = {}
  BY DEF Good, Client, Numbered, Empty
<1>2. CASE c.state = Free \/ ~c.open \/ c.reliable_buf # Empty
  <2>1. d = c
    BY <1>2 DEF WriteReliableMessages
  <2>2. Wrote(c, d, bs, {})
    BY <1>1, <1>2, <2>1 DEF Wrote
  <2>3. QED
    BY <2>1, <2>2 DEF WroteSome
<1>3. CASE c.state # Free /\ c.open /\ c.reliable_buf = Empty
  <2>1. /\ W \subseteq Reliables(c) /\ w.size \in Nat /\ w.size <= bs
        /\ \A m \in W, n \in Reliables(c) : n.slot < m.slot => n \in W
        /\ Reliables(c) # {} => W # {}
    BY <1>1, <1>3, WrittenIs
  <2>2. CASE W = {}
    <3>1. Reliables(c) = {}
      BY <2>1, <2>2
    <3>2. d = c
      BY <1>3, <2>2, <3>1 DEF WriteReliableMessages
    <3>3. Wrote(c, d, bs, {})
      BY <1>1, <3>1, <3>2 DEF Wrote
    <3>4. QED
      BY <3>2, <3>3 DEF WroteSome
  <2>3. CASE W # {}
    <3> DEFINE T == {[nr |-> m.nr, text |-> m.text] : m \in W}
               data == {[slot |-> m.slot, text |-> m.text] : m \in W}
               packed == First(W).type = "cpacket"
               buf == [data |-> data, size |-> w.size, packed |-> packed]
    <3>1. d = [DeleteMessages(c, W) EXCEPT !.took = @ \cup T,
                 !.message = [data |-> @.data \cup data, size |-> w.size, packed |-> IF @ = Empty THEN packed ELSE @.packed]]
      BY <1>3, <2>3 DEF WriteReliableMessages
    <3>2. \A m \in W : m \in Entries
      BY <1>1, <2>1 DEF Reliables
    <3>3. T \in SUBSET [nr : Nat, text : Texts] /\ data \in SUBSET [slot : Slots, text : Texts] /\ data # {} /\ packed \in BOOLEAN
      <4>1. \A m \in W : m.slot \in Slots /\ m.text \in Texts /\ m.nr \in Nat
        BY <3>2 DEF Entries
      <4>2. data # {}
        BY <2>3
      <4>3. packed \in BOOLEAN
        OBVIOUS
      <4> HIDE DEF packed, w
      <4>4. QED
        BY <4>1, <4>2, <4>3
    <3>4. c.took \cup T \in SUBSET [nr : Nat, text : Texts]
      BY <1>1, <3>3 DEF Client
    <3>5. w.size \in 0 .. BuffSize
      BY <2>1, MessageSizes
    <3> HIDE DEF w, T, data, packed
    <3>6. buf \in Buffers
      BY <3>3, <3>5 DEF Buffers
    <3>7. buf.size = w.size /\ buf.data = data /\ buf # Empty
      <4>1. buf.size = w.size /\ buf.data = data
        OBVIOUS
      <4>2. QED
        BY <1>1, <3>3, <4>1
    <3>8. d = [c EXCEPT !.list = @ \ W, !.misfreed = d.misfreed, !.took = c.took \cup T, !.message = buf] /\ d.misfreed \in BOOLEAN
      <4>1. DeleteMessages(c, W).message = Empty /\ DeleteMessages(c, W).took = c.took
        BY <1>1 DEF DeleteMessages, Client
      <4>2. [data |-> Empty.data \cup data, size |-> w.size, packed |-> IF Empty = Empty THEN packed ELSE Empty.packed] = buf
        BY <1>1
      <4> HIDE DEF buf
      <4>3. d = [DeleteMessages(c, W) EXCEPT !.took = c.took \cup T, !.message = buf]
        BY <3>1, <4>1, <4>2
      <4>4. QED
        BY <1>1, <4>3 DEF DeleteMessages, Client
    <3> HIDE DEF buf
    <3>9. c.list \ W \in SUBSET Entries
      BY <1>1
    <3>10. d \in Client /\ d.list = c.list \ W /\ d.took = c.took \cup T /\ d.message = buf
      BY <1>1, <3>4, <3>6, <3>8, <3>9 DEF Client
    <3>11. /\ d.state = c.state /\ d.open = c.open /\ d.notes = c.notes /\ d.layout = c.layout /\ d.layout_unreliable = c.layout_unreliable
           /\ d.outgoing_sequence = c.outgoing_sequence /\ d.incoming_acknowledged = c.incoming_acknowledged
           /\ d.last_reliable_sequence = c.last_reliable_sequence /\ d.reliable_buf = c.reliable_buf /\ d.toobig = c.toobig
           /\ d.reliable_got = c.reliable_got /\ d.received = c.received /\ d.shown = c.shown /\ d.asked = c.asked
      BY <1>1, <3>8 DEF Client
    <3>12. Wrote(c, d, bs, W)
      BY <1>3, <2>1, <2>3, <3>7, <3>10, <3>11 DEF Wrote, T, data
    <3>13. ASSUME InOrder(c.list, c.asked, c.took) PROVE InOrder(d.list, d.asked, d.took)
      <4> DEFINE V == {o \in c.list : o.nr # 0}
                 V2 == {o \in d.list : o.nr # 0}
                 gone == {o.nr : o \in c.took} \ {0}
                 gone2 == {o.nr : o \in d.took} \ {0}
                 new == {o.nr : o \in W} \ {0}
      <4>1. 1 .. c.asked = gone \cup {o.nr : o \in V} /\ (\A o \in V : \A k \in gone : k < o.nr)
            /\ \A o, p \in V : o.slot < p.slot => o.nr < p.nr
        BY <3>13 DEF InOrder
      <4>2. gone2 = gone \cup new
        <5>1. {o.nr : o \in T} = {o.nr : o \in W}
          <6>1. ASSUME NEW o \in W PROVE \E x \in T : x.nr = o.nr
            <7>1. [nr |-> o.nr, text |-> o.text] \in T /\ [nr |-> o.nr, text |-> o.text].nr = o.nr
              BY DEF T
            <7>2. QED
              BY <7>1
          <6>2. \A x \in T : \E o \in W : x.nr = o.nr
            BY DEF T
          <6> HIDE DEF W
          <6>3. QED
            BY <6>1, <6>2
        <5>2. {o.nr : o \in d.took} = {o.nr : o \in c.took} \cup {o.nr : o \in T}
          BY <3>10
        <5>3. QED
          BY <5>1, <5>2
      <4>3. V \subseteq Reliables(c) /\ V2 = V \ W /\ W \subseteq c.list
        BY <2>1, <3>10 DEF Good, Numbered, Reliables
      <4>4. \A o \in W : o.nr # 0 => o \in V
        BY <4>3
      <4>5. new = {o.nr : o \in V \cap W}
        BY <4>4
      <4>6. {o.nr : o \in V} = {o.nr : o \in V2} \cup new
        BY <4>3, <4>5
      <4>7. 1 .. d.asked = gone2 \cup {o.nr : o \in V2}
        BY <3>11, <4>1, <4>2, <4>6
      <4>8. ASSUME NEW o \in V2, NEW k \in gone2 PROVE k < o.nr
        <5>1. CASE k \in gone
          BY <4>1, <4>3, <5>1
        <5>2. CASE k \in new
          <6>1. PICK p \in V \cap W : k = p.nr
            BY <4>5, <5>2
          <6>2. ~(o.slot < p.slot) /\ o # p
            BY <2>1, <4>3, <6>1
          <6>3. o \in Entries /\ p \in Entries /\ o \in c.list /\ p \in c.list
            BY <1>1, <4>3, <6>1
          <6>4. o.slot \in Nat /\ p.slot \in Nat /\ o.slot # p.slot
            <7>1. o.slot # p.slot
              BY <1>1, <6>2, <6>3 DEF OneASlot
            <7>2. QED
              BY <6>3, <7>1, MessageSizes DEF Entries, Slots
          <6>5. p.slot < o.slot
            BY <6>2, <6>4
          <6>6. QED
            BY <4>1, <4>3, <6>1, <6>5
        <5>3. QED
          BY <4>2, <5>1, <5>2
      <4>9. \A o, p \in V2 : o.slot < p.slot => o.nr < p.nr
        BY <4>1, <4>3
      <4>10. QED
        BY <4>7, <4>8, <4>9 DEF InOrder
    <3>14. Numbered(d.list) /\ Noted(d) /\ Sequenced(d)
      BY <3>10, <3>11 DEF Good, Numbered, OneASlot, Noted, Overflowing, Live, Sequenced
    <3>15. Good(d)
      BY <3>10, <3>11, <3>13, <3>14 DEF Good
    <3>16. QED
      BY <3>12, <3>15 DEF WroteSome
  <2>4. QED
    BY <2>2, <2>3
<1>4. QED
  BY <1>2, <1>3

(* The last layout of those sent, if there is one. *)
LEMMA LastLayoutIs ==
  ASSUME NEW shown, NEW sent, \A m \in sent : m.slot \in Slots, NEW x, x = LastLayout(shown, sent)
  PROVE  \/ x = shown /\ \A m \in sent : m.text \notin LayoutTexts
         \/ \E m \in sent : m.text \in LayoutTexts /\ x = m.text
<1> DEFINE S == {m \in sent : m.text \in LayoutTexts}
           T == {m.slot : m \in S}
<1>1. CASE S = {}
  BY <1>1 DEF LastLayout
<1>2. CASE S # {}
  <2>1. T \in SUBSET (0 .. MaxList) /\ T # {} /\ MaxList \in Nat
    BY <1>2, MessageSizes DEF Slots
  <2>2. PICK k \in T : \A n \in T : k >= n
    <3> HIDE DEF T
    <3>1. QED
      BY <2>1, GreatestOf
  <2>3. \A n \in T : n <= k
    BY <2>1, <2>2
  <2>4. PICK m \in S : \A n \in S : n.slot <= m.slot
    BY <2>2, <2>3
  <2> DEFINE y == CHOOSE z \in S : \A n \in S : n.slot <= z.slot
  <2>5. y \in S
    BY <2>4
  <2>6. x = y.text
    BY <1>2 DEF LastLayout
  <2> HIDE DEF y
  <2>7. QED
    BY <2>5, <2>6
<1>3. QED
  BY <1>1, <1>2

(* Netchan_Transmit: everything in the packet fits. *)
Sends(c) == (c.reliable_buf = Empty /\ c.message # Empty) \/ Lost(c)
Buffer(c) == IF c.reliable_buf = Empty THEN c.message ELSE c.reliable_buf
ShownAfter(c, taken) == LastLayout(LastLayout(c.shown, IF Sends(c) THEN Buffer(c).data ELSE {}), taken)
Transmitted(c, d, taken, arrives) ==
  /\ d.state = c.state /\ d.open = c.open /\ d.notes = c.notes /\ d.layout = c.layout /\ d.layout_unreliable = c.layout_unreliable
  /\ d.list = c.list /\ d.asked = c.asked /\ d.took = c.took /\ d.incoming_acknowledged = c.incoming_acknowledged
  /\ d.outgoing_sequence = c.outgoing_sequence + 1 /\ d.message = Empty /\ d.reliable_buf = Buffer(c)
  /\ d.received = IF arrives THEN c.received \cup {c.outgoing_sequence} ELSE c.received
  /\ d.shown = IF arrives THEN ShownAfter(c, taken) ELSE c.shown

LEMMA TransmitIs ==
  ASSUME NEW c, Good(c), NEW size \in Nat, NEW taken \in SUBSET Entries, NEW arrives \in BOOLEAN, NEW d,
         d = Transmit(c, size, taken, arrives), size + c.message.size <= MaxPayload,
         Lost(c) => size + c.reliable_buf.size <= MaxPayload, c.reliable_buf # Empty => c.message = Empty
  PROVE  Good(d) /\ Transmitted(c, d, taken, arrives)
<1> DEFINE fresh == c.reliable_buf = Empty /\ c.message # Empty
           buf == IF fresh THEN c.message ELSE c.reliable_buf
           send == fresh \/ Lost(c)
           msg == IF fresh THEN Empty ELSE c.message
           last == IF send THEN c.outgoing_sequence ELSE c.last_reliable_sequence
           big == c.toobig \/ size + (IF send THEN buf.size ELSE 0) > MaxPayload
           got == IF fresh THEN arrives ELSE c.reliable_got \/ (send /\ arrives)
           received == IF arrives THEN c.received \cup {c.outgoing_sequence} ELSE c.received
           mid == LastLayout(c.shown, IF send THEN buf.data ELSE {})
           shown == IF ~arrives THEN c.shown ELSE LastLayout(mid, taken)
<1>1. c \in Client /\ c.message \in Buffers /\ c.reliable_buf \in Buffers /\ c.outgoing_sequence \in Nat \ {0} /\ c.last_reliable_sequence \in Nat
      /\ c.received \in SUBSET Nat /\ c.shown \in LayoutTexts \cup {None} /\ c.toobig \in BOOLEAN /\ c.reliable_got \in BOOLEAN
      /\ c.outgoing_sequence + 1 \in Nat \ {0}
  BY DEF Good, Client
<1>2. Empty \in Buffers /\ Empty.data = {} /\ Empty.size = 0
  BY MessageSizes DEF Empty, Buffers
<1>3. d = [c EXCEPT !.reliable_buf = buf, !.message = msg, !.last_reliable_sequence = last, !.outgoing_sequence = @ + 1,
             !.toobig = big, !.reliable_got = got, !.received = received, !.shown = shown]
  BY <1>1 DEF Transmit, Client
<1>4. buf \in Buffers /\ msg \in Buffers /\ last \in Nat /\ received \in SUBSET Nat
  BY <1>1, <1>2
<1>5. got \in BOOLEAN /\ big \in BOOLEAN
  BY <1>1
<1>6. \A m \in buf.data : m.slot \in Slots
  <2> HIDE DEF buf
  <2>1. QED
    BY <1>4 DEF Buffers
<1>7. mid \in LayoutTexts \cup {None}
  <2> DEFINE sent == IF send THEN buf.data ELSE {}
  <2>1. \A m \in sent : m.slot \in Slots
    <3> HIDE DEF buf
    <3>1. QED
      BY <1>6
  <2>2. mid = LastLayout(c.shown, sent)
    OBVIOUS
  <2> HIDE DEF mid, sent
  <2>3. QED
    BY <1>1, <2>1, <2>2, LastLayoutIs
<1>8. shown \in LayoutTexts \cup {None}
  <2> HIDE DEF mid
  <2>1. \A m \in taken : m.slot \in Slots
    BY DEF Entries
  <2>2. LastLayout(mid, taken) \in LayoutTexts \cup {None}
    BY <1>7, <2>1, LastLayoutIs
  <2>3. QED
    BY <1>1, <2>2
<1>9. ~big
  <2>1. c.message.size \in Nat /\ c.reliable_buf.size \in Nat /\ MaxPayload \in Nat
    BY <1>1, MessageSizes DEF Buffers
  <2>2. size + (IF send THEN buf.size ELSE 0) <= MaxPayload
    <3>1. CASE fresh
      BY <3>1
    <3>2. CASE ~fresh /\ Lost(c)
      BY <3>2
    <3>3. CASE ~fresh /\ ~Lost(c)
      BY <2>1, <3>3
    <3>4. QED
      BY <3>1, <3>2, <3>3
  <2>3. (IF send THEN buf.size ELSE 0) \in Nat
    BY <2>1
  <2>4. QED
    BY <2>1, <2>2, <2>3 DEF Good
<1>10. msg = Empty
  OBVIOUS
<1>11. buf = Buffer(c) /\ shown = (IF arrives THEN ShownAfter(c, taken) ELSE c.shown)
  <2>1. buf = Buffer(c)
    BY DEF Buffer
  <2>2. send = Sends(c)
    BY DEF Sends
  <2>3. LastLayout(mid, taken) = ShownAfter(c, taken)
    BY <2>1, <2>2 DEF ShownAfter
  <2> HIDE DEF mid, send, buf
  <2>4. QED
    BY <2>1, <2>3
<1>12. received = (IF arrives THEN c.received \cup {c.outgoing_sequence} ELSE c.received)
  OBVIOUS
<1> HIDE DEF fresh, buf, send, msg, last, big, got, received, mid, shown
<1>13. d \in Client
  <2> DEFINE next == c.outgoing_sequence + 1
  <2>1. next \in Nat \ {0}
    BY <1>1
  <2>2. d = [c EXCEPT !.reliable_buf = buf, !.message = msg, !.last_reliable_sequence = last, !.outgoing_sequence = next,
               !.toobig = big, !.reliable_got = got, !.received = received, !.shown = shown]
    BY <1>1, <1>3 DEF Client
  <2> HIDE DEF next
  <2>3. c \in Client
    BY <1>1
  <2> DEFINE b == [c EXCEPT !.reliable_buf = buf, !.message = msg, !.last_reliable_sequence = last, !.outgoing_sequence = next]
  <2>4. b \in Client
    BY <1>4, <2>1, <2>3 DEF Client
  <2>5. d = [b EXCEPT !.toobig = big, !.reliable_got = got, !.received = received, !.shown = shown]
    BY <2>2, <2>3 DEF Client
  <2> HIDE DEF b
  <2>6. QED
    BY <1>4, <1>5, <1>8, <2>4, <2>5 DEF Client
<1>14. Transmitted(c, d, taken, arrives) /\ d.toobig = big
  BY <1>1, <1>3, <1>10, <1>11, <1>12 DEF Transmitted, Client
<1>15. Sequenced(d)
  <2>1. c.incoming_acknowledged \in Nat
    BY <1>1 DEF Client
  <2>2. c.incoming_acknowledged < c.outgoing_sequence /\ c.received \subseteq 1 .. c.outgoing_sequence - 1
    BY DEF Good, Sequenced
  <2>3. d.received \subseteq 1 .. c.outgoing_sequence
    BY <1>1, <1>12, <1>14, <2>2 DEF Transmitted
  <2>4. QED
    BY <1>1, <1>14, <2>1, <2>2, <2>3 DEF Transmitted, Sequenced
<1>16. Live(d) => d.open
  BY <1>14 DEF Transmitted, Live, Good, Noted
<1>17. ~d.toobig
  BY <1>9, <1>14
<1>18. Good(d)
  BY <1>13, <1>14, <1>15, <1>16, <1>17 DEF Good, Transmitted, Noted, Overflowing
<1>19. QED
  BY <1>14, <1>18

(* The reliable messages are written and sent: in every handler but one at once. *)
Passed(c, e) == \E w, bs, W, arrives : Wrote(c, w, bs, W) /\ Transmitted(w, e, {}, arrives)
LEMMA SendIs ==
  ASSUME NEW c, Good(c), c.message = Empty, NEW arrives \in BOOLEAN, NEW w, w = WriteReliableMessages(c, BuffSize), NEW e, e = Transmit(w, 0, {}, arrives)
  PROVE  /\ Good(w) /\ WroteSome(c, w, BuffSize)
         /\ Good(e) /\ Passed(c, e)
<1>1. BuffSize \in Nat /\ BuffSize <= MaxPayload /\ MaxPayload \in Nat
  BY MessageSizes
<1>2. c.reliable_buf = Empty /\ Reliables(c) # {} => First(Reliables(c)).size <= BuffSize
  <2>1. SUFFICES ASSUME Reliables(c) # {} PROVE First(Reliables(c)).size <= BuffSize
    OBVIOUS
  <2>2. Reliables(c) \in SUBSET Entries
    BY DEF Good, Client, Reliables
  <2>3. First(Reliables(c)) \in Entries
    BY <2>1, <2>2, FirstIs
  <2>4. QED
    BY <1>1, <2>3 DEF Entries
<1>3. Good(w) /\ WroteSome(c, w, BuffSize)
  BY <1>1, <1>2, WriteIs
<1>4. PICK W : Wrote(c, w, BuffSize, W)
  BY <1>3 DEF WroteSome
<1>5. w.message \in Buffers /\ w.reliable_buf \in Buffers
  BY <1>3 DEF Good, Client
<1>6. 0 + w.message.size <= MaxPayload /\ 0 + w.reliable_buf.size <= MaxPayload
  BY <1>1, <1>5 DEF Buffers
<1>7. w.reliable_buf # Empty => w.message = Empty
  BY <1>4 DEF Wrote
<1>8. Good(e) /\ Transmitted(w, e, {}, arrives)
  BY <1>3, <1>6, <1>7, TransmitIs
<1>9. QED
  BY <1>3, <1>4, <1>8 DEF Passed

(* The reliable message of the packet is compressed. *)
LEMMA SqueezedIs ==
  ASSUME NEW c, Good(c), Squeezable(c), NEW n \in 1 .. ReliableSize(c) - 1, NEW d, d = Squeezed(c, n)
  PROVE  /\ Good(d) /\ d.state = c.state /\ d.open = c.open /\ d.notes = c.notes /\ d.message = c.message
         /\ d.outgoing_sequence = c.outgoing_sequence /\ d.incoming_acknowledged = c.incoming_acknowledged
         /\ d.received = c.received /\ d.shown = c.shown /\ d.layout = c.layout /\ d.layout_unreliable = c.layout_unreliable
         /\ d.reliable_buf = Empty <=> c.reliable_buf = Empty
         /\ d.reliable_buf.data = c.reliable_buf.data
         /\ Reliables(c) # {} => Reliables(d) # {}
         /\ Unreliables(d) = Unreliables(c)
         /\ \A o \in Reliables(d) : \E p \in Reliables(c) : o.text = p.text /\ (o.type = p.type \/ o.type = "cpacket")
<1>1. c \in Client /\ c.reliable_buf \in Buffers /\ c.list \in SUBSET Entries /\ OneASlot(c.list)
  BY DEF Good, Client, Numbered
<1>2. CASE c.reliable_buf # Empty
  <2> DEFINE buf == [c.reliable_buf EXCEPT !.size = n, !.packed = TRUE]
  <2>1. n \in 0 .. BuffSize
    BY <1>1, <1>2, MessageSizes DEF ReliableSize, Buffers
  <2>2. buf \in Buffers /\ buf.packed = TRUE /\ buf.data = c.reliable_buf.data
    BY <1>1, <2>1 DEF Buffers
  <2>3. buf # Empty
    BY <2>2 DEF Empty
  <2>4. d = [c EXCEPT !.reliable_buf = buf]
    BY <1>1, <1>2 DEF Squeezed, Client
  <2> HIDE DEF buf
  <2>5. d \in Client /\ d.reliable_buf = buf /\ d.list = c.list /\ d.notes = c.notes /\ d.asked = c.asked
    BY <1>1, <2>2, <2>4 DEF Client
  <2>6. /\ d.state = c.state /\ d.open = c.open /\ d.message = c.message /\ d.toobig = c.toobig /\ d.took = c.took
        /\ d.outgoing_sequence = c.outgoing_sequence /\ d.incoming_acknowledged = c.incoming_acknowledged
        /\ d.received = c.received /\ d.shown = c.shown /\ d.layout = c.layout /\ d.layout_unreliable = c.layout_unreliable
    BY <1>1, <2>4 DEF Client
  <2>7. Sequenced(d) /\ (Live(d) => d.open)
    BY <2>6 DEF Good, Sequenced, Live, Noted
  <2>8. Good(d)
    BY <2>5, <2>6, <2>7, SameIs
  <2>9. Reliables(d) = Reliables(c) /\ Unreliables(d) = Unreliables(c)
    BY <2>5 DEF Reliables, Unreliables
  <2>10. QED
    BY <1>2, <2>2, <2>3, <2>5, <2>6, <2>8, <2>9
<1>3. CASE c.reliable_buf = Empty
  <2> DEFINE m == First(Reliables(c))
             r == [m EXCEPT !.size = n, !.type = "cpacket"]
             list == (c.list \ {m}) \cup {r}
  <2>1. m \in Reliables(c) /\ m \in c.list /\ m \in Entries /\ m.reliable
    <3>1. Reliables(c) # {} /\ Reliables(c) \in SUBSET Entries
      BY <1>1, <1>3 DEF Squeezable, Reliables
    <3>2. m \in Reliables(c)
      BY <3>1, FirstIs
    <3>3. QED
      BY <1>1, <3>2 DEF Reliables
  <2>2. n \in 1 .. BuffSize
    <3>1. n \in 1 .. m.size - 1
      BY <1>3 DEF ReliableSize
    <3> HIDE DEF m
    <3>2. QED
      BY <2>1, <3>1, MessageSizes DEF Entries
  <2>3. d = [c EXCEPT !.list = list]
    BY <1>1, <1>3 DEF Squeezed, Client
  <2> HIDE DEF m
  <2>4. "cpacket" \in Types /\ "cpacket" # "layout"
    BY DEF Types
  <2>5. r \in Entries /\ r.slot = m.slot /\ r.nr = m.nr /\ r.reliable = m.reliable /\ r.text = m.text /\ r.type = "cpacket"
    BY <2>1, <2>2, <2>4 DEF Entries
  <2> HIDE DEF r
  <2>6. list \in SUBSET Entries
    BY <1>1, <2>5
  <2>7. d \in Client /\ d.list = list /\ d.notes = c.notes /\ d.asked = c.asked /\ d.took = c.took /\ d.state = c.state /\ d.open = c.open
        /\ d.toobig = c.toobig /\ d.message = c.message
        /\ d.outgoing_sequence = c.outgoing_sequence /\ d.incoming_acknowledged = c.incoming_acknowledged
        /\ d.received = c.received /\ d.shown = c.shown /\ d.layout = c.layout /\ d.layout_unreliable = c.layout_unreliable
        /\ d.reliable_buf = c.reliable_buf
    <3> HIDE DEF list
    <3>1. QED
      BY <1>1, <2>3, <2>6 DEF Client
  <2>8. \A o \in c.list : o # m => o.slot # r.slot
    BY <1>1, <2>1, <2>5 DEF OneASlot
  <2>9. Numbered(list)
    <3>1. OneASlot(list)
      BY <1>1, <2>8 DEF OneASlot
    <3>2. \A o \in c.list : o.nr # 0 => o.reliable /\ o.type # "layout"
      BY DEF Good, Numbered
    <3>3. r.nr # 0 => r.reliable /\ r.type # "layout"
      BY <2>1, <2>4, <2>5
    <3>4. QED
      BY <3>1, <3>2, <3>3 DEF Numbered
  <2>10. ASSUME InOrder(c.list, c.asked, c.took) PROVE InOrder(list, c.asked, c.took)
    <3> DEFINE V == {o \in c.list : o.nr # 0}
               V2 == {o \in list : o.nr # 0}
               gone == {o.nr : o \in c.took} \ {0}
    <3>1. 1 .. c.asked = gone \cup {o.nr : o \in V} /\ (\A o \in V : \A k \in gone : k < o.nr)
          /\ \A o, p \in V : o.slot < p.slot => o.nr < p.nr
      BY <2>10 DEF InOrder
    <3>2. \A o \in V2 : \E p \in V : o.nr = p.nr /\ o.slot = p.slot
      BY <2>1, <2>5
    <3>3. \A p \in V : \E o \in V2 : o.nr = p.nr
      BY <2>1, <2>5
    <3> HIDE DEF V, V2, gone
    <3>4. {o.nr : o \in V} = {o.nr : o \in V2}
      BY <3>2, <3>3
    <3>5. \A o \in V2 : \A k \in gone : k < o.nr
      BY <3>1, <3>2
    <3>6. \A o, p \in V2 : o.slot < p.slot => o.nr < p.nr
      BY <3>1, <3>2
    <3>7. QED
      BY <3>1, <3>4, <3>5, <3>6 DEF InOrder, V, V2, gone
  <2>11. Noted(d) /\ Sequenced(d)
    <3>1. Overflowing(d) => c.list = {}
      BY <2>7 DEF Good, Noted, Overflowing
    <3>2. ~Overflowing(d)
      BY <2>1, <3>1
    <3>3. QED
      BY <2>7, <3>2 DEF Good, Noted, Live, Sequenced
  <2>12. Good(d)
    BY <2>7, <2>9, <2>10, <2>11 DEF Good
  <2>13. Reliables(d) = (Reliables(c) \ {m}) \cup {r}
    BY <2>1, <2>5, <2>7 DEF Reliables
  <2>14. Unreliables(d) = Unreliables(c)
    <3>1. \A o \in d.list : ~o.reliable <=> o \in c.list /\ ~o.reliable
      BY <2>1, <2>5, <2>7
    <3>2. \A o \in c.list : ~o.reliable => o \in d.list
      BY <2>1, <2>7
    <3>3. QED
      BY <3>1, <3>2 DEF Unreliables, Reliables
  <2>15. QED
    BY <2>1, <2>5, <2>7, <2>12, <2>13, <2>14
<1>4. QED
  BY <1>2, <1>3

(* The room of the datagram and what the reliable part needs make a packet. *)
LEMMA RoomIs ==
  ASSUME NEW c, Good(c)
  PROVE  /\ Room(c) \in Nat /\ Room(c) <= BuffSize
         /\ c.reliable_buf = Empty /\ Reliables(c) # {} => First(Reliables(c)).size + Room(c) = BuffSize /\ First(Reliables(c)).size \in Nat
         /\ Lost(c) => c.reliable_buf.size + Room(c) = BuffSize
<1>1. c.reliable_buf.size \in 0 .. BuffSize /\ BuffSize \in Nat
  BY MessageSizes DEF Good, Client, Buffers
<1>2. ASSUME Reliables(c) # {} PROVE First(Reliables(c)).size \in 1 .. BuffSize
  <2>1. Reliables(c) \in SUBSET Entries
    BY DEF Good, Client, Reliables
  <2>2. First(Reliables(c)) \in Entries
    BY <1>2, <2>1, FirstIs
  <2>3. QED
    BY <2>2 DEF Entries
<1>3. CASE c.reliable_buf # Empty
  BY <1>1, <1>3 DEF Room
<1>4. CASE c.reliable_buf = Empty /\ Reliables(c) # {}
  <2>1. Room(c) = BuffSize - First(Reliables(c)).size /\ ~Lost(c)
    BY <1>4 DEF Room, Lost
  <2>2. First(Reliables(c)).size \in 1 .. BuffSize
    BY <1>2, <1>4
  <2>3. QED
    BY <1>1, <1>4, <2>1, <2>2
<1>5. CASE c.reliable_buf = Empty /\ Reliables(c) = {}
  BY <1>1, <1>5 DEF Room, Lost
<1>6. QED
  BY <1>3, <1>4, <1>5

(* A datagram begins within the room. *)
LEMMA DatagramsAre ==
  ASSUME NEW c, Good(c), NEW full \in Nat, NEW least \in Nat, NEW d \in Datagrams(c, full, least)
  PROVE  d \in [used : Nat, taken : SUBSET c.list] /\ d.taken \subseteq Unreliables(c) /\ d.used <= Room(c)
<1>1. Room(c) \in Nat
  BY RoomIs
<1>2. Frame(full, least, Room(c)) \in Nat /\ Frame(full, least, Room(c)) <= Room(c)
  BY <1>1 DEF Frame
<1>3. Unreliables(c) \in SUBSET c.list
  BY DEF Unreliables
<1>4. \E n \in Nat, S \in {{}, Unreliables(c)} : n <= Room(c) /\ d = Datagram(n, S)
  <2>1. d = Datagram(Frame(full, least, Room(c)), {}) \/ \E n \in 1 .. Room(c) : d = Datagram(n, Unreliables(c)) \/ d = Datagram(n, {})
    BY DEF Datagrams
  <2>2. CASE d = Datagram(Frame(full, least, Room(c)), {})
    BY <1>2, <2>2
  <2>3. CASE \E n \in 1 .. Room(c) : d = Datagram(n, Unreliables(c)) \/ d = Datagram(n, {})
    <3>1. PICK n \in 1 .. Room(c) : d = Datagram(n, Unreliables(c)) \/ d = Datagram(n, {})
      BY <2>3
    <3>2. n \in Nat /\ n <= Room(c)
      BY <1>1
    <3>3. QED
      BY <3>1, <3>2
  <2>4. QED
    BY <2>1, <2>2, <2>3
<1>5. PICK n \in Nat, S \in {{}, Unreliables(c)} : n <= Room(c) /\ d = Datagram(n, S)
  BY <1>4
<1>6. QED
  BY <1>3, <1>5 DEF Datagram

(* After the datagram was filled from it, the list keeps all reliable messages. *)
LEMMA SettledIs ==
  ASSUME NEW c, Good(c), NEW g, g.taken \subseteq Unreliables(c), NEW d, d = Settled(c, g)
  PROVE  /\ Good(d) /\ Untouched(c, d) /\ d.notes = c.notes /\ d.asked = c.asked
         /\ d.list = c.list \ (g.taken \cup {m \in c.list \ g.taken : Nuked(m)}) /\ Reliables(d) = Reliables(c)
         /\ d.layout = IF \E m \in c.list \ g.taken : Nuked(m) /\ IsLayout(m) THEN None ELSE c.layout
         /\ d.layout_unreliable = IF \E m \in g.taken : IsLayout(m) THEN c.outgoing_sequence ELSE c.layout_unreliable
<1> DEFINE nuked == {m \in c.list \ g.taken : Nuked(m)}
           gone == g.taken \cup nuked
           b == DeleteMessages(c, gone)
           layout == IF \E m \in nuked : IsLayout(m) THEN None ELSE c.layout
           sent == IF \E m \in g.taken : IsLayout(m) THEN c.outgoing_sequence ELSE c.layout_unreliable
<1>1. c \in Client
  BY DEF Good
<1>2. \A m \in gone : m \in c.list => m.nr = 0 /\ ~m.reliable
  <2>1. \A m \in c.list : m.nr # 0 => m.reliable
    BY DEF Good, Numbered
  <2>2. \A m \in g.taken : ~m.reliable
    BY DEF Unreliables, Reliables
  <2>3. \A m \in nuked : ~m.reliable
    BY DEF Nuked
  <2>4. QED
    BY <2>1, <2>2, <2>3
<1> HIDE DEF gone
<1>3. /\ Good(b) /\ Untouched(c, b) /\ b.list = c.list \ gone /\ b.notes = c.notes /\ b.asked = c.asked
      /\ b.layout = c.layout /\ b.layout_unreliable = c.layout_unreliable
  BY <1>2, DeleteIs
<1>4. d = [b EXCEPT !.layout = layout, !.layout_unreliable = sent]
  BY <1>3 DEF Settled, gone
<1>5. layout \in LayoutTexts \cup {None} /\ sent \in Nat
  BY <1>1 DEF Client
<1>6. layout = (IF \E m \in c.list \ g.taken : Nuked(m) /\ IsLayout(m) THEN None ELSE c.layout)
      /\ sent = (IF \E m \in g.taken : IsLayout(m) THEN c.outgoing_sequence ELSE c.layout_unreliable)
  BY <1>3
<1> HIDE DEF layout, sent, b
<1>7. b \in Client
  BY <1>3 DEF Good
<1>8. d \in Client /\ d.list = b.list /\ d.notes = b.notes /\ d.asked = b.asked /\ Untouched(b, d) /\ d.layout = layout /\ d.layout_unreliable = sent
  BY <1>4, <1>5, <1>7 DEF Client, Untouched
<1>9. Good(d)
  <2>1. Sequenced(d) /\ (Live(d) => d.open)
    BY <1>3, <1>8 DEF Good, Sequenced, Live, Noted, Untouched
  <2>2. QED
    BY <1>3, <1>8, <2>1, SameIs DEF Untouched
<1>10. Reliables(d) = Reliables(c)
  BY <1>2, <1>3, <1>8 DEF Reliables
<1>11. Untouched(c, d)
  BY <1>3, <1>8 DEF Untouched
<1>12. QED
  BY <1>3, <1>6, <1>8, <1>9, <1>10, <1>11 DEF gone

(* A datagram is filled and sent with what the room leaves of reliable messages. *)
Delivered(c, e, g, s, w, bs, W, arrives) ==
  /\ g.taken \subseteq Unreliables(c) /\ s = Settled(c, g) /\ Good(s) /\ Good(w)
  /\ Wrote(s, w, bs, W) /\ Transmitted(w, e, g.taken, arrives)
Delivers(c, e) == \E g, s, w, bs, W : \E arrives \in BOOLEAN : Delivered(c, e, g, s, w, bs, W, arrives)

LEMMA OutcomeIs ==
  ASSUME NEW c, Good(c), c.message = Empty, NEW full \in Nat, NEW least \in Nat, NEW d \in Datagrams(c, full, least), NEW dropped,
         NEW arrives \in BOOLEAN, NEW e, e = Outcome(c, d, dropped, arrives)
  PROVE  Good(e) /\ Delivers(c, e)
<1> DEFINE g == Filled(c, d, Room(c), dropped)
           s == Settled(c, g)
           bs == BuffSize - g.used
           w == WriteReliableMessages(s, bs)
<1>1. c \in Client /\ OneASlot(c.list) /\ c.list \in SUBSET Entries /\ BuffSize \in Nat /\ MaxPayload \in Nat /\ BuffSize <= MaxPayload
  BY MessageSizes DEF Good, Client, Numbered
<1>2. /\ Room(c) \in Nat /\ Room(c) <= BuffSize
      /\ c.reliable_buf = Empty /\ Reliables(c) # {} => First(Reliables(c)).size + Room(c) = BuffSize /\ First(Reliables(c)).size \in Nat
      /\ Lost(c) => c.reliable_buf.size + Room(c) = BuffSize
  BY RoomIs
<1>3. d \in [used : Nat, taken : SUBSET c.list] /\ d.taken \subseteq Unreliables(c) /\ d.used <= Room(c)
  BY DatagramsAre
<1>4. g \in [used : Nat, taken : SUBSET c.list] /\ g.used <= Room(c) /\ g.taken \subseteq Unreliables(c)
  BY <1>1, <1>2, <1>3, FilledIs
<1> HIDE DEF g
<1>5. g.used \in Nat /\ g.taken \in SUBSET Entries /\ bs \in Nat /\ bs <= BuffSize /\ g.used + bs = BuffSize
  BY <1>1, <1>2, <1>4
<1>6. Good(s) /\ Untouched(c, s) /\ Reliables(s) = Reliables(c)
  BY <1>4, SettledIs
<1>7. e = Transmit(w, g.used, g.taken, arrives)
  BY DEF Outcome, g
<1> HIDE DEF s
<1>8. s.message = Empty /\ s.reliable_buf = c.reliable_buf /\ s.incoming_acknowledged = c.incoming_acknowledged
      /\ s.last_reliable_sequence = c.last_reliable_sequence
  BY <1>6 DEF Untouched
<1>9. s.reliable_buf = Empty /\ Reliables(s) # {} => First(Reliables(s)).size <= bs
  <2>1. SUFFICES ASSUME c.reliable_buf = Empty, Reliables(c) # {} PROVE First(Reliables(c)).size <= bs
    BY <1>6, <1>8
  <2>2. First(Reliables(c)).size + Room(c) = BuffSize /\ First(Reliables(c)).size \in Nat
    BY <1>2, <2>1
  <2>3. QED
    BY <1>1, <1>2, <1>4, <1>5, <2>2
<1> HIDE DEF bs
<1>10. Good(w) /\ WroteSome(s, w, bs)
  BY <1>5, <1>6, <1>8, <1>9, WriteIs
<1> HIDE DEF w
<1>11. PICK W : Wrote(s, w, bs, W)
  BY <1>10 DEF WroteSome
<1>12. w.message \in Buffers /\ w.reliable_buf = c.reliable_buf /\ w.reliable_buf \in Buffers /\ w.message.size <= bs
       /\ (w.reliable_buf # Empty => w.message = Empty) /\ (Lost(w) <=> Lost(c))
  <2>1. w.reliable_buf = c.reliable_buf /\ w.message.size <= bs /\ (w.reliable_buf # Empty => w.message = Empty) /\ (Lost(w) <=> Lost(c))
    BY <1>8, <1>11 DEF Wrote, Lost
  <2>2. QED
    BY <1>10, <2>1 DEF Good, Client
<1>13. g.used + w.message.size <= MaxPayload
  <2>1. w.message.size \in Nat
    BY <1>12 DEF Buffers
  <2>2. QED
    BY <1>1, <1>5, <1>12, <2>1
<1>14. Lost(w) => g.used + w.reliable_buf.size <= MaxPayload
  <2>1. c.reliable_buf.size \in Nat
    BY <1>12 DEF Buffers
  <2>2. QED
    BY <1>1, <1>2, <1>4, <1>5, <1>12, <2>1
<1>15. Good(e) /\ Transmitted(w, e, g.taken, arrives)
  BY <1>5, <1>7, <1>10, <1>12, <1>13, <1>14, TransmitIs
<1>16. Delivered(c, e, g, s, w, bs, W, arrives)
  BY <1>4, <1>6, <1>10, <1>11, <1>15 DEF Delivered, s
<1>17. QED
  BY <1>15, <1>16 DEF Delivers

-----------------------------------------------------------------------------
(* The invariant, and that every step keeps it. *)

(* A client marked done is let go of, and its disconnect is on its way. *)
Told(c) == "OVERFLOW_DONE" \in c.notes =>
             ~Live(c) /\ (c.state = Zombie => \E m \in c.list \cup c.took : m.text = "disconnect")
Inv(c) == Good(c) /\ c.message = Empty /\ Told(c)

(* What was on the list or in the channel is still there after a write. *)
LEMMA KeptIs ==
  ASSUME NEW c, NEW d, NEW bs, NEW W, Wrote(c, d, bs, W), NEW m \in c.list \cup c.took
  PROVE  \E n \in d.list \cup d.took : n.text = m.text
<1>1. CASE m \in W
  <2>1. [nr |-> m.nr, text |-> m.text] \in d.took /\ [nr |-> m.nr, text |-> m.text].text = m.text
    BY <1>1 DEF Wrote
  <2>2. QED
    BY <2>1
<1>2. CASE m \notin W
  BY <1>2 DEF Wrote
<1>3. QED
  BY <1>1, <1>2

LEMMA PassedIs ==
  ASSUME NEW c, Inv(c), NEW e, Good(e), Passed(c, e)
  PROVE  /\ Inv(e) /\ e.state = c.state /\ e.open = c.open /\ e.notes = c.notes /\ e.outgoing_sequence = c.outgoing_sequence + 1
         /\ c.open /\ c.state # Free /\ Reliables(c) # {} => e.reliable_buf # Empty
<1>1. PICK w, bs, W, arrives : Wrote(c, w, bs, W) /\ Transmitted(w, e, {}, arrives)
  BY DEF Passed
<1>2. e.state = c.state /\ e.open = c.open /\ e.notes = c.notes /\ e.outgoing_sequence = c.outgoing_sequence + 1 /\ e.message = Empty
      /\ e.list = w.list /\ e.took = w.took
  BY <1>1 DEF Wrote, Transmitted
<1>3. Told(e)
  <2>1. \A m \in c.list \cup c.took : \E n \in e.list \cup e.took : n.text = m.text
    BY <1>1, <1>2, KeptIs
  <2>2. QED
    BY <1>2, <2>1 DEF Inv, Told, Live
<1>4. ASSUME c.open, c.state # Free, Reliables(c) # {} PROVE e.reliable_buf # Empty
  BY <1>1, <1>4 DEF Wrote, Transmitted, Buffer
<1>5. QED
  BY <1>2, <1>3, <1>4 DEF Inv

(* SV_DropClient with a message. *)
LEMMA DropNotifiedIs ==
  ASSUME NEW c, Good(c), c.message = Empty, NEW arrives \in BOOLEAN, NEW d, d = DropNotified(c, arrives)
  PROVE  /\ Good(d) /\ d.message = Empty /\ d.state = Zombie /\ d.open = c.open /\ d.outgoing_sequence = c.outgoing_sequence + 1
         /\ d.notes = c.notes \/ d.notes = c.notes \cup {"OVERFLOWED"}
         /\ Linkable(c, Disconnect) => d.notes = c.notes /\ \E m \in d.list \cup d.took : m.text = "disconnect"
         /\ c.open /\ c.state # Free /\ Reliables(c) # {} /\ "OVERFLOWED" \notin d.notes => d.reliable_buf # Empty
<1> DEFINE b == AddMessageSingle(c, Disconnect)
           w == WriteReliableMessages(b, BuffSize)
           e == Transmit(w, 0, {}, arrives)
<1>1. Disconnect \in Messages /\ ~IsLayout(Disconnect) /\ Disconnect.text = "disconnect"
  BY DEF Messages, Disconnect, IsLayout
<1>2. Good(b) /\ Untouched(c, b)
      /\ \/ b = c /\ ~Linkable(c, Disconnect)
         \/ b.notes = c.notes \cup {"OVERFLOWED"} /\ ~Linkable(c, Disconnect)
         \/ b = Linked(Stored(c, Disconnect), Disconnect) /\ Linkable(c, Disconnect) /\ b.notes = c.notes
  BY <1>1, AddIs
<1>3. ASSUME Linkable(c, Disconnect)
      PROVE  \E x \in Entries : b.list = c.list \cup {x} /\ x.text = "disconnect"
  <2>1. b = Linked(c, Disconnect)
    BY <1>1, <1>2, <1>3 DEF Stored
  <2>2. \E x \in Entries : b.list = {o \in c.list : ~(IsLayout(o) /\ IsLayout(Disconnect))} \cup {x} /\ x.text = Disconnect.text
    BY <1>1, <1>3, <2>1, LinkedIs DEF Linkable
  <2>3. {o \in c.list : ~(IsLayout(o) /\ IsLayout(Disconnect))} = c.list
    BY <1>1
  <2>4. QED
    BY <1>1, <2>2, <2>3
<1> HIDE DEF b
<1>4. b.message = Empty /\ b.open = c.open /\ b.state = c.state /\ b.outgoing_sequence = c.outgoing_sequence
  BY <1>2 DEF Untouched
<1>5. Good(w) /\ WroteSome(b, w, BuffSize) /\ Good(e) /\ Passed(b, e)
  BY <1>2, <1>4, SendIs
<1>6. d = [e EXCEPT !.state = Zombie]
  BY DEF DropNotified, b
<1> HIDE DEF w, e
<1>7. PICK v, bs, W, ar : Wrote(b, v, bs, W) /\ Transmitted(v, e, {}, ar)
  BY <1>5 DEF Passed
<1>8. Good(d) /\ d.state = Zombie /\ d.list = e.list /\ d.took = e.took /\ d.notes = e.notes /\ d.open = e.open /\ d.message = e.message
      /\ d.outgoing_sequence = e.outgoing_sequence /\ d.reliable_buf = e.reliable_buf
  <2>1. e \in Client /\ Zombie \in States /\ Zombie \notin {Connected, Spawning, Spawned}
    BY <1>5 DEF Good, States, Zombie, Connected, Spawning, Spawned
  <2>2. d \in Client /\ d.state = Zombie /\ d.list = e.list /\ d.took = e.took /\ d.notes = e.notes /\ d.open = e.open /\ d.message = e.message
        /\ d.outgoing_sequence = e.outgoing_sequence /\ d.reliable_buf = e.reliable_buf /\ d.received = e.received
        /\ d.incoming_acknowledged = e.incoming_acknowledged /\ d.toobig = e.toobig /\ d.asked = e.asked
    BY <1>6, <2>1 DEF Client
  <2>3. Sequenced(d) /\ (Live(d) => d.open)
    BY <1>5, <2>1, <2>2 DEF Good, Sequenced, Live
  <2>4. Good(d)
    BY <1>5, <2>2, <2>3, SameIs
  <2>5. QED
    BY <2>2, <2>4
<1>9. e.message = Empty /\ e.open = b.open /\ e.notes = b.notes /\ e.outgoing_sequence = b.outgoing_sequence + 1 /\ e.list = v.list /\ e.took = v.took
  BY <1>7 DEF Wrote, Transmitted
<1>10. ASSUME Linkable(c, Disconnect) PROVE d.notes = c.notes /\ \E m \in d.list \cup d.took : m.text = "disconnect"
  <2>1. PICK x \in Entries : b.list = c.list \cup {x} /\ x.text = "disconnect"
    BY <1>3, <1>10
  <2>2. \E n \in v.list \cup v.took : n.text = x.text
    BY <1>7, <2>1, KeptIs
  <2>3. QED
    BY <1>2, <1>8, <1>9, <1>10, <2>1, <2>2
<1>11. ASSUME c.open, c.state # Free, Reliables(c) # {}, "OVERFLOWED" \notin d.notes PROVE d.reliable_buf # Empty
  <2>1. Reliables(b) # {}
    <3>1. b.list = c.list \/ \E x \in Entries : b.list = c.list \cup {x}
      BY <1>2, <1>3, <1>8, <1>9, <1>11
    <3>2. QED
      BY <1>11, <3>1 DEF Reliables
  <2>2. QED
    BY <1>4, <1>7, <1>8, <1>11, <2>1 DEF Wrote, Transmitted, Buffer
<1>12. QED
  BY <1>2, <1>4, <1>8, <1>9, <1>10, <1>11

(* SV_CheckForOverflow throws out a client that overflowed, and tells it. *)
LEMMA CheckForOverflowIs ==
  ASSUME NEW c, Inv(c), NEW arrives \in BOOLEAN, NEW d, d = CheckForOverflow(c, arrives)
  PROVE  /\ Inv(d)
         /\ \/ d = c /\ (Live(c) => "OVERFLOWED" \notin c.notes)
            \/ d.state = Zombie /\ "OVERFLOWED" \in d.notes
<1>1. c \in Client /\ Good(c) /\ c.message = Empty /\ Told(c)
  BY DEF Inv, Good
<1>2. CASE c.state \in {Free, Zombie} \/ ~Overflowing(c)
  <2>1. d = c
    BY <1>2 DEF CheckForOverflow
  <2>2. Live(c) => ~Overflowing(c)
    BY <1>2 DEF Live, Free, Zombie, Connected, Spawning, Spawned
  <2>3. Live(c) => "OVERFLOWED" \notin c.notes
    BY <1>1, <2>2 DEF Overflowing, Told
  <2>4. QED
    BY <2>1, <2>3
<1>3. CASE c.state \notin {Free, Zombie} /\ Overflowing(c)
  <2> DEFINE N == c.notes \cup {"OVERFLOW_DONE"}
             a == [c EXCEPT !.notes = N]
             b == AddMessageSingle(a, OverflowPrint)
  <2>1. N \in SUBSET Notes /\ "OVERFLOWED" \in N /\ "OVERFLOW_DONE" \in N
    BY <1>1, <1>3 DEF Client, Notes, Overflowing
  <2>2. d = DropNotified(b, arrives)
    <3>1. [c EXCEPT !.notes = @ \cup {"OVERFLOW_DONE"}] = a
      BY <1>1 DEF Client
    <3>2. QED
      BY <1>3, <3>1 DEF CheckForOverflow
  <2>3. Live(c) /\ c.open /\ c.list = {}
    BY <1>1, <1>3 DEF Good, Noted, Client, Live, States
  <2> HIDE DEF N
  <2>4. a \in Client /\ a.notes = N /\ a.list = c.list /\ Untouched(c, a) /\ a.asked = c.asked
    BY <1>1, <2>1 DEF Client, Untouched
  <2> HIDE DEF a
  <2>5. ~Overflowing(a) /\ a.open /\ Live(a) /\ a.list = {}
    BY <2>1, <2>3, <2>4 DEF Overflowing, Untouched, Live
  <2>6. Good(a)
    <3>1. Numbered(a.list) /\ Noted(a) /\ Sequenced(a) /\ ~a.toobig
      BY <1>1, <2>1, <2>4, <2>5 DEF Good, Numbered, Noted, Sequenced, Untouched
    <3>2. QED
      BY <2>1, <2>4, <3>1 DEF Good
  <2>7. OverflowPrint \in Messages /\ Disconnect \in Messages /\ ~IsLayout(OverflowPrint) /\ ~IsLayout(Disconnect) /\ OverflowPrint.size = 2 /\ Disconnect.size = 1
    BY DEF Messages, OverflowPrint, Disconnect, IsLayout
  <2>8. EndIndex(a) = 0
    <3>1. EndIndex(a) \in {0} \cup {m.slot : m \in a.list}
      BY <2>5, EndIndexIs
    <3>2. QED
      BY <2>5, <3>1
  <2>9. Linkable(a, OverflowPrint)
    BY <2>5, <2>7, <2>8, MessageSizes DEF Linkable, DuplicateLayout
  <2>10. Good(b) /\ Untouched(a, b) /\ b = Linked(Stored(a, OverflowPrint), OverflowPrint) /\ b.notes = a.notes
    BY <2>5, <2>6, <2>7, <2>9, AddIs
  <2>11. Stored(a, OverflowPrint) = a
    BY <2>7 DEF Stored
  <2>12. PICK x \in Entries : b.list = {o \in a.list : ~(IsLayout(o) /\ IsLayout(OverflowPrint))} \cup {x} /\ x.slot = EndIndex(a) + 1
    <3>1. b = Linked(a, OverflowPrint)
      BY <2>10, <2>11
    <3>2. EndIndex(a) + 1 < MaxList - 1 /\ OverflowPrint.size < BuffSize
      BY <2>9 DEF Linkable
    <3> HIDE DEF b
    <3>3. QED
      BY <2>5, <2>6, <2>7, <3>1, <3>2, LinkedIs
  <2> HIDE DEF b
  <2>13. b.list = {x} /\ x.slot = 1
    BY <2>5, <2>8, <2>12
  <2>14. EndIndex(b) + 1 < MaxList - 1
    <3>1. EndIndex(b) \in {0} \cup {m.slot : m \in b.list}
      BY <2>13, EndIndexIs
    <3>2. EndIndex(b) \in {0, 1}
      BY <2>13, <3>1
    <3>3. QED
      BY <3>2, MessageSizes
  <2>15. Linkable(b, Disconnect)
    <3>1. ~Overflowing(b) /\ b.open /\ Live(b)
      BY <2>5, <2>10 DEF Overflowing, Untouched, Live
    <3>2. ~DuplicateLayout(b, Disconnect) /\ Disconnect.size < BuffSize
      BY <2>7, MessageSizes DEF DuplicateLayout
    <3>3. QED
      BY <2>14, <3>1, <3>2 DEF Linkable
  <2>16. b.message = Empty
    BY <1>1, <2>4, <2>10 DEF Untouched
  <2>17. Good(d) /\ d.message = Empty /\ d.state = Zombie /\ d.notes = b.notes /\ \E m \in d.list \cup d.took : m.text = "disconnect"
    BY <2>2, <2>10, <2>15, <2>16, DropNotifiedIs
  <2>18. ~Live(d)
    BY <2>17 DEF Live, Zombie, Connected, Spawning, Spawned
  <2>19. QED
    BY <2>1, <2>4, <2>10, <2>17, <2>18 DEF Inv, Told
<1>4. QED
  BY <1>2, <1>3

(* An acknowledgement, and what it tells of a layout. *)
LEMMA AcknowledgeIs ==
  ASSUME NEW c, Inv(c), NEW a \in c.received, NEW d, d = Acknowledge(c, a)
  PROVE  /\ Inv(d) /\ d.state = c.state /\ d.open = c.open /\ d.notes = c.notes /\ d.list = c.list /\ d.outgoing_sequence = c.outgoing_sequence
         /\ d.layout = c.layout /\ d.layout_unreliable = c.layout_unreliable /\ d.received = c.received /\ d.shown = c.shown
         /\ d.incoming_acknowledged = a /\ d.reliable_buf \in {c.reliable_buf, Empty} /\ d.message = c.message
<1> DEFINE buf == IF c.reliable_got /\ a >= c.last_reliable_sequence THEN Empty ELSE c.reliable_buf
           got == c.reliable_got /\ a < c.last_reliable_sequence
<1>1. c \in Client /\ Good(c) /\ Sequenced(c) /\ Empty \in Buffers
  BY MessageSizes DEF Inv, Good, Empty, Buffers
<1>2. a \in Nat /\ a < c.outgoing_sequence /\ c.outgoing_sequence \in Nat
  BY <1>1 DEF Client, Sequenced
<1>3. buf \in Buffers /\ got \in BOOLEAN /\ buf \in {c.reliable_buf, Empty}
  BY <1>1 DEF Client
<1>4. d = [c EXCEPT !.incoming_acknowledged = a, !.reliable_buf = buf, !.reliable_got = got]
  BY <1>1 DEF Acknowledge, Client
<1> HIDE DEF buf, got
<1>5. d \in Client
  BY <1>1, <1>2, <1>3, <1>4 DEF Client
<1>6. /\ d.state = c.state /\ d.open = c.open /\ d.notes = c.notes /\ d.list = c.list /\ d.outgoing_sequence = c.outgoing_sequence
      /\ d.layout = c.layout /\ d.layout_unreliable = c.layout_unreliable /\ d.received = c.received /\ d.shown = c.shown
      /\ d.incoming_acknowledged = a /\ d.reliable_buf = buf /\ d.message = c.message /\ d.asked = c.asked /\ d.took = c.took /\ d.toobig = c.toobig
  BY <1>1, <1>4 DEF Client
<1>7. Sequenced(d) /\ (Live(d) => d.open)
  BY <1>1, <1>2, <1>6 DEF Sequenced, Good, Noted, Live
<1>8. Good(d)
  BY <1>1, <1>5, <1>6, <1>7, SameIs
<1>9. QED
  BY <1>3, <1>6, <1>8 DEF Inv, Told, Live

LEMMA CheckLayoutIs ==
  ASSUME NEW c, Inv(c), NEW d, d = CheckLayout(c)
  PROVE  /\ Inv(d) /\ d.state = c.state /\ d.open = c.open /\ d.notes = c.notes /\ d.list = c.list /\ d.outgoing_sequence = c.outgoing_sequence
         /\ d.received = c.received /\ d.shown = c.shown /\ d.reliable_buf = c.reliable_buf /\ d.message = c.message
         /\ \/ d.layout = c.layout /\ d.layout_unreliable = c.layout_unreliable
            \/ d.layout_unreliable = 0 /\ d.layout = None
            \/ d.layout_unreliable = 0 /\ d.layout = c.layout /\ c.layout_unreliable = c.incoming_acknowledged
<1>1. c \in Client /\ Good(c)
  BY DEF Inv, Good
<1>2. CASE c.layout_unreliable = 0 \/ c.incoming_acknowledged < c.layout_unreliable
  BY <1>2 DEF CheckLayout
<1>3. CASE ~(c.layout_unreliable = 0 \/ c.incoming_acknowledged < c.layout_unreliable)
  <2> DEFINE layout == IF c.incoming_acknowledged > c.layout_unreliable THEN None ELSE c.layout
  <2>1. d = [c EXCEPT !.layout = layout, !.layout_unreliable = 0]
    BY <1>1, <1>3 DEF CheckLayout, Client
  <2>2. layout \in LayoutTexts \cup {None}
    BY <1>1 DEF Client
  <2>3. layout = None \/ (layout = c.layout /\ c.layout_unreliable = c.incoming_acknowledged)
    BY <1>1, <1>3 DEF Client
  <2> HIDE DEF layout
  <2>4. d \in Client
    <3>1. ASSUME NEW n \in Nat, d = [c EXCEPT !.layout = layout, !.layout_unreliable = n] PROVE d \in Client
      BY <1>1, <2>2, <3>1 DEF Client
    <3>2. QED
      BY <2>1, <3>1
  <2>5. /\ d.state = c.state /\ d.open = c.open /\ d.notes = c.notes /\ d.list = c.list /\ d.outgoing_sequence = c.outgoing_sequence
        /\ d.layout = layout /\ d.layout_unreliable = 0 /\ d.received = c.received /\ d.shown = c.shown
        /\ d.incoming_acknowledged = c.incoming_acknowledged /\ d.reliable_buf = c.reliable_buf /\ d.message = c.message
        /\ d.asked = c.asked /\ d.took = c.took /\ d.toobig = c.toobig
    BY <1>1, <2>1 DEF Client
  <2>6. Sequenced(d) /\ (Live(d) => d.open)
    BY <1>1, <2>5 DEF Sequenced, Good, Noted, Live
  <2>7. Good(d)
    BY <1>1, <2>4, <2>5, <2>6, SameIs
  <2>8. QED
    BY <2>3, <2>5, <2>7 DEF Inv, Told, Live
<1>4. QED
  BY <1>2, <1>3

(* What SV_SendClientDatagram can do. *)
LEMMA FormsAre ==
  ASSUME NEW c, Good(c), c.message = Empty, NEW b \in Forms(c)
  PROVE  Good(b) /\ b.message = Empty
<1>1. CASE b = c
  BY <1>1
<1>2. CASE b # c
  <2>1. Squeezable(c) /\ \E n \in 1 .. ReliableSize(c) - 1 : b = Squeezed(c, n)
    BY <1>2 DEF Forms
  <2>2. QED
    BY <2>1, SqueezedIs
<1>3. QED
  BY <1>1, <1>2

LEMMA DatagramIs ==
  ASSUME NEW c, Good(c), c.message = Empty, NEW d \in SendClientDatagram(c)
  PROVE  Good(d) /\ \E b \in Forms(c) : Delivers(b, d)
<1> DEFINE Some(b, f) == {Outcome(b, x, dropped, arrives) : x \in Datagrams(b, f[1], f[2]), arrives \in BOOLEAN,
                                                            dropped \in SUBSET {m \in b.list : m.type = "gunshot"}}
<1>1. d \in UNION {UNION {Some(b, f) : f \in Frames} : b \in Forms(c)}
  BY DEF SendClientDatagram
<1>2. PICK b \in Forms(c), f \in Frames : d \in Some(b, f)
  <2> HIDE DEF Some
  <2>1. QED
    BY <1>1
<1>3. PICK x \in Datagrams(b, f[1], f[2]), arrives \in BOOLEAN, dropped \in SUBSET {m \in b.list : m.type = "gunshot"} :
        d = Outcome(b, x, dropped, arrives)
  BY <1>2
<1>4. f[1] \in Nat /\ f[2] \in Nat
  <2>1. f \in FrameSizes \X FrameSizes
    BY <1>2 DEF Frames
  <2>2. QED
    BY <2>1, MessageSizes
<1>5. Good(b) /\ b.message = Empty
  BY <1>2, FormsAre
<1>6. Good(d) /\ Delivers(b, d)
  BY <1>3, <1>4, <1>5, OutcomeIs
<1>7. QED
  BY <1>2, <1>6

LEMMA DeliversIs ==
  ASSUME NEW c, Good(c), c.message = Empty, NEW d, Delivers(c, d)
  PROVE  /\ d.message = Empty /\ d.state = c.state /\ d.open = c.open /\ d.notes = c.notes /\ d.outgoing_sequence = c.outgoing_sequence + 1
         /\ c.open /\ c.state # Free /\ Reliables(c) # {} => d.reliable_buf # Empty
<1>1. PICK g, s, w, bs, W : \E arrives \in BOOLEAN : Delivered(c, d, g, s, w, bs, W, arrives)
  BY DEF Delivers
<1>2. PICK arrives \in BOOLEAN : Delivered(c, d, g, s, w, bs, W, arrives)
  BY <1>1
<1>3. g.taken \subseteq Unreliables(c) /\ s = Settled(c, g) /\ Wrote(s, w, bs, W) /\ Transmitted(w, d, g.taken, arrives)
  BY <1>2 DEF Delivered
<1>4. s.state = c.state /\ s.open = c.open /\ s.notes = c.notes /\ s.outgoing_sequence = c.outgoing_sequence
  BY <1>3, SettledIs DEF Untouched
<1>5. d.message = Empty /\ d.state = c.state /\ d.open = c.open /\ d.notes = c.notes /\ d.outgoing_sequence = c.outgoing_sequence + 1
  BY <1>3, <1>4 DEF Wrote, Transmitted
<1>6. ASSUME c.open, c.state # Free, Reliables(c) # {} PROVE d.reliable_buf # Empty
  <2>1. Reliables(s) = Reliables(c)
    BY <1>3, <1>6, SettledIs
  <2>2. QED
    BY <1>3, <1>4, <1>6, <2>1 DEF Wrote, Transmitted, Buffer
<1>7. QED
  BY <1>5, <1>6

(* What a step keeps and what it may not do. *)
Dropped(c, d) == Overflowing(c) /\ d.outgoing_sequence > c.outgoing_sequence => d.state \in {Zombie, Free}
Wanted(c, d) ==
  /\ c.state = Spawned /\ d.state # Free
  /\ d.outgoing_sequence > c.outgoing_sequence
  /\ Reliables(c) # {} /\ "OVERFLOWED" \notin d.notes
  => d.open /\ d.reliable_buf # Empty
Kept(c, d) == Inv(d) /\ Dropped(c, d) /\ Wanted(c, d)

LEMMA StatesDiffer ==
  /\ Free # Zombie /\ Free # Connected /\ Free # Spawning /\ Free # Spawned /\ Zombie # Connected /\ Zombie # Spawning /\ Zombie # Spawned
  /\ Connected # Spawning /\ Connected # Spawned /\ Spawning # Spawned
BY DEF Free, Zombie, Connected, Spawning, Spawned

(* A packet to a client: its frame, or what waits for a client not yet in the game. *)
LEMMA SendClientMessagesIs ==
  ASSUME Inv(client), SendClientMessages
  PROVE  Kept(client, client')
<1>1. PICK arrives \in BOOLEAN :
        LET c == CheckForOverflow(client, arrives)
        IN  /\ c.state # Free
            /\ client.outgoing_sequence < MaxSequence
            /\ IF c.state = Spawned
               THEN client' \in {Silence(c)} \cup SendClientDatagram(c) \cup SendFailed(c)
               ELSE client' \in SendReliable(c)
  BY DEF SendClientMessages
<1> DEFINE c == CheckForOverflow(client, arrives)
<1>2. /\ Inv(c)
      /\ \/ c = client /\ (Live(client) => "OVERFLOWED" \notin client.notes)
         \/ c.state = Zombie /\ "OVERFLOWED" \in c.notes
  BY CheckForOverflowIs
<1>3. c.state # Free /\ IF c.state = Spawned THEN client' \in {Silence(c)} \cup SendClientDatagram(c) \cup SendFailed(c)
                                             ELSE client' \in SendReliable(c)
  BY <1>1
<1> HIDE DEF c
<1>4. Good(c) /\ c.message = Empty /\ c \in Client
  BY <1>2 DEF Inv, Good
<1>5. CASE c.state = Spawned
  <2>1. c = client /\ Live(c) /\ "OVERFLOWED" \notin c.notes /\ c.open
    BY <1>2, <1>4, <1>5, StatesDiffer DEF Live, Good, Noted
  <2>2. "OVERFLOW_DONE" \notin c.notes /\ ~Overflowing(c)
    BY <1>4, <2>1 DEF Good, Noted, Overflowing
  <2>3. CASE client' = Silence(c)
    <3> DEFINE b == DeleteMessages(c, Unreliables(c))
               layout == IF \E m \in Unreliables(c) : IsLayout(m) THEN None ELSE c.layout
    <3>1. \A m \in Unreliables(c) : m \in c.list => m.nr = 0
      BY <1>4 DEF Good, Numbered, Unreliables, Reliables
    <3>2. Good(b) /\ Untouched(c, b) /\ b.notes = c.notes /\ b.layout = c.layout
      BY <1>4, <3>1, DeleteIs
    <3>3. layout \in LayoutTexts \cup {None}
      BY <1>4 DEF Client
    <3>4. client' = [b EXCEPT !.layout = layout]
      BY <2>3, <3>2 DEF Silence
    <3> HIDE DEF b, layout
    <3>5. b \in Client
      BY <3>2 DEF Good
    <3>6. client' \in Client /\ client'.list = b.list /\ client'.notes = b.notes /\ client'.asked = b.asked /\ Untouched(b, client')
      BY <3>3, <3>4, <3>5 DEF Client, Untouched
    <3>7. Good(client')
      <4>1. Sequenced(client') /\ (Live(client') => client'.open)
        BY <3>2, <3>6 DEF Good, Sequenced, Live, Noted, Untouched
      <4>2. QED
        BY <3>2, <3>6, <4>1, SameIs DEF Untouched
    <3>8. client'.message = Empty /\ client'.outgoing_sequence = client.outgoing_sequence /\ client'.notes = c.notes
      BY <1>4, <2>1, <3>2, <3>6 DEF Untouched
    <3>9. client.outgoing_sequence \in Nat
      BY <1>4, <2>1 DEF Client
    <3>10. QED
      BY <2>2, <3>7, <3>8, <3>9 DEF Kept, Inv, Told, Dropped, Wanted
  <2>4. ASSUME NEW d \in SendClientDatagram(c)
        PROVE  /\ Good(d) /\ d.message = Empty /\ d.notes = c.notes /\ d.state = c.state
               /\ Reliables(c) # {} => d.open /\ d.reliable_buf # Empty
    <3>1. Good(d) /\ \E b \in Forms(c) : Delivers(b, d)
      BY <1>4, DatagramIs
    <3>2. PICK b \in Forms(c) : Delivers(b, d)
      BY <3>1
    <3>3. Good(b) /\ b.message = Empty
      BY <1>4, FormsAre
    <3>4. /\ d.message = Empty /\ d.state = b.state /\ d.open = b.open /\ d.notes = b.notes
          /\ b.open /\ b.state # Free /\ Reliables(b) # {} => d.reliable_buf # Empty
      BY <3>2, <3>3, DeliversIs
    <3>5. b.state = c.state /\ b.open = c.open /\ b.notes = c.notes /\ (Reliables(c) # {} => Reliables(b) # {})
      <4>1. CASE b = c
        BY <4>1
      <4>2. CASE b # c
        <5>1. Squeezable(c) /\ \E n \in 1 .. ReliableSize(c) - 1 : b = Squeezed(c, n)
          BY <4>2 DEF Forms
        <5>2. QED
          BY <1>4, <5>1, SqueezedIs
      <4>3. QED
        BY <4>1, <4>2
    <3>6. QED
      BY <1>3, <2>1, <3>1, <3>4, <3>5
  <2>5. CASE client' \in SendClientDatagram(c)
    <3>1. /\ Good(client') /\ client'.message = Empty /\ client'.notes = c.notes
          /\ Reliables(c) # {} => client'.open /\ client'.reliable_buf # Empty
      BY <2>4, <2>5
    <3>2. QED
      BY <2>1, <2>2, <3>1 DEF Kept, Inv, Told, Dropped, Wanted
  <2>6. CASE client' \in SendFailed(c)
    <3>1. PICK d \in SendClientDatagram(c) : client' = Cleaned(DropNotified(d, FALSE))
      BY <2>6 DEF SendFailed
    <3>2. Good(d) /\ d.message = Empty
      BY <2>4
    <3> DEFINE e == DropNotified(d, FALSE)
    <3>3. Good(e) /\ e.message = Empty
      BY <3>2, DropNotifiedIs
    <3>4. client' = [CloseMessageList(e) EXCEPT !.state = Free]
      BY <3>1 DEF Cleaned
    <3> HIDE DEF e
    <3>5. Good(client')
      BY <3>3, <3>4, CloseIs
    <3>6. client'.state = Free /\ client'.message = Empty
      <4>1. e \in Client
        BY <3>3 DEF Good
      <4>2. QED
        BY <3>3, <3>4, <4>1 DEF CloseMessageList, ClearMessageList, DeleteMessages, Client
    <3>7. QED
      BY <3>5, <3>6, StatesDiffer DEF Kept, Inv, Told, Dropped, Wanted, Live
  <2>7. QED
    BY <1>3, <1>5, <2>3, <2>5, <2>6
<1>6. CASE c.state # Spawned
  <2> DEFINE w == WriteReliableMessages(c, BuffSize)
  <2>1. client.state # Spawned \/ "OVERFLOWED" \in c.notes
    BY <1>2, <1>6
  <2>2. ASSUME NEW ar \in BOOLEAN, client' = Transmit(w, 0, {}, ar)
        PROVE  Inv(client') /\ client'.state = c.state /\ client'.notes = c.notes
    <3>1. Good(client') /\ Passed(c, client')
      BY <1>4, <2>2, SendIs
    <3> HIDE DEF w
    <3>2. QED
      BY <1>2, <3>1, PassedIs
  <2>3. ASSUME w.message = Empty, client' = w
        PROVE  Inv(client') /\ client'.state = c.state /\ client'.notes = c.notes
    <3>1. Good(w) /\ WroteSome(c, w, BuffSize)
      BY <1>4, SendIs
    <3> HIDE DEF w
    <3>2. PICK W : Wrote(c, w, BuffSize, W)
      BY <3>1 DEF WroteSome
    <3>3. \A m \in c.list \cup c.took : \E n \in w.list \cup w.took : n.text = m.text
      BY <3>2, KeptIs
    <3>4. w.state = c.state /\ w.notes = c.notes
      BY <3>2 DEF Wrote
    <3>5. QED
      BY <1>2, <2>3, <3>1, <3>3, <3>4 DEF Inv, Told, Live
  <2>4. client' \in SendReliable(c)
    BY <1>3, <1>6
  <2>5. (\E ar \in BOOLEAN : client' = Transmit(w, 0, {}, ar)) \/ (w.message = Empty /\ client' = w)
    BY <2>4 DEF SendReliable
  <2>6. Inv(client') /\ client'.state = c.state /\ client'.notes = c.notes
    BY <2>2, <2>3, <2>5
  <2>7. Overflowing(client) => client'.state \in {Zombie, Free}
    <3>1. CASE c = client /\ Live(client)
      BY <1>2, <3>1, StatesDiffer DEF Overflowing, Live
    <3>2. CASE c = client /\ ~Live(client)
      BY <1>4, <2>6, <3>2 DEF Client, States, Live
    <3>3. CASE c.state = Zombie
      BY <2>6, <3>3
    <3>4. QED
      BY <1>2, <3>1, <3>2, <3>3
  <2>8. QED
    BY <2>1, <2>6, <2>7 DEF Kept, Dropped, Wanted
<1>7. QED
  BY <1>5, <1>6

LEMMA AddMessageIs ==
  ASSUME Inv(client), NEW m \in Requests, AddMessage(m)
  PROVE  Kept(client, client')
<1> DEFINE d == AddMessageSingle(client, m)
           n == d.adds + 1
<1>1. Good(client) /\ client.message = Empty /\ Told(client) /\ client \in Client /\ m \in Messages
  BY DEF Inv, Good, Messages
<1>2. Live(client)
  BY DEF AddMessage, Live
<1>3. Good(d) /\ Untouched(client, d) /\ (d.notes = client.notes \/ d.notes = client.notes \cup {"OVERFLOWED"})
  BY <1>1, AddIs
<1>4. client' = [d EXCEPT !.adds = @ + 1]
  BY DEF AddMessage
<1> HIDE DEF d
<1>5. d \in Client
  BY <1>3 DEF Good
<1>6. client' = [d EXCEPT !.adds = n] /\ n \in Nat
  BY <1>4, <1>5 DEF Client
<1> HIDE DEF n
<1>7. client' \in Client
  BY <1>5, <1>6 DEF Client
<1>8. /\ client'.list = d.list /\ client'.notes = d.notes /\ client'.open = d.open /\ client'.asked = d.asked /\ client'.took = d.took
      /\ client'.toobig = d.toobig /\ client'.state = d.state /\ client'.received = d.received /\ client'.message = d.message
      /\ client'.incoming_acknowledged = d.incoming_acknowledged /\ client'.outgoing_sequence = d.outgoing_sequence
  BY <1>5, <1>6 DEF Client
<1>9. Good(client')
  <2>1. Sequenced(client') /\ (Live(client') => client'.open)
    BY <1>3, <1>8 DEF Good, Sequenced, Live, Noted
  <2>2. QED
    BY <1>3, <1>7, <1>8, <2>1, SameIs
<1>10. client'.outgoing_sequence = client.outgoing_sequence /\ client'.message = Empty /\ client.outgoing_sequence \in Nat
  BY <1>1, <1>3, <1>8 DEF Untouched, Client
<1>11. "OVERFLOW_DONE" \notin client'.notes
  BY <1>1, <1>2, <1>3, <1>8 DEF Told
<1>12. QED
  BY <1>9, <1>10, <1>11 DEF Kept, Inv, Told, Dropped, Wanted

LEMMA ReadPacketIs ==
  ASSUME Inv(client), NEW a, ReadPacket(a)
  PROVE  Kept(client, client')
<1> DEFINE c == IF client.state = Zombie THEN Acknowledge(client, a) ELSE CheckLayout(Acknowledge(client, a))
<1>1. a \in client.received /\ "OVERFLOWED" \notin client.notes /\ client.outgoing_sequence \in Nat
  BY DEF ReadPacket, Inv, Good, Client
<1>2. Inv(c) /\ c.state = client.state /\ c.notes = client.notes /\ c.outgoing_sequence = client.outgoing_sequence
  BY <1>1, AcknowledgeIs, CheckLayoutIs
<1>3. IF c.state \in {Connected, Spawning} /\ c.list # {}
      THEN \E arrives \in BOOLEAN : client' = Transmit(WriteReliableMessages(c, BuffSize), 0, {}, arrives)
      ELSE client' = c
  BY DEF ReadPacket
<1> HIDE DEF c
<1>4. ~Overflowing(client)
  BY <1>1 DEF Overflowing
<1>5. CASE c.state \in {Connected, Spawning} /\ c.list # {}
  <2>1. PICK arrives \in BOOLEAN : client' = Transmit(WriteReliableMessages(c, BuffSize), 0, {}, arrives)
    BY <1>3, <1>5
  <2>2. Good(client') /\ Passed(c, client')
    BY <1>2, <2>1, SendIs DEF Inv
  <2>3. Inv(client')
    BY <1>2, <2>2, PassedIs
  <2>4. QED
    BY <1>2, <1>4, <1>5, <2>3, StatesDiffer DEF Kept, Dropped, Wanted
<1>6. CASE ~(c.state \in {Connected, Spawning} /\ c.list # {})
  <2>1. client' = c
    BY <1>3, <1>6
  <2>2. QED
    BY <1>1, <1>2, <1>4, <2>1 DEF Kept, Dropped, Wanted
<1>7. QED
  BY <1>5, <1>6

(* A step of the client from one state into another. *)
LEMMA MovedIs ==
  ASSUME Inv(client), Live(client), NEW s \in {Connected, Spawning, Spawned}, NEW layout \in {client.layout, None}, NEW shown \in {client.shown, None},
         client' = [client EXCEPT !.state = s, !.layout = layout, !.shown = shown]
  PROVE  Kept(client, client')
<1>1. Good(client) /\ client.message = Empty /\ client \in Client /\ Told(client)
  BY DEF Inv, Good
<1>2. layout \in LayoutTexts \cup {None} /\ shown \in LayoutTexts \cup {None} /\ s \in States
  BY <1>1 DEF Client, States
<1>3. client' \in Client
  BY <1>1, <1>2 DEF Client
<1>4. /\ client'.list = client.list /\ client'.notes = client.notes /\ client'.open = client.open /\ client'.asked = client.asked
      /\ client'.took = client.took /\ client'.toobig = client.toobig /\ client'.received = client.received /\ client'.message = client.message
      /\ client'.incoming_acknowledged = client.incoming_acknowledged /\ client'.outgoing_sequence = client.outgoing_sequence
  BY <1>1 DEF Client
<1>5. Sequenced(client') /\ client'.open
  BY <1>1, <1>4 DEF Good, Sequenced, Noted
<1>6. Good(client')
  BY <1>1, <1>3, <1>4, <1>5, SameIs
<1>7. "OVERFLOW_DONE" \notin client'.notes /\ client.outgoing_sequence \in Nat
  BY <1>1, <1>4 DEF Told, Client
<1>8. QED
  BY <1>1, <1>4, <1>6, <1>7 DEF Kept, Inv, Told, Dropped, Wanted

LEMMA DropClientIs ==
  ASSUME Inv(client), NEW notify \in BOOLEAN, DropClient(notify)
  PROVE  Kept(client, client')
<1>1. Good(client) /\ client.message = Empty /\ client \in Client /\ Told(client) /\ client.outgoing_sequence \in Nat
  BY DEF Inv, Good, Client
<1>2. Live(client)
  BY <1>1 DEF DropClient, Client, States, Live
<1>3. "OVERFLOW_DONE" \notin client.notes /\ client.open /\ client.state # Free
  BY <1>1, <1>2, StatesDiffer DEF Told, Good, Noted, Live
<1>4. PICK arrives \in BOOLEAN : client' = IF notify THEN DropNotified(client, arrives) ELSE DropSilently(client)
  BY DEF DropClient
<1>5. CASE notify
  <2>1. client' = DropNotified(client, arrives)
    BY <1>4, <1>5
  <2>2. /\ Good(client') /\ client'.message = Empty /\ client'.state = Zombie /\ client'.open = client.open
        /\ client'.notes = client.notes \/ client'.notes = client.notes \cup {"OVERFLOWED"}
        /\ client.open /\ client.state # Free /\ Reliables(client) # {} /\ "OVERFLOWED" \notin client'.notes => client'.reliable_buf # Empty
    BY <1>1, <2>1, DropNotifiedIs
  <2>3. "OVERFLOW_DONE" \notin client'.notes
    BY <1>3, <2>2
  <2>4. QED
    BY <1>3, <2>2, <2>3 DEF Kept, Inv, Told, Dropped, Wanted
<1>6. CASE ~notify
  <2>1. client' = [CloseMessageList(client) EXCEPT !.state = Zombie]
    BY <1>4, <1>6 DEF DropSilently
  <2>2. Good(client')
    BY <1>1, <2>1, CloseIs
  <2>3. client'.notes = client.notes /\ client'.message = Empty /\ client'.outgoing_sequence = client.outgoing_sequence
    BY <1>1, <2>1 DEF CloseMessageList, ClearMessageList, DeleteMessages, Client
  <2>4. QED
    BY <1>1, <1>3, <2>2, <2>3 DEF Kept, Inv, Told, Dropped, Wanted
<1>7. QED
  BY <1>5, <1>6

LEMMA ZombieTimeoutIs ==
  ASSUME Inv(client), ZombieTimeout
  PROVE  Kept(client, client')
<1>1. Good(client) /\ client.message = Empty /\ client \in Client
  BY DEF Inv, Good
<1>2. client' = [CloseMessageList(client) EXCEPT !.state = Free]
  BY DEF ZombieTimeout, Cleaned
<1>3. Good(client')
  BY <1>1, <1>2, CloseIs
<1>4. client'.message = Empty /\ client'.state = Free
  BY <1>1, <1>2 DEF CloseMessageList, ClearMessageList, DeleteMessages, Client
<1>5. QED
  BY <1>3, <1>4, StatesDiffer DEF Kept, Inv, Told, Dropped, Wanted, Live

LEMMA InitIs == Init => Inv(client)
<1> SUFFICES ASSUME Init PROVE Inv(client)
  OBVIOUS
<1>1. Connected \in States /\ None \in LayoutTexts \cup {None} /\ Empty \in Buffers
  BY MessageSizes DEF States, Empty, Buffers
<1>2. client \in Client /\ client.state = Connected /\ client.open /\ client.list = {} /\ client.notes = {} /\ client.message = Empty /\ ~client.toobig
      /\ client.asked = 0 /\ client.took = {} /\ client.received = {} /\ client.incoming_acknowledged = 0 /\ client.outgoing_sequence = 1
  BY <1>1 DEF Init, Client
<1>3. InOrder({}, 0, {})
  BY DEF InOrder
<1>4. QED
  BY <1>2, <1>3 DEF Inv, Good, Told, Sequenced, Numbered, OneASlot, Noted, Overflowing

LEMMA NextIs ==
  ASSUME Inv(client), [Next]_client
  PROVE  Kept(client, client')
<1>1. CASE UNCHANGED client
  <2>1. client.outgoing_sequence \in Nat
    BY DEF Inv, Good, Client
  <2>2. QED
    BY <1>1, <2>1 DEF Kept, Dropped, Wanted
<1>2. CASE \E m \in Requests : AddMessage(m)
  BY <1>2, AddMessageIs
<1>3. CASE SendClientMessages
  BY <1>3, SendClientMessagesIs
<1>4. CASE \E a \in 1 .. MaxSequence : ReadPacket(a)
  BY <1>4, ReadPacketIs
<1>5. CASE New \/ Begin \/ SpawnServer
  <2>1. client \in Client /\ Live(client)
    BY <1>5 DEF Inv, Good, New, Begin, SpawnServer, Live
  <2>2. PICK s \in {Connected, Spawning, Spawned}, layout \in {client.layout, None}, shown \in {client.shown, None} :
          client' = [client EXCEPT !.state = s, !.layout = layout, !.shown = shown]
    <3>1. CASE New
      <4>1. client' = [client EXCEPT !.state = Spawning, !.layout = client.layout, !.shown = client.shown]
        BY <2>1, <3>1 DEF New, Client
      <4>2. QED
        BY <4>1
    <3>2. CASE Begin
      <4>1. client' = [client EXCEPT !.state = Spawned, !.layout = client.layout, !.shown = client.shown]
        BY <2>1, <3>2 DEF Begin, Client
      <4>2. QED
        BY <4>1
    <3>3. CASE SpawnServer
      <4>1. client' = [client EXCEPT !.state = Connected, !.layout = None, !.shown = None]
        BY <3>3 DEF SpawnServer
      <4>2. QED
        BY <4>1
    <3>4. QED
      BY <1>5, <3>1, <3>2, <3>3
  <2>3. QED
    BY <2>1, <2>2, MovedIs
<1>6. CASE \E notify \in BOOLEAN : DropClient(notify)
  BY <1>6, DropClientIs
<1>7. CASE ZombieTimeout
  BY <1>7, ZombieTimeoutIs
<1>8. QED
  BY <1>1, <1>2, <1>3, <1>4, <1>5, <1>6, <1>7 DEF Next

-----------------------------------------------------------------------------
(* In every state the invariant holds. *)
LEMMA Invariant == Spec => []Inv(client)
<1>1. Inv(client) /\ [Next]_client => Inv(client)'
  <2> SUFFICES ASSUME Inv(client), [Next]_client PROVE Inv(client')
    OBVIOUS
  <2>1. QED
    BY NextIs DEF Kept
<1>2. QED
  BY <1>1, InitIs, PTL DEF Spec

(* Netchan_Transmit never finds a reliable and an unreliable part that do not fit together       *)
(* (net_chan.c:330): the room kept before the datagram is filled suffices, whatever is           *)
(* compressed, lost or queued (sv_send.c:1048-1080), for every size of packets and messages.     *)
THEOREM DatagramsFit == Spec => []DatagramFits
<1>1. Inv(client) => DatagramFits
  BY DEF Inv, Good, DatagramFits
<1>2. QED
  BY <1>1, Invariant, PTL

(* SV_WriteReliableMessages takes the reliable messages in the order they were queued and passes *)
(* over none, and what nukes, closes or replaces entries of the list never touches one that      *)
(* waits (sv_send.c:936-990), for lists of any length and any messages.                          *)
THEOREM ReliableMessagesInOrder == Spec => []ReliableInOrder
<1>1. Inv(client) => ReliableInOrder
  <2> SUFFICES ASSUME Inv(client) PROVE ReliableInOrder
    OBVIOUS
  <2>1. client.open /\ "OVERFLOWED" \notin client.notes => InOrder(client.list, client.asked, client.took)
    BY DEF Inv, Good
  <2>2. QED
    BY <2>1 DEF ReliableInOrder, InOrder
<1>2. QED
  BY <1>1, Invariant, PTL

(* SV_SendClientDatagram never leaves a reliable message behind for want of room                 *)
(* (sv_send.c:1426), and no client is dropped for it (sv_send.c:963).                            *)
THEOREM WantedMessagesAreWritten == Spec => WantedIsWritten
<1>1. Inv(client) /\ [Next]_client =>
        [/\ client.state = Spawned /\ client'.state # Free
         /\ client'.outgoing_sequence > client.outgoing_sequence
         /\ Reliables(client) # {} /\ "OVERFLOWED" \notin client'.notes
         => client'.open /\ client'.reliable_buf # Empty]_client
  <2> SUFFICES ASSUME Inv(client), [Next]_client PROVE Wanted(client, client')
    BY DEF Wanted
  <2>1. QED
    BY NextIs DEF Kept
<1>2. QED
  BY <1>1, Invariant, PTL DEF Spec, WantedIsWritten

(* SV_CheckForOverflow (sv_send.c:398-439): the first packet to a client whose list overflowed   *)
(* drops it, and the disconnect it is owed is on its emptied list or in the channel; the writing *)
(* buffer is empty outside of a handler (sv_send.c:1056).                                        *)
THEOREM OverflowsEnd == Spec => OverflowEnds
<1>1. Inv(client) => TypeOK /\ NothingLeftInMessage /\ OverflowedIsTold
  <2> SUFFICES ASSUME Inv(client) PROVE TypeOK /\ NothingLeftInMessage /\ OverflowedIsTold
    OBVIOUS
  <2>1. Good(client) /\ client \in Client /\ client.message = Empty /\ Told(client)
    BY DEF Inv, Good
  <2>2. client.state \in {Free, Zombie, Connected, Spawning, Spawned} /\ client.open \in BOOLEAN /\ client.layout \in LayoutTexts \cup {None}
        /\ client.notes \subseteq {"OVERFLOWED", "OVERFLOW_DONE"} /\ client.message.size \in 0 .. BuffSize /\ client.reliable_buf.size \in 0 .. BuffSize
    BY <2>1 DEF Client, States, Notes, Buffers
  <2>3. ASSUME NEW m \in client.list PROVE Message(m)
    <3>1. m \in Entries
      BY <2>1 DEF Client
    <3>2. QED
      BY <3>1, MessageSizes DEF Entries, Slots, Message
  <2>4. \A m, n \in client.list : m.slot = n.slot => m = n
    BY <2>1 DEF Good, Numbered, OneASlot
  <2>5. client.incoming_acknowledged \in 0 .. client.outgoing_sequence - 1 /\ client.received \subseteq 1 .. client.outgoing_sequence - 1
    BY <2>1 DEF Good, Sequenced, Client
  <2>6. TypeOK
    BY <2>2, <2>3, <2>4, <2>5 DEF TypeOK
  <2>7. OverflowedIsTold
    BY <2>1 DEF Told, OverflowedIsTold
  <2>8. QED
    BY <2>1, <2>6, <2>7 DEF NothingLeftInMessage
<1>2. Inv(client) /\ [Next]_client =>
        [Overflowing(client) /\ client'.outgoing_sequence > client.outgoing_sequence => client'.state \in {Zombie, Free}]_client
  <2> SUFFICES ASSUME Inv(client), [Next]_client PROVE Dropped(client, client')
    BY DEF Dropped
  <2>1. QED
    BY NextIs DEF Kept
<1>3. QED
  BY <1>1, <1>2, Invariant, PTL DEF Spec, OverflowEnds, OverflowedIsDropped

-----------------------------------------------------------------------------
(* Layouts, all of which the game sends unreliably: with reliable ones among them a             *)
(* retransmitted one may overtake a newer one.                                                  *)

UnreliableLayouts == \A q \in Requests : IsLayout(q) => ~q.reliable

Waiting(c) == {m \in c.list : IsLayout(m)}
(* The layouts of the list, of which there is one at most, and the channel, in which there is none. *)
Listed(c) ==
  /\ \A m \in c.list : (m.text \in LayoutTexts <=> IsLayout(m)) /\ (IsLayout(m) => ~m.reliable)
  /\ \A m, n \in Waiting(c) : m = n
  /\ \A m \in Waiting(c) : c.layout # None => m.text = c.layout
  /\ \A x \in c.reliable_buf.data : x.text \notin LayoutTexts
(* A layout that neither waits nor is watched is the one the client shows. *)
Seen(c) == Live(c) /\ "OVERFLOWED" \notin c.notes /\ c.layout # None /\ Waiting(c) = {}
             /\ (c.layout_unreliable = 0 \/ c.layout_unreliable \in c.received) => c.shown = c.layout
Lay(c) == Listed(c) /\ c.layout_unreliable < c.outgoing_sequence /\ Seen(c)

(* A message of the game is queued. *)
LEMMA AddKeepsLayouts ==
  ASSUME UnreliableLayouts, NEW c, Good(c), Lay(c), NEW m \in Messages, NEW d, d = AddMessageSingle(c, m)
  PROVE  Lay(d)
<1>1. IsLayout(m) => ~m.reliable
  BY DEF UnreliableLayouts, Messages, Disconnect, OverflowPrint, IsLayout
<1>2. /\ Good(d) /\ Untouched(c, d)
      /\ \/ d = c
         \/ d.notes = c.notes \cup {"OVERFLOWED"} /\ ~Linkable(c, m) /\ Live(c)
         \/ d = Linked(Stored(c, m), m) /\ Linkable(c, m) /\ d.notes = c.notes
  BY AddIs
<1> DEFINE s == Stored(c, m)
<1>3. /\ Good(s) /\ Untouched(c, s) /\ s.list = c.list /\ s.notes = c.notes
      /\ s.layout = IF IsLayout(m) THEN m.text ELSE c.layout
      /\ s.layout_unreliable = c.layout_unreliable
  BY <1>1, StoredIs
<1>4. (m.text \in LayoutTexts <=> IsLayout(m)) /\ (IsLayout(m) => m.type = "layout")
  BY MessagesAre DEF IsLayout
<1>5. CASE d = c
  BY <1>5
<1>6. CASE Linkable(c, m) /\ d = Linked(s, m) /\ d.notes = c.notes
  <2>1. EndIndex(s) = EndIndex(c) /\ Overflowing(s) = Overflowing(c)
    BY <1>3 DEF EndIndex, Overflowing
  <2>2. EndIndex(s) + 1 < MaxList - 1 /\ m.size < BuffSize /\ ~Overflowing(s)
    BY <1>6, <2>1 DEF Linkable
  <2> HIDE DEF s
  <2>3. /\ Untouched(s, d)
        /\ \E e \in Entries : /\ d.list = {o \in s.list : ~(IsLayout(o) /\ IsLayout(m))} \cup {e}
                              /\ e.text = m.text /\ e.type = m.type /\ (~IsLayout(m) => e.reliable = m.reliable)
                              /\ (IsLayout(m) => e.reliable = (m.reliable \/ \E o \in s.list : IsLayout(o) /\ o.reliable))
        /\ d.layout = s.layout /\ d.layout_unreliable = s.layout_unreliable
    BY <1>3, <1>6, <2>2, LinkedIs
  <2>4. PICK e \in Entries : /\ d.list = {o \in s.list : ~(IsLayout(o) /\ IsLayout(m))} \cup {e}
                             /\ e.text = m.text /\ e.type = m.type /\ (~IsLayout(m) => e.reliable = m.reliable)
                             /\ (IsLayout(m) => e.reliable = (m.reliable \/ \E o \in s.list : IsLayout(o) /\ o.reliable))
    BY <2>3
  <2>5. (IsLayout(e) <=> IsLayout(m)) /\ (e.text \in LayoutTexts <=> IsLayout(e))
    BY <1>4, <2>4 DEF IsLayout
  <2>6. IsLayout(e) => ~e.reliable
    <3>1. \A o \in s.list : IsLayout(o) => ~o.reliable
      BY <1>3 DEF Lay, Listed
    <3>2. QED
      BY <1>1, <2>4, <2>5, <3>1
  <2>7. d.layout = (IF IsLayout(m) THEN m.text ELSE c.layout) /\ d.layout_unreliable = c.layout_unreliable /\ d.reliable_buf = c.reliable_buf
        /\ d.outgoing_sequence = c.outgoing_sequence /\ d.state = c.state /\ d.received = c.received /\ d.shown = c.shown
    BY <1>3, <2>3 DEF Untouched
  <2>8. CASE IsLayout(m)
    <3>1. Waiting(d) = {e}
      BY <1>3, <2>4, <2>5, <2>8 DEF Waiting
    <3>2. d.list \subseteq c.list \cup {e}
      BY <1>3, <2>4
    <3>3. Listed(d)
      BY <2>4, <2>5, <2>6, <2>7, <2>8, <3>1, <3>2 DEF Lay, Listed
    <3>4. QED
      BY <2>7, <3>1, <3>3 DEF Lay, Seen
  <2>9. CASE ~IsLayout(m)
    <3>1. d.list = c.list \cup {e}
      BY <1>3, <2>4, <2>9
    <3>2. Waiting(d) = Waiting(c)
      BY <2>5, <2>9, <3>1 DEF Waiting
    <3>3. Listed(d)
      BY <2>5, <2>6, <2>7, <2>9, <3>1, <3>2 DEF Lay, Listed
    <3>4. Seen(d)
      BY <1>6, <2>7, <2>9, <3>2 DEF Lay, Seen, Live
    <3>5. QED
      BY <2>7, <3>3, <3>4 DEF Lay
  <2>10. QED
    BY <2>8, <2>9
<1>7. CASE ~Linkable(c, m) /\ d # c
  <2>1. d.notes = c.notes \cup {"OVERFLOWED"} /\ Live(c)
    BY <1>2, <1>7
  <2>2. d = Overflow(s)
    <3>1. ~(c.state \in {Free, Zombie} \/ ~c.open \/ Overflowing(c)) /\ ~DuplicateLayout(c, m)
      BY <1>7 DEF AddMessageSingle
    <3>2. EndIndex(c) \in Nat /\ m.size \in Nat
      <4>1. EndIndex(c) \in Nat
        BY EndIndexIs DEF Good, Client
      <4>2. QED
        BY <4>1, MessagesAre
    <3>3. EndIndex(c) + 1 >= MaxList - 1 \/ m.size >= BuffSize
      <4>1. ~(EndIndex(c) + 1 < MaxList - 1 /\ m.size < BuffSize)
        BY <1>7, <2>1, <3>1 DEF Linkable
      <4>2. QED
        BY <3>2, <4>1, MessageSizes
    <3>4. QED
      BY <3>1, <3>3 DEF AddMessageSingle
  <2>3. d.list = {} /\ Untouched(s, d) /\ d.layout_unreliable = s.layout_unreliable
    <3>1. d.list = {} /\ Untouched(s, d)
      BY <1>3, <2>2, OverflowIs
    <3>2. s \in Client
      BY <1>3 DEF Good
    <3> HIDE DEF s
    <3>3. d.layout_unreliable = s.layout_unreliable
      BY <2>2, <3>2 DEF Overflow, ClearMessageList, DeleteMessages, Client
    <3>4. QED
      BY <3>1, <3>3
  <2>4. d.reliable_buf = c.reliable_buf /\ d.outgoing_sequence = c.outgoing_sequence
    BY <1>3, <2>3 DEF Untouched
  <2>5. QED
    BY <1>3, <2>1, <2>3, <2>4 DEF Lay, Listed, Seen, Waiting
<1>8. QED
  BY <1>2, <1>5, <1>6, <1>7

(* Once it is sent, nothing of a layout is left to watch but the packet it went out in. *)
LEMMA WriteKeepsLayouts ==
  ASSUME NEW c, Listed(c), NEW w, NEW bs, NEW W, Wrote(c, w, bs, W)
  PROVE  Listed(w) /\ Waiting(w) = Waiting(c) /\ \A x \in w.message.data : x.text \notin LayoutTexts
<1>1. \A m \in W : m \in c.list /\ m.reliable
  BY DEF Wrote, Reliables
<1>2. \A m \in W : ~IsLayout(m) /\ m.text \notin LayoutTexts
  BY <1>1 DEF Listed
<1>3. w.list = c.list \ W /\ w.layout = c.layout /\ w.reliable_buf = c.reliable_buf /\ w.message.data = {[slot |-> m.slot, text |-> m.text] : m \in W}
  BY DEF Wrote
<1>4. Waiting(w) = Waiting(c)
  BY <1>2, <1>3 DEF Waiting
<1>5. Listed(w)
  BY <1>3, <1>4 DEF Listed
<1>6. \A x \in w.message.data : x.text \notin LayoutTexts
  BY <1>2, <1>3
<1>7. QED
  BY <1>4, <1>5, <1>6

(* What a packet with the unreliable messages of taken makes the client show. *)
LEMMA TransmitShows ==
  ASSUME NEW w, Good(w), Listed(w), \A x \in w.message.data : x.text \notin LayoutTexts, NEW taken \in SUBSET Entries, NEW arrives \in BOOLEAN,
         NEW e, Transmitted(w, e, taken, arrives)
  PROVE  /\ Listed(e) /\ Waiting(e) = Waiting(w)
         /\ ~arrives => e.shown = w.shown
         /\ arrives => \/ e.shown = w.shown /\ \A m \in taken : m.text \notin LayoutTexts
                       \/ \E m \in taken : m.text \in LayoutTexts /\ e.shown = m.text
<1>1. e.list = w.list /\ e.layout = w.layout /\ e.reliable_buf = Buffer(w) /\ e.shown = IF arrives THEN ShownAfter(w, taken) ELSE w.shown
  BY DEF Transmitted
<1>2. \A x \in Buffer(w).data : x.text \notin LayoutTexts /\ x.slot \in Slots
  <2>1. \A x \in Buffer(w).data : x.text \notin LayoutTexts
    BY DEF Buffer, Listed
  <2>2. Buffer(w) \in Buffers
    BY DEF Buffer, Good, Client
  <2>3. QED
    BY <2>1, <2>2 DEF Buffers
<1>3. Waiting(e) = Waiting(w)
  BY <1>1 DEF Waiting
<1>4. Listed(e)
  BY <1>1, <1>2, <1>3 DEF Listed
<1> DEFINE sent == IF Sends(w) THEN Buffer(w).data ELSE {}
           mid == LastLayout(w.shown, sent)
<1>5. \A x \in sent : x.text \notin LayoutTexts /\ x.slot \in Slots
  BY <1>2
<1>6. ShownAfter(w, taken) = LastLayout(mid, taken)
  BY DEF ShownAfter
<1> HIDE DEF sent
<1>7. mid = w.shown
  BY <1>5, LastLayoutIs
<1> HIDE DEF mid
<1>8. \A m \in taken : m.slot \in Slots
  BY DEF Entries
<1>9. \/ LastLayout(mid, taken) = mid /\ \A m \in taken : m.text \notin LayoutTexts
      \/ \E m \in taken : m.text \in LayoutTexts /\ LastLayout(mid, taken) = m.text
  BY <1>8, LastLayoutIs
<1>10. QED
  BY <1>1, <1>3, <1>4, <1>6, <1>7, <1>9

(* A packet without unreliable messages. *)
LEMMA PassedKeepsLayouts ==
  ASSUME NEW c, Good(c), c.message = Empty, Lay(c), NEW arrives \in BOOLEAN, NEW w, w = WriteReliableMessages(c, BuffSize),
         NEW e, e = Transmit(w, 0, {}, arrives)
  PROVE  Lay(e) /\ (w.message = Empty => Lay(w))
<1>1. Good(w) /\ WroteSome(c, w, BuffSize) /\ Good(e) /\ Passed(c, e)
  BY SendIs
<1>2. PICK W : Wrote(c, w, BuffSize, W)
  BY <1>1 DEF WroteSome
<1>3. Listed(w) /\ Waiting(w) = Waiting(c) /\ \A x \in w.message.data : x.text \notin LayoutTexts
  BY <1>2, WriteKeepsLayouts DEF Lay
<1>4. w.state = c.state /\ w.notes = c.notes /\ w.layout = c.layout /\ w.layout_unreliable = c.layout_unreliable
      /\ w.received = c.received /\ w.shown = c.shown /\ w.outgoing_sequence = c.outgoing_sequence
  BY <1>2 DEF Wrote
<1>5. Lay(w)
  BY <1>3, <1>4 DEF Lay, Seen, Live
<1>6. Transmitted(w, e, {}, arrives)
  <2>1. BuffSize \in Nat /\ BuffSize <= MaxPayload /\ MaxPayload \in Nat
    BY MessageSizes
  <2>2. w.message \in Buffers /\ w.reliable_buf \in Buffers
    BY <1>1 DEF Good, Client
  <2>3. 0 + w.message.size <= MaxPayload /\ 0 + w.reliable_buf.size <= MaxPayload
    BY <2>1, <2>2 DEF Buffers
  <2>4. w.reliable_buf # Empty => w.message = Empty
    BY <1>2 DEF Wrote
  <2>5. QED
    BY <1>1, <2>3, <2>4, TransmitIs
<1>7. Listed(e) /\ Waiting(e) = Waiting(w) /\ e.shown = w.shown
  BY <1>1, <1>3, <1>6, TransmitShows
<1>8. /\ e.state = w.state /\ e.notes = w.notes /\ e.layout = w.layout /\ e.layout_unreliable = w.layout_unreliable
      /\ e.outgoing_sequence = w.outgoing_sequence + 1 /\ e.received \subseteq w.received \cup {w.outgoing_sequence}
  BY <1>6 DEF Transmitted
<1>9. w.layout_unreliable \in Nat /\ w.outgoing_sequence \in Nat /\ w.layout_unreliable < w.outgoing_sequence
  BY <1>1, <1>5 DEF Good, Client, Lay
<1>10. e.layout_unreliable < e.outgoing_sequence /\ (e.layout_unreliable \in e.received => w.layout_unreliable \in w.received)
  BY <1>8, <1>9
<1>11. Lay(e)
  BY <1>5, <1>7, <1>8, <1>10 DEF Lay, Seen, Live
<1>12. QED
  BY <1>5, <1>11

(* A datagram takes the layout with it or nukes it. *)
LEMMA DeliversKeepsLayouts ==
  ASSUME NEW c, Good(c), c.message = Empty, Lay(c), NEW e, Delivers(c, e)
  PROVE  Lay(e)
<1>1. PICK g, s, w, bs, W : \E arrives \in BOOLEAN : Delivered(c, e, g, s, w, bs, W, arrives)
  BY DEF Delivers
<1>2. PICK arrives \in BOOLEAN : Delivered(c, e, g, s, w, bs, W, arrives)
  BY <1>1
<1>3. g.taken \subseteq Unreliables(c) /\ s = Settled(c, g) /\ Good(s) /\ Good(w) /\ Wrote(s, w, bs, W) /\ Transmitted(w, e, g.taken, arrives)
  BY <1>2 DEF Delivered
<1> DEFINE gone == g.taken \cup {m \in c.list \ g.taken : Nuked(m)}
<1>4. /\ Untouched(c, s) /\ s.notes = c.notes /\ s.list = c.list \ gone
      /\ s.layout = IF \E m \in c.list \ g.taken : Nuked(m) /\ IsLayout(m) THEN None ELSE c.layout
      /\ s.layout_unreliable = IF \E m \in g.taken : IsLayout(m) THEN c.outgoing_sequence ELSE c.layout_unreliable
  BY <1>3, SettledIs
<1>5. g.taken \subseteq c.list /\ g.taken \in SUBSET Entries /\ c.list \in SUBSET Entries
  BY <1>3 DEF Unreliables, Good, Client
<1>6. \A m \in c.list : IsLayout(m) => m \in g.taken \/ Nuked(m)
  <2>1. \A m \in c.list : IsLayout(m) => ~m.reliable /\ m.type = "layout"
    BY DEF Lay, Listed, IsLayout
  <2>2. QED
    BY <2>1 DEF Nuked
<1>7. Waiting(s) = {}
  BY <1>4, <1>6 DEF Waiting
<1>8. s.layout = c.layout \/ s.layout = None
  BY <1>4
<1>9. Listed(s)
  <2>1. s.list \subseteq c.list /\ s.reliable_buf = c.reliable_buf
    BY <1>4 DEF Untouched
  <2>2. QED
    BY <1>7, <2>1 DEF Lay, Listed
<1> HIDE DEF gone
<1>10. Listed(w) /\ Waiting(w) = {} /\ \A x \in w.message.data : x.text \notin LayoutTexts
  BY <1>3, <1>7, <1>9, WriteKeepsLayouts
<1>11. /\ w.state = c.state /\ w.notes = c.notes /\ w.layout = s.layout /\ w.layout_unreliable = s.layout_unreliable
       /\ w.received = c.received /\ w.shown = c.shown /\ w.outgoing_sequence = c.outgoing_sequence
  BY <1>3, <1>4 DEF Wrote, Untouched
<1>12. /\ Listed(e) /\ Waiting(e) = {}
       /\ ~arrives => e.shown = c.shown
       /\ arrives => \/ e.shown = c.shown /\ \A m \in g.taken : m.text \notin LayoutTexts
                     \/ \E m \in g.taken : m.text \in LayoutTexts /\ e.shown = m.text
  BY <1>3, <1>5, <1>10, <1>11, TransmitShows
<1>13. /\ e.state = c.state /\ e.notes = c.notes /\ e.layout = s.layout /\ e.layout_unreliable = s.layout_unreliable
       /\ e.outgoing_sequence = c.outgoing_sequence + 1
       /\ e.received = IF arrives THEN c.received \cup {c.outgoing_sequence} ELSE c.received
  BY <1>3, <1>11 DEF Transmitted
<1>14. /\ c.layout_unreliable \in Nat /\ c.outgoing_sequence \in Nat \ {0} /\ c.layout_unreliable < c.outgoing_sequence
       /\ c.outgoing_sequence \notin c.received
  BY DEF Good, Client, Lay, Sequenced
<1>15. \A m \in g.taken : m.text \in LayoutTexts <=> IsLayout(m)
  BY <1>5 DEF Lay, Listed
<1>16. CASE \E m \in g.taken : IsLayout(m)
  <2>1. PICK m \in g.taken : IsLayout(m)
    BY <1>16
  <2>2. \A n \in c.list : IsLayout(n) => n = m
    BY <1>5, <2>1 DEF Lay, Listed, Waiting
  <2>3. c.layout # None => m.text = c.layout
    BY <1>5, <2>1 DEF Lay, Listed, Waiting
  <2>4. e.layout_unreliable = c.outgoing_sequence
    BY <1>4, <1>13, <1>16
  <2>5. arrives => e.shown = m.text
    BY <1>5, <1>12, <1>15, <2>1, <2>2
  <2>6. e.layout_unreliable < e.outgoing_sequence /\ e.layout_unreliable # 0 /\ (e.layout_unreliable \in e.received => arrives)
    BY <1>13, <1>14, <2>4
  <2>7. Seen(e)
    BY <1>8, <1>13, <2>3, <2>5, <2>6 DEF Seen
  <2>8. QED
    BY <1>12, <2>6, <2>7 DEF Lay
<1>17. CASE ~\E m \in g.taken : IsLayout(m)
  <2>1. e.layout_unreliable = c.layout_unreliable
    BY <1>4, <1>13, <1>17
  <2>2. e.shown = c.shown
    BY <1>12, <1>15, <1>17
  <2>3. e.layout_unreliable < e.outgoing_sequence /\ (e.layout_unreliable \in e.received => c.layout_unreliable \in c.received)
    BY <1>13, <1>14, <2>1
  <2>4. e.layout # None => Waiting(c) = {} /\ e.layout = c.layout
    <3>1. SUFFICES ASSUME e.layout # None PROVE Waiting(c) = {} /\ e.layout = c.layout
      OBVIOUS
    <3>2. ~\E m \in c.list \ g.taken : Nuked(m) /\ IsLayout(m)
      BY <1>4, <1>13, <3>1
    <3>3. Waiting(c) = {}
      BY <1>6, <1>17, <3>2 DEF Waiting
    <3>4. QED
      BY <1>8, <1>13, <3>1, <3>3
  <2>5. Seen(e)
    BY <1>13, <2>1, <2>2, <2>3, <2>4 DEF Lay, Seen, Live
  <2>6. QED
    BY <1>12, <2>3, <2>5 DEF Lay
<1>18. QED
  BY <1>16, <1>17

(* A client that is thrown out shows no more than it did. *)
LEMMA DropNotifiedKeepsLayouts ==
  ASSUME UnreliableLayouts, NEW c, Good(c), c.message = Empty, Lay(c), NEW arrives \in BOOLEAN, NEW d, d = DropNotified(c, arrives)
  PROVE  Lay(d)
<1> DEFINE b == AddMessageSingle(c, Disconnect)
           w == WriteReliableMessages(b, BuffSize)
           e == Transmit(w, 0, {}, arrives)
<1>1. Disconnect \in Messages
  BY DEF Messages
<1>2. Good(b) /\ Lay(b) /\ b.message = Empty
  BY <1>1, AddIs, AddKeepsLayouts DEF Untouched
<1>3. d = [e EXCEPT !.state = Zombie]
  BY DEF DropNotified
<1> HIDE DEF b
<1>4. Good(e) /\ Lay(e)
  BY <1>2, SendIs, PassedKeepsLayouts
<1> HIDE DEF e, w
<1>5. e \in Client
  BY <1>4 DEF Good
<1>6. /\ d.state = Zombie /\ d.list = e.list /\ d.layout = e.layout /\ d.layout_unreliable = e.layout_unreliable
      /\ d.reliable_buf = e.reliable_buf /\ d.outgoing_sequence = e.outgoing_sequence
  BY <1>3, <1>5 DEF Client
<1>7. ~Live(d)
  BY <1>6, StatesDiffer DEF Live
<1>8. QED
  BY <1>4, <1>6, <1>7 DEF Lay, Listed, Seen, Waiting

(* The list is closed. *)
LEMMA CloseKeepsLayouts ==
  ASSUME NEW c, Good(c), Lay(c), NEW s \in {Free, Zombie}, NEW d, d = [CloseMessageList(c) EXCEPT !.state = s]
  PROVE  Lay(d)
<1>1. c \in Client
  BY DEF Good
<1>2. /\ d.state = s /\ d.list = {} /\ d.layout_unreliable = c.layout_unreliable /\ d.reliable_buf = c.reliable_buf
      /\ d.outgoing_sequence = c.outgoing_sequence
  BY <1>1 DEF CloseMessageList, ClearMessageList, DeleteMessages, Client
<1>3. ~Live(d)
  BY <1>2, StatesDiffer DEF Live
<1>4. QED
  BY <1>2, <1>3 DEF Lay, Listed, Seen, Waiting

LEMMA CheckForOverflowKeepsLayouts ==
  ASSUME UnreliableLayouts, NEW c, Inv(c), Lay(c), NEW arrives \in BOOLEAN, NEW d, d = CheckForOverflow(c, arrives)
  PROVE  Lay(d)
<1>1. c \in Client /\ Good(c) /\ c.message = Empty
  BY DEF Inv, Good
<1>2. CASE c.state \in {Free, Zombie} \/ ~Overflowing(c)
  BY <1>2 DEF CheckForOverflow
<1>3. CASE c.state \notin {Free, Zombie} /\ Overflowing(c)
  <2> DEFINE N == c.notes \cup {"OVERFLOW_DONE"}
             a == [c EXCEPT !.notes = N]
             b == AddMessageSingle(a, OverflowPrint)
  <2>1. N \in SUBSET Notes /\ "OVERFLOWED" \in N /\ "OVERFLOW_DONE" \in N
    BY <1>1, <1>3 DEF Client, Notes, Overflowing
  <2>2. d = DropNotified(b, arrives)
    <3>1. [c EXCEPT !.notes = @ \cup {"OVERFLOW_DONE"}] = a
      BY <1>1 DEF Client
    <3>2. QED
      BY <1>3, <3>1 DEF CheckForOverflow
  <2> HIDE DEF N
  <2>3. a \in Client /\ a.notes = N /\ a.list = c.list /\ Untouched(c, a) /\ a.asked = c.asked /\ a.layout = c.layout /\ a.layout_unreliable = c.layout_unreliable
    BY <1>1, <2>1 DEF Client, Untouched
  <2> HIDE DEF a
  <2>4. Good(a)
    <3>1. Numbered(a.list) /\ Noted(a) /\ Sequenced(a) /\ ~a.toobig
      BY <1>1, <2>1, <2>3 DEF Good, Numbered, Noted, Sequenced, Untouched, Overflowing, Live
    <3>2. QED
      BY <2>1, <2>3, <3>1 DEF Good
  <2>5. Lay(a)
    BY <2>1, <2>3 DEF Lay, Listed, Seen, Waiting, Untouched
  <2>6. OverflowPrint \in Messages
    BY DEF Messages
  <2>7. Good(b) /\ Lay(b) /\ b.message = Empty
    BY <1>1, <2>3, <2>4, <2>5, <2>6, AddIs, AddKeepsLayouts DEF Untouched
  <2> HIDE DEF b
  <2>8. QED
    BY <2>2, <2>7, DropNotifiedKeepsLayouts
<1>4. QED
  BY <1>2, <1>3

LEMMA FormsKeepLayouts ==
  ASSUME NEW c, Good(c), Lay(c), NEW b \in Forms(c)
  PROVE  Lay(b)
<1>1. CASE b = c
  BY <1>1
<1>2. CASE b # c
  <2>1. Squeezable(c) /\ \E n \in 1 .. ReliableSize(c) - 1 : b = Squeezed(c, n)
    BY <1>2 DEF Forms
  <2>2. /\ b.state = c.state /\ b.notes = c.notes /\ b.outgoing_sequence = c.outgoing_sequence
        /\ b.received = c.received /\ b.shown = c.shown /\ b.layout = c.layout /\ b.layout_unreliable = c.layout_unreliable
        /\ b.reliable_buf.data = c.reliable_buf.data
        /\ Unreliables(b) = Unreliables(c)
        /\ \A o \in Reliables(b) : \E p \in Reliables(c) : o.text = p.text /\ (o.type = p.type \/ o.type = "cpacket")
    BY <2>1, SqueezedIs
  <2>3. \A o \in Reliables(c) : ~IsLayout(o) /\ o.text \notin LayoutTexts
    BY DEF Lay, Listed, Reliables
  <2>4. \A o \in Reliables(b) : ~IsLayout(o) /\ o.text \notin LayoutTexts
    BY <2>2, <2>3 DEF IsLayout
  <2>5. \A o \in Unreliables(b) : o \in c.list
    BY <2>2 DEF Unreliables
  <2>6. \A o \in b.list : o \in Reliables(b) \/ (o \in Unreliables(b) /\ o \in c.list)
    BY <2>5 DEF Unreliables
  <2>7. Waiting(b) = Waiting(c)
    <3>1. \A o \in c.list : IsLayout(o) => o \in Unreliables(c)
      BY <2>3 DEF Unreliables
    <3>2. \A o \in Unreliables(c) : o \in b.list /\ o \in c.list
      BY <2>2 DEF Unreliables
    <3>3. QED
      BY <2>4, <2>6, <3>1, <3>2 DEF Waiting
  <2>8. Listed(b)
    BY <2>2, <2>4, <2>6, <2>7 DEF Lay, Listed
  <2>9. QED
    BY <2>2, <2>7, <2>8 DEF Lay, Seen, Live
<1>3. QED
  BY <1>1, <1>2

LEMMA SendKeepsLayouts ==
  ASSUME UnreliableLayouts, Inv(client), Lay(client), SendClientMessages
  PROVE  Lay(client')
<1>1. PICK arrives \in BOOLEAN :
        LET c == CheckForOverflow(client, arrives)
        IN  /\ c.state # Free
            /\ client.outgoing_sequence < MaxSequence
            /\ IF c.state = Spawned
               THEN client' \in {Silence(c)} \cup SendClientDatagram(c) \cup SendFailed(c)
               ELSE client' \in SendReliable(c)
  BY DEF SendClientMessages
<1> DEFINE c == CheckForOverflow(client, arrives)
<1>2. Inv(c) /\ Lay(c)
  BY CheckForOverflowIs, CheckForOverflowKeepsLayouts
<1>3. IF c.state = Spawned THEN client' \in {Silence(c)} \cup SendClientDatagram(c) \cup SendFailed(c) ELSE client' \in SendReliable(c)
  BY <1>1
<1> HIDE DEF c
<1>4. Good(c) /\ c.message = Empty
  BY <1>2 DEF Inv
<1>5. ASSUME NEW d \in SendClientDatagram(c) PROVE Good(d) /\ d.message = Empty /\ Lay(d)
  <2>1. Good(d) /\ \E b \in Forms(c) : Delivers(b, d)
    BY <1>4, DatagramIs
  <2>2. PICK b \in Forms(c) : Delivers(b, d)
    BY <2>1
  <2>3. Good(b) /\ b.message = Empty /\ Lay(b)
    BY <1>2, <1>4, FormsAre, FormsKeepLayouts
  <2>4. d.message = Empty
    BY <2>2, <2>3, DeliversIs
  <2>5. QED
    BY <2>1, <2>2, <2>3, <2>4, DeliversKeepsLayouts
<1>6. CASE client' = Silence(c)
  <2> DEFINE b == DeleteMessages(c, Unreliables(c))
  <2>1. \A m \in Unreliables(c) : m \in c.list => m.nr = 0
    BY <1>4 DEF Good, Numbered, Unreliables, Reliables
  <2>2. /\ Good(b) /\ Untouched(c, b) /\ b.notes = c.notes /\ b.layout = c.layout /\ b.layout_unreliable = c.layout_unreliable
        /\ b.list = c.list \ Unreliables(c)
    BY <1>4, <2>1, DeleteIs
  <2>3. client' = [b EXCEPT !.layout = IF \E m \in Unreliables(c) : IsLayout(m) THEN None ELSE @]
    BY <1>6 DEF Silence
  <2> HIDE DEF b
  <2>4. b \in Client
    BY <2>2 DEF Good
  <2>5. /\ client'.list = b.list /\ client'.notes = b.notes /\ Untouched(b, client') /\ client'.layout_unreliable = b.layout_unreliable
        /\ client'.layout = IF \E m \in Unreliables(c) : IsLayout(m) THEN None ELSE b.layout
    BY <2>3, <2>4 DEF Client, Untouched
  <2>6. \A m \in c.list : IsLayout(m) => m \in Unreliables(c)
    BY <1>2 DEF Lay, Listed, Unreliables, Reliables
  <2>7. Waiting(client') = {}
    BY <2>2, <2>5, <2>6 DEF Waiting
  <2>8. Listed(client')
    BY <1>2, <2>2, <2>5, <2>7 DEF Lay, Listed, Untouched
  <2>9. client'.layout # None => client'.layout = c.layout /\ Waiting(c) = {}
    BY <2>2, <2>5, <2>6 DEF Waiting
  <2>10. client'.state = c.state /\ client'.received = c.received /\ client'.shown = c.shown /\ client'.notes = c.notes
         /\ client'.layout_unreliable = c.layout_unreliable /\ client'.outgoing_sequence = c.outgoing_sequence
    BY <2>2, <2>5 DEF Untouched
  <2>11. QED
    BY <1>2, <2>8, <2>9, <2>10 DEF Lay, Seen, Live
<1>7. CASE client' \in SendClientDatagram(c)
  BY <1>5, <1>7
<1>8. CASE client' \in SendFailed(c)
  <2>1. PICK d \in SendClientDatagram(c) : client' = Cleaned(DropNotified(d, FALSE))
    BY <1>8 DEF SendFailed
  <2>2. Good(d) /\ d.message = Empty /\ Lay(d)
    BY <1>5
  <2> DEFINE e == DropNotified(d, FALSE)
  <2>3. Good(e) /\ Lay(e)
    BY <2>2, DropNotifiedIs, DropNotifiedKeepsLayouts
  <2>4. client' = [CloseMessageList(e) EXCEPT !.state = Free]
    BY <2>1 DEF Cleaned
  <2> HIDE DEF e
  <2>5. QED
    BY <2>3, <2>4, CloseKeepsLayouts
<1>9. CASE client' \in SendReliable(c)
  <2> DEFINE w == WriteReliableMessages(c, BuffSize)
  <2>1. (\E ar \in BOOLEAN : client' = Transmit(w, 0, {}, ar)) \/ (w.message = Empty /\ client' = w)
    BY <1>9 DEF SendReliable
  <2>2. ASSUME NEW ar \in BOOLEAN, client' = Transmit(w, 0, {}, ar) PROVE Lay(client')
    BY <1>2, <1>4, <2>2, PassedKeepsLayouts
  <2>3. ASSUME w.message = Empty, client' = w PROVE Lay(client')
    <3>1. \A e : e = Transmit(w, 0, {}, TRUE) => Lay(w)
      BY <1>2, <1>4, <2>3, PassedKeepsLayouts
    <3>2. QED
      BY <2>3, <3>1
  <2>4. QED
    BY <2>1, <2>2, <2>3
<1>10. QED
  BY <1>3, <1>6, <1>7, <1>8, <1>9

LEMMA NextKeepsLayouts ==
  ASSUME UnreliableLayouts, Inv(client), Lay(client), [Next]_client
  PROVE  Lay(client')
<1>1. client \in Client /\ Good(client) /\ client.message = Empty
  BY DEF Inv, Good
<1>2. CASE UNCHANGED client
  BY <1>2
<1>3. ASSUME NEW m \in Requests, AddMessage(m) PROVE Lay(client')
  <2> DEFINE d == AddMessageSingle(client, m)
  <2>1. m \in Messages
    BY DEF Messages
  <2>2. Good(d) /\ Lay(d)
    BY <1>1, <2>1, AddIs, AddKeepsLayouts
  <2>3. client' = [d EXCEPT !.adds = @ + 1]
    BY <1>3 DEF AddMessage
  <2> HIDE DEF d
  <2>4. d \in Client
    BY <2>2 DEF Good
  <2>5. /\ client'.list = d.list /\ client'.notes = d.notes /\ client'.state = d.state /\ client'.received = d.received /\ client'.shown = d.shown
        /\ client'.layout = d.layout /\ client'.layout_unreliable = d.layout_unreliable /\ client'.reliable_buf = d.reliable_buf
        /\ client'.outgoing_sequence = d.outgoing_sequence
    BY <2>3, <2>4 DEF Client
  <2>6. QED
    BY <2>2, <2>5 DEF Lay, Listed, Seen, Waiting, Live
<1>4. CASE SendClientMessages
  BY <1>4, SendKeepsLayouts
<1>5. ASSUME NEW a, ReadPacket(a) PROVE Lay(client')
  <2> DEFINE b == Acknowledge(client, a)
             c == IF client.state = Zombie THEN b ELSE CheckLayout(b)
  <2>1. a \in client.received
    BY <1>5 DEF ReadPacket
  <2>2. /\ Inv(b) /\ b.state = client.state /\ b.notes = client.notes /\ b.list = client.list /\ b.outgoing_sequence = client.outgoing_sequence
        /\ b.layout = client.layout /\ b.layout_unreliable = client.layout_unreliable /\ b.received = client.received /\ b.shown = client.shown
        /\ b.incoming_acknowledged = a /\ b.reliable_buf \in {client.reliable_buf, Empty}
    BY <2>1, AcknowledgeIs
  <2>3. Empty.data = {}
    BY DEF Empty
  <2> HIDE DEF b
  <2>4. Lay(b)
    <3>1. Listed(b)
      BY <2>2, <2>3 DEF Lay, Listed, Waiting
    <3>2. QED
      BY <2>2, <3>1 DEF Lay, Seen, Waiting, Live
  <2>5. Inv(c) /\ Lay(c)
    <3>1. CASE client.state = Zombie
      BY <2>2, <2>4, <3>1
    <3>2. CASE client.state # Zombie
      <4>1. c = CheckLayout(b)
        BY <3>2
      <4> HIDE DEF c
      <4>2. /\ Inv(c) /\ c.state = b.state /\ c.notes = b.notes /\ c.list = b.list /\ c.outgoing_sequence = b.outgoing_sequence
            /\ c.received = b.received /\ c.shown = b.shown /\ c.reliable_buf = b.reliable_buf
            /\ \/ c.layout = b.layout /\ c.layout_unreliable = b.layout_unreliable
               \/ c.layout_unreliable = 0 /\ c.layout = None
               \/ c.layout_unreliable = 0 /\ c.layout = b.layout /\ b.layout_unreliable = b.incoming_acknowledged
        BY <2>2, <4>1, CheckLayoutIs
      <4>3. Listed(c) /\ Waiting(c) = Waiting(b)
        BY <2>4, <4>2 DEF Lay, Listed, Waiting
      <4>4. c.layout_unreliable < c.outgoing_sequence
        BY <2>2, <2>4, <4>2 DEF Lay, Inv, Good, Client
      <4>5. Seen(c)
        BY <2>1, <2>2, <2>4, <4>2, <4>3 DEF Lay, Seen, Live
      <4>6. QED
        BY <4>2, <4>3, <4>4, <4>5 DEF Lay
    <3>3. QED
      BY <3>1, <3>2
  <2>6. IF c.state \in {Connected, Spawning} /\ c.list # {}
        THEN \E arrives \in BOOLEAN : client' = Transmit(WriteReliableMessages(c, BuffSize), 0, {}, arrives)
        ELSE client' = c
    BY <1>5 DEF ReadPacket, b
  <2> HIDE DEF c
  <2>7. CASE \E arrives \in BOOLEAN : client' = Transmit(WriteReliableMessages(c, BuffSize), 0, {}, arrives)
    BY <2>5, <2>7, PassedKeepsLayouts DEF Inv
  <2>8. QED
    BY <2>5, <2>6, <2>7
<1>6. CASE New \/ Begin
  <2>1. client' = [client EXCEPT !.state = Spawning] \/ client' = [client EXCEPT !.state = Spawned]
    BY <1>6 DEF New, Begin
  <2>2. /\ client'.list = client.list /\ client'.notes = client.notes /\ client'.received = client.received /\ client'.shown = client.shown
        /\ client'.layout = client.layout /\ client'.layout_unreliable = client.layout_unreliable /\ client'.reliable_buf = client.reliable_buf
        /\ client'.outgoing_sequence = client.outgoing_sequence
    BY <1>1, <2>1 DEF Client
  <2>3. Live(client)
    BY <1>6 DEF New, Begin, Live
  <2>4. QED
    BY <2>2, <2>3 DEF Lay, Listed, Seen, Waiting
<1>7. CASE SpawnServer
  <2>1. /\ client'.list = client.list /\ client'.layout = None /\ client'.layout_unreliable = client.layout_unreliable
        /\ client'.reliable_buf = client.reliable_buf /\ client'.outgoing_sequence = client.outgoing_sequence
    BY <1>1, <1>7 DEF SpawnServer, Client
  <2>2. QED
    BY <2>1 DEF Lay, Listed, Seen, Waiting
<1>8. ASSUME NEW notify \in BOOLEAN, DropClient(notify) PROVE Lay(client')
  <2>1. PICK arrives \in BOOLEAN : client' = IF notify THEN DropNotified(client, arrives) ELSE DropSilently(client)
    BY <1>8 DEF DropClient
  <2>2. CASE notify
    BY <1>1, <2>1, <2>2, DropNotifiedKeepsLayouts
  <2>3. CASE ~notify
    <3>1. client' = [CloseMessageList(client) EXCEPT !.state = Zombie]
      BY <2>1, <2>3 DEF DropSilently
    <3>2. QED
      BY <1>1, <3>1, CloseKeepsLayouts
  <2>4. QED
    BY <2>2, <2>3
<1>9. CASE ZombieTimeout
  <2>1. client' = [CloseMessageList(client) EXCEPT !.state = Free]
    BY <1>9 DEF ZombieTimeout, Cleaned
  <2>2. QED
    BY <1>1, <2>1, CloseKeepsLayouts
<1>10. QED
  BY <1>2, <1>3, <1>4, <1>5, <1>6, <1>7, <1>8, <1>9 DEF Next

(* A layout that is dropped because it is the one stored (sv_send.c:289) is one the client shows *)
(* or will: through retransmissions, packets lost and acknowledged and layouts replaced or nuked,*)
(* the stored text is forgotten in time (sv_main.c:2729-2734), if no layout is sent reliably.    *)
THEOREM LayoutsAreKnown == UnreliableLayouts => (Spec => []LayoutIsKnown)
<1> SUFFICES ASSUME UnreliableLayouts PROVE Spec => []LayoutIsKnown
  OBVIOUS
<1>1. Init => Inv(client) /\ Lay(client)
  <2> SUFFICES ASSUME Init PROVE Lay(client)
    BY InitIs
  <2>1. client.list = {} /\ client.layout = None /\ client.layout_unreliable = 0 /\ client.outgoing_sequence = 1 /\ client.reliable_buf.data = {}
    BY DEF Init, Empty
  <2>2. QED
    BY <2>1 DEF Lay, Listed, Seen, Waiting
<1>2. (Inv(client) /\ Lay(client)) /\ [Next]_client => (Inv(client) /\ Lay(client))'
  <2> SUFFICES ASSUME Inv(client), Lay(client), [Next]_client PROVE Inv(client') /\ Lay(client')
    OBVIOUS
  <2>1. Inv(client')
    BY NextIs DEF Kept
  <2>2. QED
    BY <2>1, NextKeepsLayouts
<1>3. Inv(client) /\ Lay(client) => LayoutIsKnown
  <2> SUFFICES ASSUME Inv(client), Lay(client), client.state = Spawned, client.layout # None, "OVERFLOWED" \notin client.notes,
                      client.layout_unreliable = 0
               PROVE  client.shown = client.layout \/ OnItsWay(client.layout)
    BY DEF LayoutIsKnown, OnItsWay
  <2>1. Live(client)
    BY DEF Live
  <2>2. CASE Waiting(client) = {}
    BY <2>1, <2>2 DEF Lay, Seen
  <2>3. CASE Waiting(client) # {}
    <3>1. PICK m \in client.list : IsLayout(m)
      BY <2>3 DEF Waiting
    <3>2. m.text = client.layout
      BY <3>1 DEF Lay, Listed, Waiting
    <3>3. QED
      BY <3>1, <3>2 DEF OnItsWay
  <2>4. QED
    BY <2>2, <2>3
<1>4. QED
  BY <1>1, <1>2, <1>3, PTL DEF Spec
=============================================================================
