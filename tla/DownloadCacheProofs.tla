------------------------- MODULE DownloadCacheProofs -------------------------
(***************************************************************************)
(* Proofs about DownloadCache, for any number of clients, files, versions  *)
(* and entries: entries are counted exactly, workers have their entries,   *)
(* and clients are sent the file they asked for.                           *)
(***************************************************************************)
EXTENDS DownloadCache, FiniteSetTheorems, WellFoundedInduction, TLAPS

(* A set of natural numbers has its least element.                         *)
LEMMA MinIsLeast ==
  ASSUME NEW S \in SUBSET Nat, S # {}
  PROVE  Min(S) \in S /\ \A y \in S : Min(S) <= y
<1> DEFINE T == {0 .. y : y \in S}
<1>1. T \subseteq FiniteSubsetsOf(Nat) /\ T # {}
  <2>1. ASSUME NEW y \in S PROVE 0 .. y \in FiniteSubsetsOf(Nat)
    <3>1. y \in Nat /\ 0 \in Int /\ y \in Int
      OBVIOUS
    <3>2. IsFiniteSet(0 .. y)
      BY <3>1, FS_Interval
    <3>3. 0 .. y \subseteq Nat
      BY <3>1
    <3>4. QED
      BY <3>2, <3>3 DEF FiniteSubsetsOf
  <2>2. QED
    BY <2>1
<1>2. PICK low \in T : \A t \in T : <<t, low>> \notin StrictSubsetOrdering(Nat)
  BY <1>1, WFMin, FS_StrictSubsetOrderingWellFounded
<1>3. PICK x \in S : low = 0 .. x
  BY <1>2
<1>4. ASSUME NEW y \in S PROVE x <= y
  <2>1. <<0 .. y, 0 .. x>> \notin StrictSubsetOrdering(Nat)
    BY <1>2, <1>3
  <2>2. ~(0 .. y \subseteq 0 .. x /\ 0 .. y # 0 .. x)
    BY <2>1 DEF StrictSubsetOrdering
  <2>3. x \in Nat /\ y \in Nat
    OBVIOUS
  <2>4. SUFFICES ASSUME y < x PROVE FALSE
    BY <2>3
  <2>5. 0 .. y \subseteq 0 .. x /\ x \in 0 .. x /\ x \notin 0 .. y
    BY <2>3, <2>4
  <2>6. QED
    BY <2>2, <2>5
<1>5. QED
  BY <1>4 DEF Min

----------------------------------------------------------------------------
(* The invariant, for a client c whose part and list are those of w, while *)
(* the other clients are as they are.                                      *)

(* A download under way has not been sent in full, and only such a one has *)
(* an entry.                                                               *)
MeOK(me) ==
  /\ me \in Downloads
  /\ me.entry # None => me.download
  /\ me.download => me.pos <= me.count /\ me.count < me.size /\ me.file \in Files

(* An entry with compressed data is of the file, version and offset that   *)
(* the client asked for.                                                   *)
Asked(me, e) ==
  e.compbuf => e.mtime = me.version /\ e.offset = me.offset /\ e.file = me.file

FreeHasNone(me) == me.state = "cs_free" => me.entry = None

HasOK(me, list) ==
  /\ me.entry \in Listed(list) \cup {None}
  /\ me.entry # None /\ Precache = {} => Asked(me, list[me.entry])

(* What the main thread knows of an entry agrees with what its worker did. *)
EntryOK(e, thread) ==
  /\ e \in Entries
  /\ e.finished => thread = "done"
  /\ thread = "running" => e.compsize = 0
  /\ e.finished /\ e.compbuf => e.compsize > 0
  /\ ~e.compbuf => e.compsize = 0
  /\ e.compbuf => e.size = SizeOf[e.mtime] /\ e.compsize < e.size

Users(c, w, i) ==
  {d \in Clients : (IF d = c THEN w.me.entry ELSE client[d].entry) = i}

Thread(w, i) == IF i \in w.begun THEN "running" ELSE worker[i]

Ok(c, w) ==
  /\ w = [me |-> w.me, list |-> w.list, begun |-> w.begun]
  /\ w.me \in Downloads /\ HasOK(w.me, w.list)
  /\ Listed(w.list) \subseteq EntryId /\ w.list \in [Listed(w.list) -> Entries]
  /\ w.begun \subseteq Listed(w.list)
  /\ \A i \in Listed(w.list) :
       /\ EntryOK(w.list[i], Thread(w, i))
       /\ w.list[i].refc = Cardinality(Users(c, w, i))
  /\ \A d \in Clients \ {c} : HasOK(client[d], w.list)

(* An entry that keeps its data, but for a buffer that is freed.           *)
Same(e, f) ==
  /\ f.compsize = e.compsize /\ f.mtime = e.mtime
  /\ f.offset = e.offset /\ f.file = e.file
  /\ f.compbuf => e.compbuf

(* The entries of the other clients keep their data, or all entries do.    *)
Keeps(c, w, v) ==
  \A d \in Clients \ {c} :
    LET i == client[d].entry
    IN  i # None => i \in Listed(v.list) /\ Same(w.list[i], v.list[i])

All(w, v) ==
  \A i \in Listed(v.list) : i \in Listed(w.list) /\ Same(w.list[i], v.list[i])

LEMMA UsersFinite ==
  \A c, w, i : IsFiniteSet(Users(c, w, i)) /\ Cardinality(Users(c, w, i)) \in Nat
<1>1. IsFiniteSet(Clients)
  <2>1. 1 \in Int /\ MaxClients \in Int
    BY SizesArePositive
  <2>2. QED
    BY <2>1, FS_Interval DEF Clients
<1>2. QED
  BY <1>1, FS_Subset, FS_CardinalityType DEF Users

LEMMA FirstIsOne ==
  ASSUME NEW list, NEW S \in SUBSET DOMAIN list, S # {}, \A i \in S : list[i].place \in Nat
  PROVE  FirstOf(list, S) \in S
<1> DEFINE places == {list[i].place : i \in S}
<1>1. places \subseteq Nat /\ places # {}
  OBVIOUS
<1>2. PICK i \in S : list[i].place = Min(places)
  BY <1>1, MinIsLeast
<1>3. \A j \in S : list[i].place <= list[j].place
  BY <1>1, <1>2, MinIsLeast
<1>4. QED
  BY <1>3 DEF FirstOf

(* The list without some entries: the others keep all but their places.    *)
LEMMA OnlyKeeps ==
  ASSUME NEW list, NEW S \in SUBSET EntryId, S \subseteq DOMAIN list,
         NEW i \in S, list[i] \in Entries
  PROVE  LET e == Only(list, S)[i]
         IN  /\ e \in Entries /\ Same(list[i], e)
             /\ e.finished = list[i].finished /\ e.refc = list[i].refc
             /\ e.size = list[i].size /\ e.compbuf = list[i].compbuf
<1> DEFINE before == {j \in S : list[j].place <= list[i].place}
<1>1. IsFiniteSet(EntryId)
  <2>1. 1 \in Int /\ MaxEntries \in Int
    BY SizesArePositive
  <2>2. QED
    BY <2>1, FS_Interval DEF EntryId
<1>2. Cardinality(before) \in Nat
  BY <1>1, FS_Subset, FS_CardinalityType
<1>3. Only(list, S)[i] = [list[i] EXCEPT !.place = Cardinality(before)]
  BY DEF Only
<1> HIDE DEF before
<1>4. QED
  BY <1>2, <1>3 DEF Entries, Same

LEMMA NoneIsNoEntry == None \notin EntryId
BY SizesArePositive DEF None, EntryId

(* What others refer to stays theirs as long as it keeps its data.         *)
LEMMA OthersHave ==
  ASSUME NEW c, NEW w, NEW v, Keeps(c, w, v), NEW d \in Clients \ {c}, HasOK(client[d], w.list)
  PROVE  HasOK(client[d], v.list)
BY DEF Keeps, HasOK, Asked, Same

(* A step that changes neither who refers to what nor any data.            *)
LEMMA Alike ==
  ASSUME NEW c \in Clients, NEW w, NEW v, Ok(c, w),
         v = [me |-> v.me, list |-> v.list, begun |-> v.begun],
         v.me \in Downloads, v.me.entry = w.me.entry,
         w.me.entry # None => /\ v.me.version = w.me.version
                              /\ v.me.offset = w.me.offset /\ v.me.file = w.me.file,
         v.begun = w.begun, Listed(v.list) = Listed(w.list),
         v.list = [i \in Listed(v.list) |-> v.list[i]],
         \A i \in Listed(w.list) :
           /\ EntryOK(v.list[i], Thread(w, i)) /\ Same(w.list[i], v.list[i])
           /\ v.list[i].refc = w.list[i].refc
  PROVE  Ok(c, v) /\ All(w, v) /\ Keeps(c, w, v)
<1>1. All(w, v)
  BY DEF All
<1>2. Keeps(c, w, v)
  BY DEF Keeps, Ok, HasOK
<1>3. \A i : Users(c, v, i) = Users(c, w, i) /\ Thread(v, i) = Thread(w, i)
  BY DEF Users, Thread
<1>4. HasOK(v.me, v.list)
  BY DEF Ok, HasOK, Asked, Same
<1>5. v.list \in [Listed(v.list) -> Entries]
  BY DEF EntryOK
<1>6. \A d \in Clients \ {c} : HasOK(client[d], v.list)
  BY <1>2, OthersHave DEF Ok
<1>7. QED
  BY <1>1, <1>2, <1>3, <1>4, <1>5, <1>6 DEF Ok

(* A client gives its entry back: it is one user less, and an entry that   *)
(* goes had no other.                                                      *)
LEMMA ReleaseOK ==
  ASSUME NEW c \in Clients, NEW w, Ok(c, w), w.begun = {}, w.me.entry # None
  PROVE  LET v == Release(w)
         IN  /\ Ok(c, v) /\ All(w, v) /\ Keeps(c, w, v)
             /\ v.begun = {} /\ v.me = [w.me EXCEPT !.entry = None]
<1> DEFINE i == w.me.entry
           d == [w.list[i] EXCEPT !.refc = @ - 1]
           me == [w.me EXCEPT !.entry = None]
           goes == d.refc = 0 /\ d.compbuf /\ d.offset # 0
           rest == Listed(w.list) \ {i}
           list == IF goes THEN Only(w.list, rest) ELSE [w.list EXCEPT ![i] = d]
           v == [me |-> me, list |-> list, begun |-> {}]
<1>1. i \in Listed(w.list) /\ i \in EntryId /\ w.list[i] \in Entries
  BY DEF Ok, HasOK
<1>2. Release(w) = v
  <2>1. Release(w) = [[w EXCEPT !.me = me] EXCEPT !.list = list]
    BY DEF Ok, Release
  <2>2. w = [me |-> w.me, list |-> w.list, begun |-> {}]
    BY DEF Ok
  <2> HIDE DEF me, list
  <2>3. QED
    BY <2>1, <2>2
<1>3. me \in Downloads /\ me.entry = None
  BY DEF Ok, Downloads
<1>4. \A j : /\ j # i /\ j # None => Users(c, v, j) = Users(c, w, j)
             /\ j = i => Users(c, v, j) = Users(c, w, j) \ {c}
  BY <1>3, <1>1, NoneIsNoEntry DEF Users
<1>5. c \in Users(c, w, i)
  BY DEF Users
<1>6. w.list[i].refc = Cardinality(Users(c, w, i)) /\ IsFiniteSet(Users(c, w, i))
  BY <1>1, UsersFinite DEF Ok
<1>7. Cardinality(Users(c, v, i)) = w.list[i].refc - 1 /\ Cardinality(Users(c, v, i)) \in Nat
  <2>1. Users(c, v, i) = Users(c, w, i) \ {c}
    BY <1>4
  <2> HIDE DEF v, i
  <2>2. Cardinality(Users(c, v, i)) = Cardinality(Users(c, w, i)) - 1
    BY <2>1, <1>5, <1>6, FS_RemoveElement
  <2>3. QED
    BY <2>2, <1>6, UsersFinite
<1>8. d.refc = Cardinality(Users(c, v, i)) /\ Same(w.list[i], d) /\ EntryOK(d, worker[i])
  <2>1. EntryOK(w.list[i], worker[i])
    BY <1>1 DEF Ok, Thread
  <2>2. d = [w.list[i] EXCEPT !.refc = Cardinality(Users(c, v, i))]
    BY <1>7
  <2> DEFINE n == Cardinality(Users(c, v, i))
  <2>3. n \in Nat /\ d = [w.list[i] EXCEPT !.refc = n]
    BY <1>7, <2>2
  <2> HIDE DEF n, d
  <2>4. d.refc = n /\ Same(w.list[i], d) /\ EntryOK(d, worker[i])
    BY <2>1, <2>3, <1>1 DEF EntryOK, Entries, Same
  <2>5. QED
    BY <2>4 DEF n
<1>9. \A j \in Listed(list) :
        /\ j \in Listed(w.list) /\ (goes => j # i)
        /\ EntryOK(list[j], worker[j]) /\ Same(w.list[j], list[j])
        /\ list[j].refc = Cardinality(Users(c, v, j))
  <2>1. TAKE j \in Listed(list)
  <2>2. j \in Listed(w.list) /\ j \in EntryId /\ (goes => j # i)
    BY DEF Ok, Listed, Only
  <2>3. /\ EntryOK(w.list[j], worker[j]) /\ w.list[j].refc = Cardinality(Users(c, w, j))
        /\ w.list[j] \in Entries /\ j # None
    BY <2>2, NoneIsNoEntry DEF Ok, Thread
  <2>4. CASE goes
    <3>1. j \in rest /\ list[j] = Only(w.list, rest)[j]
      BY <2>4, <2>2
    <3>2. rest \in SUBSET EntryId /\ rest \subseteq DOMAIN w.list
      BY DEF Ok, Listed
    <3> HIDE DEF goes, list, rest, v
    <3>3. /\ list[j] \in Entries /\ Same(w.list[j], list[j]) /\ list[j].refc = w.list[j].refc
          /\ list[j].finished = w.list[j].finished /\ list[j].size = w.list[j].size
          /\ list[j].compbuf = w.list[j].compbuf
      BY <3>1, <3>2, <2>3, OnlyKeeps DEF Same
    <3>4. EntryOK(list[j], worker[j])
      BY <3>3, <2>3 DEF EntryOK, Same
    <3>5. QED
      BY <3>3, <3>4, <2>2, <2>3, <2>4, <1>4
  <2>5. CASE ~goes
    <3>1. list = [w.list EXCEPT ![i] = d]
      BY <2>5
    <3> HIDE DEF goes, list, v, d
    <3>2. CASE j = i
      <4>1. list[j] = d
        BY <3>1, <3>2, <1>1 DEF Listed
      <4>2. QED
        BY <4>1, <3>2, <1>8, <2>2
    <3>3. CASE j # i
      <4>1. list[j] = w.list[j]
        BY <3>1, <3>3, <2>2 DEF Listed
      <4>2. QED
        BY <4>1, <3>3, <2>2, <2>3, <1>4 DEF Same
    <3>4. QED
      BY <3>2, <3>3
  <2>6. QED
    BY <2>4, <2>5
<1>10. \A o \in Clients \ {c} : client[o].entry # None => client[o].entry \in Listed(list)
  <2>1. TAKE o \in Clients \ {c}
  <2>2. CASE goes /\ client[o].entry = i
    <3>1. o \in Users(c, v, i)
      BY <2>2 DEF Users
    <3>2. Cardinality(Users(c, v, i)) = 0 /\ IsFiniteSet(Users(c, v, i))
      BY <2>2, <1>8, UsersFinite
    <3>3. QED
      BY <3>1, <3>2, FS_EmptySet
  <2>3. CASE ~(goes /\ client[o].entry = i)
    <3>1. client[o].entry \in Listed(w.list) \cup {None}
      BY DEF Ok, HasOK
    <3>2. goes => Listed(list) = rest
      BY DEF Listed, Only
    <3>3. ~goes => Listed(list) = Listed(w.list)
      BY DEF Listed
    <3> HIDE DEF goes, list
    <3>4. QED
      BY <2>3, <3>1, <3>2, <3>3
  <2>4. QED
    BY <2>2, <2>3
<1>11. Listed(list) \subseteq EntryId /\ list \in [Listed(list) -> Entries]
  <2>1. \A j \in Listed(list) : j \in EntryId /\ list[j] \in Entries
    BY <1>9 DEF EntryOK, Ok
  <2>2. list = [j \in Listed(list) |-> list[j]]
    BY DEF Listed, Only, Ok
  <2> HIDE DEF list
  <2>3. QED
    BY <2>1, <2>2
<1> HIDE DEF list, goes, d, me, i
<1>12. All(w, v) /\ Keeps(c, w, v)
  BY <1>9, <1>10 DEF All, Keeps
<1>13. \A o \in Clients \ {c} : HasOK(client[o], v.list)
  BY <1>12, OthersHave DEF Ok
<1>14. HasOK(me, list)
  BY <1>3 DEF HasOK
<1>15. Ok(c, v)
  BY <1>3, <1>9, <1>11, <1>13, <1>14 DEF Ok, Thread
<1>16. QED
  BY <1>2, <1>12, <1>15 DEF me

LEMMA PutIs ==
  ASSUME NEW w, w = [me |-> w.me, list |-> w.list, begun |-> w.begun], NEW m
  PROVE  Put(w, m) = [me |-> m, list |-> w.list, begun |-> w.begun]
BY DEF Put

LEMMA Transitive ==
  ASSUME NEW c, NEW u, NEW w, NEW v, All(u, w), All(w, v), Keeps(c, u, w), Keeps(c, w, v)
  PROVE  All(u, v) /\ Keeps(c, u, v)
<1>1. \A e, f, g : Same(e, f) /\ Same(f, g) => Same(e, g)
  BY DEF Same
<1>2. QED
  BY <1>1 DEF All, Keeps

(* What each operator does to a client whose worker was not started.       *)
Leads(c, w, v) ==
  /\ Ok(c, v) /\ MeOK(v.me) /\ All(w, v) /\ Keeps(c, w, v)
  /\ v.begun = {} /\ v.me.state = w.me.state

LEMMA CloseOK ==
  ASSUME NEW c \in Clients, NEW w, Ok(c, w), w.begun = {}, w.me.entry # None => w.me.download
  PROVE  LET v == Close(w)
         IN  Leads(c, w, v) /\ v.me.entry = None /\ ~v.me.download
<1>1. CASE ~w.me.download
  <2>1. Close(w) = w
    BY <1>1 DEF Close
  <2>2. All(w, w) /\ Keeps(c, w, w)
    BY DEF All, Keeps, Same, Ok, HasOK
  <2>3. MeOK(w.me)
    BY <1>1 DEF MeOK, Ok
  <2>4. QED
    BY <1>1, <2>1, <2>2, <2>3 DEF Leads
<1>2. CASE w.me.download
  <2> DEFINE me == [w.me EXCEPT !.download = FALSE, !.size = 0]
             closed == [me |-> me, list |-> w.list, begun |-> {}]
  <2>1. Put(w, [w.me EXCEPT !.download = FALSE, !.size = 0]) = closed
    BY PutIs DEF Ok
  <2>2. /\ me \in Downloads /\ me.entry = w.me.entry /\ ~me.download /\ me.state = w.me.state
        /\ me.version = w.me.version /\ me.offset = w.me.offset /\ me.file = w.me.file
    BY DEF Ok, Downloads
  <2>3. Ok(c, closed) /\ All(w, closed) /\ Keeps(c, w, closed)
    <3>1. \A i \in Listed(w.list) : EntryOK(w.list[i], Thread(w, i)) /\ Same(w.list[i], w.list[i])
      BY DEF Ok, Same
    <3>2. w.list = [i \in Listed(w.list) |-> w.list[i]]
      BY DEF Ok
    <3> HIDE DEF me
    <3>3. QED
      BY <2>2, <3>1, <3>2, Alike
  <2>4. CASE w.me.entry = None
    <3>1. Close(w) = closed
      BY <1>2, <2>1, <2>4 DEF Close
    <3>2. MeOK(me)
      BY <2>2, <2>4 DEF MeOK
    <3> HIDE DEF me
    <3>3. QED
      BY <2>2, <2>3, <2>4, <3>1, <3>2 DEF Leads
  <2>5. CASE w.me.entry # None
    <3> DEFINE v == Release(closed)
    <3>1. Close(w) = v
      BY <1>2, <2>1, <2>5 DEF Close
    <3>2. /\ Ok(c, v) /\ All(closed, v) /\ Keeps(c, closed, v)
          /\ v.begun = {} /\ v.me = [me EXCEPT !.entry = None]
      BY <2>2, <2>3, <2>5, ReleaseOK
    <3>3. All(w, v) /\ Keeps(c, w, v)
      BY <2>3, <3>2, Transitive
    <3>4. v.me.entry = None /\ ~v.me.download /\ MeOK(v.me) /\ v.me.state = w.me.state
      BY <2>2, <3>2 DEF MeOK, Ok, Downloads
    <3>5. QED
      BY <3>1, <3>2, <3>3, <3>4 DEF Leads
  <2>6. QED
    BY <2>4, <2>5
<1>3. QED
  BY <1>1, <1>2 DEF Ok, Downloads

LEMMA BlockOK ==
  ASSUME NEW c \in Clients, NEW w, Ok(c, w), w.begun = {}, w.me.download, w.me.file \in Files,
         w.me.pos < w.me.size, w.me.count < w.me.size
  PROVE  Leads(c, w, Block(w))
<1> DEFINE n == w.me.pos + 1
           k == IF w.me.count < n THEN n ELSE w.me.count
           me == [w.me EXCEPT !.pos = n, !.count = k]
           s == [me |-> me, list |-> w.list, begun |-> {}]
<1>1. Put(w, [w.me EXCEPT !.pos = n, !.count = IF @ < n THEN n ELSE @]) = s
  BY PutIs DEF Ok
<1>2. n \in Nat /\ k \in Nat /\ n <= k /\ k <= w.me.size
  BY DEF Ok, Downloads
<1>3. /\ me \in Downloads /\ me.entry = w.me.entry /\ me.version = w.me.version
      /\ me.state = w.me.state /\ me.offset = w.me.offset /\ me.file = w.me.file
      /\ me.download = w.me.download /\ me.size = w.me.size /\ me.pos = n /\ me.count = k
  <2> HIDE DEF n, k
  <2>1. QED
    BY <1>2 DEF Ok, Downloads
<1>4. Ok(c, s) /\ All(w, s) /\ Keeps(c, w, s)
  <2>1. \A i \in Listed(w.list) : EntryOK(w.list[i], Thread(w, i)) /\ Same(w.list[i], w.list[i])
    BY DEF Ok, Same
  <2>2. w.list = [i \in Listed(w.list) |-> w.list[i]]
    BY DEF Ok
  <2> HIDE DEF me
  <2>3. QED
    BY <1>3, <2>1, <2>2, Alike
<1>5. Block(w) = IF s.me.count = s.me.size THEN Close(s) ELSE s
  BY <1>1 DEF Block
<1> HIDE DEF n, k, me
<1>6. CASE k = w.me.size
  <2>1. Block(w) = Close(s)
    BY <1>3, <1>5, <1>6
  <2>2. Leads(c, s, Close(s))
    BY <1>3, <1>4, CloseOK
  <2>3. QED
    BY <1>3, <1>4, <2>1, <2>2, Transitive DEF Leads
<1>7. CASE k # w.me.size
  <2>1. Block(w) = s
    BY <1>3, <1>5, <1>7
  <2>2. k < w.me.size
    BY <1>2, <1>7 DEF Ok, Downloads
  <2>3. MeOK(me)
    BY <1>2, <1>3, <2>2 DEF MeOK
  <2>4. QED
    BY <1>3, <1>4, <2>1, <2>3 DEF Leads
<1>8. QED
  BY <1>6, <1>7

LEMMA FinishOK ==
  ASSUME NEW i, NEW e, EntryOK(e, worker[i]), Done(i)
  PROVE  /\ EntryOK(Finish(i, e), worker[i]) /\ Same(e, Finish(i, e))
         /\ Finish(i, e).refc = e.refc /\ Finish(i, e).finished
<1>1. CASE e.finished
  BY <1>1 DEF Finish, Same
<1>2. CASE ~e.finished
  <2> DEFINE kept == e.compbuf /\ e.compsize > 0
  <2>1. Finish(i, e) = [e EXCEPT !.finished = TRUE, !.compbuf = kept]
    BY <1>2 DEF Finish
  <2>2. kept \in BOOLEAN /\ (kept => e.compbuf /\ e.compsize > 0) /\ (~kept => e.compsize = 0)
    BY DEF EntryOK, Entries
  <2> HIDE DEF kept
  <2> DEFINE f == [e EXCEPT !.finished = TRUE, !.compbuf = kept]
  <2>3. /\ f \in Entries /\ f.finished /\ f.compbuf = kept /\ f.refc = e.refc
        /\ f.compsize = e.compsize /\ f.mtime = e.mtime /\ f.size = e.size
        /\ f.offset = e.offset /\ f.file = e.file
    BY <2>2 DEF EntryOK, Entries
  <2> HIDE DEF f
  <2>4. EntryOK(f, worker[i]) /\ Same(e, f)
    BY <2>2, <2>3 DEF EntryOK, Same, Done
  <2>5. QED
    BY <2>1, <2>3, <2>4 DEF f
<1>3. QED
  BY <1>1, <1>2

(* A download starts, from its compressed data or the file.                *)
LEMMA StartOK ==
  ASSUME NEW c \in Clients, NEW w, Ok(c, w), w.begun = {}, MeOK(w.me), w.me.download,
         w.me.entry # None => w.list[w.me.entry].finished
  PROVE  Leads(c, w, Start(w))
<1>1. CASE w.me.entry = None
  <2>1. Start(w) = Block(w)
    BY <1>1 DEF Start
  <2>2. w.me.pos < w.me.size
    BY DEF MeOK, Downloads
  <2>3. QED
    BY <2>1, <2>2, BlockOK DEF MeOK
<1>2. ASSUME w.me.entry # None PROVE Leads(c, w, Start(w))
  <2> DEFINE d == w.list[w.me.entry]
  <2>1. /\ w.me.entry \in Listed(w.list) /\ d.finished
        /\ EntryOK(d, Thread(w, w.me.entry))
    BY <1>2 DEF Ok, HasOK
  <2>2. CASE d.compbuf
    <3> DEFINE me == [w.me EXCEPT !.size = d.compsize, !.pos = 0, !.count = 0]
               s == [me |-> me, list |-> w.list, begun |-> {}]
    <3>1. Start(w) = Block(s)
      <4>1. Put(w, me) = s
        BY PutIs DEF Ok
      <4>2. QED
        BY <1>2, <2>2, <4>1 DEF Start
    <3>2. d.compsize \in Nat /\ 0 < d.compsize
      BY <2>1, <2>2 DEF EntryOK, Entries
    <3>3. /\ me \in Downloads /\ me.entry = w.me.entry /\ me.version = w.me.version
          /\ me.offset = w.me.offset /\ me.file = w.me.file /\ me.download
          /\ me.state = w.me.state
          /\ me.size = d.compsize /\ me.pos = 0 /\ me.count = 0
      <4> HIDE DEF d
      <4>1. QED
        BY <3>2 DEF Ok, Downloads
    <3>4. Ok(c, s) /\ All(w, s) /\ Keeps(c, w, s)
      <4>1. \A i \in Listed(w.list) : EntryOK(w.list[i], Thread(w, i)) /\ Same(w.list[i], w.list[i])
        BY DEF Ok, Same
      <4>2. w.list = [i \in Listed(w.list) |-> w.list[i]]
        BY DEF Ok
      <4> HIDE DEF me
      <4>3. QED
        BY <3>3, <4>1, <4>2, Alike
    <3> HIDE DEF me, d
    <3>5. Leads(c, s, Block(s))
      BY <3>2, <3>3, <3>4, BlockOK DEF MeOK
    <3>6. QED
      BY <3>1, <3>3, <3>4, <3>5, Transitive DEF Leads
  <2>3. CASE ~d.compbuf
    <3> DEFINE v == Release(w)
    <3>1. Start(w) = Block(v)
      BY <1>2, <2>3 DEF Start
    <3>2. /\ Ok(c, v) /\ All(w, v) /\ Keeps(c, w, v)
          /\ v.begun = {} /\ v.me = [w.me EXCEPT !.entry = None]
      BY <1>2, ReleaseOK
    <3> HIDE DEF v
    <3>3. v.me.download /\ v.me.state = w.me.state /\ v.me.file \in Files /\ v.me.pos < v.me.size /\ v.me.count < v.me.size
      BY <3>2 DEF MeOK, Ok, Downloads
    <3>4. Leads(c, v, Block(v))
      BY <3>2, <3>3, BlockOK
    <3>5. QED
      BY <3>1, <3>2, <3>4, Transitive DEF Leads
  <2>4. QED
    BY <2>2, <2>3
<1>3. QED
  BY <1>1, <1>2

LEMMA StartFinishedOK ==
  ASSUME NEW c \in Clients, NEW w, Ok(c, w), w.begun = {}, MeOK(w.me),
         w.me.entry # None, Done(w.me.entry)
  PROVE  Leads(c, w, StartFinished(w))
<1> DEFINE i == w.me.entry
           list == [w.list EXCEPT ![i] = Finish(i, @)]
           s == [me |-> w.me, list |-> list, begun |-> {}]
<1>1. i \in Listed(w.list) /\ \A j \in Listed(w.list) : EntryOK(w.list[j], worker[j])
  BY DEF Ok, HasOK, Thread
<1>2. StartFinished(w) = Start(s)
  BY DEF StartFinished, Ok
<1>3. /\ EntryOK(Finish(i, w.list[i]), worker[i]) /\ Same(w.list[i], Finish(i, w.list[i]))
      /\ Finish(i, w.list[i]).refc = w.list[i].refc /\ Finish(i, w.list[i]).finished
  BY <1>1, FinishOK
<1>4. /\ Listed(list) = Listed(w.list) /\ list = [j \in Listed(list) |-> list[j]]
      /\ list[i] = Finish(i, w.list[i])
      /\ \A j \in Listed(w.list) : j # i => list[j] = w.list[j]
  BY <1>1 DEF Listed, Ok
<1> HIDE DEF list
<1>5. \A j \in Listed(w.list) :
        /\ EntryOK(list[j], Thread(w, j)) /\ Same(w.list[j], list[j])
        /\ list[j].refc = w.list[j].refc
  BY <1>1, <1>3, <1>4 DEF Same, Thread
<1>6. Ok(c, s) /\ All(w, s) /\ Keeps(c, w, s)
  <2>1. w.me \in Downloads
    BY DEF Ok
  <2> HIDE DEF i
  <2>2. QED
    BY <2>1, <1>4, <1>5, Alike
<1>7. Leads(c, s, Start(s))
  BY <1>3, <1>4, <1>6, StartOK DEF MeOK
<1>8. QED
  BY <1>2, <1>6, <1>7, Transitive DEF Leads

(* A client without an entry takes one, and may start a worker on it.      *)
Takes(c, w, v) ==
  /\ Ok(c, v) /\ Keeps(c, w, v) /\ v.me = [w.me EXCEPT !.entry = v.me.entry]
  /\ v.begun \subseteq {v.me.entry}
  /\ v.begun = {} => All(w, v)

LEMMA NewOK ==
  ASSUME NEW c \in Clients, NEW w, Ok(c, w), w.me.file \in Files, w.me.size = SizeOf[w.me.version],
         NEW compress \in BOOLEAN, NEW place \in Nat
  PROVE  LET e == New(w.me, compress, place)
         IN  EntryOK(e, "running") /\ Asked(w.me, e) /\ e.refc = 1
<1> DEFINE e == New(w.me, compress, place)
<1>1. SizeOf[w.me.version] \in Nat /\ SizeOf[w.me.version] > 0
  BY SizesArePositive DEF Ok, Downloads, Versions
<1>2. /\ e.mtime = w.me.version /\ e.offset = w.me.offset /\ e.file = w.me.file
      /\ e.size = w.me.size /\ e.compsize = 0 /\ ~e.finished /\ e.refc = 1
  BY DEF New
<1>3. e \in Entries
  BY DEF New, Entries, Ok, Downloads
<1> HIDE DEF e
<1>4. EntryOK(e, "running") /\ Asked(w.me, e)
  BY <1>1, <1>2, <1>3 DEF EntryOK, Asked
<1>5. QED
  BY <1>2, <1>4 DEF e

(* One user more.                                                          *)
LEMMA UserAdded ==
  ASSUME NEW c \in Clients, NEW w, NEW v, Ok(c, w), w.me.entry = None,
         NEW i \in EntryId, v.me.entry = i
  PROVE  /\ Cardinality(Users(c, v, i)) = Cardinality(Users(c, w, i)) + 1
         /\ \A j \in EntryId : j # i => Users(c, v, j) = Users(c, w, j)
<1>1. Users(c, v, i) = Users(c, w, i) \cup {c} /\ c \notin Users(c, w, i)
  BY NoneIsNoEntry DEF Users
<1>2. \A j \in EntryId : j # i => Users(c, v, j) = Users(c, w, j)
  BY NoneIsNoEntry DEF Users
<1>3. Cardinality(Users(c, v, i)) = Cardinality(Users(c, w, i)) + 1
  BY <1>1, UsersFinite, FS_AddElement
<1>4. QED
  BY <1>2, <1>3

LEMMA AddedOK ==
  ASSUME NEW c \in Clients, NEW w, Ok(c, w), w.begun = {}, w.me.entry = None,
         w.me.file \in Files, w.me.size = SizeOf[w.me.version],
         NEW i \in EntryId \ Listed(w.list), NEW compress \in BOOLEAN
  PROVE  LET v == Added(w, i, compress) IN Takes(c, w, v) /\ v.me.entry = i /\ v.begun = {i}
<1> DEFINE e == New(w.me, compress, 1)
           me == [w.me EXCEPT !.entry = i]
           list == [j \in Listed(w.list) \cup {i} |->
                      IF j = i THEN e ELSE [w.list[j] EXCEPT !.place = @ + 1]]
           v == [me |-> me, list |-> list, begun |-> {i}]
<1>1. Added(w, i, compress) = v
  BY DEF Added
<1>2. EntryOK(e, "running") /\ Asked(w.me, e) /\ e.refc = 1
  BY NewOK
<1>3. /\ me \in Downloads /\ me.entry = i /\ me.version = w.me.version
      /\ me.offset = w.me.offset /\ me.file = w.me.file /\ me = [w.me EXCEPT !.entry = me.entry]
  BY DEF Ok, Downloads
<1>4. list[i] = e /\ Listed(list) = Listed(w.list) \cup {i}
  BY DEF Listed
<1>5. \A j \in Listed(w.list) :
        /\ EntryOK(list[j], worker[j]) /\ Same(w.list[j], list[j])
        /\ list[j].refc = w.list[j].refc /\ j \in EntryId /\ j # i
  <2>1. TAKE j \in Listed(w.list)
  <2>2. j # i /\ j \in EntryId /\ EntryOK(w.list[j], worker[j])
    BY DEF Ok, Thread
  <2>3. list[j] = [w.list[j] EXCEPT !.place = @ + 1]
    BY <2>2
  <2> HIDE DEF list
  <2>4. QED
    BY <2>2, <2>3 DEF EntryOK, Entries, Same
<1>6. Users(c, w, i) = {}
  BY NoneIsNoEntry DEF Users, Ok, HasOK
<1>7. Cardinality(Users(c, v, i)) = 1 /\ \A j \in EntryId : j # i => Users(c, v, j) = Users(c, w, j)
  <2> HIDE DEF me, list
  <2>1. Cardinality(Users(c, w, i)) = 0
    BY <1>6, FS_EmptySet
  <2>2. QED
    BY <2>1, <1>3, UserAdded
<1>8. list = [j \in Listed(list) |-> list[j]]
  BY DEF Listed
<1> HIDE DEF list, me, e
<1>9. \A j \in Listed(list) :
        /\ EntryOK(list[j], Thread(v, j)) /\ list[j].refc = Cardinality(Users(c, v, j))
        /\ j \in EntryId
  <2>1. \A j \in Listed(w.list) : w.list[j].refc = Cardinality(Users(c, w, j))
    BY DEF Ok
  <2>2. QED
    BY <2>1, <1>2, <1>4, <1>5, <1>7 DEF Thread
<1>10. Keeps(c, w, v)
  BY <1>4, <1>5 DEF Keeps, Ok, HasOK
<1>11. \A d \in Clients \ {c} : HasOK(client[d], list)
  BY <1>10, OthersHave DEF Ok
<1>12. list \in [Listed(list) -> Entries]
  BY <1>8, <1>9 DEF EntryOK
<1>13. HasOK(me, list)
  BY <1>2, <1>3, <1>4 DEF HasOK, Asked
<1>14. Ok(c, v)
  BY <1>3, <1>4, <1>9, <1>11, <1>12, <1>13 DEF Ok
<1>15. QED
  BY <1>1, <1>3, <1>10, <1>14 DEF Takes

LEMMA JoinedOK ==
  ASSUME NEW c \in Clients, NEW w, Ok(c, w), w.begun = {}, w.me.entry = None,
         NEW i \in Listed(w.list), Precache = {} => Asked(w.me, w.list[i])
  PROVE  LET v == Joined(w, i) IN Takes(c, w, v) /\ v.me.entry = i /\ v.begun = {}
<1> DEFINE e == Join(w.list[i])
           me == [w.me EXCEPT !.entry = i]
           list == [w.list EXCEPT ![i] = e]
           v == [me |-> me, list |-> list, begun |-> {}]
<1>1. Joined(w, i) = v
  <2>1. Joined(w, i) = [[w EXCEPT !.me = me] EXCEPT !.list = list]
    BY DEF Ok, Joined
  <2>2. w = [me |-> w.me, list |-> w.list, begun |-> {}]
    BY DEF Ok
  <2> HIDE DEF me, list
  <2>3. QED
    BY <2>1, <2>2
<1>2. /\ i \in EntryId /\ EntryOK(w.list[i], worker[i])
      /\ w.list[i].refc = Cardinality(Users(c, w, i)) /\ w.list[i] \in Entries
  BY DEF Ok, Thread
<1>3. EntryOK(e, worker[i]) /\ Same(w.list[i], e) /\ e.refc = w.list[i].refc + 1
      /\ e.compbuf = w.list[i].compbuf
  BY <1>2 DEF Join, EntryOK, Entries, Same
<1>4. /\ me \in Downloads /\ me.entry = i /\ me.version = w.me.version
      /\ me.offset = w.me.offset /\ me.file = w.me.file /\ me = [w.me EXCEPT !.entry = me.entry]
  BY <1>2 DEF Ok, Downloads
<1>5. /\ Listed(list) = Listed(w.list) /\ list[i] = e
      /\ \A j \in Listed(w.list) : j # i => list[j] = w.list[j]
      /\ list = [j \in Listed(list) |-> list[j]]
  BY <1>2 DEF Listed, Ok
<1> HIDE DEF list, me, e
<1>6. \A j \in Listed(list) :
        /\ EntryOK(list[j], Thread(v, j)) /\ list[j].refc = Cardinality(Users(c, v, j))
        /\ Same(w.list[j], list[j])
  <2>1. \A j \in Listed(w.list) :
          /\ w.list[j].refc = Cardinality(Users(c, w, j)) /\ j \in EntryId
          /\ EntryOK(w.list[j], worker[j])
    BY DEF Ok, Thread
  <2>2. /\ Cardinality(Users(c, v, i)) = Cardinality(Users(c, w, i)) + 1
        /\ \A j \in EntryId : j # i => Users(c, v, j) = Users(c, w, j)
    BY <1>2, <1>4, UserAdded
  <2>3. QED
    BY <2>1, <2>2, <1>2, <1>3, <1>5 DEF Thread, Same
<1>7. All(w, v) /\ Keeps(c, w, v)
  BY <1>5, <1>6 DEF All, Keeps, Ok, HasOK
<1>8. \A d \in Clients \ {c} : HasOK(client[d], list)
  BY <1>7, OthersHave DEF Ok
<1>9. list \in [Listed(list) -> Entries]
  BY <1>5, <1>6 DEF EntryOK
<1>10. HasOK(me, list)
  BY <1>3, <1>4, <1>5 DEF HasOK, Asked, Same
<1>11. Ok(c, v)
  BY <1>4, <1>5, <1>6, <1>8, <1>9, <1>10 DEF Ok
<1>12. QED
  BY <1>1, <1>4, <1>7, <1>11 DEF Takes

LEMMA RebuiltOK ==
  ASSUME NEW c \in Clients, NEW w, Ok(c, w), w.begun = {}, w.me.entry = None,
         w.me.file \in Files, w.me.size = SizeOf[w.me.version],
         NEW i \in Listed(w.list), w.list[i].refc = 0
  PROVE  LET v == Rebuilt(w, i) IN Takes(c, w, v) /\ v.me.entry = i /\ v.begun = {i}
<1> DEFINE e == New(w.me, TRUE, w.list[i].place)
           me == [w.me EXCEPT !.entry = i]
           list == [w.list EXCEPT ![i] = e]
           v == [me |-> me, list |-> list, begun |-> {i}]
<1>1. Rebuilt(w, i) = v
  BY DEF Rebuilt
<1>2. /\ i \in EntryId /\ w.list[i].refc = Cardinality(Users(c, w, i))
      /\ w.list[i].place \in Nat
  BY DEF Ok, Entries
<1>3. EntryOK(e, "running") /\ Asked(w.me, e) /\ e.refc = 1
  BY <1>2, NewOK
<1>4. /\ me \in Downloads /\ me.entry = i /\ me.version = w.me.version
      /\ me.offset = w.me.offset /\ me.file = w.me.file /\ me = [w.me EXCEPT !.entry = me.entry]
  BY <1>2 DEF Ok, Downloads
<1>5. /\ Listed(list) = Listed(w.list) /\ list[i] = e
      /\ \A j \in Listed(w.list) : j # i => list[j] = w.list[j]
      /\ list = [j \in Listed(list) |-> list[j]]
  BY <1>2 DEF Listed, Ok
<1> HIDE DEF list, me, e
<1>6. Users(c, w, i) = {}
  BY <1>2, UsersFinite, FS_EmptySet
<1>7. \A j \in Listed(list) :
        EntryOK(list[j], Thread(v, j)) /\ list[j].refc = Cardinality(Users(c, v, j))
  <2>1. \A j \in Listed(w.list) :
          /\ w.list[j].refc = Cardinality(Users(c, w, j)) /\ j \in EntryId
          /\ EntryOK(w.list[j], worker[j])
    BY DEF Ok, Thread
  <2>2. /\ Cardinality(Users(c, v, i)) = Cardinality(Users(c, w, i)) + 1
        /\ \A j \in EntryId : j # i => Users(c, v, j) = Users(c, w, j)
    BY <1>2, <1>4, UserAdded
  <2>3. Cardinality(Users(c, v, i)) = 1
    BY <2>2, <1>6, FS_EmptySet
  <2>4. QED
    BY <2>1, <2>2, <2>3, <1>3, <1>5 DEF Thread
<1>8. Keeps(c, w, v)
  <2>1. ASSUME NEW d \in Clients \ {c}, client[d].entry # None
        PROVE  client[d].entry \in Listed(w.list) /\ client[d].entry # i
    <3>1. client[d].entry # i
      BY <1>6 DEF Users
    <3>2. QED
      BY <2>1, <3>1 DEF Ok, HasOK
  <2>2. QED
    BY <1>5, <2>1 DEF Keeps, Same
<1>9. \A d \in Clients \ {c} : HasOK(client[d], list)
  BY <1>8, OthersHave DEF Ok
<1>10. list \in [Listed(list) -> Entries]
  BY <1>5, <1>7 DEF EntryOK
<1>11. HasOK(me, list)
  BY <1>3, <1>4, <1>5 DEF HasOK, Asked
<1>12. Ok(c, v)
  BY <1>4, <1>5, <1>7, <1>9, <1>10, <1>11 DEF Ok
<1>13. QED
  BY <1>1, <1>4, <1>8, <1>12 DEF Takes

(* An entry that is compressed for the client is of what it asked for.     *)
LEMMA CompressedOK ==
  ASSUME NEW c \in Clients, NEW w, Ok(c, w), w.begun = {}, w.me.entry = None,
         w.me.file \in Files, w.me.size = SizeOf[w.me.version],
         NEW new \in EntryId \ Listed(w.list)
  PROVE  LET v == Compressed(w, new) IN Takes(c, w, v) /\ v.me.entry \in EntryId
<1> DEFINE same(d) == d.file = w.me.file /\ d.compbuf /\ d.offset = w.me.offset
           usable == {i \in Listed(w.list) :
                        /\ same(w.list[i])
                        /\ Current(w.list[i], w.me) \/ Reusable(i, w.list[i])}
           i == FirstOf(w.list, usable)
<1>1. CASE usable = {}
  <2>1. Compressed(w, new) = Added(w, new, TRUE)
    BY <1>1 DEF Compressed
  <2> HIDE DEF usable
  <2>2. \A compress \in BOOLEAN :
          LET v == Added(w, new, compress) IN Takes(c, w, v) /\ v.me.entry = new
    BY AddedOK
  <2>3. QED
    BY <2>1, <2>2
<1>2. CASE usable # {}
  <2>1. i \in usable
    <3>1. usable \in SUBSET DOMAIN w.list /\ \A j \in usable : w.list[j].place \in Nat
      BY DEF Ok, Entries, Listed
    <3> HIDE DEF usable
    <3>2. QED
      BY <1>2, <3>1, FirstIsOne
  <2>2. i \in Listed(w.list) /\ i \in EntryId /\ same(w.list[i])
    BY <2>1 DEF Ok
  <2>3. CASE Current(w.list[i], w.me)
    <3>1. Compressed(w, new) = Joined(w, i)
      BY <1>2, <2>3 DEF Compressed
    <3>2. Asked(w.me, w.list[i])
      BY <2>2, <2>3 DEF Asked, Current
    <3> HIDE DEF i
    <3>3. QED
      BY <2>2, <3>1, <3>2, JoinedOK
  <2>4. CASE ~Current(w.list[i], w.me)
    <3>1. Compressed(w, new) = Rebuilt(w, i)
      BY <1>2, <2>4 DEF Compressed
    <3>2. w.list[i].refc = 0
      BY <2>1, <2>4 DEF Reusable
    <3> HIDE DEF i
    <3>3. QED
      BY <2>2, <3>1, <3>2, RebuiltOK
  <2>5. QED
    BY <2>3, <2>4
<1>3. QED
  BY <1>1, <1>2

(* An entry that is read ahead may be one that is compressed.              *)
LEMMA ReadAheadOK ==
  ASSUME NEW c \in Clients, NEW w, Ok(c, w), w.begun = {}, w.me.entry = None,
         w.me.file \in Files, w.me.size = SizeOf[w.me.version],
         NEW new \in EntryId \ Listed(w.list), Precache # {}
  PROVE  LET v == ReadAhead(w, new)
         IN  v = w \/ (Takes(c, w, v) /\ v.me.entry \in EntryId)
<1> DEFINE covers == {i \in Listed(w.list) : /\ w.list[i].file = w.me.file
                                             /\ w.list[i].offset <= w.me.offset}
           i == FirstOf(w.list, covers)
<1>1. CASE covers = {}
  <2>1. ReadAhead(w, new) = Added(w, new, FALSE)
    BY <1>1 DEF ReadAhead
  <2> HIDE DEF covers
  <2>2. \A compress \in BOOLEAN :
          LET v == Added(w, new, compress) IN Takes(c, w, v) /\ v.me.entry = new
    BY AddedOK
  <2>3. QED
    BY <2>1, <2>2
<1>2. CASE covers # {}
  <2>1. i \in covers
    <3>1. covers \in SUBSET DOMAIN w.list /\ \A j \in covers : w.list[j].place \in Nat
      BY DEF Ok, Entries, Listed
    <3> HIDE DEF covers
    <3>2. QED
      BY <1>2, <3>1, FirstIsOne
  <2>2. i \in Listed(w.list) /\ i \in EntryId
    BY <2>1 DEF Ok
  <2>3. ReadAhead(w, new) = IF Done(i) THEN w ELSE Joined(w, i)
    BY <1>2 DEF ReadAhead
  <2> HIDE DEF i
  <2>4. QED
    BY <2>2, <2>3, JoinedOK
<1>3. QED
  BY <1>1, <1>2

----------------------------------------------------------------------------
(* The inductive invariant: the above for every client.                    *)
Inv ==
  /\ disk \in [Files -> Versions] /\ sending \in Clients \cup {None}
  /\ client \in [Clients -> Downloads]
  /\ worker \in [EntryId -> {"none", "running", "stored", "done"}]
  /\ \A c \in Clients : MeOK(client[c]) /\ HasOK(client[c], cache) /\ FreeHasNone(client[c])
  /\ Listed(cache) \subseteq EntryId /\ cache \in [Listed(cache) -> Entries]
  /\ \A i \in Listed(cache) : EntryOK(cache[i], worker[i])
  /\ CountIsExact
  /\ WorkerHasItsEntry

LEMMA WithOK ==
  ASSUME Inv, NEW c \in Clients
  PROVE  /\ Ok(c, With(c)) /\ With(c).begun = {} /\ MeOK(With(c).me)
         /\ With(c).me = client[c] /\ With(c).list = cache
<1> DEFINE w == [me |-> client[c], list |-> cache, begun |-> {}]
<1>1. \A i : Users(c, w, i) = {d \in Clients : client[d].entry = i} /\ Thread(w, i) = worker[i]
  BY DEF Users, Thread
<1>2. Ok(c, w)
  BY <1>1 DEF Ok, Inv, CountIsExact
<1>3. QED
  BY <1>2 DEF With, Inv

(* What was worked out for one client becomes the next state.              *)
LEMMA BecameOK ==
  ASSUME Inv, NEW c \in Clients, NEW v, Ok(c, v), MeOK(v.me), FreeHasNone(v.me), Became(c, v),
         UNCHANGED disk, sending' \in Clients \cup {None}
  PROVE  Inv'
<1>1. /\ client' = [client EXCEPT ![c] = v.me] /\ cache' = v.list
      /\ worker' = [i \in EntryId |-> IF i \in v.begun THEN "running" ELSE worker[i]]
      /\ \A i \in Listed(cache) \ Listed(cache') : Done(i)
  BY DEF Became, WaitThread
<1>2. client' \in [Clients -> Downloads] /\ client'[c] = v.me
      /\ \A d \in Clients \ {c} : client'[d] = client[d]
  BY <1>1 DEF Inv, MeOK
<1>3. \A i \in EntryId : worker'[i] = Thread(v, i)
  BY <1>1 DEF Thread
<1>4. worker' \in [EntryId -> {"none", "running", "stored", "done"}]
  BY <1>1 DEF Inv
<1>5. \A d \in Clients :
        MeOK(client'[d]) /\ HasOK(client'[d], cache') /\ FreeHasNone(client'[d])
  BY <1>1, <1>2 DEF Inv, Ok
<1>6. \A i \in Listed(cache') : EntryOK(cache'[i], worker'[i]) /\ i \in EntryId
  BY <1>1, <1>3 DEF Ok
<1>7. CountIsExact'
  <2>1. \A i : Users(c, v, i) = {d \in Clients : client'[d].entry = i}
    BY <1>2 DEF Users
  <2>2. QED
    BY <1>1, <2>1 DEF CountIsExact, Ok
<1>8. WorkerHasItsEntry'
  <2>1. ASSUME NEW i \in EntryId, worker'[i] \in {"running", "stored"} PROVE i \in Listed(cache')
    <3>1. CASE i \in v.begun
      BY <3>1, <1>1 DEF Ok
    <3>2. CASE i \notin v.begun
      <4>1. worker[i] \in {"running", "stored"}
        BY <3>2, <2>1, <1>1
      <4>2. i \in Listed(cache) /\ ~Done(i)
        BY <4>1 DEF Inv, WorkerHasItsEntry, Done
      <4>3. QED
        BY <4>2, <1>1
    <3>3. QED
      BY <3>1, <3>2
  <2>2. QED
    BY <2>1 DEF WorkerHasItsEntry
<1>9. Listed(cache') \subseteq EntryId /\ cache' \in [Listed(cache') -> Entries]
  BY <1>1 DEF Ok
<1>10. QED
  BY <1>2, <1>4, <1>5, <1>6, <1>7, <1>8, <1>9 DEF Inv, Listed

(* A request for a file: it is taken from the cache, or started at once,   *)
(* or waits for a worker that compresses the whole of it.                  *)
LEMMA BeginDownloadIs ==
  ASSUME Inv, NEW c \in Clients, NEW f \in Files, NEW offset \in Offsets, BeginDownload(c, f, offset)
  PROVE  \E v : /\ Ok(c, v) /\ MeOK(v.me) /\ FreeHasNone(v.me) /\ Became(c, v)
                /\ Keeps(c, With(c), v)
                /\ All(With(c), v) \/ v.me.size = SizeOf[v.me.version]
<1> DEFINE closed == Close(With(c))
           size == SizeOf[disk[f]]
<1>1. Leads(c, With(c), closed) /\ closed.me.entry = None /\ ~closed.me.download
  BY WithOK, CloseOK DEF MeOK
<1>2. size \in Nat /\ size > 0 /\ offset \in Nat /\ disk[f] \in Versions
  BY SizesArePositive DEF Inv, Versions
<1>3. closed = [me |-> closed.me, list |-> closed.list, begun |-> {}] /\ closed.me \in Downloads
      /\ closed.list = [i \in Listed(closed.list) |-> closed.list[i]]
  BY <1>1 DEF Leads, Ok
<1>4. \A i \in Listed(closed.list) :
        EntryOK(closed.list[i], Thread(closed, i)) /\ Same(closed.list[i], closed.list[i])
  BY <1>1 DEF Leads, Ok, Same
<1>5. closed.me.state = "cs_spawning"
  BY <1>1, WithOK DEF Leads, BeginDownload
<1>6. CASE offset >= size
  <2> DEFINE me == [closed.me EXCEPT !.size = size]
             v == [me |-> me, list |-> closed.list, begun |-> {}]
  <2>1. Became(c, v)
    <3>1. Put(closed, me) = v
      BY <1>3, PutIs
    <3>2. QED
      BY <1>6, <3>1 DEF BeginDownload
  <2>2. me \in Downloads /\ me.entry = None /\ ~me.download
    <3> HIDE DEF size, closed
    <3>1. QED
      BY <1>1, <1>2, <1>3 DEF Downloads
  <2> HIDE DEF me, closed
  <2>3. Ok(c, v) /\ All(closed, v) /\ Keeps(c, closed, v)
    BY <1>1, <1>3, <1>4, <2>2, Alike DEF Leads
  <2>4. MeOK(v.me) /\ FreeHasNone(v.me)
    BY <2>2 DEF MeOK, FreeHasNone
  <2>5. All(With(c), v) /\ Keeps(c, With(c), v)
    BY <1>1, <2>3, Transitive DEF Leads
  <2>6. QED
    BY <2>1, <2>3, <2>4, <2>5
<1>7. CASE ~(offset >= size)
  <2> DEFINE free == FreeIds(closed.list)
             new == Min(free)
             me == [closed.me EXCEPT !.download = TRUE, !.file = f, !.version = disk[f],
                                     !.size = size, !.offset = offset,
                                     !.pos = offset, !.count = offset]
             o == [me |-> me, list |-> closed.list, begun |-> {}]
             w == Cached(o, c, new)
  <2>1. Opened(closed, f, offset) = o
    BY <1>3, PutIs DEF Opened
  <2>2. /\ free # {}
        /\ Became(c, IF w.me.entry = None THEN Start(w)
                     ELSE IF Ready(w) THEN StartFinished(w) ELSE w)
    BY <1>7, <2>1 DEF BeginDownload
  <2>3. new \in EntryId \ Listed(closed.list)
    <3>1. free \subseteq EntryId \ Listed(closed.list)
      BY DEF FreeIds
    <3>2. EntryId \subseteq Nat
      BY SizesArePositive DEF EntryId
    <3> HIDE DEF free
    <3>3. QED
      BY <2>2, <3>1, <3>2, MinIsLeast
  <2>4. /\ me \in Downloads /\ me.entry = None /\ me.download /\ me.file = f
        /\ me.version = disk[f] /\ me.size = size /\ me.pos = offset /\ me.count = offset
        /\ me.state = "cs_spawning"
    <3> HIDE DEF size, closed
    <3>1. QED
      BY <1>1, <1>2, <1>3, <1>5 DEF Downloads
  <2>5. MeOK(me)
    BY <1>2, <1>7, <2>4 DEF MeOK
  <2> HIDE DEF me, closed, new, free
  <2>6. Ok(c, o) /\ All(closed, o) /\ Keeps(c, closed, o)
    BY <1>1, <1>3, <1>4, <2>4, Alike DEF Leads
  <2>7. All(With(c), o) /\ Keeps(c, With(c), o)
    BY <1>1, <2>6, Transitive DEF Leads
  <2>8. w = o \/ (Takes(c, o, w) /\ w.me.entry \in EntryId)
    <3>1. o.me.size = SizeOf[o.me.version] /\ o.me.file \in Files
      BY <2>4
    <3>2. Takes(c, o, Compressed(o, new)) /\ Compressed(o, new).me.entry \in EntryId
      BY <2>3, <2>4, <2>6, <3>1, CompressedOK
    <3>3. CASE o.me.file \in Precache
      <4>1. \/ ReadAhead(o, new) = o
            \/ Takes(c, o, ReadAhead(o, new)) /\ ReadAhead(o, new).me.entry \in EntryId
        BY <2>3, <2>4, <2>6, <3>1, <3>3, ReadAheadOK
      <4>2. QED
        BY <3>2, <4>1 DEF Cached
    <3>4. CASE o.me.file \notin Precache
      BY <3>2, <3>4 DEF Cached
    <3>5. QED
      BY <3>3, <3>4
  <2>9. /\ Ok(c, w) /\ Keeps(c, o, w) /\ w.begun \subseteq {w.me.entry} /\ MeOK(w.me)
        /\ w.me.state = "cs_spawning" /\ w.me.size = SizeOf[w.me.version]
        /\ w.begun = {} => All(o, w)
    <3>1. CASE w = o
      <4>1. All(o, o) /\ Keeps(c, o, o)
        BY <2>6 DEF All, Keeps, Same, Ok, HasOK
      <4> HIDE DEF w
      <4>2. QED
        BY <2>4, <2>5, <2>6, <3>1, <4>1
    <3>2. CASE Takes(c, o, w) /\ w.me.entry \in EntryId
      <4>1. w.me = [me EXCEPT !.entry = w.me.entry] /\ w.me \in Downloads
        BY <3>2 DEF Takes, Ok
      <4>2. /\ w.me.state = me.state /\ w.me.size = me.size /\ w.me.version = me.version
            /\ w.me.download = me.download /\ w.me.pos = me.pos /\ w.me.count = me.count
            /\ w.me.file = me.file
        BY <4>1, <2>4 DEF Downloads
      <4>3. MeOK(w.me)
        BY <2>5, <2>4, <4>1, <4>2 DEF MeOK
      <4>4. QED
        BY <2>4, <3>2, <4>2, <4>3 DEF Takes
    <3>3. QED
      BY <2>8, <3>1, <3>2
  <2>10. Keeps(c, With(c), w) /\ (w.begun = {} => All(With(c), w))
    <3>1. \A u, v : Keeps(c, With(c), u) /\ Keeps(c, u, v) => Keeps(c, With(c), v)
      <4>1. \A e, g, h : Same(e, g) /\ Same(g, h) => Same(e, h)
        BY DEF Same
      <4>2. QED
        BY <4>1 DEF Keeps
    <3>2. QED
      BY <2>7, <2>9, <3>1, Transitive
  <2> HIDE DEF w
  <2>11. CASE w.me.entry = None
    <3>1. w.begun = {} /\ w.me.download
      BY <2>8, <2>9, <2>4, <2>11, NoneIsNoEntry
    <3>2. Leads(c, w, Start(w)) /\ Became(c, Start(w))
      BY <2>2, <2>9, <2>11, <3>1, StartOK
    <3>3. All(With(c), Start(w)) /\ Keeps(c, With(c), Start(w)) /\ FreeHasNone(Start(w).me)
      BY <2>9, <2>10, <3>1, <3>2, Transitive DEF Leads, FreeHasNone
    <3>4. QED
      BY <3>2, <3>3 DEF Leads
  <2>12. CASE w.me.entry # None /\ Ready(w)
    <3>1. w.begun = {} /\ Done(w.me.entry)
      BY <2>9, <2>12 DEF Ready
    <3>2. Leads(c, w, StartFinished(w)) /\ Became(c, StartFinished(w))
      BY <2>2, <2>9, <2>12, <3>1, StartFinishedOK
    <3>3. /\ All(With(c), StartFinished(w)) /\ Keeps(c, With(c), StartFinished(w))
          /\ FreeHasNone(StartFinished(w).me)
      BY <2>9, <2>10, <3>1, <3>2, Transitive DEF Leads, FreeHasNone
    <3>4. QED
      BY <3>2, <3>3 DEF Leads
  <2>13. CASE w.me.entry # None /\ ~Ready(w)
    <3>1. Became(c, w)
      BY <2>2, <2>13
    <3>2. QED
      BY <3>1, <2>9, <2>10 DEF FreeHasNone
  <2>14. QED
    BY <2>11, <2>12, <2>13
<1>8. QED
  BY <1>6, <1>7

(* A block of a download is asked for.                                     *)
LEMMA NextPushIs ==
  ASSUME Inv, NEW c \in Clients, NEW p \in 0 .. client[c].size - 1, NextPushDownload(c, p)
  PROVE  \E v : Leads(c, With(c), v) /\ FreeHasNone(v.me) /\ Became(c, v)
<1> DEFINE me == [client[c] EXCEPT !.pos = p]
           s == [me |-> me, list |-> cache, begun |-> {}]
<1>1. client[c] \in Downloads /\ client[c].download /\ MeOK(client[c])
      /\ client[c].state # "cs_free" /\ p \in Nat /\ p < client[c].size
  BY DEF Inv, NextPushDownload, Serves, Downloads
<1>2. Became(c, Block(s))
  <2>1. Put(With(c), me) = s
    BY DEF Put, With
  <2>2. QED
    BY <2>1 DEF NextPushDownload
<1>3. /\ me \in Downloads /\ me.entry = client[c].entry /\ me.version = client[c].version
      /\ me.offset = client[c].offset /\ me.file = client[c].file /\ me.download
      /\ me.state = client[c].state /\ me.size = client[c].size /\ me.pos = p
      /\ me.count = client[c].count
  BY <1>1 DEF Downloads
<1>4. /\ Ok(c, With(c)) /\ With(c).me = client[c] /\ With(c).list = cache
      /\ With(c).begun = {} /\ cache = [i \in Listed(cache) |-> cache[i]]
  BY WithOK DEF With, Inv
<1> HIDE DEF me
<1>5. Ok(c, s) /\ All(With(c), s) /\ Keeps(c, With(c), s)
  <2>1. \A i \in Listed(cache) : EntryOK(cache[i], Thread(With(c), i)) /\ Same(cache[i], cache[i])
    BY <1>4 DEF Ok, Same
  <2>2. QED
    BY <1>3, <1>4, <2>1, Alike
<1>6. Leads(c, s, Block(s))
  BY <1>1, <1>3, <1>5, BlockOK DEF MeOK
<1>7. Leads(c, With(c), Block(s))
  <2> DEFINE v == Block(s)
  <2>1. /\ Ok(c, v) /\ MeOK(v.me) /\ All(s, v) /\ Keeps(c, s, v)
        /\ v.begun = {} /\ v.me.state = me.state
    BY <1>6 DEF Leads
  <2> HIDE DEF v, s
  <2>2. All(With(c), v) /\ Keeps(c, With(c), v)
    BY <1>5, <2>1, Transitive
  <2>3. v.me.state = With(c).me.state
    BY <1>3, <1>4, <2>1
  <2>4. Leads(c, With(c), v)
    BY <2>1, <2>2, <2>3 DEF Leads
  <2>5. QED
    BY <2>4 DEF v
<1>8. FreeHasNone(Block(s).me)
  BY <1>1, <1>3, <1>6 DEF Leads, FreeHasNone
<1>9. QED
  BY <1>2, <1>7, <1>8

(* A download whose entry is ready is started by the frame.                *)
LEMMA SendIs ==
  ASSUME Inv, NEW c \in Clients, Send(c)
  PROVE  \/ UNCHANGED <<client, cache, worker>>
         \/ \E v : Leads(c, With(c), v) /\ FreeHasNone(v.me) /\ Became(c, v)
<1>1. CASE /\ client[c].state \notin {"cs_free", "cs_spawned"}
           /\ Waits(client[c], cache) /\ Ready(With(c))
  <2> DEFINE v == StartFinished(With(c))
  <2>1. Became(c, v)
    BY <1>1 DEF Send
  <2>2. With(c).me.entry # None /\ Done(With(c).me.entry)
    BY <1>1, WithOK DEF Ready, Waits
  <2>3. Leads(c, With(c), v)
    BY <2>2, WithOK, StartFinishedOK
  <2> HIDE DEF v
  <2>4. FreeHasNone(v.me)
    BY <1>1, <2>3, WithOK DEF Leads, FreeHasNone
  <2>5. QED
    BY <2>1, <2>3, <2>4
<1>2. CASE ~(/\ client[c].state \notin {"cs_free", "cs_spawned"}
             /\ Waits(client[c], cache) /\ Ready(With(c)))
  BY <1>2 DEF Send
<1>3. QED
  BY <1>1, <1>2

(* The download of a client is closed, and its state changes.              *)
LEMMA ClosedIs ==
  ASSUME Inv, NEW c \in Clients, NEW state \in {"cs_free", "cs_spawned"}, NEW size \in Nat,
         Became(c, Put(Close(With(c)), [Close(With(c)).me EXCEPT !.state = state, !.size = size]))
  PROVE  \E v : /\ Ok(c, v) /\ MeOK(v.me) /\ FreeHasNone(v.me) /\ Became(c, v)
                /\ All(With(c), v) /\ Keeps(c, With(c), v)
<1> DEFINE closed == Close(With(c))
           me == [closed.me EXCEPT !.state = state, !.size = size]
           v == [me |-> me, list |-> closed.list, begun |-> {}]
<1>1. Leads(c, With(c), closed) /\ closed.me.entry = None /\ ~closed.me.download
  BY WithOK, CloseOK DEF MeOK
<1>2. closed = [me |-> closed.me, list |-> closed.list, begun |-> {}] /\ closed.me \in Downloads
      /\ closed.list = [i \in Listed(closed.list) |-> closed.list[i]]
  BY <1>1 DEF Leads, Ok
<1>3. \A i \in Listed(closed.list) :
        EntryOK(closed.list[i], Thread(closed, i)) /\ Same(closed.list[i], closed.list[i])
  BY <1>1 DEF Leads, Ok, Same
<1>4. Became(c, v)
  <2>1. Put(closed, me) = v
    BY <1>2, PutIs
  <2>2. QED
    BY <2>1
<1>5. me \in Downloads /\ me.entry = None /\ ~me.download
  <2> HIDE DEF closed
  <2>1. QED
    BY <1>1, <1>2 DEF Downloads
<1> HIDE DEF me, closed
<1>6. Ok(c, v) /\ All(closed, v) /\ Keeps(c, closed, v)
  BY <1>1, <1>2, <1>3, <1>5, Alike DEF Leads
<1>7. MeOK(v.me) /\ FreeHasNone(v.me)
  BY <1>5 DEF MeOK, FreeHasNone
<1>8. All(With(c), v) /\ Keeps(c, With(c), v)
  BY <1>1, <1>6, Transitive DEF Leads
<1>9. QED
  BY <1>4, <1>6, <1>7, <1>8

LEMMA BeginIs ==
  ASSUME Inv, NEW c \in Clients, Begin(c)
  PROVE  \E v : /\ Ok(c, v) /\ MeOK(v.me) /\ FreeHasNone(v.me) /\ Became(c, v)
                /\ All(With(c), v) /\ Keeps(c, With(c), v)
BY ClosedIs DEF Begin

LEMMA CleanIs ==
  ASSUME Inv, NEW c \in Clients, Clean(c)
  PROVE  \E v : /\ Ok(c, v) /\ MeOK(v.me) /\ FreeHasNone(v.me) /\ Became(c, v)
                /\ All(With(c), v) /\ Keeps(c, With(c), v)
<1> DEFINE closed == Close(With(c))
<1>1. closed.me \in Downloads
  BY WithOK, CloseOK DEF MeOK, Leads, Ok
<1>2. [closed.me EXCEPT !.state = "cs_free"] =
        [closed.me EXCEPT !.state = "cs_free", !.size = closed.me.size]
      /\ closed.me.size \in Nat
  <2> HIDE DEF closed
  <2>1. QED
    BY <1>1 DEF Downloads
<1>3. Became(c, Put(closed, [closed.me EXCEPT !.state = "cs_free"]))
  BY DEF Clean
<1>4. QED
  BY <1>2, <1>3, ClosedIs

----------------------------------------------------------------------------
(* The steps that do not concern one download.                             *)

LEMMA InitOK == Init => Inv
<1> SUFFICES ASSUME Init PROVE Inv
  OBVIOUS
<1>1. Unused \in Downloads /\ Unused.entry = None /\ ~Unused.download
  BY SizesArePositive DEF Unused, Downloads, Versions
<1>2. Listed(cache) = {} /\ cache \in [Listed(cache) -> Entries]
  BY DEF Init, Listed
<1>3. \A c \in Clients : client[c] = Unused
  BY DEF Init
<1>4. \A c \in Clients : MeOK(client[c]) /\ HasOK(client[c], cache) /\ FreeHasNone(client[c])
  BY <1>1, <1>3 DEF MeOK, HasOK, FreeHasNone
<1>5. disk \in [Files -> Versions] /\ sending = None
  BY SizesArePositive DEF Init, Versions
<1>6. QED
  BY <1>1, <1>2, <1>4, <1>5 DEF Init, Inv, CountIsExact, WorkerHasItsEntry

(* A client that changes while it keeps its entry, or has none.            *)
LEMMA ClientsOK ==
  ASSUME Inv, client' \in [Clients -> Downloads], UNCHANGED <<disk, cache, worker, sending>>,
         \A c \in Clients : /\ MeOK(client'[c]) /\ FreeHasNone(client'[c])
                            /\ client'[c].entry = client[c].entry
                            /\ client'[c].entry # None =>
                                 /\ client'[c].version = client[c].version
                                 /\ client'[c].offset = client[c].offset
                                 /\ client'[c].file = client[c].file
  PROVE  Inv'
<1>1. \A c \in Clients : HasOK(client'[c], cache')
  BY DEF Inv, HasOK, Asked
<1>2. CountIsExact'
  <2>1. \A i : {c \in Clients : client'[c].entry = i} = {c \in Clients : client[c].entry = i}
    OBVIOUS
  <2>2. QED
    BY <2>1 DEF Inv, CountIsExact
<1>3. QED
  BY <1>1, <1>2 DEF Inv, WorkerHasItsEntry

LEMMA OneClientOK ==
  ASSUME Inv, UNCHANGED <<disk, cache, worker, sending>>, NEW c \in Clients, NEW me \in Downloads,
         client' = [client EXCEPT ![c] = me], MeOK(me), FreeHasNone(me),
         me.entry = client[c].entry,
         me.entry # None => /\ me.version = client[c].version
                            /\ me.offset = client[c].offset /\ me.file = client[c].file
  PROVE  Inv'
<1>1. client' \in [Clients -> Downloads] /\ client'[c] = me
      /\ \A d \in Clients \ {c} : client'[d] = client[d]
  BY DEF Inv
<1>2. \A d \in Clients : MeOK(client[d]) /\ FreeHasNone(client[d])
  BY DEF Inv
<1>3. QED
  BY <1>1, <1>2, ClientsOK

LEMMA ConnectOK == ASSUME Inv, NEW c \in Clients, Connect(c) PROVE Inv'
<1> DEFINE me == [Unused EXCEPT !.state = "cs_connected"]
<1>1. me \in Downloads /\ me.entry = None /\ ~me.download
  BY SizesArePositive DEF Unused, Downloads, Versions
<1>2. client[c].entry = None /\ client' = [client EXCEPT ![c] = me]
      /\ UNCHANGED <<disk, cache, worker, sending>>
  BY DEF Connect, Inv, FreeHasNone
<1> HIDE DEF me
<1>3. MeOK(me) /\ FreeHasNone(me)
  BY <1>1 DEF MeOK, FreeHasNone
<1>4. QED
  BY <1>1, <1>2, <1>3, OneClientOK

LEMMA RestartOK == ASSUME Inv, NEW c \in Clients, Restart(c) PROVE Inv'
<1> DEFINE me == [client[c] EXCEPT !.state = "cs_spawning", !.current = TRUE]
<1>1. client[c] \in Downloads /\ MeOK(client[c])
  BY DEF Inv
<1>2. /\ me \in Downloads /\ me.entry = client[c].entry /\ me.version = client[c].version
      /\ me.offset = client[c].offset /\ me.file = client[c].file /\ me.state = "cs_spawning"
      /\ me.download = client[c].download /\ me.pos = client[c].pos
      /\ me.count = client[c].count /\ me.size = client[c].size
  BY <1>1 DEF Downloads
<1>3. client' = [client EXCEPT ![c] = me] /\ UNCHANGED <<disk, cache, worker, sending>>
  BY DEF Restart, Inv
<1> HIDE DEF me
<1>4. MeOK(me) /\ FreeHasNone(me)
  BY <1>1, <1>2 DEF MeOK, FreeHasNone
<1>5. QED
  BY <1>2, <1>3, <1>4, OneClientOK

LEMMA DropOK == ASSUME Inv, NEW c \in Clients, Drop(c) PROVE Inv'
<1> DEFINE me == [client[c] EXCEPT !.state = "cs_zombie"]
<1>1. client[c] \in Downloads /\ MeOK(client[c])
  BY DEF Inv
<1>2. /\ me \in Downloads /\ me.entry = client[c].entry /\ me.version = client[c].version
      /\ me.offset = client[c].offset /\ me.file = client[c].file /\ me.state = "cs_zombie"
      /\ me.download = client[c].download /\ me.pos = client[c].pos
      /\ me.count = client[c].count /\ me.size = client[c].size
  BY <1>1 DEF Downloads
<1>3. client' = [client EXCEPT ![c] = me] /\ UNCHANGED <<disk, cache, worker, sending>>
  BY DEF Drop, Inv
<1> HIDE DEF me
<1>4. MeOK(me) /\ FreeHasNone(me)
  BY <1>1, <1>2 DEF MeOK, FreeHasNone
<1>5. QED
  BY <1>2, <1>3, <1>4, OneClientOK

(* Entries that keep their users and data, and those of nobody that go.    *)
LEMMA CacheOK ==
  ASSUME Inv, UNCHANGED disk, sending' \in Clients \cup {None},
         client' \in [Clients -> Downloads],
         worker' \in [EntryId -> {"none", "running", "stored", "done"}],
         cache' = [i \in Listed(cache') |-> cache'[i]], Listed(cache') \subseteq Listed(cache),
         \A c \in Clients : /\ MeOK(client'[c]) /\ FreeHasNone(client'[c])
                            /\ client'[c].entry = client[c].entry
                            /\ client'[c].version = client[c].version
                            /\ client'[c].offset = client[c].offset
                            /\ client'[c].file = client[c].file,
         \A i \in Listed(cache') :
           /\ EntryOK(cache'[i], worker'[i]) /\ cache'[i].refc = cache[i].refc
           /\ cache'[i].mtime = cache[i].mtime /\ cache'[i].offset = cache[i].offset
           /\ cache'[i].file = cache[i].file /\ (cache'[i].compbuf => cache[i].compbuf),
         \A i \in Listed(cache) \ Listed(cache') : cache[i].refc = 0,
         \A i \in EntryId : worker'[i] \in {"running", "stored"} => i \in Listed(cache')
  PROVE  Inv'
<1>1. Listed(cache') \subseteq EntryId /\ cache' \in [Listed(cache') -> Entries]
  BY DEF Inv, EntryOK
<1>2. \A i : {c \in Clients : client'[c].entry = i} = {c \in Clients : client[c].entry = i}
  OBVIOUS
<1>3. CountIsExact'
  BY <1>2 DEF Inv, CountIsExact, Listed
<1>4. ASSUME NEW c \in Clients PROVE HasOK(client'[c], cache')
  <2>1. HasOK(client[c], cache)
    BY DEF Inv
  <2>2. CASE client[c].entry = None
    BY <2>2 DEF HasOK
  <2>3. CASE client[c].entry # None
    <3> DEFINE i == client[c].entry
               users == {d \in Clients : client[d].entry = i}
    <3>1. i \in Listed(cache) /\ cache[i].refc = Cardinality(users)
      BY <2>1, <2>3 DEF HasOK, Inv, CountIsExact
    <3>2. IsFiniteSet(users) /\ users # {}
      <4>1. users = Users(c, With(c), i)
        BY WithOK DEF Users
      <4>2. IsFiniteSet(Users(c, With(c), i)) /\ c \in users
        BY UsersFinite
      <4> HIDE DEF users
      <4>3. QED
        BY <4>1, <4>2
    <3>3. cache[i].refc # 0
      BY <3>1, <3>2, FS_EmptySet
    <3>4. i \in Listed(cache')
      BY <3>1, <3>3
    <3>5. QED
      BY <3>4, <2>1, <2>3 DEF HasOK, Asked
  <2>4. QED
    BY <2>2, <2>3
<1>5. QED
  BY <1>1, <1>3, <1>4 DEF Inv, WorkerHasItsEntry, Listed

LEMMA KeptOK ==
  ASSUME Inv, UNCHANGED client
  PROVE  /\ client' \in [Clients -> Downloads]
         /\ \A c \in Clients : MeOK(client'[c]) /\ FreeHasNone(client'[c])
BY DEF Inv

LEMMA PollOK == ASSUME Inv, Poll PROVE Inv'
<1>1. /\ sending' = 1 /\ UNCHANGED <<disk, client, worker>>
      /\ cache' = [i \in Listed(cache) |-> Finish(i, cache[i])]
  BY DEF Poll
<1>2. 1 \in Clients
  BY SizesArePositive DEF Clients
<1>3. Listed(cache') = Listed(cache) /\ cache' = [i \in Listed(cache') |-> cache'[i]]
  BY <1>1 DEF Listed
<1>4. \A i \in Listed(cache) :
        /\ EntryOK(cache'[i], worker[i]) /\ Same(cache[i], cache'[i])
        /\ cache'[i].refc = cache[i].refc
  <2>1. TAKE i \in Listed(cache)
  <2>2. EntryOK(cache[i], worker[i]) /\ cache'[i] = Finish(i, cache[i])
    BY <1>1 DEF Inv
  <2>3. CASE Done(i)
    BY <2>2, <2>3, FinishOK
  <2>4. CASE ~Done(i)
    <3>1. cache'[i] = cache[i]
      BY <2>2, <2>4 DEF Finish
    <3>2. QED
      BY <2>2, <3>1 DEF Same
  <2>5. QED
    BY <2>3, <2>4
<1>5. \A i \in EntryId : worker[i] \in {"running", "stored"} => i \in Listed(cache)
  BY DEF Inv, WorkerHasItsEntry
<1>6. worker \in [EntryId -> {"none", "running", "stored", "done"}]
  BY DEF Inv
<1>7. QED
  BY <1>1, <1>2, <1>3, <1>4, <1>5, <1>6, KeptOK, CacheOK DEF Same

LEMMA SendOK == ASSUME Inv, NEW c \in Clients, Send(c) PROVE Inv'
<1>1. UNCHANGED disk /\ sending' \in Clients \cup {None}
  BY SizesArePositive DEF Send, Clients
<1>2. CASE UNCHANGED <<client, cache, worker>>
  BY <1>1, <1>2 DEF Inv, CountIsExact, WorkerHasItsEntry
<1>3. CASE \E v : Leads(c, With(c), v) /\ FreeHasNone(v.me) /\ Became(c, v)
  BY <1>1, <1>3, BecameOK DEF Leads
<1>4. QED
  BY <1>2, <1>3, SendIs

(* What a worker stores is less than what it read.                         *)
LEMMA StoreOK == ASSUME Inv, NEW i \in EntryId, Store(i) PROVE Inv'
<1>1. worker[i] = "running" /\ i \in Listed(cache)
      /\ worker' = [worker EXCEPT ![i] = "stored"] /\ UNCHANGED <<disk, client, sending>>
  BY DEF Store
<1>2. PICK n \in IF cache[i].compbuf THEN 0 .. cache[i].size - cache[i].offset - 1 ELSE {0} :
        cache' = [cache EXCEPT ![i].compsize = n]
  BY DEF Store
<1>3. EntryOK(cache[i], "running") /\ cache[i] \in Entries
  BY <1>1 DEF Inv
<1>4. n \in Nat /\ (~cache[i].compbuf => n = 0) /\ (cache[i].compbuf => n < cache[i].size)
  BY <1>2, <1>3 DEF Entries
<1>5. /\ Listed(cache') = Listed(cache) /\ cache' = [j \in Listed(cache') |-> cache'[j]]
      /\ cache'[i] = [cache[i] EXCEPT !.compsize = n]
      /\ \A j \in Listed(cache) : j # i => cache'[j] = cache[j]
  BY <1>1, <1>2 DEF Listed, Inv
<1>6. EntryOK(cache'[i], "stored") /\ cache'[i].refc = cache[i].refc
      /\ cache'[i].mtime = cache[i].mtime /\ cache'[i].offset = cache[i].offset
      /\ cache'[i].file = cache[i].file /\ cache'[i].compbuf = cache[i].compbuf
  BY <1>3, <1>4, <1>5 DEF EntryOK, Entries
<1>7. worker' \in [EntryId -> {"none", "running", "stored", "done"}]
      /\ worker'[i] = "stored" /\ \A j \in EntryId : j # i => worker'[j] = worker[j]
  BY <1>1 DEF Inv
<1>8. \A j \in Listed(cache) : EntryOK(cache[j], worker[j]) /\ j \in EntryId
  BY DEF Inv
<1>9. \A j \in EntryId : worker[j] \in {"running", "stored"} => j \in Listed(cache)
  BY DEF Inv, WorkerHasItsEntry
<1>10. \A j \in Listed(cache') :
         /\ EntryOK(cache'[j], worker'[j]) /\ cache'[j].refc = cache[j].refc
         /\ cache'[j].mtime = cache[j].mtime /\ cache'[j].offset = cache[j].offset
         /\ cache'[j].file = cache[j].file /\ (cache'[j].compbuf => cache[j].compbuf)
  BY <1>5, <1>6, <1>7, <1>8
<1>11. \A j \in EntryId : worker'[j] \in {"running", "stored"} => j \in Listed(cache')
  BY <1>1, <1>5, <1>7, <1>9
<1>12. sending \in Clients \cup {None}
  BY DEF Inv
<1>13. QED
  BY <1>1, <1>5, <1>7, <1>10, <1>11, <1>12, KeptOK, CacheOK

LEMMA ExitOK == ASSUME Inv, NEW i \in EntryId, Exit(i) PROVE Inv'
<1>1. worker[i] = "stored" /\ worker' = [worker EXCEPT ![i] = "done"]
      /\ UNCHANGED <<disk, client, cache, sending>>
  BY DEF Exit
<1>2. worker' \in [EntryId -> {"none", "running", "stored", "done"}]
      /\ worker'[i] = "done" /\ \A j \in EntryId : j # i => worker'[j] = worker[j]
  BY <1>1 DEF Inv
<1>3. \A j \in Listed(cache) : EntryOK(cache[j], worker'[j])
  BY <1>2 DEF Inv, EntryOK
<1>4. QED
  BY <1>1, <1>2, <1>3 DEF Inv, CountIsExact, WorkerHasItsEntry

(* Entries that nobody refers to are cleared.                              *)
LEMMA ClearOK ==
  ASSUME Inv, Clear, UNCHANGED <<disk, worker, sending>>, client' \in [Clients -> Downloads],
         \A c \in Clients : /\ MeOK(client'[c]) /\ FreeHasNone(client'[c])
                            /\ client'[c].entry = client[c].entry
                            /\ client'[c].version = client[c].version
                            /\ client'[c].offset = client[c].offset
                            /\ client'[c].file = client[c].file
  PROVE  Inv' /\ \A i \in Listed(cache') : i \in Listed(cache) /\ Same(cache[i], cache'[i])
<1> DEFINE S == {i \in Listed(cache) : cache[i].refc # 0}
<1>1. cache' = Only(cache, S) /\ \A i \in Listed(cache) \ Listed(cache') : Done(i)
  BY DEF Clear, Cleared, WaitThread
<1>2. Listed(cache') = S /\ cache' = [i \in Listed(cache') |-> cache'[i]]
  BY <1>1 DEF Listed, Only
<1>3. \A i \in S :
        /\ cache'[i] \in Entries /\ Same(cache[i], cache'[i])
        /\ cache'[i].finished = cache[i].finished /\ cache'[i].refc = cache[i].refc
        /\ cache'[i].size = cache[i].size /\ cache'[i].compbuf = cache[i].compbuf
  <2>1. S \in SUBSET EntryId /\ S \subseteq DOMAIN cache /\ \A i \in S : cache[i] \in Entries
    BY DEF Inv, Listed
  <2> HIDE DEF S
  <2>2. QED
    BY <1>1, <2>1, OnlyKeeps
<1>4. \A i \in Listed(cache) : EntryOK(cache[i], worker[i])
  BY DEF Inv
<1>5. \A i \in S : EntryOK(cache'[i], worker[i])
  BY <1>3, <1>4 DEF EntryOK, Same
<1>6. \A i \in EntryId : worker[i] \in {"running", "stored"} => i \in Listed(cache')
  BY <1>1 DEF Inv, WorkerHasItsEntry, Done
<1>7. /\ worker \in [EntryId -> {"none", "running", "stored", "done"}]
      /\ sending \in Clients \cup {None}
  BY DEF Inv
<1>8. \A i \in Listed(cache) \ Listed(cache') : cache[i].refc = 0
  BY <1>2
<1>9. S \subseteq Listed(cache)
  OBVIOUS
<1> HIDE DEF S
<1>10. Inv'
  BY <1>2, <1>3, <1>5, <1>6, <1>7, <1>8, <1>9, CacheOK DEF Same
<1>11. QED
  BY <1>2, <1>3, <1>9, <1>10

LEMMA SpawnServerOK ==
  ASSUME Inv, SpawnServer
  PROVE  Inv' /\ \A i \in Listed(cache') : i \in Listed(cache) /\ Same(cache[i], cache'[i])
<1> DEFINE me(c) == [client[c] EXCEPT !.current = FALSE,
                                      !.state = IF @ = "cs_spawned" THEN "cs_connected" ELSE @]
<1>1. client' = [c \in Clients |-> me(c)] /\ Clear /\ UNCHANGED <<disk, worker, sending>>
  BY DEF SpawnServer
<1>2. ASSUME NEW c \in Clients
      PROVE  /\ me(c) \in Downloads /\ MeOK(me(c)) /\ FreeHasNone(me(c))
             /\ me(c).entry = client[c].entry /\ me(c).version = client[c].version
             /\ me(c).offset = client[c].offset /\ me(c).file = client[c].file
  <2> DEFINE state == IF client[c].state = "cs_spawned" THEN "cs_connected" ELSE client[c].state
             m == [client[c] EXCEPT !.current = FALSE, !.state = state]
  <2>1. client[c] \in Downloads /\ MeOK(client[c]) /\ FreeHasNone(client[c])
    BY DEF Inv
  <2>2. /\ state \in {"cs_free", "cs_zombie", "cs_connected", "cs_spawning", "cs_spawned"}
        /\ (state = "cs_free" => client[c].state = "cs_free")
    BY <2>1 DEF Downloads
  <2>3. me(c) = m
    OBVIOUS
  <2> HIDE DEF state, me
  <2>4. /\ m \in Downloads /\ m.entry = client[c].entry /\ m.version = client[c].version
        /\ m.offset = client[c].offset /\ m.file = client[c].file /\ m.state = state
        /\ m.download = client[c].download /\ m.pos = client[c].pos
        /\ m.count = client[c].count /\ m.size = client[c].size
    BY <2>1, <2>2 DEF Downloads
  <2> HIDE DEF m
  <2>5. MeOK(m) /\ FreeHasNone(m)
    BY <2>1, <2>2, <2>4 DEF MeOK, FreeHasNone
  <2>6. QED
    BY <2>3, <2>4, <2>5
<1> HIDE DEF me
<1>3. QED
  BY <1>1, <1>2, ClearOK

LEMMA MinimizeMemoryOK ==
  ASSUME Inv, MinimizeMemory
  PROVE  Inv' /\ \A i \in Listed(cache') : i \in Listed(cache) /\ Same(cache[i], cache'[i])
<1>1. Clear /\ UNCHANGED <<disk, client, worker, sending>>
  BY DEF MinimizeMemory
<1>2. QED
  BY <1>1, KeptOK, ClearOK

LEMMA ReplaceOK == ASSUME Inv, NEW f \in Files, Replace(f) PROVE Inv'
<1>1. disk' = [disk EXCEPT ![f] = @ + 1] /\ disk[f] + 1 \in Versions
      /\ UNCHANGED <<client, cache, worker, sending>>
  BY DEF Replace
<1>2. disk' \in [Files -> Versions]
  BY <1>1 DEF Inv
<1>3. QED
  BY <1>1, <1>2 DEF Inv, CountIsExact, WorkerHasItsEntry

----------------------------------------------------------------------------
(* Every step keeps the invariant.                                         *)
LEMMA StepOK == Inv /\ [Next]_vars => Inv'
<1> SUFFICES ASSUME Inv, [Next]_vars PROVE Inv'
  OBVIOUS
<1>1. ASSUME NEW c \in Clients, NEW f \in Files, NEW offset \in Offsets, BeginDownload(c, f, offset)
      PROVE  Inv'
  <2>1. UNCHANGED <<disk, sending>> /\ sending \in Clients \cup {None}
    BY <1>1 DEF BeginDownload, Inv
  <2>2. QED
    BY <1>1, <2>1, BeginDownloadIs, BecameOK
<1>2. ASSUME NEW c \in Clients, NEW p \in 0 .. client[c].size - 1, NextPushDownload(c, p)
      PROVE  Inv'
  <2>1. UNCHANGED <<disk, sending>> /\ sending \in Clients \cup {None}
    BY <1>2 DEF NextPushDownload, Inv
  <2>2. QED
    BY <1>2, <2>1, NextPushIs, BecameOK DEF Leads
<1>3. ASSUME NEW c \in Clients, Begin(c) PROVE Inv'
  <2>1. UNCHANGED <<disk, sending>> /\ sending \in Clients \cup {None}
    BY <1>3 DEF Begin, Inv
  <2>2. QED
    BY <1>3, <2>1, BeginIs, BecameOK
<1>4. ASSUME NEW c \in Clients, Clean(c) PROVE Inv'
  <2>1. UNCHANGED <<disk, sending>> /\ sending \in Clients \cup {None}
    BY <1>4 DEF Clean, Inv
  <2>2. QED
    BY <1>4, <2>1, CleanIs, BecameOK
<1>5. ASSUME UNCHANGED vars PROVE Inv'
  BY <1>5 DEF Inv, vars, CountIsExact, WorkerHasItsEntry
<1>6. QED
  BY <1>1, <1>2, <1>3, <1>4, <1>5, SendOK, ConnectOK, RestartOK, DropOK, StoreOK, ExitOK,
     PollOK, SpawnServerOK, MinimizeMemoryOK, ReplaceOK DEF Next

(* The invariant holds of every state that is reached.                     *)
LEMMA Invariance == Spec => []Inv
<1>1. Init => Inv
  BY InitOK
<1>2. Inv /\ [Next]_vars => Inv'
  BY StepOK
<1>3. QED
  BY <1>1, <1>2, PTL DEF Spec

(* Downloads, entries and workers have values of their types               *)
(* (sv_user.c:2219-2236, 190-207).                                         *)
THEOREM TypeCorrect == Spec => []TypeOK
<1>1. Inv => TypeOK
  <2>1. ASSUME Inv, NEW c \in Clients, client[c].download
        PROVE  client[c].pos <= client[c].size
    BY <2>1 DEF Inv, MeOK, Downloads
  <2>2. QED
    BY <2>1 DEF Inv, MeOK, HasOK, TypeOK
<1>2. QED
  BY <1>1, Invariance, PTL

(* References are counted exactly, whoever joins, leaves, starts from the  *)
(* plain file or asks again (sv_user.c:154, 175, 221, 1566, 2355).         *)
THEOREM ReferencesAreExact == Spec => []CountIsExact
<1>1. Inv => CountIsExact
  BY DEF Inv
<1>2. QED
  BY <1>1, Invariance, PTL

(* No entry goes while its worker is at work (sv_user.c:157, 226, 254).    *)
THEOREM WorkersKeepTheirEntries == Spec => []WorkerHasItsEntry
<1>1. Inv => WorkerHasItsEntry
  BY DEF Inv
<1>2. QED
  BY <1>1, Invariance, PTL

(* A download that has an entry and is served is of compressed data.       *)
LEMMA ServedIsCompressed ==
  ASSUME Inv, NEW c \in Clients, client[c].entry # None, Serves(client[c], cache)
  PROVE  LET e == cache[client[c].entry]
         IN  /\ client[c].entry \in Listed(cache) /\ e.compbuf
             /\ client[c].size = e.compsize /\ e.compsize > 0
             /\ EntryOK(e, worker[client[c].entry])
<1> DEFINE e == cache[client[c].entry]
<1>1. client[c] \in Downloads /\ MeOK(client[c]) /\ client[c].entry \in Listed(cache)
  BY DEF Inv, HasOK
<1>2. EntryOK(e, worker[client[c].entry])
  BY <1>1 DEF Inv
<1>3. client[c].size = e.compsize /\ client[c].download
  BY DEF Serves, Waits
<1>4. e.compsize > 0
  BY <1>1, <1>3 DEF MeOK, Downloads
<1>5. QED
  BY <1>1, <1>2, <1>3, <1>4 DEF EntryOK

(* Each client is sent the version and part of the file it opened, as long *)
(* as nothing is read ahead: with sv_download_precache a client may join   *)
(* an entry that is compressed for another (sv_user.c:173).                *)
THEOREM SentWhatWasAsked ==
  ASSUME Precache = {}
  PROVE  Spec => []SendsWhatWasAsked
<1>1. Inv => SendsWhatWasAsked
  <2> SUFFICES ASSUME Inv, NEW c \in Clients, client[c].entry # None, Serves(client[c], cache)
               PROVE  LET d == cache[client[c].entry]
                      IN  /\ d.mtime = client[c].version /\ d.offset = client[c].offset
                          /\ d.file = client[c].file
    BY DEF SendsWhatWasAsked
  <2>1. Asked(client[c], cache[client[c].entry])
    BY DEF Inv, HasOK
  <2>2. QED
    BY <2>1, ServedIsCompressed DEF Asked
<1>2. QED
  BY <1>1, Invariance, PTL

(* What one step may do to an entry that serves a client.                  *)
Untouched(c) ==
  LET i == client[c].entry
  IN  i # None /\ Serves(client[c], cache) /\ client'[c] = client[c]
      => cache'[i].compsize = cache[i].compsize /\ cache'[i].mtime = cache[i].mtime

LEMMA BecameKeeps ==
  ASSUME Inv, Precache = {}, NEW c \in Clients, NEW v, Ok(c, v), Became(c, v), Keeps(c, With(c), v),
         All(With(c), v) \/ v.me.size = SizeOf[v.me.version], NEW d \in Clients
  PROVE  Untouched(d)
<1> SUFFICES ASSUME client[d].entry # None, Serves(client[d], cache), client'[d] = client[d]
             PROVE  LET i == client[d].entry
                    IN  cache'[i].compsize = cache[i].compsize /\ cache'[i].mtime = cache[i].mtime
  BY DEF Untouched
<1>1. cache' = v.list /\ client'[c] = v.me
  BY DEF Became, Inv
<1>2. With(c).list = cache
  BY DEF With
<1>3. CASE d # c
  BY <1>1, <1>2, <1>3 DEF Keeps, Same
<1>4. CASE d = c
  <2>1. v.me = client[c] /\ client[c].entry \in Listed(v.list)
    BY <1>1, <1>4 DEF Ok, HasOK
  <2>2. CASE All(With(c), v)
    BY <1>1, <1>2, <1>4, <2>1, <2>2 DEF All, Same
  <2>3. CASE v.me.size = SizeOf[v.me.version]
    <3> DEFINE e == cache[client[c].entry]
    <3>1. /\ e.compbuf /\ client[c].size = e.compsize /\ e \in Entries
          /\ e.compsize < SizeOf[e.mtime]
      BY <1>4, ServedIsCompressed DEF EntryOK
    <3>2. e.mtime = client[c].version
      BY <1>4, <3>1 DEF Inv, HasOK, Asked
    <3>3. e.compsize \in Nat
      BY <3>1 DEF Entries
    <3>4. QED
      BY <2>1, <2>3, <3>1, <3>2, <3>3
  <2>4. QED
    BY <2>2, <2>3
<1>5. QED
  BY <1>3, <1>4

(* The data that a client is sent does not change under it, if nothing is  *)
(* read ahead (sv_user.c:159).                                             *)
THEOREM DataStaysInUse ==
  ASSUME Precache = {}
  PROVE  Spec => StaysWhileInUse
<1>1. ASSUME Inv, [Next]_vars, NEW d \in Clients PROVE Untouched(d)
  <2>1. ASSUME NEW c \in Clients, NEW f \in Files, NEW offset \in Offsets,
               BeginDownload(c, f, offset)
        PROVE  Untouched(d)
    BY <1>1, <2>1, BeginDownloadIs, BecameKeeps
  <2>2. ASSUME NEW c \in Clients, NEW p \in 0 .. client[c].size - 1, NextPushDownload(c, p)
        PROVE  Untouched(d)
    BY <1>1, <2>2, NextPushIs, BecameKeeps DEF Leads
  <2>3. ASSUME cache' = cache PROVE Untouched(d)
    BY <2>3 DEF Untouched
  <2>4. ASSUME NEW c \in Clients, Send(c) PROVE Untouched(d)
    BY <1>1, <2>3, <2>4, SendIs, BecameKeeps DEF Leads
  <2>5. ASSUME NEW c \in Clients, Begin(c) \/ Clean(c) PROVE Untouched(d)
    BY <1>1, <2>5, BeginIs, CleanIs, BecameKeeps
  <2>6. ASSUME NEW c \in Clients, Connect(c) \/ Restart(c) \/ Drop(c) PROVE Untouched(d)
    BY <2>3, <2>6 DEF Connect, Restart, Drop
  <2>7. ASSUME NEW i \in EntryId, Store(i) PROVE Untouched(d)
    <3>1. \A j \in Listed(cache) : j # i => cache'[j] = cache[j]
      BY <1>1, <2>7 DEF Store, Inv, Listed
    <3>2. ASSUME client[d].entry # None, Serves(client[d], cache) PROVE client[d].entry # i
      <4>1. worker[i] = "running" /\ EntryOK(cache[i], worker[i])
        BY <1>1, <2>7 DEF Store, Inv
      <4>2. cache[i].compsize = 0
        BY <4>1 DEF EntryOK
      <4>3. cache[client[d].entry].compsize > 0
        BY <1>1, <3>2, ServedIsCompressed
      <4>4. QED
        BY <4>2, <4>3
    <3>3. client[d].entry \in Listed(cache) \cup {None}
      BY <1>1 DEF Inv, HasOK
    <3>4. QED
      BY <3>1, <3>2, <3>3 DEF Untouched
  <2>8. ASSUME NEW i \in EntryId, Exit(i) PROVE Untouched(d)
    BY <2>3, <2>8 DEF Exit
  <2>9. ASSUME Poll PROVE Untouched(d)
    <3>1. \A i \in Listed(cache) :
            cache'[i].compsize = cache[i].compsize /\ cache'[i].mtime = cache[i].mtime
      <4>1. TAKE i \in Listed(cache)
      <4>2. cache'[i] = Finish(i, cache[i]) /\ EntryOK(cache[i], worker[i])
        BY <1>1, <2>9 DEF Poll, Inv
      <4>3. CASE Done(i)
        BY <4>2, <4>3, FinishOK DEF Same
      <4>4. CASE ~Done(i)
        BY <4>2, <4>4 DEF Finish
      <4>5. QED
        BY <4>3, <4>4
    <3>2. client[d].entry \in Listed(cache) \cup {None}
      BY <1>1 DEF Inv, HasOK
    <3>3. QED
      BY <3>1, <3>2 DEF Untouched
  <2>10. ASSUME SpawnServer \/ MinimizeMemory PROVE Untouched(d)
    <3>1. Inv' /\ \A i \in Listed(cache') : i \in Listed(cache) /\ Same(cache[i], cache'[i])
      BY <1>1, <2>10, SpawnServerOK, MinimizeMemoryOK
    <3>2. HasOK(client'[d], cache')
      BY <3>1 DEF Inv
    <3>3. QED
      BY <3>1, <3>2 DEF Untouched, HasOK, Same
  <2>11. ASSUME NEW f \in Files, Replace(f) PROVE Untouched(d)
    BY <2>3, <2>11 DEF Replace
  <2>12. ASSUME UNCHANGED vars PROVE Untouched(d)
    BY <2>3, <2>12 DEF vars
  <2>13. QED
    BY <1>1, <2>1, <2>2, <2>4, <2>5, <2>6, <2>7, <2>8, <2>9, <2>10, <2>11, <2>12 DEF Next
<1>2. Inv /\ [Next]_vars =>
        \A c \in Clients :
          LET i == client[c].entry
          IN  i # None /\ Serves(client[c], cache) /\ client'[c] = client[c]
              => /\ cache'[i].compsize = cache[i].compsize
                 /\ cache'[i].mtime = cache[i].mtime
  BY <1>1 DEF Untouched
<1>3. QED
  BY <1>2, Invariance, PTL DEF Spec, StaysWhileInUse
=============================================================================
