---------------------------- MODULE HandshakeProofs ----------------------------
(***************************************************************************)
(* What a client is told of its level, and how its requests for files are  *)
(* answered, proved of all clients, strings, files and paks.               *)
(*                                                                         *)
(* In both, a client that loads has one thing to go on with: a message on  *)
(* its way to it, a command on its way from it, or what it does by itself. *)
(* The invariants say where that is (Phased, Chained). Knows says what a   *)
(* client will have once it has read what is queued for it.                *)
(***************************************************************************)
EXTENDS Handshake, DownloadRequests, FiniteSetTheorems, TLAPS

(* The positions of a sequence without its head, with one element more, and of two joined. *)
LEMMA TailOf ==
  ASSUME NEW S, NEW s \in Seq(S), s # <<>>
  PROVE  /\ Tail(s) \in Seq(S) /\ Len(s) \in Nat \ {0} /\ Len(Tail(s)) = Len(s) - 1
         /\ Head(s) = s[1] /\ Head(s) \in S
         /\ DOMAIN s = 1 .. Len(s) /\ DOMAIN Tail(s) = 1 .. (Len(s) - 1)
         /\ \A j \in 1 .. (Len(s) - 1) : Tail(s)[j] = s[j+1]
OBVIOUS

LEMMA AppendOf ==
  ASSUME NEW S, NEW s \in Seq(S), NEW m \in S
  PROVE  /\ Append(s, m) \in Seq(S) /\ Len(s) \in Nat /\ Len(Append(s, m)) = Len(s) + 1
         /\ DOMAIN s = 1 .. Len(s) /\ DOMAIN Append(s, m) = 1 .. (Len(s) + 1)
         /\ \A j \in 1 .. Len(s) : Append(s, m)[j] = s[j]
         /\ Append(s, m)[Len(s) + 1] = m
OBVIOUS

LEMMA JoinOf ==
  ASSUME NEW S, NEW s \in Seq(S), NEW t \in Seq(S)
  PROVE  /\ s \o t \in Seq(S) /\ Len(s) \in Nat /\ Len(t) \in Nat
         /\ DOMAIN s = 1 .. Len(s) /\ DOMAIN t = 1 .. Len(t) /\ DOMAIN (s \o t) = 1 .. (Len(s) + Len(t))
         /\ \A j \in 1 .. Len(s) : (s \o t)[j] = s[j]
         /\ \A j \in 1 .. Len(t) : (s \o t)[Len(s) + j] = t[j]
OBVIOUS

(* A finite set as a sequence: each member is at a position, and nothing else. *)
LEMMA SetAsSeq ==
  ASSUME NEW S, IsFiniteSet(S)
  PROVE  /\ SetToSeq(S) \in Seq(S)
         /\ \A x \in S : \E k \in DOMAIN SetToSeq(S) : SetToSeq(S)[k] = x
         /\ \A j, k \in DOMAIN SetToSeq(S) : SetToSeq(S)[j] = SetToSeq(S)[k] => j = k
<1> DEFINE n == Cardinality(S)
           f == SetToSeq(S)
<1>1. n \in Nat /\ ExistsBijection(1 .. n, S)
  BY FS_CardinalityType
<1>2. PICK g : g \in Bijection(1 .. n, S)
  BY <1>1 DEF ExistsBijection
<1>3. g \in [1 .. n -> S] /\ IsInjective(g)
  BY <1>2 DEF Bijection, Injection, IsInjective
<1>4. f \in [1 .. n -> S] /\ IsInjective(f)
  BY <1>3 DEF SetToSeq
<1>5. f \in Injection(1 .. n, S) /\ IsFiniteSet(1 .. n) /\ Cardinality(1 .. n) = n
  <2>1. f \in Injection(1 .. n, S)
    BY <1>4 DEF Injection, IsInjective
  <2>2. QED
    BY <1>1, <2>1, FS_Interval
<1>6. f \in Surjection(1 .. n, S)
  BY <1>5, FS_Injection
<1>7. DOMAIN f = 1 .. n /\ f \in Seq(S)
  BY <1>1, <1>4
<1>8. QED
  BY <1>4, <1>6, <1>7 DEF Surjection, IsInjective
-----------------------------------------------------------------------------
(* Levels, slots and remote clients as the handlers leave them. *)
Levels == [count : 1..MaxCount, state : {"game", "pic"}, strings : [Indices -> Strings],
           files : [Images -> {Empty, File}], edict : Strings]
SlotStates == {"free", "zombie", "connected", "spawning", "spawned"}
Slots == [state : SlotStates, count : 0..MaxCount, lastlines : Strings, down : Seq(Messages), begins : Nat]
Commands == [type : {"new", "download"}] \union [type : {"begin", "nextserver"}, count : 0..MaxCount]
Remotes == [up : Seq(Commands), count : 0..MaxCount, strings : [Indices -> Strings \union {File}],
            base : Strings, loading : 0..MaxCount, files : Nat, waiting : BOOLEAN]
Types ==
  /\ lv \in Levels /\ cl \in [Clients -> Slots] /\ rc \in [Clients -> Remotes]
  /\ nextmap \in BOOLEAN /\ sets \in Nat /\ blamed = {}

(* Messages that start a loading, end one, or answer within one; commands that answer them. *)
Marks == {"serverdata", "precache", "cmd begin", "file"}
Steps == {"begin", "download"}
Quiet(seq) == \A j \in DOMAIN seq : seq[j].type \notin Marks
Calm(seq) == \A j \in DOMAIN seq : seq[j].type \notin Steps

(* No count on its way is ahead of the server; while the next map is queued no command to skip a *)
(* picture has the count of the level (n is nextmap).                                            *)
Told(s, l) == \A j \in DOMAIN s.down : s.down[j].type = "serverdata" => s.down[j].count <= l.count
Skips(r, l, n) ==
  \A j \in DOMAIN r.up : r.up[j].type = "nextserver" =>
    /\ r.up[j].count <= l.count
    /\ r.up[j].count = l.count => ~n /\ l.count + 1 <= MaxCount
Numbered(s, r, l, n) == s.count <= l.count /\ r.count <= l.count /\ Told(s, l) /\ Skips(r, l, n)

(* The one answer that a client which loads owes or is owed: a message it will answer with "begin" *)
(* is on its way, behind the data of the level (Sent) or after it (Listing); or it loads, asking   *)
(* for a file at most; or its "begin" is on its way.                                               *)
IsToken(m, k) == m.type \in {"precache", "cmd begin"} /\ m.count = k
Sent(s, r) ==
  /\ \E k, t \in DOMAIN s.down :
       /\ k < t /\ s.down[k] = [type |-> "serverdata", count |-> s.count] /\ IsToken(s.down[t], s.count)
       /\ \A j \in DOMAIN s.down \ {k, t} : s.down[j].type \notin Marks
  /\ Calm(r.up) /\ (r.loading = 0 \/ r.waiting)
Listing(s, r) ==
  /\ \E t \in DOMAIN s.down :
       /\ IsToken(s.down[t], s.count)
       /\ \A j \in DOMAIN s.down \ {t} : s.down[j].type \notin Marks
  /\ Calm(r.up) /\ r.loading = 0 /\ ~r.waiting /\ r.count = s.count
OneDownload(seq) ==
  \E k \in DOMAIN seq : seq[k].type = "download" /\ \A j \in DOMAIN seq \ {k} : seq[j].type \notin Steps
OneFile(seq) ==
  \E k \in DOMAIN seq : seq[k].type = "file" /\ \A j \in DOMAIN seq \ {k} : seq[j].type \notin Marks
OneBegin(seq, n) ==
  \E k \in DOMAIN seq : /\ seq[k] = [type |-> "begin", count |-> n]
                        /\ \A j \in DOMAIN seq \ {k} : seq[j].type \notin Steps
Loading(s, r) ==
  /\ r.loading = s.count /\ r.count = s.count
  /\ \/ ~r.waiting /\ Calm(r.up) /\ Quiet(s.down)
     \/ r.waiting /\ OneDownload(r.up) /\ Quiet(s.down)
     \/ r.waiting /\ Calm(r.up) /\ OneFile(s.down)
Begins(s, r) ==
  r.loading = 0 /\ ~r.waiting /\ r.count = s.count /\ Quiet(s.down) /\ OneBegin(r.up, s.count)
Idle(s, r) == r.loading = 0 /\ ~r.waiting /\ Calm(r.up) /\ Quiet(s.down)
Answering(s, r) == Sent(s, r) \/ Listing(s, r) \/ Loading(s, r) \/ Begins(s, r)
Phased(s, r, l) ==
  /\ s.state = "connected" => Idle(s, r) /\ s.count < l.count
  /\ s.state = "spawning" => s.count > 0 /\ Answering(s, r)
  /\ s.state = "spawned" => Idle(s, r) /\ r.count = s.count /\ (l.state = "game" => s.count = l.count)

Live(s) == s.state \notin {"free", "zombie"}
Counted(s, l) == l.state = "game" /\ Live(s) => s.begins = IF s.state = "spawned" THEN 1 ELSE 0

(* What a client that has x will have once it has read seq: the last message about it says so. *)
Value(m) == IF m.type = "serverdata" THEN Empty ELSE m.value
OfString(i) == {m \in Messages : m.type = "serverdata" \/ (m.type = "configstring" /\ m.index = i)}
OfBase == {m \in Messages : m.type \in {"serverdata", "baseline"}}
Will(seq, x, D, v) ==
  \/ x = v /\ \A j \in DOMAIN seq : seq[j] \notin D
  \/ \E k \in DOMAIN seq : seq[k] \in D /\ Value(seq[k]) = v /\ \A j \in DOMAIN seq : j > k => seq[j] \notin D
Knows(s, r, l) ==
  Live(s) /\ l.state = "game" /\ s.count = l.count =>
    /\ \A i \in Plain : Will(s.down, r.strings[i], OfString(i), l.strings[i])
    /\ Will(s.down, r.base, OfBase, s.lastlines)
    /\ s.state = "spawned" => \A i \in Images : l.strings[i] # Empty => Will(s.down, r.strings[i], OfString(i), l.strings[i])

ClientOK(s, r, l, n) == Numbered(s, r, l, n) /\ Phased(s, r, l) /\ Counted(s, l) /\ Knows(s, r, l)
Inv == Types /\ \A c \in Clients : ClientOK(cl[c], rc[c], lv, nextmap)
-----------------------------------------------------------------------------
(* What a list comes to when messages are added to it, and when its head is read. *)
LEMMA WillAppend ==
  ASSUME NEW s \in Seq(Messages), NEW m \in Messages, NEW D, NEW x, NEW v
  PROVE  /\ m \notin D /\ Will(s, x, D, v) => Will(Append(s, m), x, D, v)
         /\ m \in D => Will(Append(s, m), x, D, Value(m))
<1>1. ASSUME m \notin D, Will(s, x, D, v) PROVE Will(Append(s, m), x, D, v)
  <2>1. CASE x = v /\ \A j \in DOMAIN s : s[j] \notin D
    BY <1>1, <2>1, AppendOf DEF Will
  <2>2. CASE \E k \in DOMAIN s : s[k] \in D /\ Value(s[k]) = v /\ \A j \in DOMAIN s : j > k => s[j] \notin D
    <3>1. PICK k \in DOMAIN s : s[k] \in D /\ Value(s[k]) = v /\ \A j \in DOMAIN s : j > k => s[j] \notin D
      BY <2>2
    <3> DEFINE a == Append(s, m)
    <3>2. k \in DOMAIN a /\ a[k] = s[k]
      BY AppendOf
    <3>3. ASSUME NEW j \in DOMAIN a, j > k PROVE a[j] \notin D
      BY <1>1, <3>1, <3>3, AppendOf
    <3>4. QED
      BY <3>1, <3>2, <3>3 DEF Will
  <2>3. QED
    BY <1>1, <2>1, <2>2 DEF Will
<1>2. ASSUME m \in D PROVE Will(Append(s, m), x, D, Value(m))
  <2> DEFINE a == Append(s, m)
             k == Len(s) + 1
  <2>1. k \in DOMAIN a /\ a[k] = m /\ \A j \in DOMAIN a : ~(j > k)
    BY AppendOf
  <2>2. QED
    BY <1>2, <2>1 DEF Will
<1>3. QED
  BY <1>1, <1>2

LEMMA WillRead ==
  ASSUME NEW s \in Seq(Messages), s # <<>>, NEW D, NEW x, NEW v, Will(s, x, D, v)
  PROVE  /\ Head(s) \notin D => Will(Tail(s), x, D, v)
         /\ Head(s) \in D => Will(Tail(s), Value(Head(s)), D, v)
<1> DEFINE t == Tail(s)
<1>1. CASE x = v /\ \A j \in DOMAIN s : s[j] \notin D
  <2>1. \A j \in DOMAIN t : t[j] \notin D
    BY <1>1, TailOf
  <2>2. Head(s) \notin D
    BY <1>1, TailOf
  <2>3. QED
    BY <1>1, <2>1, <2>2 DEF Will
<1>2. CASE \E k \in DOMAIN s : s[k] \in D /\ Value(s[k]) = v /\ \A j \in DOMAIN s : j > k => s[j] \notin D
  <2>1. PICK k \in DOMAIN s : s[k] \in D /\ Value(s[k]) = v /\ \A j \in DOMAIN s : j > k => s[j] \notin D
    BY <1>2
  <2>2. CASE k = 1
    <3>1. \A j \in DOMAIN t : t[j] \notin D
      BY <2>1, <2>2, TailOf
    <3>2. Head(s) \in D /\ Value(Head(s)) = v
      BY <2>1, <2>2, TailOf
    <3>3. QED
      BY <3>1, <3>2 DEF Will
  <2>3. CASE k # 1
    <3>1. k - 1 \in DOMAIN t /\ t[k-1] = s[k]
      <4>1. k \in 1 .. Len(s) /\ Len(s) \in Nat
        BY TailOf
      <4>2. k - 1 \in 1 .. (Len(s) - 1) /\ (k - 1) + 1 = k
        BY <2>3, <4>1
      <4>3. QED
        BY <4>2, TailOf
    <3>2. ASSUME NEW j \in DOMAIN t, j > k - 1 PROVE t[j] \notin D
      <4>1. j \in 1 .. (Len(s) - 1) /\ t[j] = s[j+1] /\ Len(s) \in Nat /\ k \in 1 .. Len(s)
        BY TailOf
      <4>2. j + 1 \in 1 .. Len(s) /\ j + 1 > k
        BY <3>2, <4>1
      <4>3. j + 1 \in DOMAIN s
        BY <4>2, TailOf
      <4>4. QED
        BY <2>1, <4>1, <4>2, <4>3
    <3>3. QED
      BY <2>1, <3>1, <3>2 DEF Will
  <2>4. QED
    BY <2>2, <2>3
<1>3. QED
  BY <1>1, <1>2 DEF Will

LEMMA WillJoin ==
  ASSUME NEW s \in Seq(Messages), NEW t \in Seq(Messages), NEW D, NEW x, NEW v
  PROVE  /\ (\A j \in DOMAIN t : t[j] \notin D) /\ Will(s, x, D, v) => Will(s \o t, x, D, v)
         /\ (\E k \in DOMAIN t : t[k] \in D /\ Value(t[k]) = v /\ \A j \in DOMAIN t : j > k => t[j] \notin D)
              => Will(s \o t, x, D, v)
<1> DEFINE a == s \o t
<1>0. /\ Len(s) \in Nat /\ Len(t) \in Nat /\ DOMAIN s = 1 .. Len(s) /\ DOMAIN t = 1 .. Len(t)
      /\ DOMAIN a = 1 .. (Len(s) + Len(t)) /\ \A j \in 1 .. Len(s) : a[j] = s[j]
  BY JoinOf
<1>1. ASSUME NEW j \in DOMAIN a, j > Len(s) PROVE j - Len(s) \in DOMAIN t /\ a[j] = t[j - Len(s)]
  <2>1. j - Len(s) \in 1 .. Len(t) /\ Len(s) + (j - Len(s)) = j
    BY <1>0, <1>1
  <2>2. QED
    BY <1>0, <2>1, JoinOf
<1>2. ASSUME \A j \in DOMAIN t : t[j] \notin D, Will(s, x, D, v) PROVE Will(a, x, D, v)
  <2>1. \A j \in DOMAIN a : j > Len(s) => a[j] \notin D
    BY <1>1, <1>2
  <2>2. CASE x = v /\ \A j \in DOMAIN s : s[j] \notin D
    <3>1. ASSUME NEW j \in DOMAIN a PROVE a[j] \notin D
      <4>1. CASE j > Len(s)
        BY <2>1, <4>1
      <4>2. CASE ~(j > Len(s))
        BY <1>0, <2>2, <4>2
      <4>3. QED
        BY <4>1, <4>2
    <3>2. QED
      BY <2>2, <3>1 DEF Will
  <2>3. CASE \E k \in DOMAIN s : s[k] \in D /\ Value(s[k]) = v /\ \A j \in DOMAIN s : j > k => s[j] \notin D
    <3>1. PICK k \in DOMAIN s : s[k] \in D /\ Value(s[k]) = v /\ \A j \in DOMAIN s : j > k => s[j] \notin D
      BY <2>3
    <3>2. k \in DOMAIN a /\ a[k] = s[k]
      BY <1>0
    <3>3. ASSUME NEW j \in DOMAIN a, j > k PROVE a[j] \notin D
      <4>1. CASE j > Len(s)
        BY <2>1, <4>1
      <4>2. CASE ~(j > Len(s))
        BY <1>0, <3>1, <3>3, <4>2
      <4>3. QED
        BY <4>1, <4>2
    <3>4. QED
      BY <3>1, <3>2, <3>3 DEF Will
  <2>4. QED
    BY <1>2, <2>2, <2>3 DEF Will
<1>3. ASSUME NEW k \in DOMAIN t, t[k] \in D, Value(t[k]) = v, \A j \in DOMAIN t : j > k => t[j] \notin D
      PROVE  Will(a, x, D, v)
  <2> DEFINE p == Len(s) + k
  <2>1. p \in DOMAIN a /\ a[p] = t[k]
    BY <1>0, JoinOf
  <2>2. ASSUME NEW j \in DOMAIN a, j > p PROVE a[j] \notin D
    <3>1. j > Len(s) /\ j - Len(s) > k
      BY <1>0, <2>2
    <3>2. QED
      BY <1>1, <1>3, <3>1
  <2>3. QED
    BY <1>3, <2>1, <2>2 DEF Will
<1>4. QED
  BY <1>2, <1>3
-----------------------------------------------------------------------------
(* The data of a level (SV_New_f), after the message that announces it. *)
Rest == IF lv.state = "game" THEN AddConfigstrings \o BaselinesMessage
        ELSE <<[type |-> "cmd begin", count |-> lv.count]>>
LastFor(seq, D, v) ==
  \E k \in DOMAIN seq : seq[k] \in D /\ Value(seq[k]) = v /\ \A j \in DOMAIN seq : j > k => seq[j] \notin D

(* A set of configstrings, one for each index of I, as a sequence. *)
LEMMA Configstrings ==
  ASSUME NEW I \in SUBSET Indices, IsFiniteSet(I), NEW f \in [Indices -> Strings \union {File}]
  PROVE  LET q == SetToSeq({Configstring(i, f[i]) : i \in I})
         IN /\ q \in Seq(Messages)
            /\ \A j \in DOMAIN q : q[j].type = "configstring" /\ q[j].index \in I
            /\ \A i \in I : \E k \in DOMAIN q : q[k] = Configstring(i, f[i]) /\ \A j \in DOMAIN q \ {k} : q[j].index # i
<1> DEFINE T == {Configstring(i, f[i]) : i \in I}
           q == SetToSeq(T)
           g == [i \in I |-> Configstring(i, f[i])]
<1>1. g \in Surjection(I, T)
  <2>1. g \in [I -> T]
    OBVIOUS
  <2>2. \A x \in T : \E i \in I : g[i] = x
    OBVIOUS
  <2>3. QED
    BY <2>1, <2>2 DEF Surjection
<1>2. IsFiniteSet(T)
  BY <1>1, FS_Surjection
<1>3. T \subseteq Messages
  <2>1. ASSUME NEW i \in I PROVE Configstring(i, f[i]) \in Messages
    <3>1. i \in Indices /\ f[i] \in Strings \union {File}
      OBVIOUS
    <3>2. QED
      BY <3>1 DEF Configstring, Messages
  <2>2. QED
    BY <2>1
<1>4. /\ q \in Seq(T) /\ \A x \in T : \E k \in DOMAIN q : q[k] = x
      /\ \A j, k \in DOMAIN q : q[j] = q[k] => j = k
  BY <1>2, SetAsSeq
<1> HIDE DEF q
<1>5. \A j \in DOMAIN q : q[j] \in T
  BY <1>4
<1>6. \A x \in T : \E i \in I : x = Configstring(i, f[i])
  OBVIOUS
<1>7. q \in Seq(Messages)
  BY <1>3, <1>4
<1> HIDE DEF T
<1>8. ASSUME NEW j \in DOMAIN q PROVE q[j].type = "configstring" /\ q[j].index \in I
  <2>1. PICK i \in I : q[j] = Configstring(i, f[i])
    BY <1>5, <1>6
  <2>2. QED
    BY <2>1 DEF Configstring
<1>9. ASSUME NEW i \in I
      PROVE  \E k \in DOMAIN q : q[k] = Configstring(i, f[i]) /\ \A j \in DOMAIN q \ {k} : q[j].index # i
  <2>1. Configstring(i, f[i]) \in T
    BY DEF T
  <2>2. PICK k \in DOMAIN q : q[k] = Configstring(i, f[i])
    BY <1>4, <2>1
  <2>3. ASSUME NEW j \in DOMAIN q \ {k}, q[j].index = i PROVE FALSE
    <3>1. PICK h \in I : q[j] = Configstring(h, f[h])
      BY <1>5, <1>6
    <3>2. h = i
      BY <2>3, <3>1 DEF Configstring
    <3>3. QED
      BY <1>4, <2>2, <2>3, <3>1, <3>2
  <2>4. QED
    BY <2>2, <2>3
<1>10. QED
  BY <1>7, <1>8, <1>9 DEF q, T

(* The baseline, and the message the client will answer. *)
LEMMA Baselines ==
  ASSUME lv \in Levels
  PROVE  /\ BaselinesMessage \in Seq(Messages)
         /\ BaselinesMessage[Len(BaselinesMessage)] = [type |-> "precache", count |-> lv.count]
         /\ Len(BaselinesMessage) \in {1, 2}
         /\ lv.edict = Empty => Len(BaselinesMessage) = 1
         /\ lv.edict # Empty => Len(BaselinesMessage) = 2 /\ BaselinesMessage[1] = [type |-> "baseline", value |-> lv.edict]
<1> DEFINE p == [type |-> "precache", count |-> lv.count]
           b == [type |-> "baseline", value |-> lv.edict]
<1>1. p \in Messages
  BY DEF Levels, Messages
<1>2. CASE lv.edict = Empty
  <2>1. BaselinesMessage = <<p>>
    BY <1>2 DEF BaselinesMessage
  <2>2. QED
    BY <1>1, <1>2, <2>1
<1>3. CASE lv.edict # Empty
  <2>1. b \in Messages
    <3>1. lv.edict \in Values
      BY <1>3 DEF Levels, Strings
    <3>2. QED
      BY <3>1 DEF Messages
  <2>2. BaselinesMessage = <<b>> \o <<p>>
    BY <1>3 DEF BaselinesMessage
  <2> HIDE DEF b, p
  <2>3. <<b>> \in Seq(Messages) /\ <<p>> \in Seq(Messages)
    BY <1>1, <2>1
  <2>4. /\ Len(<<b>> \o <<p>>) = 2 /\ (<<b>> \o <<p>>)[1] = b /\ (<<b>> \o <<p>>)[2] = p
        /\ <<b>> \o <<p>> \in Seq(Messages)
    BY <2>3
  <2>5. QED
    BY <1>3, <2>2, <2>4 DEF b, p
<1>4. QED
  BY <1>2, <1>3

(* What SV_New_f sends after the announcement: the message that will be answered is the last one, *)
(* and in a game every plain string and the baseline are in it unless they are empty.             *)
LEMMA RestOfLevel ==
  ASSUME lv \in Levels
  PROVE  /\ Rest \in Seq(Messages)
         /\ \E t \in DOMAIN Rest : /\ IsToken(Rest[t], lv.count)
                                   /\ \A j \in DOMAIN Rest \ {t} : Rest[j].type \notin Marks
         /\ \A j \in DOMAIN Rest : Rest[j].type # "serverdata"
         /\ lv.state = "game" => \A i \in Plain :
              IF lv.strings[i] = Empty THEN \A j \in DOMAIN Rest : Rest[j] \notin OfString(i)
              ELSE LastFor(Rest, OfString(i), lv.strings[i])
         /\ lv.state = "game" =>
              IF lv.edict = Empty THEN \A j \in DOMAIN Rest : Rest[j] \notin OfBase
              ELSE LastFor(Rest, OfBase, lv.edict)
<1>1. CASE lv.state # "game"
  <2> DEFINE m == [type |-> "cmd begin", count |-> lv.count]
  <2>1. Rest = <<m>>
    BY <1>1 DEF Rest
  <2>2. m \in Messages
    BY DEF Levels, Messages
  <2>3. IsToken(m, lv.count) /\ m.type # "serverdata"
    BY DEF IsToken
  <2> HIDE DEF m
  <2>4. <<m>> \in Seq(Messages) /\ DOMAIN <<m>> = {1} /\ <<m>>[1] = m
    BY <2>2
  <2>5. QED
    BY <1>1, <2>1, <2>3, <2>4
<1>2. CASE lv.state = "game"
  <2> DEFINE sent == [i \in Indices |-> IF i \in Images THEN lv.files[i] ELSE lv.strings[i]]
             some == {i \in Indices : sent[i] # Empty}
             a == AddConfigstrings
             b == BaselinesMessage
  <2>1. IsFiniteSet(Indices) /\ IsFiniteSet(some)
    <3>1. IsFiniteSet(Indices)
      BY HsAssumption, FS_Union DEF Indices
    <3>2. some \in SUBSET Indices
      OBVIOUS
    <3>3. QED
      BY <3>1, <3>2, FS_Subset
  <2>2. sent \in [Indices -> Strings \union {File}]
    <3>1. ASSUME NEW i \in Indices PROVE (IF i \in Images THEN lv.files[i] ELSE lv.strings[i]) \in Strings \union {File}
      <4>1. lv.files \in [Images -> {Empty, File}] /\ lv.strings \in [Indices -> Strings]
        BY DEF Levels
      <4>2. QED
        BY <4>1 DEF Strings
    <3>2. QED
      BY <3>1
  <2>3. a = SetToSeq({Configstring(i, sent[i]) : i \in some})
    BY DEF AddConfigstrings
  <2>4. \A i \in Plain : i \in Indices /\ sent[i] = lv.strings[i]
    BY HsAssumption DEF Indices
  <2>4a. some \in SUBSET Indices /\ \A i \in Plain : i \in some <=> lv.strings[i] # Empty
    BY <2>4
  <2> HIDE DEF sent, some
  <2>5. /\ a \in Seq(Messages)
        /\ \A j \in DOMAIN a : a[j].type = "configstring" /\ a[j].index \in some
        /\ \A i \in some : \E k \in DOMAIN a : a[k] = Configstring(i, sent[i]) /\ \A j \in DOMAIN a \ {k} : a[j].index # i
    <3> DEFINE q == SetToSeq({Configstring(i, sent[i]) : i \in some})
    <3>1. /\ q \in Seq(Messages)
          /\ \A j \in DOMAIN q : q[j].type = "configstring" /\ q[j].index \in some
          /\ \A i \in some : \E k \in DOMAIN q : q[k] = Configstring(i, sent[i]) /\ \A j \in DOMAIN q \ {k} : q[j].index # i
      BY <2>1, <2>2, <2>4a, Configstrings
    <3>2. QED
      BY <2>3, <3>1
  <2>6. /\ b \in Seq(Messages) /\ Len(b) \in {1, 2} /\ b[Len(b)] = [type |-> "precache", count |-> lv.count]
        /\ lv.edict = Empty => Len(b) = 1
        /\ lv.edict # Empty => Len(b) = 2 /\ b[1] = [type |-> "baseline", value |-> lv.edict]
    BY Baselines
  <2>7. Rest = a \o b
    BY <1>2 DEF Rest
  <2> HIDE DEF a, b
  <2> DEFINE n == Len(a)
             e == Len(b)
             r == a \o b
  <2>8. /\ r \in Seq(Messages) /\ n \in Nat /\ e \in {1, 2} /\ DOMAIN a = 1 .. n /\ DOMAIN b = 1 .. e
        /\ DOMAIN r = 1 .. (n + e)
        /\ \A j \in 1 .. n : r[j] = a[j]
        /\ \A j \in 1 .. e : r[n + j] = b[j]
    BY <2>5, <2>6, JoinOf
  <2> DEFINE t == n + e
  <2>9. r[t] = [type |-> "precache", count |-> lv.count] /\ t \in DOMAIN r
    BY <2>6, <2>8
  <2>10. ASSUME NEW j \in DOMAIN r, j # t
         PROVE  \/ j \in DOMAIN a /\ r[j] = a[j]
                \/ j = n + 1 /\ e = 2 /\ r[j] = b[1]
    BY <2>8, <2>10
  <2> HIDE DEF r, t, n, e
  <2>11. ASSUME NEW j \in DOMAIN r, j # t
         PROVE  \/ j \in DOMAIN a /\ r[j] = a[j] /\ r[j].type = "configstring" /\ r[j].index \in some
                \/ j = n + 1 /\ e = 2 /\ r[j] = [type |-> "baseline", value |-> lv.edict] /\ lv.edict # Empty
    <3>1. e = 2 => lv.edict # Empty /\ b[1] = [type |-> "baseline", value |-> lv.edict]
      BY <2>6 DEF e
    <3>2. QED
      BY <2>5, <2>10, <2>11, <3>1
  <2>12. \A j \in DOMAIN r : r[j].type # "serverdata" /\ (j # t => r[j].type \in {"configstring", "baseline"})
    BY <2>9, <2>11
  <2>13. ASSUME NEW i \in Plain, lv.strings[i] = Empty, NEW j \in DOMAIN r PROVE r[j] \notin OfString(i)
    <3>1. i \notin some
      BY <2>4a, <2>13
    <3>2. r[j].type # "serverdata" /\ ~(r[j].type = "configstring" /\ r[j].index = i)
      BY <2>9, <2>11, <3>1
    <3>3. QED
      BY <3>2 DEF OfString
  <2>14. ASSUME NEW i \in Plain, lv.strings[i] # Empty PROVE LastFor(r, OfString(i), lv.strings[i])
    <3>1. i \in some /\ sent[i] = lv.strings[i]
      BY <2>4, <2>4a, <2>14
    <3>2. PICK k \in DOMAIN a : a[k] = Configstring(i, sent[i]) /\ \A j \in DOMAIN a \ {k} : a[j].index # i
      BY <2>5, <3>1
    <3>3. k \in DOMAIN r /\ r[k] = Configstring(i, lv.strings[i]) /\ r[k] \in Messages
      <4>1. k \in DOMAIN r /\ r[k] = a[k]
        BY <2>8 DEF r, n, e
      <4>2. QED
        BY <2>8, <3>1, <3>2, <4>1 DEF r
    <3>4. r[k] \in OfString(i) /\ Value(r[k]) = lv.strings[i]
      BY <3>3 DEF OfString, Value, Configstring
    <3>5. ASSUME NEW j \in DOMAIN r, j > k PROVE r[j] \notin OfString(i)
      <4>1. j # k
        BY <2>8, <3>3, <3>5 DEF r, n, e
      <4>2. r[j].type # "serverdata" /\ ~(r[j].type = "configstring" /\ r[j].index = i)
        BY <2>9, <2>11, <3>2, <4>1
      <4>3. QED
        BY <4>2 DEF OfString
    <3>6. QED
      BY <3>3, <3>4, <3>5 DEF LastFor
  <2>15. ASSUME lv.edict = Empty, NEW j \in DOMAIN r PROVE r[j] \notin OfBase
    BY <2>9, <2>11, <2>15 DEF OfBase
  <2>16. ASSUME lv.edict # Empty PROVE LastFor(r, OfBase, lv.edict)
    <3>1. e = 2 /\ b[1] = [type |-> "baseline", value |-> lv.edict]
      BY <2>6, <2>16 DEF e
    <3>2. n + 1 \in DOMAIN r /\ r[n+1] = [type |-> "baseline", value |-> lv.edict] /\ r[n+1] \in Messages
      BY <2>8, <3>1 DEF r, n, e
    <3>3. r[n+1] \in OfBase /\ Value(r[n+1]) = lv.edict
      BY <3>2 DEF OfBase, Value
    <3>4. ASSUME NEW j \in DOMAIN r, j > n + 1 PROVE r[j] \notin OfBase
      <4>1. j = t
        BY <2>8, <3>1, <3>4 DEF r, n, e, t
      <4>2. QED
        BY <2>9, <4>1 DEF OfBase
    <3>5. QED
      BY <3>2, <3>3, <3>4 DEF LastFor
  <2>17. IsToken(r[t], lv.count)
    BY <2>9 DEF IsToken
  <2>18. \A j \in DOMAIN r \ {t} : r[j].type \notin Marks
    BY <2>12 DEF Marks
  <2>19. r \in Seq(Messages) /\ Rest = r
    BY <2>7, <2>8 DEF r
  <2>20. QED
    BY <1>2, <2>9, <2>12, <2>13, <2>14, <2>15, <2>16, <2>17, <2>18, <2>19
<1>3. QED
  BY <1>1, <1>2

(* A client that owes no answer is sent the level (SV_New_f). *)
LEMMA SendLevelOK ==
  ASSUME Types, NEW c \in Clients, NEW r \in Remotes,
         Quiet(cl[c].down), Calm(r.up), r.loading = 0 \/ r.waiting,
         Numbered(cl[c], r, lv, nextmap), lv.state = "game" => cl[c].begins = 0
  PROVE  SendLevel(c) \in Slots /\ ClientOK(SendLevel(c), r, lv, nextmap)
<1> DEFINE s == cl[c]
           sd == [type |-> "serverdata", count |-> lv.count]
           h == s.down \o <<sd>>
           d == h \o Rest
           x == SendLevel(c)
           last == IF lv.state = "game" THEN lv.edict ELSE s.lastlines
<1>1. /\ s \in Slots /\ lv \in Levels /\ s.down \in Seq(Messages) /\ lv.count \in 1 .. MaxCount
      /\ s.lastlines \in Strings /\ lv.edict \in Strings /\ MaxCount \in Nat
  BY HsAssumption DEF Types, Slots, Levels
<1>2. sd \in Messages /\ Rest \in Seq(Messages)
  BY <1>1, RestOfLevel DEF Messages
<1>3. x = [s EXCEPT !.state = "spawning", !.count = lv.count, !.lastlines = last, !.down = d]
  BY DEF SendLevel, Rest
<1> HIDE DEF x, s, last
<1>4. last \in Strings /\ (lv.state = "game" => last = lv.edict)
  BY <1>1 DEF last
<1>5. h \in Seq(Messages) /\ d \in Seq(Messages)
  BY <1>1, <1>2, JoinOf
<1> HIDE DEF d, h
<1>6. x.state = "spawning" /\ x.count = lv.count /\ x.down = d /\ x.begins = s.begins /\ x.lastlines = last
  BY <1>1, <1>3 DEF Slots
<1>7. x \in Slots
  <2>1. lv.count \in 0 .. MaxCount /\ "spawning" \in SlotStates
    BY <1>1 DEF SlotStates
  <2>2. QED
    BY <1>1, <1>3, <1>4, <1>5, <2>1 DEF Slots
<1> DEFINE n == Len(s.down)
           k == n + 1
<1>8. /\ n \in Nat /\ DOMAIN s.down = 1 .. n /\ DOMAIN h = 1 .. k /\ Len(h) = k
      /\ \A j \in 1 .. n : h[j] = s.down[j]
      /\ h[k] = sd
  <2>1. h = Append(s.down, sd)
    BY <1>1, <1>2 DEF h
  <2>2. QED
    BY <1>1, <1>2, <1>5, <2>1, AppendOf
<1>9. /\ Len(Rest) \in Nat /\ DOMAIN Rest = 1 .. Len(Rest) /\ DOMAIN d = 1 .. (k + Len(Rest))
      /\ \A j \in 1 .. k : d[j] = h[j]
      /\ \A j \in 1 .. Len(Rest) : d[k + j] = Rest[j]
  <2>1. /\ Len(Rest) \in Nat /\ DOMAIN Rest = 1 .. Len(Rest) /\ DOMAIN d = 1 .. (Len(h) + Len(Rest))
        /\ \A j \in 1 .. Len(h) : d[j] = h[j]
        /\ \A j \in 1 .. Len(Rest) : d[Len(h) + j] = Rest[j]
    BY <1>2, <1>5, JoinOf DEF d
  <2>2. Len(h) = k
    BY <1>8
  <2> HIDE DEF k
  <2>3. QED
    BY <2>1, <2>2
<1> HIDE DEF n
<1>10. k \in DOMAIN d /\ d[k] = sd
  BY <1>8, <1>9
<1>11. ASSUME NEW j \in DOMAIN d, j # k
       PROVE  \/ j \in DOMAIN s.down /\ d[j] = s.down[j]
              \/ j - k \in DOMAIN Rest /\ d[j] = Rest[j - k]
  <2>1. j <= n \/ j > k
    BY <1>8, <1>9, <1>11
  <2>2. CASE j <= n
    BY <1>8, <1>9, <2>2
  <2>3. CASE j > k
    <3>1. j - k \in 1 .. Len(Rest) /\ k + (j - k) = j
      BY <1>8, <1>9, <2>3
    <3>2. QED
      BY <1>9, <3>1
  <2>4. QED
    BY <2>1, <2>2, <2>3
<1>12. PICK t0 \in DOMAIN Rest : IsToken(Rest[t0], lv.count) /\ \A j \in DOMAIN Rest \ {t0} : Rest[j].type \notin Marks
  BY <1>1, RestOfLevel
<1> DEFINE t == k + t0
<1>13. t \in DOMAIN d /\ d[t] = Rest[t0] /\ k < t
  <2>1. t0 \in 1 .. Len(Rest) /\ k \in Nat
    BY <1>8, <1>9
  <2>2. d[k + t0] = Rest[t0]
    BY <1>9, <2>1
  <2>3. k + t0 \in 1 .. (k + Len(Rest)) /\ k < k + t0
    BY <1>9, <2>1
  <2>4. QED
    BY <1>9, <2>2, <2>3
<1>14. ASSUME NEW j \in DOMAIN d \ {k, t} PROVE d[j].type \notin Marks
  <2>1. CASE j \in DOMAIN s.down /\ d[j] = s.down[j]
    BY <2>1 DEF Quiet, s
  <2>2. CASE j - k \in DOMAIN Rest /\ d[j] = Rest[j - k]
    <3>1. j - k # t0
      BY <1>8, <1>9, <1>14
    <3>2. QED
      BY <1>12, <2>2, <3>1
  <2>3. QED
    BY <1>11, <2>1, <2>2
<1> HIDE DEF k, t
<1>15. Sent(x, r)
  <2>1. d[k] = [type |-> "serverdata", count |-> x.count] /\ IsToken(d[t], x.count)
    BY <1>6, <1>10, <1>12, <1>13
  <2>2. QED
    BY <1>6, <1>10, <1>13, <1>14, <2>1 DEF Sent
<1>16. Phased(x, r, lv)
  <2>1. x.count > 0
    BY <1>1, <1>6
  <2>2. QED
    BY <1>6, <1>15, <2>1 DEF Phased, Answering
<1>17. Counted(x, lv)
  BY <1>6 DEF Counted, s
<1>18. Numbered(x, r, lv, nextmap)
  <2>1. ASSUME NEW j \in DOMAIN d, d[j].type = "serverdata" PROVE d[j].count <= lv.count
    <3>1. CASE j = k
      BY <1>1, <1>10, <3>1
    <3>2. CASE j # k
      <4>1. CASE j \in DOMAIN s.down /\ d[j] = s.down[j]
        BY <2>1, <4>1 DEF Numbered, Told, s
      <4>2. CASE j - k \in DOMAIN Rest /\ d[j] = Rest[j - k]
        BY <1>1, <2>1, <4>2, RestOfLevel
      <4>3. QED
        BY <1>11, <3>2, <4>1, <4>2
    <3>3. QED
      BY <3>1, <3>2
  <2>2. x.count <= lv.count
    BY <1>1, <1>6
  <2>3. QED
    BY <1>6, <2>1, <2>2 DEF Numbered, Told
<1>19. Knows(x, r, lv)
  <2>1. SUFFICES ASSUME lv.state = "game"
                 PROVE  /\ \A i \in Plain : Will(d, r.strings[i], OfString(i), lv.strings[i])
                        /\ Will(d, r.base, OfBase, lv.edict)
    BY <1>4, <1>6 DEF Knows
  <2>2. ASSUME NEW D, NEW y, sd \in D PROVE Will(h, y, D, Empty)
    <3>1. Value(sd) = Empty
      BY DEF Value
    <3>2. h = Append(s.down, sd)
      BY <1>1, <1>2 DEF h
    <3>3. QED
      BY <1>1, <1>2, <2>2, <3>1, <3>2, WillAppend
  <2>3. ASSUME NEW D, NEW y, NEW v, sd \in D,
               IF v = Empty THEN \A j \in DOMAIN Rest : Rest[j] \notin D ELSE LastFor(Rest, D, v)
        PROVE  Will(d, y, D, v)
    <3>1. CASE v = Empty
      <4>1. Will(h, y, D, v)
        BY <2>2, <2>3, <3>1
      <4>2. QED
        BY <1>2, <1>5, <2>3, <3>1, <4>1, WillJoin DEF d
    <3>2. CASE v # Empty
      BY <1>2, <1>5, <2>3, <3>2, WillJoin DEF d, LastFor
    <3>3. QED
      BY <3>1, <3>2
  <2>4. ASSUME NEW i \in Plain PROVE Will(d, r.strings[i], OfString(i), lv.strings[i])
    <3>1. sd \in OfString(i)
      BY <1>2 DEF OfString
    <3>2. IF lv.strings[i] = Empty THEN \A j \in DOMAIN Rest : Rest[j] \notin OfString(i)
          ELSE LastFor(Rest, OfString(i), lv.strings[i])
      BY <1>1, <2>1, RestOfLevel
    <3>3. QED
      BY <2>3, <3>1, <3>2
  <2>5. Will(d, r.base, OfBase, lv.edict)
    <3>1. sd \in OfBase
      BY <1>2 DEF OfBase
    <3>2. IF lv.edict = Empty THEN \A j \in DOMAIN Rest : Rest[j] \notin OfBase ELSE LastFor(Rest, OfBase, lv.edict)
      BY <1>1, <2>1, RestOfLevel
    <3>3. QED
      BY <2>3, <3>1, <3>2
  <2>6. QED
    BY <2>4, <2>5
<1>20. QED
  BY <1>7, <1>16, <1>17, <1>18, <1>19 DEF x, ClientOK
-----------------------------------------------------------------------------
(* Where the messages and commands of some types T are in a list, after it is read or added to. *)
NoneOf(s, T) == \A j \in DOMAIN s : s[j].type \notin T
OnlyAt(s, T, k) == k \in DOMAIN s /\ \A j \in DOMAIN s \ {k} : s[j].type \notin T

LEMMA NoneRead ==
  ASSUME NEW S, NEW s \in Seq(S), s # <<>>, NEW T, NoneOf(s, T)
  PROVE  Head(s).type \notin T /\ NoneOf(Tail(s), T)
<1>1. Head(s).type \notin T
  BY TailOf DEF NoneOf
<1>2. ASSUME NEW j \in DOMAIN Tail(s) PROVE Tail(s)[j].type \notin T
  <2>1. j \in 1 .. (Len(s) - 1) /\ Len(s) \in Nat /\ Tail(s)[j] = s[j+1] /\ DOMAIN s = 1 .. Len(s)
    BY TailOf
  <2>2. j + 1 \in DOMAIN s
    BY <2>1
  <2>3. QED
    BY <2>1, <2>2 DEF NoneOf
<1>3. QED
  BY <1>1, <1>2 DEF NoneOf

LEMMA OnlyRead ==
  ASSUME NEW S, NEW s \in Seq(S), s # <<>>, NEW T, NEW k, OnlyAt(s, T, k)
  PROVE  /\ k = 1 => Head(s) = s[k] /\ NoneOf(Tail(s), T)
         /\ k # 1 => Head(s).type \notin T /\ k - 1 > 0 /\ OnlyAt(Tail(s), T, k - 1) /\ Tail(s)[k-1] = s[k]
<1> DEFINE t == Tail(s)
<1>1. /\ Len(s) \in Nat \ {0} /\ DOMAIN s = 1 .. Len(s) /\ DOMAIN t = 1 .. (Len(s) - 1) /\ Head(s) = s[1]
      /\ \A j \in 1 .. (Len(s) - 1) : t[j] = s[j+1]
  BY TailOf
<1> HIDE DEF t
<1>2. k \in 1 .. Len(s)
  BY <1>1 DEF OnlyAt
<1>3. ASSUME NEW j \in DOMAIN t, j + 1 # k PROVE t[j].type \notin T
  <2>1. j + 1 \in DOMAIN s /\ t[j] = s[j+1]
    BY <1>1
  <2>2. QED
    BY <1>3, <2>1 DEF OnlyAt
<1>4. CASE k = 1
  <2>1. \A j \in DOMAIN t : j + 1 # k
    BY <1>1, <1>4
  <2>2. QED
    BY <1>1, <1>3, <1>4, <2>1 DEF NoneOf, t
<1>5. CASE k # 1
  <2>1. Head(s).type \notin T
    <3>1. 1 \in DOMAIN s \ {k}
      BY <1>1, <1>5
    <3>2. QED
      BY <1>1, <3>1 DEF OnlyAt
  <2>2. k - 1 \in DOMAIN t /\ k - 1 > 0 /\ t[k-1] = s[k]
    <3>1. k - 1 \in 1 .. (Len(s) - 1) /\ (k - 1) + 1 = k
      BY <1>1, <1>2, <1>5
    <3>2. QED
      BY <1>1, <3>1
  <2>3. \A j \in DOMAIN t \ {k-1} : j + 1 # k
    BY <1>1, <1>2
  <2>4. QED
    BY <1>3, <1>5, <2>1, <2>2, <2>3 DEF OnlyAt, t
<1>6. QED
  BY <1>4, <1>5

LEMMA NoneAdded ==
  ASSUME NEW S, NEW s \in Seq(S), NEW m \in S, NEW T, NoneOf(s, T)
  PROVE  /\ m.type \notin T => NoneOf(Append(s, m), T)
         /\ OnlyAt(Append(s, m), T, Len(s) + 1) /\ Append(s, m)[Len(s) + 1] = m
<1>1. \A j \in DOMAIN Append(s, m) \ {Len(s) + 1} : j \in DOMAIN s /\ Append(s, m)[j] = s[j]
  BY AppendOf
<1>2. Len(s) + 1 \in DOMAIN Append(s, m) /\ Append(s, m)[Len(s) + 1] = m
  BY AppendOf
<1>3. QED
  BY <1>1, <1>2 DEF NoneOf, OnlyAt

LEMMA OnlyAdded ==
  ASSUME NEW S, NEW s \in Seq(S), NEW m \in S, NEW T, m.type \notin T, NEW k, OnlyAt(s, T, k)
  PROVE  OnlyAt(Append(s, m), T, k) /\ Append(s, m)[k] = s[k]
<1>1. \A j \in DOMAIN Append(s, m) \ {Len(s) + 1} : j \in DOMAIN s /\ Append(s, m)[j] = s[j]
  BY AppendOf
<1>2. Append(s, m)[Len(s) + 1] = m /\ k \in DOMAIN Append(s, m) /\ k # Len(s) + 1
  <2>1. k \in 1 .. Len(s) /\ Len(s) \in Nat
    BY AppendOf DEF OnlyAt
  <2>2. QED
    BY <2>1, AppendOf
<1>3. QED
  BY <1>1, <1>2 DEF OnlyAt

(* The next command of a client is executed: what is true of the client before the handler runs. *)
ReadAs(s, r, l, n, q, m) ==
  /\ q \in Remotes /\ m \in Commands
  /\ Numbered(s, q, l, n) /\ Counted(s, l) /\ Knows(s, q, l)
  /\ m.type \notin Steps => Phased(s, q, l)
  /\ m.type = "nextserver" => m.count <= l.count /\ (m.count = l.count => ~n /\ l.count + 1 <= MaxCount)
  /\ Live(s) /\ m.type \in Steps => s.state = "spawning" /\ Quiet(s.down) /\ Calm(q.up) /\ q.count = s.count
  /\ Live(s) /\ m.type = "download" => q.loading = s.count /\ q.waiting
  /\ Live(s) /\ m.type = "begin" => q.loading = 0 /\ ~q.waiting /\ m.count = s.count
LEMMA CommandRead ==
  ASSUME NEW s \in Slots, NEW r \in Remotes, NEW l, NEW n, r.up # <<>>, ClientOK(s, r, l, n),
         NEW q, q = [r EXCEPT !.up = Tail(@)], NEW m, m = Head(r.up)
  PROVE  ReadAs(s, r, l, n, q, m)
<1>1. /\ r.up \in Seq(Commands) /\ Tail(r.up) \in Seq(Commands) /\ m \in Commands
      /\ DOMAIN Tail(r.up) = 1 .. (Len(r.up) - 1) /\ Len(r.up) \in Nat \ {0} /\ DOMAIN r.up = 1 .. Len(r.up)
      /\ \A j \in 1 .. (Len(r.up) - 1) : Tail(r.up)[j] = r.up[j+1]
      /\ m = r.up[1]
  <2>1. r.up \in Seq(Commands)
    BY DEF Remotes
  <2>2. QED
    BY <2>1, TailOf
<1>2. q \in Remotes
  BY <1>1 DEF Remotes
<1>3. /\ q.up = Tail(r.up) /\ q.count = r.count /\ q.loading = r.loading /\ q.waiting = r.waiting
      /\ q.strings = r.strings /\ q.base = r.base
  BY DEF Remotes
<1>4. Skips(q, l, n)
  <2>1. ASSUME NEW j \in DOMAIN q.up PROVE j + 1 \in DOMAIN r.up /\ q.up[j] = r.up[j+1]
    BY <1>1, <1>3
  <2>2. QED
    BY <2>1 DEF ClientOK, Numbered, Skips
<1>5. Numbered(s, q, l, n) /\ Counted(s, l) /\ Knows(s, q, l)
  BY <1>3, <1>4 DEF ClientOK, Numbered, Knows
<1>6. m.type = "nextserver" => m.count <= l.count /\ (m.count = l.count => ~n /\ l.count + 1 <= MaxCount)
  BY <1>1 DEF ClientOK, Numbered, Skips
<1>7. Calm(r.up) => m.type \notin Steps /\ Calm(q.up)
  BY <1>1, <1>3, NoneRead DEF Calm, NoneOf
<1>8. ASSUME OneDownload(r.up)
      PROVE  /\ m.type \notin Steps => OneDownload(q.up)
             /\ m.type \in Steps => m.type = "download" /\ Calm(q.up)
  <2>1. PICK k \in DOMAIN r.up : r.up[k].type = "download" /\ OnlyAt(r.up, Steps, k)
    BY <1>8 DEF OneDownload, OnlyAt
  <2>2. CASE k = 1
    BY <1>1, <1>3, <2>1, <2>2, OnlyRead DEF Calm, NoneOf, Steps
  <2>3. CASE k # 1
    <3>1. m.type \notin Steps /\ OnlyAt(Tail(r.up), Steps, k - 1) /\ Tail(r.up)[k-1] = r.up[k]
      BY <1>1, <2>1, <2>3, OnlyRead
    <3>2. QED
      BY <1>3, <2>1, <3>1 DEF OneDownload, OnlyAt
  <2>4. QED
    BY <2>2, <2>3
<1>9. ASSUME OneBegin(r.up, s.count)
      PROVE  /\ m.type \notin Steps => OneBegin(q.up, s.count)
             /\ m.type \in Steps => m.type = "begin" /\ m.count = s.count /\ Calm(q.up)
  <2>1. PICK k \in DOMAIN r.up : r.up[k] = [type |-> "begin", count |-> s.count] /\ OnlyAt(r.up, Steps, k)
    BY <1>9 DEF OneBegin, OnlyAt
  <2>2. CASE k = 1
    BY <1>1, <1>3, <2>1, <2>2, OnlyRead DEF Calm, NoneOf, Steps
  <2>3. CASE k # 1
    <3>1. m.type \notin Steps /\ OnlyAt(Tail(r.up), Steps, k - 1) /\ Tail(r.up)[k-1] = r.up[k]
      BY <1>1, <2>1, <2>3, OnlyRead
    <3>2. QED
      BY <1>3, <2>1, <3>1 DEF OneBegin, OnlyAt
  <2>4. QED
    BY <2>2, <2>3
<1>10. Phased(s, r, l)
  BY DEF ClientOK
<1>11. ASSUME m.type \notin Steps PROVE Phased(s, q, l)
  <2>1. Idle(s, r) => Idle(s, q)
    BY <1>3, <1>7 DEF Idle
  <2>2. Sent(s, r) => Sent(s, q)
    BY <1>3, <1>7 DEF Sent
  <2>3. Listing(s, r) => Listing(s, q)
    BY <1>3, <1>7 DEF Listing
  <2>4. Loading(s, r) => Loading(s, q)
    BY <1>3, <1>7, <1>8, <1>11 DEF Loading
  <2>5. Begins(s, r) => Begins(s, q)
    BY <1>3, <1>9, <1>11 DEF Begins
  <2>6. QED
    BY <1>3, <1>10, <2>1, <2>2, <2>3, <2>4, <2>5 DEF Phased, Answering
<1>12. ASSUME Live(s), m.type \in Steps
       PROVE  /\ s.state = "spawning" /\ Quiet(s.down) /\ Calm(q.up) /\ q.count = s.count
              /\ m.type = "download" => q.loading = s.count /\ q.waiting
              /\ m.type = "begin" => q.loading = 0 /\ ~q.waiting /\ m.count = s.count
  <2>1. ~Idle(s, r) /\ ~Sent(s, r) /\ ~Listing(s, r)
    BY <1>7, <1>12 DEF Idle, Sent, Listing
  <2>2. s.state = "spawning" /\ (Loading(s, r) \/ Begins(s, r))
    BY <1>10, <1>12, <2>1 DEF Phased, Answering, Live, Slots, SlotStates
  <2>3. CASE Loading(s, r)
    BY <1>3, <1>7, <1>8, <1>12, <2>2, <2>3 DEF Loading
  <2>4. CASE Begins(s, r)
    BY <1>3, <1>9, <1>12, <2>2, <2>4 DEF Begins
  <2>5. QED
    BY <2>2, <2>3, <2>4
<1>13. QED
  BY <1>1, <1>2, <1>5, <1>6, <1>11, <1>12 DEF ReadAs, Steps
-----------------------------------------------------------------------------
(* The commands of a client.  q is the remote client without the command that is executed. *)
Done(c, q) ==
  /\ cl' \in [Clients -> Slots] /\ \A b \in Clients \ {c} : cl'[b] = cl[b]
  /\ ClientOK(cl'[c], q, lv, nextmap)

LEMMA DoneAt ==
  ASSUME Types, NEW c \in Clients, NEW q, NEW x \in Slots, ClientOK(x, q, lv, nextmap), cl' = [cl EXCEPT ![c] = x]
  PROVE  Done(c, q)
<1>1. cl \in [Clients -> Slots]
  BY DEF Types
<1>2. cl' \in [Clients -> Slots] /\ cl'[c] = x /\ \A b \in Clients \ {c} : cl'[b] = cl[b]
  BY <1>1
<1>3. QED
  BY <1>2 DEF Done

(* Nothing is expected of who is gone (SV_DropClient). *)
LEMMA DropOK ==
  ASSUME Types, NEW c \in Clients, NEW q, Numbered(cl[c], q, lv, nextmap), cl' = Drop(c, <<Command("disconnect")>>)
  PROVE  Done(c, q)
<1> DEFINE s == cl[c]
           m == Command("disconnect")
           d == s.down \o <<m>>
           x == [s EXCEPT !.state = "zombie", !.down = d]
<1>1. s \in Slots /\ s.down \in Seq(Messages) /\ cl \in [Clients -> Slots]
  BY DEF Types, Slots
<1>2. m \in Messages /\ m.type # "serverdata"
  BY DEF Command, Messages
<1>3. d = Append(s.down, m)
  BY <1>1, <1>2
<1> HIDE DEF m, d
<1>4. d \in Seq(Messages) /\ \A j \in DOMAIN d : d[j].type = "serverdata" => j \in DOMAIN s.down /\ d[j] = s.down[j]
  BY <1>1, <1>2, <1>3, AppendOf
<1>5. x \in Slots /\ x.state = "zombie" /\ x.down = d /\ x.count = s.count
  BY <1>1, <1>4 DEF Slots, SlotStates
<1>6. cl' = [cl EXCEPT ![c] = x]
  BY <1>1 DEF Drop, d, m
<1> HIDE DEF x
<1>7. ClientOK(x, q, lv, nextmap)
  <2>1. Numbered(x, q, lv, nextmap)
    BY <1>4, <1>5 DEF Numbered, Told
  <2>2. QED
    BY <1>5, <2>1 DEF ClientOK, Phased, Counted, Knows, Live
<1>8. QED
  BY <1>5, <1>6, <1>7, DoneAt

(* The slot of a client that has been told the level it is in (SV_ClientBegin). *)
LEMMA ClientBeginOK ==
  ASSUME Types, NEW c \in Clients, NEW q \in Remotes, Numbered(cl[c], q, lv, nextmap), Counted(cl[c], lv),
         Knows(cl[c], q, lv), cl[c].state = "spawning", cl[c].count = lv.count,
         Quiet(cl[c].down), Calm(q.up), q.loading = 0, ~q.waiting, q.count = lv.count
  PROVE  ClientBegin(c) \in Slots /\ ClientOK(ClientBegin(c), q, lv, nextmap)
<1> DEFINE s == cl[c]
           x == ClientBegin(c)
           I == {j \in Images : lv.strings[j] # Empty}
           t == ImageStrings
           d == s.down \o t
           b == IF lv.state = "game" THEN s.begins + 1 ELSE s.begins
<1>1. /\ s \in Slots /\ lv \in Levels /\ s.down \in Seq(Messages) /\ lv.count \in 0 .. MaxCount
      /\ s.begins \in Nat /\ lv.strings \in [Indices -> Strings]
  BY HsAssumption DEF Types, Slots, Levels
<1>2. I \in SUBSET Indices /\ IsFiniteSet(I) /\ I \subseteq Images
  BY HsAssumption, FS_Subset DEF Indices
<1>3. lv.strings \in [Indices -> Strings \union {File}]
  BY <1>1
<1>4. t = SetToSeq({Configstring(i, lv.strings[i]) : i \in I})
  BY DEF ImageStrings
<1> HIDE DEF I, t
<1>5. /\ t \in Seq(Messages) /\ \A j \in DOMAIN t : t[j].type = "configstring" /\ t[j].index \in I
      /\ \A i \in I : \E k \in DOMAIN t : t[k] = Configstring(i, lv.strings[i]) /\ \A j \in DOMAIN t \ {k} : t[j].index # i
  <2> DEFINE g == SetToSeq({Configstring(i, lv.strings[i]) : i \in I})
  <2>1. /\ g \in Seq(Messages) /\ \A j \in DOMAIN g : g[j].type = "configstring" /\ g[j].index \in I
        /\ \A i \in I : \E k \in DOMAIN g : g[k] = Configstring(i, lv.strings[i]) /\ \A j \in DOMAIN g \ {k} : g[j].index # i
    BY <1>2, <1>3, Configstrings
  <2>2. QED
    BY <1>4, <2>1
<1>6. x = [s EXCEPT !.state = "spawned", !.count = lv.count, !.down = d, !.begins = b]
  BY DEF ClientBegin, t
<1>7. d \in Seq(Messages) /\ DOMAIN d = 1 .. (Len(s.down) + Len(t)) /\ Len(s.down) \in Nat /\ Len(t) \in Nat
      /\ DOMAIN s.down = 1 .. Len(s.down) /\ DOMAIN t = 1 .. Len(t)
      /\ (\A j \in 1 .. Len(s.down) : d[j] = s.down[j]) /\ \A j \in 1 .. Len(t) : d[Len(s.down) + j] = t[j]
  BY <1>1, <1>5, JoinOf
<1> HIDE DEF x, d, b
<1>8. b \in Nat /\ (lv.state = "game" => b = s.begins + 1)
  BY <1>1 DEF b
<1>9. x \in Slots /\ x.state = "spawned" /\ x.count = lv.count /\ x.down = d /\ x.begins = b /\ x.lastlines = s.lastlines
  <2>1. "spawned" \in SlotStates
    BY DEF SlotStates
  <2>2. QED
    BY <1>1, <1>6, <1>7, <1>8, <2>1 DEF Slots
<1>10. ASSUME NEW j \in DOMAIN d
       PROVE  (j \in DOMAIN s.down /\ d[j] = s.down[j]) \/ d[j].type = "configstring"
  <2>1. CASE j <= Len(s.down)
    BY <1>7, <2>1
  <2>2. CASE j > Len(s.down)
    <3>1. j - Len(s.down) \in 1 .. Len(t) /\ Len(s.down) + (j - Len(s.down)) = j
      <4>1. \A n, k \in Nat : \A i \in 1 .. (n + k) : i > n => i - n \in 1 .. k /\ n + (i - n) = i
        OBVIOUS
      <4>2. j \in 1 .. (Len(s.down) + Len(t))
        BY <1>7
      <4>3. QED
        BY <1>7, <2>2, <4>1, <4>2
    <3>2. QED
      BY <1>5, <1>7, <3>1
  <2>3. QED
    BY <1>7, <2>1, <2>2
<1>11. Quiet(d)
  BY <1>10 DEF Quiet, Marks
<1>12. Numbered(x, q, lv, nextmap)
  <2>1. x.count <= lv.count
    BY <1>1, <1>9
  <2>2. QED
    BY <1>9, <1>10, <2>1 DEF Numbered, Told
<1>13. Phased(x, q, lv)
  BY <1>9, <1>11 DEF Phased, Idle
<1>14. Counted(x, lv)
  <2>1. lv.state = "game" => s.begins = 0
    BY DEF Counted, Live
  <2>2. lv.state = "game" => b = 1
    BY <1>1, <1>8, <2>1
  <2>3. QED
    BY <1>9, <2>2 DEF Counted
<1>15. Knows(x, q, lv)
  <2>1. SUFFICES ASSUME lv.state = "game"
                 PROVE  /\ \A i \in Plain : Will(d, q.strings[i], OfString(i), lv.strings[i])
                        /\ Will(d, q.base, OfBase, s.lastlines)
                        /\ \A i \in Images : lv.strings[i] # Empty => Will(d, q.strings[i], OfString(i), lv.strings[i])
    BY <1>9 DEF Knows
  <2>2. /\ \A i \in Plain : Will(s.down, q.strings[i], OfString(i), lv.strings[i])
        /\ Will(s.down, q.base, OfBase, s.lastlines)
    BY <2>1 DEF Knows, Live
  <2>3. ASSUME NEW i \in Plain PROVE Will(d, q.strings[i], OfString(i), lv.strings[i])
    <3>1. i \notin I
      BY <1>2, HsAssumption
    <3>2. \A j \in DOMAIN t : t[j] \notin OfString(i)
      BY <1>5, <3>1 DEF OfString
    <3>3. QED
      BY <1>1, <1>5, <2>2, <3>2, WillJoin DEF d
  <2>4. Will(d, q.base, OfBase, s.lastlines)
    <3>1. \A j \in DOMAIN t : t[j] \notin OfBase
      BY <1>5 DEF OfBase
    <3>2. QED
      BY <1>1, <1>5, <2>2, <3>1, WillJoin DEF d
  <2>5. ASSUME NEW i \in Images, lv.strings[i] # Empty PROVE Will(d, q.strings[i], OfString(i), lv.strings[i])
    <3>1. i \in I
      BY <2>5 DEF I
    <3>2. PICK k \in DOMAIN t : t[k] = Configstring(i, lv.strings[i]) /\ \A j \in DOMAIN t \ {k} : t[j].index # i
      BY <1>5, <3>1
    <3>3. t[k] \in Messages
      BY <1>5
    <3>4. t[k] \in OfString(i) /\ Value(t[k]) = lv.strings[i]
      BY <3>2, <3>3 DEF OfString, Value, Configstring
    <3>5. ASSUME NEW j \in DOMAIN t, j > k PROVE t[j] \notin OfString(i)
      <4>1. j # k
        BY <1>7, <3>5
      <4>2. QED
        BY <1>5, <3>2, <4>1 DEF OfString
    <3>6. QED
      BY <1>1, <1>5, <3>4, <3>5, WillJoin DEF d
  <2>6. QED
    BY <2>3, <2>4, <2>5
<1>16. QED
  BY <1>9, <1>12, <1>13, <1>14, <1>15 DEF x, ClientOK

(* SV_New_f *)
LEMMA NewOK ==
  ASSUME Types, NEW c \in Clients, NEW q \in Remotes, ClientOK(cl[c], q, lv, nextmap), Live(cl[c]), New(c)
  PROVE  Done(c, q)
<1>1. cl[c] \in Slots /\ cl \in [Clients -> Slots] /\ Numbered(cl[c], q, lv, nextmap)
  BY DEF Types, ClientOK
<1>2. CASE cl[c].state = "connected"
  <2>1. cl' = [cl EXCEPT ![c] = SendLevel(c)]
    BY <1>2 DEF New
  <2>2. Idle(cl[c], q) /\ (lv.state = "game" => cl[c].begins = 0)
    BY <1>2 DEF ClientOK, Phased, Counted, Live
  <2>3. SendLevel(c) \in Slots /\ ClientOK(SendLevel(c), q, lv, nextmap)
    BY <1>1, <2>2, SendLevelOK DEF Idle
  <2>4. QED
    BY <2>1, <2>3, DoneAt
<1>3. CASE cl[c].state = "spawning"
  <2>1. cl' = Drop(c, <<Command("disconnect")>>)
    BY <1>3 DEF New
  <2>2. QED
    BY <1>1, <2>1, DropOK
<1>4. CASE cl[c].state = "spawned"
  <2>1. cl' = cl
    BY <1>4 DEF New
  <2>2. QED
    BY <1>1, <2>1 DEF Done
<1>5. QED
  BY <1>1, <1>2, <1>3, <1>4 DEF Live, Slots, SlotStates

(* SV_Begin_f: the client is in the level it is answering for, or is sent the level there is now. *)
LEMMA BeginOK ==
  ASSUME Types, NEW c \in Clients, NEW q \in Remotes, NEW k,
         Numbered(cl[c], q, lv, nextmap), Counted(cl[c], lv), Knows(cl[c], q, lv),
         cl[c].state = "spawning", k = cl[c].count, Quiet(cl[c].down), Calm(q.up),
         q.loading = 0, ~q.waiting, q.count = cl[c].count, Begin(c, k)
  PROVE  Done(c, q) /\ blamed' = {}
<1>1. blamed' = {}
  BY DEF Begin, Types
<1>2. CASE k # lv.count
  <2>1. cl' = [cl EXCEPT ![c] = SendLevel(c)]
    BY <1>2 DEF Begin
  <2>2. lv.state = "game" => cl[c].begins = 0
    BY DEF Counted, Live
  <2>3. SendLevel(c) \in Slots /\ ClientOK(SendLevel(c), q, lv, nextmap)
    BY <2>2, SendLevelOK
  <2>4. QED
    BY <1>1, <2>1, <2>3, DoneAt
<1>3. CASE k = lv.count
  <2>1. cl' = [cl EXCEPT ![c] = ClientBegin(c)]
    BY <1>3 DEF Begin
  <2>2. ClientBegin(c) \in Slots /\ ClientOK(ClientBegin(c), q, lv, nextmap)
    BY <1>3, ClientBeginOK
  <2>3. QED
    BY <1>1, <2>1, <2>2, DoneAt
<1>4. QED
  BY <1>2, <1>3

(* SV_BeginDownload_f *)
LEMMA DownloadOK ==
  ASSUME Types, NEW c \in Clients, NEW q \in Remotes,
         Numbered(cl[c], q, lv, nextmap), Counted(cl[c], lv), Knows(cl[c], q, lv),
         cl[c].state = "spawning", Quiet(cl[c].down), Calm(q.up),
         q.loading = cl[c].count, q.waiting, q.count = cl[c].count, Download(c)
  PROVE  Done(c, q)
<1>1. cl[c] \in Slots /\ cl \in [Clients -> Slots] /\ lv \in Levels
  BY DEF Types
<1>2. CASE cl[c].count # lv.count
  <2>1. cl' = [cl EXCEPT ![c] = SendLevel(c)]
    BY <1>2 DEF Download
  <2>2. lv.state = "game" => cl[c].begins = 0
    BY DEF Counted, Live
  <2>3. SendLevel(c) \in Slots /\ ClientOK(SendLevel(c), q, lv, nextmap)
    BY <2>2, SendLevelOK
  <2>4. QED
    BY <2>1, <2>3, DoneAt
<1>3. CASE cl[c].count = lv.count
  <2> DEFINE s == cl[c]
             m == Command("file")
             d == Append(s.down, m)
             x == [s EXCEPT !.down = d]
  <2>1. cl' = [cl EXCEPT ![c] = x]
    BY <1>1, <1>3 DEF Download
  <2>2. m \in Messages /\ m.type = "file" /\ s.down \in Seq(Messages)
    BY <1>1 DEF Command, Messages, Slots
  <2> HIDE DEF m, d
  <2>3. d \in Seq(Messages) /\ x \in Slots
    BY <1>1, <2>2, AppendOf DEF d, Slots
  <2>4. x.state = "spawning" /\ x.count = s.count /\ x.down = d /\ x.begins = s.begins /\ x.lastlines = s.lastlines
    BY <1>1 DEF Slots
  <2> HIDE DEF x
  <2>5. OneFile(d) /\ \A j \in DOMAIN d : d[j].type # "serverdata"
    <3>1. OnlyAt(d, Marks, Len(s.down) + 1) /\ d[Len(s.down) + 1] = m
      <4>1. NoneOf(s.down, Marks)
        BY DEF Quiet, NoneOf
      <4>2. OnlyAt(Append(s.down, m), Marks, Len(s.down) + 1) /\ Append(s.down, m)[Len(s.down) + 1] = m
        BY <2>2, <4>1, NoneAdded
      <4>3. QED
        BY <4>2 DEF d
    <3>2. QED
      BY <2>2, <3>1 DEF OneFile, OnlyAt, Marks
  <2>6. Numbered(x, q, lv, nextmap) /\ Counted(x, lv)
    BY <2>4, <2>5 DEF Numbered, Told, Counted, Live
  <2>7. Phased(x, q, lv)
    <3>1. Loading(x, q)
      BY <2>4, <2>5 DEF Loading
    <3>2. x.count > 0
      BY <1>1, <1>3, <2>4 DEF Levels
    <3>3. QED
      BY <2>4, <3>1, <3>2 DEF Phased, Answering
  <2>8. Knows(x, q, lv)
    <3>1. m \notin OfBase /\ \A i \in Plain : m \notin OfString(i)
      BY <2>2 DEF OfBase, OfString
    <3>2. SUFFICES ASSUME lv.state = "game"
                   PROVE  /\ \A i \in Plain : Will(d, q.strings[i], OfString(i), lv.strings[i])
                          /\ Will(d, q.base, OfBase, s.lastlines)
      BY <2>4 DEF Knows
    <3>3. /\ \A i \in Plain : Will(s.down, q.strings[i], OfString(i), lv.strings[i])
          /\ Will(s.down, q.base, OfBase, s.lastlines)
      BY <1>3, <3>2 DEF Knows, Live
    <3>4. QED
      BY <2>2, <3>1, <3>3, WillAppend DEF d
  <2>9. QED
    BY <2>1, <2>3, <2>6, <2>7, <2>8, DoneAt DEF ClientOK
<1>4. QED
  BY <1>2, <1>3
-----------------------------------------------------------------------------
(* A step of one client leaves the others alone. *)
LEMMA OneClient ==
  ASSUME Inv, NEW c \in Clients, NEW q \in Remotes, Done(c, q), rc' = [rc EXCEPT ![c] = q],
         UNCHANGED <<lv, nextmap, sets>>, blamed' = {}
  PROVE  Inv'
<1>1. rc \in [Clients -> Remotes] /\ cl \in [Clients -> Slots]
  BY DEF Inv, Types
<1>2. rc' \in [Clients -> Remotes] /\ rc'[c] = q /\ \A b \in Clients \ {c} : rc'[b] = rc[b]
  BY <1>1
<1>3. Types'
  BY <1>2 DEF Inv, Types, Done
<1>4. ASSUME NEW b \in Clients PROVE ClientOK(cl'[b], rc'[b], lv', nextmap')
  <2>1. lv' = lv /\ nextmap' = nextmap
    OBVIOUS
  <2>2. CASE b = c
    BY <1>2, <2>1, <2>2 DEF Done
  <2>3. CASE b # c
    <3>1. cl'[b] = cl[b] /\ rc'[b] = rc[b]
      BY <1>2, <2>3 DEF Done
    <3>2. ClientOK(cl[b], rc[b], lv, nextmap)
      BY DEF Inv
    <3>3. QED
      BY <2>1, <3>1, <3>2
  <2>4. QED
    BY <2>2, <2>3
<1>5. QED
  BY <1>3, <1>4 DEF Inv

LEMMA CountOf ==
  ASSUME NEW m \in Messages, m.type = "serverdata"
  PROVE  m.count \in 1 .. MaxCount /\ m.count \in Nat
<1>1. m \in [type : {"serverdata", "precache", "cmd begin"}, count : 1 .. MaxCount]
  BY DEF Messages
<1>2. m.count \in 1 .. MaxCount
  BY <1>1
<1>3. QED
  BY <1>2, HsAssumption

(* The spawn count goes on when a picture ends (SV_Nextserver): no client can have the new one. *)
LEMMA PictureEnds ==
  ASSUME NEW s \in Slots, NEW r \in Remotes, NEW l \in Levels, NEW n, ClientOK(s, r, l, n), l.state # "game",
         NEW k, k = [l EXCEPT !.count = @ + 1]
  PROVE  ClientOK(s, r, k, TRUE)
<1>1. k.count = l.count + 1 /\ k.state = l.state /\ l.count \in Nat
  BY HsAssumption DEF Levels
<1>2. s.count \in Nat /\ r.count \in Nat /\ s.down \in Seq(Messages) /\ r.up \in Seq(Commands)
  BY HsAssumption DEF Slots, Remotes
<1>3. Told(s, k)
  <2>1. ASSUME NEW j \in DOMAIN s.down, s.down[j].type = "serverdata" PROVE s.down[j].count <= k.count
    <3>1. s.down[j] \in Messages /\ s.down[j].count <= l.count
      BY <1>2, <2>1 DEF ClientOK, Numbered, Told
    <3>2. s.down[j].count \in Nat
      BY <2>1, <3>1, CountOf
    <3>3. QED
      BY <1>1, <3>1, <3>2
  <2>2. QED
    BY <2>1 DEF Told
<1>4. Skips(r, k, TRUE)
  <2>1. ASSUME NEW j \in DOMAIN r.up, r.up[j].type = "nextserver" PROVE r.up[j].count < k.count
    <3>1. r.up[j] \in Commands /\ r.up[j].count <= l.count
      BY <1>2, <2>1 DEF ClientOK, Numbered, Skips
    <3>2. r.up[j].count \in Nat
      BY <2>1, <3>1, HsAssumption DEF Commands
    <3>3. QED
      BY <1>1, <3>1, <3>2
  <2>2. ASSUME NEW j \in DOMAIN r.up, r.up[j].type = "nextserver"
        PROVE  r.up[j].count <= k.count /\ r.up[j].count # k.count
    <3>1. r.up[j] \in Commands
      BY <1>2
    <3>2. r.up[j].count \in Nat
      BY <2>2, <3>1, HsAssumption DEF Commands
    <3>3. QED
      BY <1>1, <2>1, <2>2, <3>2
  <2>3. QED
    BY <2>2 DEF Skips
<1>5. Numbered(s, r, k, TRUE)
  <2>1. s.count <= l.count /\ r.count <= l.count
    BY DEF ClientOK, Numbered
  <2>2. s.count <= k.count /\ r.count <= k.count
    BY <1>1, <1>2, <2>1
  <2>3. QED
    BY <1>3, <1>4, <2>2 DEF Numbered
<1>6. Phased(s, r, k)
  BY <1>1, <1>2 DEF ClientOK, Phased
<1>7. Counted(s, k) /\ Knows(s, r, k)
  BY <1>1 DEF Counted, Knows
<1>8. QED
  BY <1>5, <1>6, <1>7 DEF ClientOK

LEMMA ExecuteOK ==
  ASSUME Inv, NEW c \in Clients, Execute(c)
  PROVE  Inv' /\ (nextmap /\ nextmap' => lv'.count = lv.count)
<1> DEFINE s == cl[c]
           r == rc[c]
           q == [r EXCEPT !.up = Tail(@)]
           m == Head(r.up)
<1>1. /\ Types /\ s \in Slots /\ r \in Remotes /\ lv \in Levels /\ rc \in [Clients -> Remotes] /\ cl \in [Clients -> Slots]
      /\ ClientOK(s, r, lv, nextmap)
  BY DEF Inv, Types
<1>2. Live(s) /\ r.up # <<>>
  BY DEF Execute, Active, Live
<1>3. /\ q \in Remotes /\ m \in Commands
      /\ Numbered(s, q, lv, nextmap) /\ Counted(s, lv) /\ Knows(s, q, lv)
      /\ m.type \notin Steps => Phased(s, q, lv)
      /\ m.type = "nextserver" => m.count <= lv.count /\ (m.count = lv.count => ~nextmap /\ lv.count + 1 <= MaxCount)
      /\ Live(s) /\ m.type \in Steps => s.state = "spawning" /\ Quiet(s.down) /\ Calm(q.up) /\ q.count = s.count
      /\ Live(s) /\ m.type = "download" => q.loading = s.count /\ q.waiting
      /\ Live(s) /\ m.type = "begin" => q.loading = 0 /\ ~q.waiting /\ m.count = s.count
  <2> HIDE DEF q, m, s, r
  <2>1. q = [r EXCEPT !.up = Tail(@)] /\ m = Head(r.up)
    BY DEF q, m
  <2>2. QED
    <3>1. ReadAs(s, r, lv, nextmap, q, m)
      BY <1>1, <1>2, <2>1, CommandRead
    <3>2. QED
      BY <3>1 DEF ReadAs
<1>4. rc' = [rc EXCEPT ![c] = q] /\ sets' = sets
  BY <1>1 DEF Execute
<1>5. \/ m.type = "new" /\ New(c) /\ UNCHANGED <<lv, nextmap, blamed>>
      \/ m.type = "begin" /\ Begin(c, m.count) /\ UNCHANGED <<lv, nextmap>>
      \/ m.type = "download" /\ Download(c) /\ UNCHANGED <<lv, nextmap, blamed>>
      \/ m.type = "nextserver" /\ Nextserver(m.count) /\ UNCHANGED <<cl, blamed>>
  BY DEF Execute
<1> HIDE DEF q, m
<1>6. blamed = {}
  BY <1>1 DEF Types
<1>7. CASE m.type = "new" /\ New(c) /\ UNCHANGED <<lv, nextmap, blamed>>
  <2>1. ClientOK(s, q, lv, nextmap)
    BY <1>3, <1>7 DEF ClientOK, Steps
  <2>2. Done(c, q)
    BY <1>1, <1>2, <1>3, <1>7, <2>1, NewOK
  <2>3. QED
    BY <1>3, <1>4, <1>6, <1>7, <2>2, OneClient
<1>8. CASE m.type = "begin" /\ Begin(c, m.count) /\ UNCHANGED <<lv, nextmap>>
  <2>1. /\ s.state = "spawning" /\ Quiet(s.down) /\ Calm(q.up) /\ q.count = s.count
        /\ q.loading = 0 /\ ~q.waiting /\ m.count = s.count
    BY <1>2, <1>3, <1>8 DEF Steps
  <2>2. Done(c, q) /\ blamed' = {}
    BY <1>1, <1>3, <1>8, <2>1, BeginOK
  <2>3. QED
    BY <1>3, <1>4, <1>8, <2>2, OneClient
<1>9. CASE m.type = "download" /\ Download(c) /\ UNCHANGED <<lv, nextmap, blamed>>
  <2>1. /\ s.state = "spawning" /\ Quiet(s.down) /\ Calm(q.up) /\ q.count = s.count
        /\ q.loading = s.count /\ q.waiting
    BY <1>2, <1>3, <1>9 DEF Steps
  <2>2. Done(c, q)
    BY <1>1, <1>3, <1>9, <2>1, DownloadOK
  <2>3. QED
    BY <1>3, <1>4, <1>6, <1>9, <2>2, OneClient
<1>10. CASE m.type = "nextserver" /\ Nextserver(m.count) /\ UNCHANGED <<cl, blamed>>
  <2>1. Phased(s, q, lv)
    BY <1>3, <1>10 DEF Steps
  <2>2. ClientOK(s, q, lv, nextmap)
    BY <1>3, <2>1 DEF ClientOK
  <2>3. CASE UNCHANGED <<lv, nextmap>>
    <3>1. Done(c, q)
      BY <1>1, <1>10, <2>2 DEF Done
    <3>2. QED
      BY <1>3, <1>4, <1>6, <1>10, <2>3, <3>1, OneClient
  <2>4. CASE m.count = lv.count /\ lv.state # "game" /\ lv' = [lv EXCEPT !.count = @ + 1] /\ nextmap' = TRUE
    <3>1. ~nextmap /\ lv.count + 1 <= MaxCount
      BY <1>3, <1>10, <2>4
    <3>2. lv' \in Levels
      <4>1. lv.count \in 1 .. MaxCount
        BY <1>1 DEF Levels
      <4>2. lv.count + 1 \in 1 .. MaxCount
        BY <3>1, <4>1, HsAssumption
      <4>3. QED
        BY <1>1, <2>4, <4>2 DEF Levels
    <3>3. /\ rc' \in [Clients -> Remotes] /\ rc'[c] = q /\ \A b \in Clients \ {c} : rc'[b] = rc[b]
      BY <1>1, <1>3, <1>4
    <3>4. ASSUME NEW b \in Clients PROVE ClientOK(cl'[b], rc'[b], lv', nextmap')
      <4>1. ClientOK(cl[b], rc'[b], lv, nextmap)
        <5>1. CASE b = c
          BY <2>2, <3>3, <5>1
        <5>2. CASE b # c
          BY <3>3, <5>2 DEF Inv
        <5>3. QED
          BY <5>1, <5>2
      <4>2. cl[b] \in Slots /\ rc'[b] \in Remotes
        BY <1>1, <3>3
      <4>3. ClientOK(cl[b], rc'[b], lv', TRUE)
        BY <1>1, <2>4, <4>1, <4>2, PictureEnds
      <4>4. QED
        BY <1>10, <2>4, <4>3
    <3>5. Types'
      BY <1>1, <1>4, <1>10, <2>4, <3>2, <3>3 DEF Types
    <3>6. QED
      BY <3>1, <3>4, <3>5 DEF Inv
  <2>5. QED
    BY <1>10, <2>3, <2>4 DEF Nextserver
<1>11. QED
  BY <1>5, <1>7, <1>8, <1>9, <1>10
-----------------------------------------------------------------------------
(* The remote client, at each kind of message. *)
LEMMA MessageKinds ==
  ASSUME NEW m \in Messages
  PROVE  /\ m.type \in {"serverdata", "precache", "cmd begin", "configstring", "baseline",
                        "changing", "reconnect", "disconnect", "file"}
         /\ m.type \in {"serverdata", "precache", "cmd begin"} =>
              m = [type |-> m.type, count |-> m.count] /\ m.count \in 1 .. MaxCount
         /\ m.type = "configstring" => m.index \in Indices /\ m.value \in Strings \union {File}
         /\ m.type = "baseline" => m.value \in Values
<1>1. CASE m \in [type : {"serverdata", "precache", "cmd begin"}, count : 1 .. MaxCount]
  BY <1>1
<1>2. CASE m \in [type : {"configstring"}, index : Indices, value : Strings \union {File}]
  BY <1>2
<1>3. CASE m \in [type : {"baseline"}, value : Values]
  BY <1>3
<1>4. CASE m \in [type : {"changing", "reconnect", "disconnect", "file"}]
  BY <1>4
<1>5. QED
  BY <1>1, <1>2, <1>3, <1>4 DEF Messages

SameStep(r, y) == y.loading = r.loading /\ y.waiting = r.waiting /\ y.count = r.count
ReactsTo(r, m, y) ==
  /\ y \in Remotes
  /\ m.type \notin Marks => SameStep(r, y) /\ y.up \in {r.up, Append(r.up, Command("new"))}
  /\ m.type = "serverdata" => y.loading = 0 /\ ~y.waiting /\ y.count = m.count /\ y.up = r.up
  /\ m.type = "precache" => y.loading = m.count /\ y.waiting = r.waiting /\ y.count = r.count /\ y.up = r.up
  /\ m.type = "cmd begin" => SameStep(r, y) /\ y.up = Append(r.up, [type |-> "begin", count |-> m.count])
  /\ m.type = "file" => y.loading = r.loading /\ ~y.waiting /\ y.count = r.count /\ y.up = r.up
  /\ \A i \in Indices : y.strings[i] = IF m \in OfString(i) THEN Value(m) ELSE r.strings[i]
  /\ y.base = IF m \in OfBase THEN Value(m) ELSE r.base

LEMMA SayOK ==
  ASSUME NEW r \in Remotes, NEW m \in Commands
  PROVE  /\ Say(r, m) \in Remotes /\ Say(r, m).up = Append(r.up, m) /\ SameStep(r, Say(r, m))
         /\ Say(r, m).strings = r.strings /\ Say(r, m).base = r.base /\ Say(r, m).files = r.files
<1>1. Append(r.up, m) \in Seq(Commands)
  BY AppendOf DEF Remotes
<1>2. QED
  BY <1>1 DEF Say, Remotes, SameStep

LEMMA ReactionsOK ==
  ASSUME NEW r \in Remotes, NEW m \in Messages, NEW y \in Reactions(r, m)
  PROVE  ReactsTo(r, m, y)
<1>1. /\ m.type \in {"serverdata", "precache", "cmd begin", "configstring", "baseline",
                     "changing", "reconnect", "disconnect", "file"}
      /\ m.type \in {"serverdata", "precache", "cmd begin"} => m.count \in 0 .. MaxCount
      /\ m.type = "configstring" => m.index \in Indices /\ m.value \in Strings \union {File}
      /\ m.type = "baseline" => m.value \in Values
  <2>1. 1 .. MaxCount \subseteq 0 .. MaxCount
    BY HsAssumption
  <2>2. QED
    BY <2>1, MessageKinds
<1>2. r \in Remotes /\ Empty \in Strings /\ Values \subseteq Strings
  BY DEF Strings
<1>3. CASE m.type = "serverdata"
  <2>1. y = [Fresh EXCEPT !.up = r.up, !.count = m.count]
    BY <1>3 DEF Reactions
  <2> DEFINE e == [i \in Indices |-> Empty]
  <2>2. e \in [Indices -> Strings \union {File}]
    BY <1>2
  <2>3. y = [up |-> r.up, count |-> m.count, strings |-> e, base |-> Empty, loading |-> 0, files |-> 0, waiting |-> FALSE]
    BY <2>1 DEF Fresh
  <2> HIDE DEF e
  <2>4. 0 \in 0 .. MaxCount /\ 0 \in Nat
    BY HsAssumption
  <2>5. y \in Remotes
    BY <1>1, <1>2, <1>3, <2>2, <2>3, <2>4 DEF Remotes
  <2>6. m \in OfBase /\ Value(m) = Empty /\ \A i \in Indices : m \in OfString(i) /\ e[i] = Empty
    BY <1>3 DEF OfBase, OfString, Value, e
  <2>7. QED
    BY <1>3, <2>3, <2>5, <2>6 DEF ReactsTo, Marks
<1>4. CASE m.type = "configstring"
  <2> DEFINE f == [r.strings EXCEPT ![m.index] = m.value]
  <2>1. y = [r EXCEPT !.strings = f]
    BY <1>4 DEF Reactions
  <2>2. r.strings \in [Indices -> Strings \union {File}]
    BY DEF Remotes
  <2>3. f \in [Indices -> Strings \union {File}] /\ \A i \in Indices : f[i] = IF i = m.index THEN m.value ELSE r.strings[i]
    BY <1>1, <1>4, <2>2
  <2> HIDE DEF f
  <2>4. y \in Remotes /\ y.strings = f /\ y.base = r.base /\ y.up = r.up /\ SameStep(r, y)
    BY <2>1, <2>3 DEF Remotes, SameStep
  <2>5. m \notin OfBase /\ Value(m) = m.value /\ \A i \in Indices : m \in OfString(i) <=> i = m.index
    BY <1>4 DEF OfBase, OfString, Value
  <2>6. QED
    BY <1>4, <2>3, <2>4, <2>5 DEF ReactsTo, Marks
<1>5. CASE m.type = "baseline"
  <2>1. y = [r EXCEPT !.base = m.value]
    BY <1>5 DEF Reactions
  <2>2. y \in Remotes /\ y.strings = r.strings /\ y.base = m.value /\ y.up = r.up /\ SameStep(r, y)
    BY <1>1, <1>2, <1>5, <2>1 DEF Remotes, SameStep
  <2>3. m \in OfBase /\ Value(m) = m.value /\ \A i \in Indices : m \notin OfString(i)
    BY <1>5 DEF OfBase, OfString, Value
  <2>4. QED
    BY <1>5, <2>2, <2>3 DEF ReactsTo, Marks
<1>6. ASSUME m.type \notin {"serverdata", "configstring", "baseline"}
      PROVE  m \notin OfBase /\ \A i \in Indices : m \notin OfString(i)
  BY <1>6 DEF OfBase, OfString
<1>7. CASE m.type = "precache"
  <2>1. y = [r EXCEPT !.loading = m.count]
    BY <1>7 DEF Reactions
  <2>2. y \in Remotes /\ y.strings = r.strings /\ y.base = r.base /\ y.up = r.up
        /\ y.loading = m.count /\ y.waiting = r.waiting /\ y.count = r.count
    BY <1>1, <1>7, <2>1 DEF Remotes
  <2>3. QED
    BY <1>6, <1>7, <2>2 DEF ReactsTo, Marks
<1>8. CASE m.type = "cmd begin"
  <2> DEFINE b == [type |-> "begin", count |-> m.count]
  <2>1. y = Say(r, b)
    BY <1>8 DEF Reactions
  <2>2. b \in Commands
    BY <1>1, <1>8 DEF Commands
  <2> HIDE DEF b
  <2>3. QED
    BY <1>6, <1>8, <2>1, <2>2, SayOK DEF ReactsTo, Marks, b
<1>9. CASE m.type = "reconnect"
  <2> DEFINE b == Command("new")
  <2>1. y = Say(r, b) \/ y = r
    BY <1>9 DEF Reactions
  <2>2. b \in Commands
    BY DEF Command, Commands
  <2> HIDE DEF b
  <2>3. y \in Remotes /\ SameStep(r, y) /\ y.strings = r.strings /\ y.base = r.base /\ y.up \in {r.up, Append(r.up, b)}
    BY <2>1, <2>2, SayOK DEF SameStep
  <2>4. QED
    BY <1>6, <1>9, <2>3 DEF ReactsTo, Marks, b
<1>10. CASE m.type = "file"
  <2>1. y = [r EXCEPT !.waiting = FALSE]
    BY <1>10 DEF Reactions
  <2>2. y \in Remotes /\ y.strings = r.strings /\ y.base = r.base /\ y.up = r.up
        /\ y.loading = r.loading /\ ~y.waiting /\ y.count = r.count
    BY <2>1 DEF Remotes
  <2>3. QED
    BY <1>6, <1>10, <2>2 DEF ReactsTo, Marks
<1>11. CASE m.type \in {"changing", "disconnect"}
  <2>1. y = r
    BY <1>11 DEF Reactions
  <2>2. QED
    BY <1>6, <1>11, <2>1 DEF ReactsTo, Marks, SameStep
<1>12. QED
  BY <1>1, <1>3, <1>4, <1>5, <1>7, <1>8, <1>9, <1>10, <1>11

(* A command that asks for nothing new of the loading leaves its place there as it is. *)
LEMMA OneNew ==
  ASSUME NEW u \in Seq(Commands), NEW v, v \in {u, Append(u, Command("new"))}
  PROVE  /\ Calm(u) => Calm(v)
         /\ OneDownload(u) => OneDownload(v)
         /\ \A k : OneBegin(u, k) => OneBegin(v, k)
<1> DEFINE m == Command("new")
<1>1. m \in Commands /\ m.type \notin Steps
  BY DEF Command, Commands, Steps
<1> HIDE DEF m
<1>2. v = u \/ v = Append(u, m)
  BY DEF m
<1>3. Calm(u) => Calm(v)
  BY <1>1, <1>2, NoneAdded DEF Calm, NoneOf
<1>4. ASSUME OneDownload(u) PROVE OneDownload(v)
  <2>1. PICK k \in DOMAIN u : OnlyAt(u, Steps, k) /\ u[k].type = "download"
    BY <1>4 DEF OneDownload, OnlyAt
  <2>2. OnlyAt(v, Steps, k) /\ v[k] = u[k]
    <3>1. OnlyAt(Append(u, m), Steps, k) /\ Append(u, m)[k] = u[k]
      BY <1>1, <2>1, OnlyAdded
    <3>2. QED
      BY <1>2, <2>1, <3>1
  <2>3. QED
    BY <2>1, <2>2 DEF OneDownload, OnlyAt
<1>5. ASSUME NEW n, OneBegin(u, n) PROVE OneBegin(v, n)
  <2>1. PICK k \in DOMAIN u : OnlyAt(u, Steps, k) /\ u[k] = [type |-> "begin", count |-> n]
    BY <1>5 DEF OneBegin, OnlyAt
  <2>2. OnlyAt(v, Steps, k) /\ v[k] = u[k]
    <3>1. OnlyAt(Append(u, m), Steps, k) /\ Append(u, m)[k] = u[k]
      BY <1>1, <2>1, OnlyAdded
    <3>2. QED
      BY <1>2, <2>1, <3>1
  <2>3. QED
    BY <2>1, <2>2 DEF OneBegin, OnlyAt
<1>6. QED
  BY <1>3, <1>4, <1>5

LEMMA ReceivesWhatItWill ==
  ASSUME NEW s \in Slots, NEW r, NEW l, s.down # <<>>, Knows(s, r, l), NEW m, m = Head(s.down),
         NEW x, x.state = s.state, x.count = s.count, x.lastlines = s.lastlines, x.down = Tail(s.down),
         NEW y, ReactsTo(r, m, y)
  PROVE  Knows(x, y, l)
<1>1. s.down \in Seq(Messages)
  BY DEF Slots
<1>2. ASSUME NEW D, NEW a, NEW b, NEW v, b = (IF m \in D THEN Value(m) ELSE a), Will(s.down, a, D, v)
      PROVE  Will(Tail(s.down), b, D, v)
  BY <1>1, <1>2, WillRead
<1>3. ASSUME NEW i \in Indices, NEW v, Will(s.down, r.strings[i], OfString(i), v)
      PROVE  Will(Tail(s.down), y.strings[i], OfString(i), v)
  <2>1. y.strings[i] = IF m \in OfString(i) THEN Value(m) ELSE r.strings[i]
    BY DEF ReactsTo
  <2>2. QED
    BY <1>2, <1>3, <2>1
<1>4. ASSUME NEW v, Will(s.down, r.base, OfBase, v) PROVE Will(Tail(s.down), y.base, OfBase, v)
  <2>1. y.base = IF m \in OfBase THEN Value(m) ELSE r.base
    BY DEF ReactsTo
  <2>2. QED
    BY <1>2, <1>4, <2>1
<1>5. SUFFICES ASSUME Live(x), l.state = "game", x.count = l.count
               PROVE  /\ \A i \in Plain : Will(x.down, y.strings[i], OfString(i), l.strings[i])
                      /\ Will(x.down, y.base, OfBase, x.lastlines)
                      /\ x.state = "spawned" => \A i \in Images : l.strings[i] # Empty
                                                  => Will(x.down, y.strings[i], OfString(i), l.strings[i])
  BY DEF Knows
<1>6. Live(s) /\ s.count = l.count
  BY <1>5 DEF Live
<1>7. \A i \in Plain \union Images : i \in Indices
  BY DEF Indices
<1>8. QED
  BY <1>3, <1>4, <1>5, <1>6, <1>7 DEF Knows

LEMMA ReceivesInPhase ==
  ASSUME NEW s \in Slots, NEW r \in Remotes, NEW l, s.down # <<>>, Phased(s, r, l), NEW m, m = Head(s.down),
         NEW x, x.state = s.state, x.count = s.count, x.down = Tail(s.down),
         NEW y, ReactsTo(r, m, y)
  PROVE  Phased(x, y, l)
<1>1. /\ s.down \in Seq(Messages) /\ x.down \in Seq(Messages) /\ m \in Messages /\ r.up \in Seq(Commands)
      /\ DOMAIN s.down = 1 .. Len(s.down) /\ Len(s.down) \in Nat \ {0} /\ DOMAIN x.down = 1 .. (Len(s.down) - 1)
      /\ \A j \in 1 .. (Len(s.down) - 1) : x.down[j] = s.down[j+1]
      /\ m = s.down[1]
  <2>1. s.down \in Seq(Messages) /\ r.up \in Seq(Commands)
    BY DEF Slots, Remotes
  <2>2. QED
    BY <2>1, TailOf
<1>2. ASSUME m.type \notin Marks
      PROVE  /\ SameStep(r, y)
             /\ Calm(r.up) => Calm(y.up)
             /\ OneDownload(r.up) => OneDownload(y.up)
             /\ OneBegin(r.up, s.count) => OneBegin(y.up, s.count)
  <2>1. SameStep(r, y) /\ y.up \in {r.up, Append(r.up, Command("new"))}
    BY <1>2 DEF ReactsTo
  <2>2. QED
    BY <1>1, <2>1, OneNew
<1>3. Quiet(s.down) => m.type \notin Marks /\ Quiet(x.down)
  BY <1>1, NoneRead DEF Quiet, NoneOf
<1>4. ASSUME NEW k \in DOMAIN s.down, OnlyAt(s.down, Marks, k)
      PROVE  /\ k = 1 => m = s.down[k] /\ Quiet(x.down)
             /\ k # 1 => m.type \notin Marks /\ OnlyAt(x.down, Marks, k - 1) /\ x.down[k-1] = s.down[k]
  <2>1. /\ k = 1 => Head(s.down) = s.down[k] /\ NoneOf(Tail(s.down), Marks)
        /\ k # 1 => /\ Head(s.down).type \notin Marks /\ OnlyAt(Tail(s.down), Marks, k - 1)
                     /\ Tail(s.down)[k-1] = s.down[k]
    BY <1>1, <1>4, OnlyRead
  <2>2. QED
    BY <2>1 DEF Quiet, NoneOf
<1>5. ASSUME Idle(s, r) PROVE Idle(x, y) /\ y.count = r.count
  BY <1>2, <1>3, <1>5 DEF Idle, SameStep
<1>6. ASSUME Sent(s, r) PROVE Sent(x, y) \/ Listing(x, y)
  <2>1. PICK k \in DOMAIN s.down, t \in DOMAIN s.down :
          /\ k < t /\ s.down[k] = [type |-> "serverdata", count |-> s.count] /\ IsToken(s.down[t], s.count)
          /\ \A j \in DOMAIN s.down \ {k, t} : s.down[j].type \notin Marks
    BY <1>6 DEF Sent
  <2>2. k \in Nat \ {0} /\ t \in Nat /\ t <= Len(s.down)
    BY <1>1
  <2>3. t - 1 \in DOMAIN x.down /\ x.down[t-1] = s.down[t] /\ IsToken(x.down[t-1], x.count)
    <3>1. t - 1 \in 1 .. (Len(s.down) - 1) /\ (t - 1) + 1 = t
      BY <1>1, <2>1, <2>2
    <3>2. QED
      BY <1>1, <2>1, <3>1
  <2>4. CASE k = 1
    <3>1. m.type = "serverdata" /\ m.count = s.count
      BY <1>1, <2>1, <2>4
    <3>2. y.loading = 0 /\ ~y.waiting /\ y.count = x.count /\ Calm(y.up)
      BY <1>6, <3>1 DEF ReactsTo, Sent
    <3>3. ASSUME NEW j \in DOMAIN x.down \ {t-1} PROVE x.down[j].type \notin Marks
      <4>1. j + 1 \in DOMAIN s.down \ {k, t} /\ x.down[j] = s.down[j+1]
        BY <1>1, <2>2, <2>4
      <4>2. QED
        BY <2>1, <4>1
    <3>4. QED
      BY <2>3, <3>2, <3>3 DEF Listing
  <2>5. CASE k # 1
    <3>1. m.type \notin Marks
      <4>1. 1 \in DOMAIN s.down \ {k, t}
        BY <1>1, <2>1, <2>2, <2>5
      <4>2. QED
        BY <1>1, <2>1, <4>1
    <3>2. k - 1 \in DOMAIN x.down /\ x.down[k-1] = s.down[k]
      <4>1. k - 1 \in 1 .. (Len(s.down) - 1) /\ (k - 1) + 1 = k
        BY <1>1, <2>1, <2>2, <2>5
      <4>2. QED
        BY <1>1, <4>1
    <3>3. ASSUME NEW j \in DOMAIN x.down \ {k-1, t-1} PROVE x.down[j].type \notin Marks
      <4>1. j + 1 \in DOMAIN s.down \ {k, t} /\ x.down[j] = s.down[j+1]
        BY <1>1, <2>2
      <4>2. QED
        BY <2>1, <4>1
    <3>4. k - 1 < t - 1
      BY <2>1, <2>2
    <3>5. Calm(y.up) /\ (y.loading = 0 \/ y.waiting)
      BY <1>2, <1>6, <3>1 DEF Sent, SameStep
    <3>6. x.down[k-1] = [type |-> "serverdata", count |-> x.count]
      BY <2>1, <3>2
    <3>7. QED
      BY <2>3, <3>2, <3>3, <3>4, <3>5, <3>6 DEF Sent
  <2>6. QED
    BY <2>4, <2>5
<1>7. ASSUME Listing(s, r) PROVE Listing(x, y) \/ Loading(x, y) \/ Begins(x, y)
  <2>1. PICK t \in DOMAIN s.down : OnlyAt(s.down, Marks, t) /\ IsToken(s.down[t], s.count)
    BY <1>7 DEF Listing, OnlyAt
  <2>2. Calm(r.up) /\ r.loading = 0 /\ ~r.waiting /\ r.count = s.count
    BY <1>7 DEF Listing
  <2>3. CASE t = 1
    <3>1. m = s.down[t] /\ Quiet(x.down) /\ IsToken(m, s.count)
      BY <1>4, <2>1, <2>3
    <3>2. CASE m.type = "precache"
      BY <2>2, <3>1, <3>2 DEF IsToken, ReactsTo, Loading
    <3>3. CASE m.type = "cmd begin"
      <4> DEFINE b == [type |-> "begin", count |-> m.count]
      <4>1. m.count = s.count /\ y.up = Append(r.up, b) /\ SameStep(r, y)
        BY <3>1, <3>3 DEF IsToken, ReactsTo
      <4>2. b \in Commands
        <5>1. m.count \in 0 .. MaxCount
          BY <4>1 DEF Slots
        <5>2. QED
          BY <5>1 DEF Commands
      <4>3. b = [type |-> "begin", count |-> x.count]
        BY <4>1
      <4> HIDE DEF b
      <4>4. OnlyAt(y.up, Steps, Len(r.up) + 1) /\ y.up[Len(r.up) + 1] = b
        <5>1. NoneOf(r.up, Steps)
          BY <2>2 DEF Calm, NoneOf
        <5>2. QED
          BY <1>1, <4>1, <4>2, <5>1, NoneAdded
      <4>5. OneBegin(y.up, x.count)
        BY <4>3, <4>4 DEF OneBegin, OnlyAt
      <4>6. QED
        BY <2>2, <3>1, <4>1, <4>5 DEF Begins, SameStep
    <3>4. QED
      BY <3>1, <3>2, <3>3 DEF IsToken
  <2>4. CASE t # 1
    <3>1. m.type \notin Marks /\ OnlyAt(x.down, Marks, t - 1) /\ x.down[t-1] = s.down[t]
      BY <1>4, <2>1, <2>4
    <3>2. QED
      BY <1>2, <2>1, <2>2, <3>1 DEF Listing, OnlyAt, SameStep
  <2>5. QED
    BY <2>3, <2>4
<1>8. ASSUME Loading(s, r) PROVE Loading(x, y)
  <2>1. r.loading = s.count /\ r.count = s.count
    BY <1>8 DEF Loading
  <2>2. CASE ~r.waiting /\ Calm(r.up) /\ Quiet(s.down)
    BY <1>2, <1>3, <2>1, <2>2 DEF Loading, SameStep
  <2>3. CASE r.waiting /\ OneDownload(r.up) /\ Quiet(s.down)
    BY <1>2, <1>3, <2>1, <2>3 DEF Loading, SameStep
  <2>4. CASE r.waiting /\ Calm(r.up) /\ OneFile(s.down)
    <3>1. PICK k \in DOMAIN s.down : OnlyAt(s.down, Marks, k) /\ s.down[k].type = "file"
      BY <2>4 DEF OneFile, OnlyAt
    <3>2. CASE k = 1
      <4>1. m.type = "file" /\ Quiet(x.down)
        BY <1>4, <3>1, <3>2
      <4>2. QED
        BY <2>1, <2>4, <4>1 DEF ReactsTo, Loading
    <3>3. CASE k # 1
      <4>1. m.type \notin Marks /\ OneFile(x.down)
        BY <1>4, <3>1, <3>3 DEF OneFile, OnlyAt
      <4>2. QED
        BY <1>2, <2>1, <2>4, <4>1 DEF Loading, SameStep
    <3>4. QED
      BY <3>2, <3>3
  <2>5. QED
    BY <1>8, <2>2, <2>3, <2>4 DEF Loading
<1>9. ASSUME Begins(s, r) PROVE Begins(x, y)
  BY <1>2, <1>3, <1>9 DEF Begins, SameStep
<1>10. QED
  BY <1>5, <1>6, <1>7, <1>8, <1>9 DEF Phased, Answering

(* The rest of a client stays as it is when the list of its commands changes: lists of commands *)
(* without a new "nextserver" keep the counts.                                                  *)
LEMMA SameSkips ==
  ASSUME NEW r, NEW y, NEW l, NEW n, Skips(r, l, n), NEW m \in Commands, r.up \in Seq(Commands),
         y.up = Append(r.up, m),
         m.type = "nextserver" => m.count <= l.count /\ (m.count = l.count => ~n /\ l.count + 1 <= MaxCount)
  PROVE  Skips(y, l, n)
<1>1. ASSUME NEW j \in DOMAIN y.up
      PROVE  (j \in DOMAIN r.up /\ y.up[j] = r.up[j]) \/ y.up[j] = m
  BY AppendOf
<1>2. QED
  BY <1>1 DEF Skips

LEMMA ReceivesNumbers ==
  ASSUME NEW s \in Slots, NEW r \in Remotes, NEW l, NEW n, s.down # <<>>, Numbered(s, r, l, n), NEW m, m = Head(s.down),
         NEW x, x.count = s.count, x.down = Tail(s.down), NEW y, ReactsTo(r, m, y)
  PROVE  Numbered(x, y, l, n)
<1>1. /\ s.down \in Seq(Messages) /\ m \in Messages /\ r.up \in Seq(Commands)
      /\ DOMAIN s.down = 1 .. Len(s.down) /\ Len(s.down) \in Nat \ {0} /\ DOMAIN x.down = 1 .. (Len(s.down) - 1)
      /\ \A j \in 1 .. (Len(s.down) - 1) : x.down[j] = s.down[j+1]
      /\ m = s.down[1]
  <2>1. s.down \in Seq(Messages) /\ r.up \in Seq(Commands)
    BY DEF Slots, Remotes
  <2>2. QED
    BY <2>1, TailOf
<1>2. Told(x, l)
  <2>1. \A j \in DOMAIN x.down : j + 1 \in DOMAIN s.down /\ x.down[j] = s.down[j+1]
    BY <1>1
  <2>2. QED
    BY <2>1 DEF Numbered, Told
<1>3. m.type = "serverdata" => m.count <= l.count
  BY <1>1 DEF Numbered, Told
<1>4. m.type \in {"serverdata", "precache", "cmd begin", "file"} \/ m.type \notin Marks
  BY DEF Marks
<1>5. y.count <= l.count
  BY <1>3, <1>4 DEF ReactsTo, Numbered, SameStep
<1>6. y.up = r.up \/ \E b \in Commands : b.type # "nextserver" /\ y.up = Append(r.up, b)
  <2>1. CASE m.type = "cmd begin"
    <3> DEFINE b == [type |-> "begin", count |-> m.count]
    <3>1. m.count \in 0 .. MaxCount
      <4>1. m.count \in 1 .. MaxCount
        BY <1>1, <2>1, MessageKinds
      <4>2. 1 .. MaxCount \subseteq 0 .. MaxCount
        BY HsAssumption
      <4>3. QED
        BY <4>1, <4>2
    <3>2. b \in Commands /\ b.type # "nextserver"
      BY <3>1 DEF Commands
    <3>3. y.up = Append(r.up, b)
      BY <2>1 DEF ReactsTo
    <3>4. QED
      BY <3>2, <3>3
  <2>2. CASE m.type # "cmd begin"
    <3> DEFINE b == Command("new")
    <3>1. y.up = r.up \/ y.up = Append(r.up, b)
      BY <1>4, <2>2 DEF ReactsTo
    <3>2. b \in Commands /\ b.type # "nextserver"
      BY DEF Command, Commands
    <3>3. QED
      BY <3>1, <3>2
  <2>3. QED
    BY <2>1, <2>2
<1>7. Skips(y, l, n)
  <2>1. Skips(r, l, n)
    BY DEF Numbered
  <2>2. CASE y.up = r.up
    BY <2>1, <2>2 DEF Skips
  <2>3. CASE \E b \in Commands : b.type # "nextserver" /\ y.up = Append(r.up, b)
    BY <1>1, <2>1, <2>3, SameSkips
  <2>4. QED
    BY <1>6, <2>2, <2>3
<1>8. QED
  BY <1>2, <1>5, <1>7 DEF Numbered

LEMMA ReceiveOK ==
  ASSUME Inv, NEW c \in Clients, Receive(c)
  PROVE  Inv'
<1> DEFINE s == cl[c]
           r == rc[c]
           m == Head(s.down)
           x == [s EXCEPT !.down = Tail(@)]
<1>1. /\ Types /\ s \in Slots /\ r \in Remotes /\ rc \in [Clients -> Remotes] /\ cl \in [Clients -> Slots]
      /\ ClientOK(s, r, lv, nextmap)
  BY DEF Inv, Types
<1>2. s.down # <<>> /\ cl' = [cl EXCEPT ![c] = x] /\ UNCHANGED <<lv, nextmap, sets, blamed>>
  BY <1>1 DEF Receive
<1>3. PICK y \in Reactions(r, m) : rc' = [rc EXCEPT ![c] = y]
  BY DEF Receive
<1>4. s.down \in Seq(Messages) /\ m \in Messages /\ Tail(s.down) \in Seq(Messages)
  <2>1. s.down \in Seq(Messages)
    BY <1>1 DEF Slots
  <2>2. QED
    BY <1>2, <2>1, TailOf
<1>5. x \in Slots /\ x.state = s.state /\ x.count = s.count /\ x.lastlines = s.lastlines /\ x.begins = s.begins
      /\ x.down = Tail(s.down)
  BY <1>1, <1>4 DEF Slots
<1>6. m = Head(s.down)
  OBVIOUS
<1> HIDE DEF x, m
<1>7. ReactsTo(r, m, y)
  BY <1>1, <1>3, <1>4, ReactionsOK
<1>8. y \in Remotes
  BY <1>7 DEF ReactsTo
<1>9. Numbered(s, r, lv, nextmap) /\ Phased(s, r, lv) /\ Counted(s, lv) /\ Knows(s, r, lv)
  BY <1>1 DEF ClientOK
<1>10. Numbered(x, y, lv, nextmap)
  BY <1>1, <1>2, <1>5, <1>6, <1>7, <1>9, ReceivesNumbers
<1>11. Phased(x, y, lv)
  BY <1>1, <1>2, <1>5, <1>6, <1>7, <1>9, ReceivesInPhase
<1>12. Counted(x, lv)
  BY <1>5, <1>9 DEF Counted, Live
<1>13. Knows(x, y, lv)
  BY <1>1, <1>2, <1>5, <1>6, <1>7, <1>9, ReceivesWhatItWill
<1>14. Done(c, y)
  BY <1>1, <1>2, <1>5, <1>10, <1>11, <1>12, <1>13, DoneAt DEF ClientOK
<1>15. blamed' = {}
  BY <1>1, <1>2 DEF Types
<1>16. QED
  BY <1>2, <1>3, <1>8, <1>14, <1>15, OneClient

(* What a client that loads says by itself. *)
LEMMA LoaderOf ==
  ASSUME NEW s \in Slots, NEW r \in Remotes, NEW l, Phased(s, r, l), r.loading # 0, ~r.waiting, Live(s)
  PROVE  /\ s.state = "spawning" /\ s.count > 0 /\ r.loading = s.count /\ r.count = s.count
         /\ Calm(r.up) /\ Quiet(s.down)
<1>1. ~Idle(s, r) /\ ~Sent(s, r) /\ ~Listing(s, r) /\ ~Begins(s, r)
  BY DEF Idle, Sent, Listing, Begins
<1>2. s.state = "spawning" /\ s.count > 0 /\ Loading(s, r)
  BY <1>1 DEF Phased, Answering, Live, Slots, SlotStates
<1>3. QED
  BY <1>2 DEF Loading

LEMMA AskFileOK ==
  ASSUME Inv, NEW c \in Clients, AskFile(c)
  PROVE  Inv'
<1> DEFINE s == cl[c]
           r == rc[c]
           m == Command("download")
           p == Say(r, m)
           y == [p EXCEPT !.files = r.files + 1, !.waiting = TRUE]
<1>1. /\ Types /\ s \in Slots /\ r \in Remotes /\ rc \in [Clients -> Remotes] /\ cl \in [Clients -> Slots]
      /\ ClientOK(s, r, lv, nextmap)
  BY DEF Inv, Types
<1>2. rc' = [rc EXCEPT ![c] = y] /\ UNCHANGED <<lv, cl, nextmap, sets, blamed>> /\ r.loading # 0 /\ ~r.waiting
  <2>1. y = [Say(r, m) EXCEPT !.files = r.files + 1, !.waiting = TRUE]
    BY DEF Say
  <2> HIDE DEF y
  <2>2. rc' = [rc EXCEPT ![c] = [Say(r, m) EXCEPT !.files = r.files + 1, !.waiting = TRUE]]
    BY DEF AskFile
  <2>3. UNCHANGED <<lv, cl, nextmap, sets, blamed>> /\ r.loading # 0 /\ ~r.waiting
    BY DEF AskFile
  <2>4. QED
    BY <2>1, <2>2, <2>3
<1>3. m \in Commands /\ m.type = "download" /\ r.up \in Seq(Commands)
  BY <1>1 DEF Command, Commands, Remotes
<1> HIDE DEF m
<1>4. /\ p \in Remotes /\ p.up = Append(r.up, m) /\ SameStep(r, p) /\ p.strings = r.strings /\ p.base = r.base
      /\ p.files = r.files
  BY <1>1, <1>3, SayOK
<1> HIDE DEF p
<1>5. r.files + 1 \in Nat
  BY <1>1 DEF Remotes
<1>6. y \in Remotes /\ y.up = Append(r.up, m) /\ y.strings = r.strings /\ y.base = r.base
      /\ y.loading = r.loading /\ y.waiting /\ y.count = r.count
  <2> DEFINE n == r.files + 1
  <2>1. y = [p EXCEPT !.files = n, !.waiting = TRUE] /\ n \in Nat
    BY <1>5
  <2> HIDE DEF y, n
  <2>2. y \in Remotes
    BY <1>4, <2>1 DEF Remotes
  <2>3. y.up = p.up /\ y.strings = p.strings /\ y.base = p.base /\ y.loading = p.loading /\ y.count = p.count
        /\ y.waiting = TRUE
    BY <1>4, <2>1 DEF Remotes
  <2>4. QED
    BY <1>4, <2>2, <2>3 DEF SameStep
<1> HIDE DEF y
<1>7. Numbered(s, r, lv, nextmap) /\ Phased(s, r, lv) /\ Counted(s, lv) /\ Knows(s, r, lv)
  BY <1>1 DEF ClientOK
<1>8. Numbered(s, y, lv, nextmap)
  <2>1. Skips(y, lv, nextmap)
    BY <1>3, <1>6, <1>7, SameSkips DEF Numbered
  <2>2. QED
    BY <1>6, <1>7, <2>1 DEF Numbered
<1>9. Knows(s, y, lv)
  BY <1>6, <1>7 DEF Knows
<1>10. Phased(s, y, lv)
  <2>1. CASE Live(s)
    <3>1. /\ s.state = "spawning" /\ s.count > 0 /\ r.loading = s.count /\ r.count = s.count
          /\ Calm(r.up) /\ Quiet(s.down)
      BY <1>1, <1>2, <1>7, <2>1, LoaderOf
    <3>2. OneDownload(y.up)
      <4>1. NoneOf(r.up, Steps)
        BY <3>1 DEF Calm, NoneOf
      <4>2. OnlyAt(y.up, Steps, Len(r.up) + 1) /\ y.up[Len(r.up) + 1] = m
        BY <1>3, <1>6, <4>1, NoneAdded
      <4>3. QED
        BY <1>3, <4>2 DEF OneDownload, OnlyAt
    <3>3. Loading(s, y)
      BY <1>6, <3>1, <3>2 DEF Loading
    <3>4. QED
      BY <3>1, <3>3 DEF Phased, Answering
  <2>2. CASE ~Live(s)
    BY <2>2 DEF Phased, Live
  <2>3. QED
    BY <2>1, <2>2
<1>11. Done(c, y)
  BY <1>1, <1>2, <1>7, <1>8, <1>9, <1>10 DEF Done, ClientOK
<1>12. blamed' = {}
  BY <1>1, <1>2 DEF Types
<1>13. QED
  BY <1>2, <1>6, <1>11, <1>12, OneClient

LEMMA LoadedOK ==
  ASSUME Inv, NEW c \in Clients, Loaded(c)
  PROVE  Inv'
<1> DEFINE s == cl[c]
           r == rc[c]
           m == [type |-> "begin", count |-> r.loading]
           p == Say(r, m)
           y == [p EXCEPT !.loading = 0]
<1>1. /\ Types /\ s \in Slots /\ r \in Remotes /\ rc \in [Clients -> Remotes] /\ cl \in [Clients -> Slots]
      /\ ClientOK(s, r, lv, nextmap)
  BY DEF Inv, Types
<1>2. rc' = [rc EXCEPT ![c] = y] /\ UNCHANGED <<lv, cl, nextmap, sets, blamed>> /\ r.loading # 0 /\ ~r.waiting
  BY <1>1 DEF Loaded
<1>3. m \in Commands /\ m.type = "begin" /\ m.count = r.loading /\ r.up \in Seq(Commands)
  BY <1>1 DEF Commands, Remotes
<1>3a. \A k : k = r.loading => m = [type |-> "begin", count |-> k]
  OBVIOUS
<1> HIDE DEF m
<1>4. /\ p \in Remotes /\ p.up = Append(r.up, m) /\ SameStep(r, p) /\ p.strings = r.strings /\ p.base = r.base
  BY <1>1, <1>3, SayOK
<1> HIDE DEF p
<1>5. 0 \in 0 .. MaxCount
  BY HsAssumption
<1>6. y \in Remotes /\ y.up = Append(r.up, m) /\ y.strings = r.strings /\ y.base = r.base
      /\ y.loading = 0 /\ ~y.waiting /\ y.count = r.count
  BY <1>2, <1>4, <1>5 DEF Remotes, SameStep
<1> HIDE DEF y
<1>7. Numbered(s, r, lv, nextmap) /\ Phased(s, r, lv) /\ Counted(s, lv) /\ Knows(s, r, lv)
  BY <1>1 DEF ClientOK
<1>8. Numbered(s, y, lv, nextmap)
  <2>1. Skips(y, lv, nextmap)
    BY <1>3, <1>6, <1>7, SameSkips DEF Numbered
  <2>2. QED
    BY <1>6, <1>7, <2>1 DEF Numbered
<1>9. Knows(s, y, lv)
  BY <1>6, <1>7 DEF Knows
<1>10. Phased(s, y, lv)
  <2>1. CASE Live(s)
    <3>1. /\ s.state = "spawning" /\ s.count > 0 /\ r.loading = s.count /\ r.count = s.count
          /\ Calm(r.up) /\ Quiet(s.down)
      BY <1>1, <1>2, <1>7, <2>1, LoaderOf
    <3>2. OneBegin(y.up, s.count)
      <4>1. NoneOf(r.up, Steps)
        BY <3>1 DEF Calm, NoneOf
      <4>2. OnlyAt(y.up, Steps, Len(r.up) + 1) /\ y.up[Len(r.up) + 1] = m
        BY <1>3, <1>6, <4>1, NoneAdded
      <4>3. m = [type |-> "begin", count |-> s.count]
        BY <1>3a, <3>1
      <4>4. QED
        BY <4>2, <4>3 DEF OneBegin, OnlyAt
    <3>3. Begins(s, y)
      BY <1>6, <3>1, <3>2 DEF Begins
    <3>4. QED
      BY <3>1, <3>3 DEF Phased, Answering
  <2>2. CASE ~Live(s)
    BY <2>2 DEF Phased, Live
  <2>3. QED
    BY <2>1, <2>2
<1>11. Done(c, y)
  BY <1>1, <1>2, <1>7, <1>8, <1>9, <1>10 DEF Done, ClientOK
<1>12. blamed' = {}
  BY <1>1, <1>2 DEF Types
<1>13. QED
  BY <1>2, <1>6, <1>11, <1>12, OneClient

LEMMA EndPictureOK ==
  ASSUME Inv, NEW c \in Clients, EndPicture(c)
  PROVE  Inv'
<1> DEFINE s == cl[c]
           r == rc[c]
           m == [type |-> "nextserver", count |-> r.count]
           y == Say(r, m)
<1>1. /\ Types /\ s \in Slots /\ r \in Remotes /\ rc \in [Clients -> Remotes] /\ cl \in [Clients -> Slots]
      /\ ClientOK(s, r, lv, nextmap) /\ lv \in Levels
  BY DEF Inv, Types
<1>2. rc' = [rc EXCEPT ![c] = y] /\ UNCHANGED <<lv, cl, nextmap, sets, blamed>>
  BY <1>1 DEF EndPicture
<1>3. ~nextmap /\ lv.count + 1 < MaxCount /\ s.state = "spawned" /\ lv.state = "pic" /\ s.down = <<>>
  BY DEF EndPicture
<1>4. m \in Commands /\ m.type = "nextserver" /\ m.count = r.count /\ r.up \in Seq(Commands)
  BY <1>1 DEF Commands, Remotes
<1> HIDE DEF m
<1>5. y \in Remotes /\ y.up = Append(r.up, m) /\ SameStep(r, y) /\ y.strings = r.strings /\ y.base = r.base
  BY <1>1, <1>4, SayOK
<1> HIDE DEF y
<1>6. Numbered(s, r, lv, nextmap) /\ Phased(s, r, lv) /\ Counted(s, lv) /\ Knows(s, r, lv)
  BY <1>1 DEF ClientOK
<1>7. Numbered(s, y, lv, nextmap)
  <2>1. lv.count + 1 <= MaxCount
    <3>1. lv.count \in 1 .. MaxCount
      BY <1>1 DEF Levels
    <3>2. QED
      BY <1>3, <3>1, HsAssumption
  <2>2. m.count <= lv.count /\ Skips(r, lv, nextmap)
    BY <1>4, <1>6 DEF Numbered
  <2>3. Skips(y, lv, nextmap)
    BY <1>3, <1>4, <1>5, <2>1, <2>2, SameSkips
  <2>4. QED
    BY <1>5, <1>6, <2>3 DEF Numbered, SameStep
<1>8. Knows(s, y, lv)
  BY <1>5, <1>6 DEF Knows
<1>9. Phased(s, y, lv)
  <2>1. Idle(s, r) /\ r.count = s.count
    BY <1>3, <1>6 DEF Phased
  <2>2. Calm(y.up)
    BY <1>4, <1>5, <2>1, NoneAdded DEF Idle, Calm, NoneOf, Steps
  <2>3. QED
    BY <1>3, <1>5, <2>1, <2>2 DEF Phased, Idle, SameStep
<1>10. Done(c, y)
  BY <1>1, <1>2, <1>6, <1>7, <1>8, <1>9 DEF Done, ClientOK
<1>11. blamed' = {}
  BY <1>1, <1>2 DEF Types
<1>12. QED
  BY <1>2, <1>5, <1>10, <1>11, OneClient

(* A slot and a remote client that start again. *)
LEMMA FreshOK ==
  ASSUME NEW u \in Seq(Commands)
  PROVE  /\ [Fresh EXCEPT !.up = u] \in Remotes
         /\ [Fresh EXCEPT !.up = u].up = u /\ [Fresh EXCEPT !.up = u].count = 0
         /\ [Fresh EXCEPT !.up = u].loading = 0 /\ ~[Fresh EXCEPT !.up = u].waiting
<1> DEFINE e == [i \in Indices |-> Empty]
           y == [up |-> u, count |-> 0, strings |-> e, base |-> Empty, loading |-> 0, files |-> 0, waiting |-> FALSE]
<1>1. [Fresh EXCEPT !.up = u] = y
  <2>1. ASSUME NEW z, z = [Fresh EXCEPT !.up = u] PROVE z = y
    BY <2>1 DEF Fresh
  <2>2. QED
    BY <2>1
<1>2. Empty \in Strings
  BY DEF Strings
<1>3. e \in [Indices -> Strings \union {File}]
  BY <1>2
<1>4. 0 \in 0 .. MaxCount /\ 0 \in Nat
  BY HsAssumption
<1> HIDE DEF e
<1>5. y \in Remotes
  BY <1>2, <1>3, <1>4 DEF Remotes
<1>6. QED
  BY <1>1, <1>5

LEMMA SlotOK ==
  ASSUME NEW st \in SlotStates
  PROVE  /\ Slot(st) \in Slots /\ Slot(st).state = st /\ Slot(st).count = 0 /\ Slot(st).down = <<>>
         /\ Slot(st).begins = 0
<1>1. 0 \in 0 .. MaxCount /\ Empty \in Strings /\ <<>> \in Seq(Messages)
  BY HsAssumption DEF Strings
<1>2. QED
  BY <1>1 DEF Slot, Slots

(* A client that has connected, or a slot that is free, at the start of anything. *)
LEMMA StartOK ==
  ASSUME NEW st \in {"free", "connected"}, NEW u \in Seq(Commands), \A j \in DOMAIN u : u[j].type = "new",
         NEW l \in Levels, NEW n
  PROVE  ClientOK(Slot(st), [Fresh EXCEPT !.up = u], l, n)
<1> DEFINE s == Slot(st)
           y == [Fresh EXCEPT !.up = u]
<1>1. s.state = st /\ s.count = 0 /\ s.down = <<>> /\ s.begins = 0
  BY SlotOK DEF SlotStates
<1>2. y.up = u /\ y.count = 0 /\ y.loading = 0 /\ ~y.waiting
  BY FreshOK
<1> HIDE DEF s, y
<1>3. l.count \in Nat /\ 0 < l.count
  BY HsAssumption DEF Levels
<1>4. Numbered(s, y, l, n)
  <2>1. Told(s, l)
    BY <1>1 DEF Told
  <2>2. Skips(y, l, n)
    BY <1>2 DEF Skips
  <2>3. QED
    BY <1>1, <1>2, <1>3, <2>1, <2>2 DEF Numbered
<1>5. Phased(s, y, l)
  <2>1. Idle(s, y)
    BY <1>1, <1>2 DEF Idle, Calm, Quiet, Steps
  <2>2. QED
    BY <1>1, <1>3, <2>1 DEF Phased
<1>6. Counted(s, l)
  BY <1>1 DEF Counted, Live
<1>7. Knows(s, y, l)
  BY <1>1, <1>3 DEF Knows, Live
<1>8. QED
  BY <1>4, <1>5, <1>6, <1>7 DEF ClientOK, s, y

LEMMA ConnectOK ==
  ASSUME Inv, NEW c \in Clients, Connect(c)
  PROVE  Inv'
<1> DEFINE u == <<Command("new")>>
           y == [Fresh EXCEPT !.up = u]
<1>1. Types /\ lv \in Levels
  BY DEF Inv, Types
<1>2. u \in Seq(Commands) /\ \A j \in DOMAIN u : u[j].type = "new"
  BY DEF Command, Commands
<1>3. Fresh = y
  <2>1. ASSUME NEW z, z = [Fresh EXCEPT !.up = u] PROVE z = Fresh
    BY <2>1 DEF Fresh
  <2>2. QED
    BY <2>1
<1> HIDE DEF u
<1>4. y \in Remotes /\ ClientOK(Slot("connected"), y, lv, nextmap)
  BY <1>1, <1>2, FreshOK, StartOK
<1>5. Slot("connected") \in Slots
  BY SlotOK DEF SlotStates
<1> HIDE DEF y
<1>6. /\ cl' = [cl EXCEPT ![c] = Slot("connected")] /\ rc' = [rc EXCEPT ![c] = y]
      /\ UNCHANGED <<lv, nextmap, sets, blamed>>
  BY <1>3 DEF Connect
<1>7. Done(c, y)
  BY <1>1, <1>4, <1>5, <1>6, DoneAt
<1>8. blamed' = {}
  BY <1>1, <1>6 DEF Types
<1>9. QED
  BY <1>4, <1>6, <1>7, <1>8, OneClient
-----------------------------------------------------------------------------
(* A message that is not about loading comes behind the others. *)
WithMessage(s, m) == [s EXCEPT !.down = Append(@, m)]
Listed(s, x, m, r) ==
  /\ x \in Slots /\ x.state = s.state /\ x.count = s.count /\ x.lastlines = s.lastlines /\ x.begins = s.begins
  /\ x.down = Append(s.down, m) /\ s.down \in Seq(Messages)
  /\ Idle(s, r) => Idle(x, r)
  /\ Answering(s, r) => Answering(x, r)
  /\ \A l : Told(s, l) => Told(x, l)
LEMMA ListAdded ==
  ASSUME NEW s \in Slots, NEW r, NEW m \in Messages, m.type \notin Marks,
         NEW x, x = WithMessage(s, m)
  PROVE  Listed(s, x, m, r)
<1>1. s.down \in Seq(Messages)
  BY DEF Slots
<1> DEFINE d == Append(s.down, m)
<1>2. /\ d \in Seq(Messages) /\ DOMAIN s.down \subseteq DOMAIN d
      /\ \A j \in DOMAIN s.down : d[j] = s.down[j]
      /\ \A j \in DOMAIN d : (j \in DOMAIN s.down /\ d[j] = s.down[j]) \/ d[j] = m
  BY <1>1, AppendOf
<1>3. x = [s EXCEPT !.down = d]
  BY DEF WithMessage
<1>4. m.type \notin Marks /\ m.type # "serverdata"
  BY DEF Marks
<1>5. \A k : OnlyAt(s.down, Marks, k) => OnlyAt(d, Marks, k) /\ d[k] = s.down[k]
  BY <1>1, <1>4, OnlyAdded
<1>6. Quiet(s.down) => Quiet(d)
  BY <1>2, <1>4 DEF Quiet
<1> HIDE DEF d
<1>7. x \in Slots /\ x.state = s.state /\ x.count = s.count /\ x.lastlines = s.lastlines /\ x.begins = s.begins /\ x.down = d
  BY <1>2, <1>3 DEF Slots
<1>8. Idle(s, r) => Idle(x, r)
  BY <1>6, <1>7 DEF Idle
<1>9. ASSUME Sent(s, r) PROVE Sent(x, r)
  <2>1. PICK k, t \in DOMAIN s.down :
          /\ k < t /\ s.down[k] = [type |-> "serverdata", count |-> s.count] /\ IsToken(s.down[t], s.count)
          /\ \A j \in DOMAIN s.down \ {k, t} : s.down[j].type \notin Marks
    BY <1>9 DEF Sent
  <2>2. k \in DOMAIN d /\ t \in DOMAIN d /\ d[k] = s.down[k] /\ d[t] = s.down[t]
    BY <1>2
  <2>3. \A j \in DOMAIN d \ {k, t} : d[j].type \notin Marks
    BY <1>2, <1>4, <2>1
  <2>4. x.count = s.count /\ x.down = d /\ Calm(r.up) /\ (r.loading = 0 \/ r.waiting)
    BY <1>7, <1>9 DEF Sent
  <2>5. d[k] = [type |-> "serverdata", count |-> s.count] /\ IsToken(d[t], s.count)
    BY <2>1, <2>2
  <2>6. QED
    BY ONLY <2>1, <2>2, <2>3, <2>4, <2>5 DEF Sent
<1>10. ASSUME Listing(s, r) PROVE Listing(x, r)
  <2>1. PICK t \in DOMAIN s.down : IsToken(s.down[t], s.count) /\ OnlyAt(s.down, Marks, t)
    BY <1>10 DEF Listing, OnlyAt
  <2>2. t \in DOMAIN d /\ d[t] = s.down[t] /\ \A j \in DOMAIN d \ {t} : d[j].type \notin Marks
    BY <1>5, <2>1 DEF OnlyAt
  <2>3. QED
    BY <1>7, <1>10, <2>1, <2>2 DEF Listing
<1>11. OneFile(s.down) => OneFile(d)
  BY <1>2, <1>4 DEF OneFile
<1>12. Loading(s, r) => Loading(x, r)
  BY <1>6, <1>7, <1>11 DEF Loading
<1>13. Begins(s, r) => Begins(x, r)
  BY <1>6, <1>7 DEF Begins
<1>14. ASSUME NEW l, Told(s, l) PROVE Told(x, l)
  BY <1>2, <1>4, <1>7, <1>14 DEF Told
<1>15. QED
  BY <1>1, <1>7, <1>8, <1>9, <1>10, <1>12, <1>13, <1>14 DEF Listed, Answering, d

(* The game sets a string: the clients it is wanted by get it. *)
LEMMA StringSetOK ==
  ASSUME NEW s \in Slots, NEW r \in Remotes, NEW l \in Levels, NEW n, ClientOK(s, r, l, n),
         NEW i \in Indices, NEW v \in Strings, i \in Images => l.strings[i] = Empty,
         NEW k \in Levels, k.count = l.count, k.state = l.state, k.strings[i] = v,
         \A j \in Indices \ {i} : k.strings[j] = l.strings[j],
         NEW x, x = IF Live(s) /\ (s.state = "spawned" \/ i \notin Images)
                    THEN [s EXCEPT !.down = Append(@, Configstring(i, v))] ELSE s
  PROVE  x \in Slots /\ ClientOK(x, r, k, n)
<1> DEFINE m == Configstring(i, v)
<1>1. m \in Messages /\ m.type = "configstring" /\ m.type \notin Marks
  BY DEF Configstring, Messages, Marks
<1>2. Value(m) = v /\ m \in OfString(i) /\ m \notin OfBase /\ \A j \in Indices \ {i} : m \notin OfString(j)
  BY <1>1 DEF Configstring, Value, OfString, OfBase
<1>3. Numbered(s, r, l, n) /\ Phased(s, r, l) /\ Counted(s, l) /\ Knows(s, r, l)
  BY DEF ClientOK
<1>4. CASE Live(s) /\ (s.state = "spawned" \/ i \notin Images)
  <2> HIDE DEF m
  <2>1. x = WithMessage(s, m)
    BY <1>4 DEF m, WithMessage
  <2>2. /\ x \in Slots /\ x.state = s.state /\ x.count = s.count /\ x.lastlines = s.lastlines /\ x.begins = s.begins
        /\ x.down = Append(s.down, m) /\ s.down \in Seq(Messages)
        /\ Idle(s, r) => Idle(x, r)
        /\ Answering(s, r) => Answering(x, r)
        /\ Told(s, l) => Told(x, l)
    <3>1. Listed(s, x, m, r)
      BY <1>1, <2>1, ListAdded
    <3>2. QED
      BY <3>1 DEF Listed
  <2>3. Numbered(x, r, k, n)
    BY <1>3, <2>2 DEF Numbered, Told, Skips
  <2>4. Phased(x, r, k)
    BY <1>3, <2>2 DEF Phased
  <2>5. Counted(x, k)
    BY <1>3, <2>2 DEF Counted, Live
  <2>6. ASSUME NEW j \in Indices, Will(s.down, r.strings[j], OfString(j), l.strings[j]) \/ j = i
        PROVE  Will(x.down, r.strings[j], OfString(j), k.strings[j])
    <3>1. CASE j = i
      BY <1>1, <1>2, <2>2, <3>1, WillAppend
    <3>2. CASE j # i
      <4>1. m \notin OfString(j) /\ k.strings[j] = l.strings[j]
        BY <1>2, <3>2
      <4>2. QED
        BY <1>1, <2>2, <2>6, <3>2, <4>1, WillAppend
    <3>3. QED
      BY <3>1, <3>2
  <2>7. Will(s.down, r.base, OfBase, s.lastlines) => Will(x.down, r.base, OfBase, x.lastlines)
    BY <1>1, <1>2, <2>2, WillAppend
  <2>8. Knows(x, r, k)
    <3>1. SUFFICES ASSUME Live(x), k.state = "game", x.count = k.count
                   PROVE  /\ \A j \in Plain : Will(x.down, r.strings[j], OfString(j), k.strings[j])
                          /\ Will(x.down, r.base, OfBase, x.lastlines)
                          /\ x.state = "spawned" => \A j \in Images : k.strings[j] # Empty =>
                                                      Will(x.down, r.strings[j], OfString(j), k.strings[j])
      BY DEF Knows
    <3>2. /\ \A j \in Plain : Will(s.down, r.strings[j], OfString(j), l.strings[j])
          /\ Will(s.down, r.base, OfBase, s.lastlines)
          /\ s.state = "spawned" => \A j \in Images : l.strings[j] # Empty =>
                                      Will(s.down, r.strings[j], OfString(j), l.strings[j])
      BY <1>3, <1>4, <2>2, <3>1 DEF Knows
    <3>3. \A j \in Plain : Will(x.down, r.strings[j], OfString(j), k.strings[j])
      BY <2>6, <3>2 DEF Indices
    <3>4. ASSUME x.state = "spawned", NEW j \in Images, k.strings[j] # Empty
          PROVE  Will(x.down, r.strings[j], OfString(j), k.strings[j])
      <4>1. j \in Indices
        BY DEF Indices
      <4>2. CASE j = i
        BY <2>6, <4>1, <4>2
      <4>3. CASE j # i
        <5>1. l.strings[j] # Empty
          BY <3>4, <4>1, <4>3
        <5>2. QED
          BY <2>2, <2>6, <3>2, <3>4, <4>1, <5>1
      <4>4. QED
        BY <4>2, <4>3
    <3>5. QED
      BY <2>7, <3>2, <3>3, <3>4
  <2>9. QED
    BY <2>2, <2>3, <2>4, <2>5, <2>8 DEF ClientOK
<1>5. CASE ~(Live(s) /\ (s.state = "spawned" \/ i \notin Images))
  <2>1. x = s
    BY <1>5
  <2>2. Numbered(s, r, k, n) /\ Phased(s, r, k) /\ Counted(s, k)
    BY <1>3 DEF Numbered, Told, Skips, Phased, Counted
  <2>3. Knows(s, r, k)
    <3>1. SUFFICES ASSUME Live(s), k.state = "game", s.count = k.count
                   PROVE  /\ \A j \in Plain : Will(s.down, r.strings[j], OfString(j), k.strings[j])
                          /\ Will(s.down, r.base, OfBase, s.lastlines)
                          /\ s.state # "spawned"
      BY <1>5 DEF Knows
    <3>2. i \in Images /\ s.state # "spawned"
      BY <1>5, <3>1
    <3>3. \A j \in Plain : j \in Indices \ {i}
      BY <3>2, HsAssumption DEF Indices
    <3>4. QED
      BY <1>3, <3>1, <3>2, <3>3 DEF Knows
  <2>4. QED
    BY <2>1, <2>2, <2>3 DEF ClientOK
<1>6. QED
  BY <1>4, <1>5

LEMMA SetStringOK ==
  ASSUME Inv, NEW i \in Indices, NEW v \in Strings, SetString(i, v)
  PROVE  Inv'
<1> DEFINE m == Configstring(i, v)
<1>1. /\ Types /\ rc \in [Clients -> Remotes] /\ cl \in [Clients -> Slots] /\ lv \in Levels /\ sets \in Nat
      /\ \A c \in Clients : cl[c] \in Slots /\ rc[c] \in Remotes /\ ClientOK(cl[c], rc[c], lv, nextmap)
  BY DEF Inv, Types
<1>2. /\ i \in Images => lv.strings[i] = Empty
      /\ lv' = [lv EXCEPT !.strings[i] = v] /\ sets' = sets + 1 /\ UNCHANGED <<rc, nextmap, blamed>>
  BY DEF SetString
<1>3. cl' = [c \in Clients |-> IF Active(c) /\ Wanted(c, m) THEN [cl[c] EXCEPT !.down = Append(@, m)] ELSE cl[c]]
  BY DEF SetString, Multicast
<1>4. /\ lv' \in Levels /\ lv'.count = lv.count /\ lv'.state = lv.state /\ lv'.strings[i] = v
      /\ \A j \in Indices \ {i} : lv'.strings[j] = lv.strings[j]
  <2> DEFINE f == [lv.strings EXCEPT ![i] = v]
  <2>1. lv.strings \in [Indices -> Strings]
    BY <1>1 DEF Levels
  <2>2. f \in [Indices -> Strings] /\ f[i] = v /\ \A j \in Indices \ {i} : f[j] = lv.strings[j]
    BY <2>1
  <2>3. lv' = [lv EXCEPT !.strings = f]
    BY <1>2
  <2> HIDE DEF f
  <2>4. QED
    BY <1>1, <2>2, <2>3 DEF Levels
<1>5. ASSUME NEW c \in Clients PROVE Active(c) /\ Wanted(c, m) <=> Live(cl[c]) /\ (cl[c].state = "spawned" \/ i \notin Images)
  BY DEF Active, Live, Wanted, Configstring
<1>6. ASSUME NEW c \in Clients PROVE cl'[c] \in Slots /\ ClientOK(cl'[c], rc'[c], lv', nextmap')
  <2>1. cl'[c] = IF Live(cl[c]) /\ (cl[c].state = "spawned" \/ i \notin Images)
                 THEN [cl[c] EXCEPT !.down = Append(@, m)] ELSE cl[c]
    <3> HIDE DEF m
    <3>1. QED
      BY <1>3, <1>5
  <2>2. rc'[c] = rc[c] /\ nextmap' = nextmap
    BY <1>2
  <2>3. cl'[c] \in Slots /\ ClientOK(cl'[c], rc[c], lv', nextmap)
    <3>1. cl[c] \in Slots /\ rc[c] \in Remotes /\ ClientOK(cl[c], rc[c], lv, nextmap) /\ lv \in Levels
      BY <1>1
    <3>2. i \in Images => lv.strings[i] = Empty
      BY <1>2
    <3>3. cl'[c] = IF Live(cl[c]) /\ (cl[c].state = "spawned" \/ i \notin Images)
                   THEN [cl[c] EXCEPT !.down = Append(@, Configstring(i, v))] ELSE cl[c]
      BY <2>1
    <3>4. ASSUME NEW x, x = cl'[c], NEW k, k = lv', NEW s, s = cl[c], NEW r, r = rc[c], NEW l, l = lv
          PROVE  x \in Slots /\ ClientOK(x, r, k, nextmap)
      <4>1. /\ s \in Slots /\ r \in Remotes /\ l \in Levels /\ ClientOK(s, r, l, nextmap)
            /\ i \in Images => l.strings[i] = Empty
        BY <3>1, <3>2, <3>4
      <4>2. /\ k \in Levels /\ k.count = l.count /\ k.state = l.state /\ k.strings[i] = v
            /\ \A j \in Indices \ {i} : k.strings[j] = l.strings[j]
        BY <1>4, <3>4
      <4>3. x = IF Live(s) /\ (s.state = "spawned" \/ i \notin Images)
                THEN [s EXCEPT !.down = Append(@, Configstring(i, v))] ELSE s
        BY <3>3, <3>4
      <4> HIDE <3>4
      <4>4. QED
        BY <4>1, <4>2, <4>3, StringSetOK
    <3>5. QED
      BY <3>4
  <2>4. QED
    BY <2>2, <2>3
<1>7. cl' \in [Clients -> Slots]
  <2>1. cl' = [c \in Clients |-> cl'[c]]
    <3> HIDE DEF m
    <3>1. QED
      BY <1>3
  <2>2. QED
    BY <1>6, <2>1
<1>8. Types'
  BY <1>1, <1>2, <1>4, <1>7 DEF Types
<1>9. QED
  BY <1>6, <1>8 DEF Inv

LEMMA MoveEdictOK ==
  ASSUME Inv, NEW v \in Strings, MoveEdict(v)
  PROVE  Inv'
<1>1. /\ Types /\ rc \in [Clients -> Remotes] /\ cl \in [Clients -> Slots] /\ lv \in Levels /\ sets \in Nat
      /\ \A c \in Clients : ClientOK(cl[c], rc[c], lv, nextmap)
  BY DEF Inv, Types
<1>2. lv' = [lv EXCEPT !.edict = v] /\ sets' = sets + 1 /\ UNCHANGED <<cl, rc, nextmap, blamed>>
  BY DEF MoveEdict
<1>3. lv' \in Levels /\ lv'.count = lv.count /\ lv'.state = lv.state /\ lv'.strings = lv.strings
  BY <1>1, <1>2 DEF Levels
<1>4. ASSUME NEW c \in Clients PROVE ClientOK(cl'[c], rc'[c], lv', nextmap')
  <2>1. cl'[c] = cl[c] /\ rc'[c] = rc[c] /\ nextmap' = nextmap
    BY <1>2
  <2>2. ClientOK(cl[c], rc[c], lv', nextmap)
    BY <1>1, <1>3 DEF ClientOK, Numbered, Told, Skips, Phased, Counted, Knows
  <2>3. QED
    BY <2>1, <2>2
<1>5. Types'
  BY <1>1, <1>2, <1>3 DEF Types
<1>6. QED
  BY <1>4, <1>5 DEF Inv

(* SV_Map: what a client has to know of the level that ends counts for nothing in the one that begins. *)
Cleared(s) == IF s.state = "spawned" THEN [s EXCEPT !.state = "connected", !.down = <<>>] ELSE s
Changed(s) ==
  [Cleared(s) EXCEPT !.begins = 0,
                     !.down = IF Live(s) THEN @ \o <<Command("changing"), Command("reconnect")>> ELSE @]

LEMMA NewNumbers ==
  ASSUME NEW s \in Slots, NEW r \in Remotes, NEW l \in Levels, NEW n, Numbered(s, r, l, n),
         NEW k \in Levels, k.count = l.count + 1
  PROVE  Numbered(s, r, k, FALSE) /\ s.count < k.count
<1>1. s.count \in Nat /\ r.count \in Nat /\ l.count \in Nat /\ s.down \in Seq(Messages) /\ r.up \in Seq(Commands)
  BY HsAssumption DEF Slots, Remotes, Levels
<1>2. s.count <= l.count /\ r.count <= l.count /\ Told(s, l) /\ Skips(r, l, n)
  BY DEF Numbered
<1>3. s.count < k.count /\ s.count <= k.count /\ r.count <= k.count
  BY <1>1, <1>2
<1>4. Told(s, k)
  <2>1. ASSUME NEW j \in DOMAIN s.down, s.down[j].type = "serverdata" PROVE s.down[j].count <= k.count
    <3>1. s.down[j] \in Messages /\ s.down[j].count <= l.count
      BY <1>1, <1>2, <2>1 DEF Told
    <3>2. s.down[j].count \in Nat
      BY <2>1, <3>1, CountOf
    <3>3. QED
      BY <1>1, <3>1, <3>2
  <2>2. QED
    BY <2>1 DEF Told
<1>5. Skips(r, k, FALSE)
  <2>1. ASSUME NEW j \in DOMAIN r.up, r.up[j].type = "nextserver"
        PROVE  r.up[j].count <= k.count /\ r.up[j].count # k.count
    <3>1. r.up[j] \in Commands /\ r.up[j].count <= l.count
      BY <1>1, <1>2, <2>1 DEF Skips
    <3>2. r.up[j].count \in Nat
      BY <2>1, <3>1, HsAssumption DEF Commands
    <3>3. QED
      BY <1>1, <3>1, <3>2
  <2>2. QED
    BY <2>1 DEF Skips
<1>6. QED
  BY <1>3, <1>4, <1>5 DEF Numbered

LEMMA ClearedOK ==
  ASSUME NEW s \in Slots, NEW r \in Remotes, NEW l \in Levels, NEW n, ClientOK(s, r, l, n),
         NEW k \in Levels, k.count = l.count + 1, NEW z, z = [Cleared(s) EXCEPT !.begins = 0]
  PROVE  /\ z \in Slots /\ z.state # "spawned" /\ (Live(z) <=> Live(s)) /\ z.begins = 0 /\ z.count < k.count
         /\ z.state = "connected" => Idle(z, r)
         /\ z.state = "spawning" => z.count > 0 /\ Answering(z, r)
         /\ Numbered(z, r, k, FALSE)
<1>1. Numbered(s, r, l, n) /\ Phased(s, r, l)
  BY DEF ClientOK
<1>2. Numbered(s, r, k, FALSE) /\ s.count < k.count
  BY <1>1, NewNumbers
<1>3. 0 \in Nat /\ <<>> \in Seq(Messages) /\ "connected" \in SlotStates
  BY DEF SlotStates
<1>4. CASE s.state = "spawned"
  <2>1. z = [s EXCEPT !.state = "connected", !.down = <<>>, !.begins = 0]
    BY <1>4 DEF Cleared
  <2>2. z \in Slots /\ z.state = "connected" /\ z.down = <<>> /\ z.begins = 0 /\ z.count = s.count
    BY <1>3, <2>1 DEF Slots
  <2>3. Idle(z, r)
    BY <1>1, <1>4, <2>2 DEF Phased, Idle, Quiet
  <2>4. Numbered(z, r, k, FALSE)
    <3>1. Told(z, k)
      BY <2>2 DEF Told
    <3>2. QED
      BY <1>2, <2>2, <3>1 DEF Numbered
  <2>5. QED
    BY <1>2, <1>4, <2>2, <2>3, <2>4 DEF Live
<1>5. CASE s.state # "spawned"
  <2>1. z = [s EXCEPT !.begins = 0]
    BY <1>5 DEF Cleared
  <2>2. z \in Slots /\ z.state = s.state /\ z.down = s.down /\ z.begins = 0 /\ z.count = s.count
    BY <1>3, <2>1 DEF Slots
  <2>3. (Idle(s, r) => Idle(z, r)) /\ (Answering(s, r) => Answering(z, r))
    BY <2>2 DEF Idle, Answering, Sent, Listing, Loading, Begins
  <2>4. Numbered(z, r, k, FALSE)
    BY <1>2, <2>2 DEF Numbered, Told
  <2>5. QED
    BY <1>1, <1>2, <1>5, <2>2, <2>3, <2>4 DEF Live, Phased
<1>6. QED
  BY <1>4, <1>5

LEMMA ChangedOK ==
  ASSUME NEW s \in Slots, NEW r \in Remotes, NEW l \in Levels, NEW n, ClientOK(s, r, l, n),
         NEW k \in Levels, k.count = l.count + 1
  PROVE  Changed(s) \in Slots /\ ClientOK(Changed(s), r, k, FALSE)
<1> DEFINE z == [Cleared(s) EXCEPT !.begins = 0]
           a == Command("changing")
           b == Command("reconnect")
           y == [z EXCEPT !.down = Append(@, a)]
           w == [y EXCEPT !.down = Append(@, b)]
<1>1. /\ z \in Slots /\ z.state # "spawned" /\ (Live(z) <=> Live(s)) /\ z.begins = 0 /\ z.count < k.count
      /\ z.state = "connected" => Idle(z, r)
      /\ z.state = "spawning" => z.count > 0 /\ Answering(z, r)
      /\ Numbered(z, r, k, FALSE)
  BY ClearedOK
<1>2. a \in Messages /\ a.type \notin Marks /\ b \in Messages /\ b.type \notin Marks
  BY DEF Command, Messages, Marks
<1>3. ASSUME NEW x \in Slots, x.state = z.state, x.count = z.count, x.begins = 0,
             Idle(z, r) => Idle(x, r), Answering(z, r) => Answering(x, r), Told(z, k) => Told(x, k)
      PROVE  ClientOK(x, r, k, FALSE)
  <2> HIDE DEF z
  <2>1. Numbered(x, r, k, FALSE)
    BY <1>1, <1>3 DEF Numbered
  <2>2. Phased(x, r, k) /\ Counted(x, k)
    BY <1>1, <1>3 DEF Phased, Counted
  <2>3. Knows(x, r, k)
    <3>1. x.count # k.count
      <4>1. z.count \in Nat /\ k.count \in Nat
        BY <1>1, HsAssumption DEF Slots, Levels
      <4>2. QED
        BY <1>1, <1>3, <4>1
    <3>2. QED
      BY <3>1 DEF Knows
  <2>4. QED
    BY <2>1, <2>2, <2>3 DEF ClientOK
<1>4. CASE ~Live(s)
  <2>1. Changed(s) = z
    <3>1. Changed(s) = [Cleared(s) EXCEPT !.begins = 0, !.down = Cleared(s).down]
      BY <1>4 DEF Changed
    <3>2. Cleared(s) = s
      BY <1>4 DEF Cleared, Live
    <3>3. QED
      BY <3>1, <3>2 DEF Slots
  <2>2. QED
    BY <1>1, <1>3, <2>1
<1>5. CASE Live(s)
  <2>1. Changed(s) = w
    <3> DEFINE d == Cleared(s).down
    <3>1. Changed(s) = [Cleared(s) EXCEPT !.begins = 0, !.down = d \o <<a, b>>]
      BY <1>5 DEF Changed
    <3>2. Cleared(s) \in Slots /\ d \in Seq(Messages)
      <4>1. Cleared(s) \in Slots
        <5>1. <<>> \in Seq(Messages) /\ "connected" \in SlotStates
          BY DEF SlotStates
        <5>2. QED
          BY <5>1 DEF Cleared, Slots
      <4>2. QED
        BY <4>1 DEF Slots
    <3> HIDE DEF a, b, d
    <3>3. d \o <<a, b>> = Append(Append(d, a), b)
      BY <1>2, <3>2
    <3>4. ASSUME NEW t, t = Append(Append(d, a), b) PROVE w = [Cleared(s) EXCEPT !.begins = 0, !.down = t]
      BY <3>2, <3>4 DEF d, Slots
    <3>5. QED
      BY <3>1, <3>3, <3>4
  <2> HIDE DEF z, a, b
  <2>2. /\ y \in Slots /\ y.state = z.state /\ y.count = z.count /\ y.begins = z.begins
        /\ Idle(z, r) => Idle(y, r)
        /\ Answering(z, r) => Answering(y, r)
        /\ Told(z, k) => Told(y, k)
    <3>1. y = WithMessage(z, a)
      BY DEF y, WithMessage
    <3> HIDE DEF y
    <3>2. Listed(z, y, a, r)
      BY <1>1, <1>2, <3>1, ListAdded
    <3>3. QED
      BY <3>2 DEF Listed
  <2> HIDE DEF y
  <2>3. /\ w \in Slots /\ w.state = y.state /\ w.count = y.count /\ w.begins = y.begins
        /\ Idle(y, r) => Idle(w, r)
        /\ Answering(y, r) => Answering(w, r)
        /\ Told(y, k) => Told(w, k)
    <3>1. w = WithMessage(y, b)
      BY DEF w, WithMessage
    <3> HIDE DEF w
    <3>2. y \in Slots /\ b \in Messages /\ b.type \notin Marks
      BY <1>2, <2>2
    <3>3. Listed(y, w, b, r)
      BY <3>1, <3>2, ListAdded
    <3>4. QED
      BY <3>3 DEF Listed
  <2> HIDE DEF w
  <2>4. QED
    BY <1>1, <1>3, <2>1, <2>2, <2>3
<1>6. QED
  BY <1>4, <1>5

LEMMA MapOK ==
  ASSUME Inv, Map
  PROVE  Inv' /\ nextmap' = FALSE
<1>1. /\ Types /\ rc \in [Clients -> Remotes] /\ cl \in [Clients -> Slots] /\ lv \in Levels
      /\ \A c \in Clients : cl[c] \in Slots /\ rc[c] \in Remotes /\ ClientOK(cl[c], rc[c], lv, nextmap)
  BY DEF Inv, Types
<1>2. lv.count < MaxCount /\ nextmap' = FALSE /\ UNCHANGED <<rc, sets, blamed>>
  BY DEF Map
<1>3. PICK state \in {"game", "pic"}, strings \in [Indices -> Strings], files \in [Images -> {Empty, File}] :
        SpawnServer(state, strings, files)
  BY DEF Map
<1>4. lv' \in Levels /\ lv'.count = lv.count + 1
  <2> DEFINE n == lv.count + 1
  <2>1. lv' = [lv EXCEPT !.count = n, !.state = state, !.strings = strings, !.files = files]
    BY <1>3 DEF SpawnServer
  <2>2. n \in 1 .. MaxCount
    BY <1>1, <1>2, HsAssumption DEF Levels
  <2> HIDE DEF n
  <2>3. lv' \in Levels /\ lv'.count = n
    BY <1>1, <2>1, <2>2 DEF Levels
  <2>4. QED
    BY <2>3 DEF n
<1>5. cl' = [c \in Clients |-> Changed(cl[c])]
  <2>1. cl' = [c \in Clients |->
                 [Cleared(cl[c]) EXCEPT
                    !.begins = 0,
                    !.down = IF Active(c) THEN @ \o <<Command("changing"), Command("reconnect")>> ELSE @]]
    BY <1>3 DEF SpawnServer, ClearSpawned, Cleared
  <2>2. \A c \in Clients : Active(c) <=> Live(cl[c])
    BY DEF Active, Live
  <2>3. QED
    BY <2>1, <2>2 DEF Changed
<1>6. ASSUME NEW c \in Clients PROVE cl'[c] \in Slots /\ ClientOK(cl'[c], rc'[c], lv', nextmap')
  <2>1. cl'[c] = Changed(cl[c]) /\ rc'[c] = rc[c]
    BY <1>2, <1>5
  <2>2. Changed(cl[c]) \in Slots /\ ClientOK(Changed(cl[c]), rc[c], lv', FALSE)
    BY <1>1, <1>4, ChangedOK
  <2>3. QED
    BY <1>2, <2>1, <2>2
<1>7. cl' \in [Clients -> Slots]
  <2>1. \A c \in Clients : Changed(cl[c]) \in Slots
    BY <1>5, <1>6
  <2>2. QED
    BY <1>5, <2>1
<1>8. Types'
  BY <1>1, <1>2, <1>4, <1>7 DEF Types
<1>9. QED
  BY <1>2, <1>6, <1>8 DEF Inv

(* All slots are free and no client says anything. *)
LEMMA EmptyOK ==
  ASSUME NEW l \in Levels, NEW x, x = [c \in Clients |-> Slot("free")],
         NEW y, y = [c \in Clients |-> [Fresh EXCEPT !.up = <<>>]]
  PROVE  x \in [Clients -> Slots] /\ y \in [Clients -> Remotes] /\ \A c \in Clients : ClientOK(x[c], y[c], l, FALSE)
<1> DEFINE u == <<>>
           f == [Fresh EXCEPT !.up = u]
           s == Slot("free")
<1>1. u \in Seq(Commands) /\ \A j \in DOMAIN u : u[j].type = "new"
  OBVIOUS
<1>2. y = [c \in Clients |-> f] /\ x = [c \in Clients |-> s]
  OBVIOUS
<1> HIDE DEF u
<1>3. f \in Remotes /\ s \in Slots /\ ClientOK(s, f, l, FALSE)
  BY <1>1, FreshOK, SlotOK, StartOK DEF SlotStates
<1> HIDE DEF f, s
<1>4. QED
  BY <1>2, <1>3

LEMMA RestartOK ==
  ASSUME Inv, Restart
  PROVE  Inv' /\ nextmap' = FALSE
<1>1. Types /\ lv \in Levels
  BY DEF Inv, Types
<1>2. lv.count < MaxCount /\ nextmap' = FALSE /\ UNCHANGED <<sets, blamed>>
  BY DEF Restart
<1>3. PICK strings \in [Indices -> Strings] :
        lv' = [lv EXCEPT !.count = @ + 1, !.state = "game", !.strings = strings]
  BY DEF Restart
<1>4. lv' \in Levels
  <2> DEFINE n == lv.count + 1
  <2>1. lv' = [lv EXCEPT !.count = n, !.state = "game", !.strings = strings]
    BY <1>3
  <2>2. n \in 1 .. MaxCount
    BY <1>1, <1>2, HsAssumption DEF Levels
  <2> HIDE DEF n
  <2>3. QED
    BY <1>1, <2>1, <2>2 DEF Levels
<1>5. cl' = [c \in Clients |-> Slot("free")] /\ rc' = [c \in Clients |-> [Fresh EXCEPT !.up = <<>>]]
  BY DEF Restart
<1>6. cl' \in [Clients -> Slots] /\ rc' \in [Clients -> Remotes] /\ \A c \in Clients : ClientOK(cl'[c], rc'[c], lv', FALSE)
  BY <1>4, <1>5, EmptyOK
<1>7. Types'
  BY <1>1, <1>2, <1>4, <1>6 DEF Types
<1>8. QED
  BY <1>2, <1>6, <1>7 DEF Inv

LEMMA InitOK ==
  ASSUME HsInit
  PROVE  Inv
<1>1. lv \in Levels
  <2>1. 1 \in 1 .. MaxCount
    BY HsAssumption
  <2>2. QED
    BY <2>1 DEF HsInit, Levels
<1>2. /\ cl = [c \in Clients |-> Slot("free")] /\ rc = [c \in Clients |-> [Fresh EXCEPT !.up = <<>>]]
      /\ nextmap = FALSE /\ sets = 0 /\ blamed = {}
  BY DEF HsInit
<1>3. cl \in [Clients -> Slots] /\ rc \in [Clients -> Remotes] /\ \A c \in Clients : ClientOK(cl[c], rc[c], lv, FALSE)
  BY <1>1, <1>2, EmptyOK
<1>4. QED
  BY <1>1, <1>2, <1>3 DEF Inv, Types

LEMMA StepOK ==
  ASSUME Inv, [HsNext]_vars
  PROVE  Inv' /\ [nextmap /\ nextmap' => lv'.count = lv.count]_vars
<1>1. CASE UNCHANGED vars
  <2>1. lv' = lv /\ cl' = cl /\ rc' = rc /\ nextmap' = nextmap /\ sets' = sets /\ blamed' = blamed
    BY <1>1 DEF vars
  <2>2. Inv'
    BY <2>1 DEF Inv, Types
  <2>3. QED
    BY <1>1, <2>2
<1>2. CASE \E c \in Clients : Connect(c) \/ Execute(c) \/ Receive(c) \/ AskFile(c) \/ Loaded(c) \/ EndPicture(c)
  <2>1. PICK c \in Clients : Connect(c) \/ Execute(c) \/ Receive(c) \/ AskFile(c) \/ Loaded(c) \/ EndPicture(c)
    BY <1>2
  <2>2. CASE Execute(c)
    BY <2>2, ExecuteOK
  <2>3. CASE Connect(c)
    BY <2>3, ConnectOK DEF Connect
  <2>4. CASE Receive(c)
    BY <2>4, ReceiveOK DEF Receive
  <2>5. CASE AskFile(c)
    <3>1. lv' = lv
      BY <2>5 DEF AskFile
    <3>2. QED
      BY <2>5, <3>1, AskFileOK
  <2>6. CASE Loaded(c)
    <3>1. lv' = lv
      BY <2>6 DEF Loaded
    <3>2. QED
      BY <2>6, <3>1, LoadedOK
  <2>7. CASE EndPicture(c)
    <3>1. lv' = lv
      BY <2>7 DEF EndPicture
    <3>2. QED
      BY <2>7, <3>1, EndPictureOK
  <2>8. QED
    BY <2>1, <2>2, <2>3, <2>4, <2>5, <2>6, <2>7
<1>3. ASSUME NEW i \in Indices, NEW v \in Strings, SetString(i, v) PROVE Inv' /\ lv'.count = lv.count
  <2>1. Inv'
    BY <1>3, SetStringOK
  <2>2. lv' = [lv EXCEPT !.strings[i] = v] /\ lv \in Levels
    BY <1>3 DEF SetString, Inv, Types
  <2>3. lv'.count = lv.count
    BY <2>2 DEF Levels
  <2>4. QED
    BY <2>1, <2>3
<1>4. ASSUME NEW v \in Strings, MoveEdict(v) PROVE Inv' /\ lv'.count = lv.count
  <2>1. lv' = [lv EXCEPT !.edict = v] /\ lv \in Levels
    BY <1>4 DEF MoveEdict, Inv, Types
  <2>2. lv'.count = lv.count
    BY <2>1 DEF Levels
  <2>3. QED
    BY <1>4, <2>2, MoveEdictOK
<1>5. CASE Map
  BY <1>5, MapOK
<1>6. CASE Restart
  BY <1>6, RestartOK
<1>7. QED
  BY <1>1, <1>2, <1>3, <1>4, <1>5, <1>6 DEF HsNext

(* What the invariant says of a client that has read everything. *)
LEMMA InvTells ==
  ASSUME Inv
  PROVE  HsTypeOK /\ StringsAgree /\ BaselinesAgree /\ BegunOnce /\ NoneBlamed
<1>1. /\ lv \in Levels /\ blamed = {}
      /\ \A c \in Clients : cl[c] \in Slots /\ rc[c] \in Remotes
      /\ \A c \in Clients : /\ Numbered(cl[c], rc[c], lv, nextmap) /\ Phased(cl[c], rc[c], lv)
                            /\ Counted(cl[c], lv) /\ Knows(cl[c], rc[c], lv)
  BY DEF Inv, Types, ClientOK
<1>2. HsTypeOK
  <2>1. lv.count \in 1 .. MaxCount /\ lv.strings \in [Indices -> Strings] /\ lv.count \in Nat
    BY <1>1, HsAssumption DEF Levels
  <2>2. ASSUME NEW c \in Clients
        PROVE  /\ cl[c].state \in {"free", "zombie", "connected", "spawning", "spawned"}
               /\ cl[c].count \in 0 .. lv.count
               /\ Range(cl[c].down) \subseteq Messages
               /\ rc[c].count \in 0 .. lv.count
    <3>1. cl[c].state \in {"free", "zombie", "connected", "spawning", "spawned"} /\ cl[c].down \in Seq(Messages)
      BY <1>1 DEF Slots, SlotStates
    <3>2. cl[c].count \in 0 .. MaxCount /\ rc[c].count \in 0 .. MaxCount
      BY <1>1 DEF Slots, Remotes
    <3>3. cl[c].count <= lv.count /\ rc[c].count <= lv.count
      BY <1>1 DEF Numbered
    <3>4. cl[c].count \in 0 .. lv.count /\ rc[c].count \in 0 .. lv.count
      BY <2>1, <3>2, <3>3, HsAssumption
    <3>5. Range(cl[c].down) \subseteq Messages
      BY <3>1 DEF Range
    <3>6. QED
      BY <3>1, <3>4, <3>5
  <2>3. QED
    BY <2>1, <2>2 DEF HsTypeOK
<1>3. ASSUME NEW c \in Clients, Settled(c)
      PROVE  /\ rc[c].count = lv.count /\ rc[c].base = cl[c].lastlines
             /\ \A i \in Plain : rc[c].strings[i] = lv.strings[i]
             /\ \A i \in Images : lv.strings[i] # Empty => rc[c].strings[i] = lv.strings[i]
  <2>1. lv.state = "game" /\ cl[c].state = "spawned" /\ cl[c].down = <<>>
    BY <1>3 DEF Settled
  <2>2. rc[c].count = cl[c].count /\ cl[c].count = lv.count
    BY <1>1, <2>1 DEF Phased
  <2>3. ASSUME NEW x, NEW D, NEW v, Will(<<>>, x, D, v) PROVE x = v
    BY <2>3 DEF Will
  <2>4. /\ \A i \in Plain : Will(<<>>, rc[c].strings[i], OfString(i), lv.strings[i])
        /\ Will(<<>>, rc[c].base, OfBase, cl[c].lastlines)
        /\ \A i \in Images : lv.strings[i] # Empty => Will(<<>>, rc[c].strings[i], OfString(i), lv.strings[i])
    <3>1. Live(cl[c])
      BY <2>1 DEF Live
    <3>2. QED
      BY <1>1, <2>1, <2>2, <3>1 DEF Knows
  <2>5. QED
    BY <2>2, <2>3, <2>4
<1>4. StringsAgree /\ BaselinesAgree
  BY <1>3 DEF StringsAgree, BaselinesAgree
<1>5. BegunOnce
  BY <1>1 DEF BegunOnce, Counted, Live, Active
<1>6. NoneBlamed
  BY <1>1 DEF NoneBlamed
<1>7. QED
  BY <1>2, <1>4, <1>5, <1>6

(* Whatever the game sets, whenever levels change and however late its answers come: a client that  *)
(* has read its messages has the strings and baselines of the level, the game had one ClientBegin   *)
(* for it, no "begin" that only follows the server's commands is blamed, and a picture is skipped   *)
(* once (SV_New_f, SV_Begin_f, SV_Nextserver).                                                      *)
THEOREM ClientsAreTold == HsSpec => TellsTheLevel
<1>1. HsInit => Inv
  BY InitOK
<1>2. Inv /\ [HsNext]_vars => Inv' /\ [nextmap /\ nextmap' => lv'.count = lv.count]_vars
  BY StepOK
<1>3. Inv => HsTypeOK /\ StringsAgree /\ BaselinesAgree /\ BegunOnce /\ NoneBlamed
  BY InvTells
<1>4. QED
  BY <1>1, <1>2, <1>3, PTL DEF HsSpec, TellsTheLevel, SkipsOnce
-----------------------------------------------------------------------------
(* Requests for files: commands and messages that a loading client goes on with, and those that   *)
(* end its connection.                                                                             *)
Asking == {"download", "nextdl", "begin"}
Telling == {"serverdata", "refused", "full", "block"}
Ending == {"reload", "reconnect now"}
DrCommands == [type : {"new", "nextdl"}] \union [type : {"download"}, file : Files, offset : Nat]
                \union [type : {"begin"}, level : Nat]
DrMessages == [type : {"refused", "full", "reload", "reconnect now", "reconnect", "frame"}]
                \union [type : {"serverdata"}, level : Nat] \union [type : {"block"}, last : BOOLEAN]
DrSlots == [state : {"connected", "spawning", "spawned", "zombie"}, spawncount : Nat,
            download : Files \union {None}, pos : Nat, downloadpak : BOOLEAN]
DrClients == [phase : {"asks", "loads", "waits", "gets", "begins", "in"}, level : Nat, have : [Files -> Nat],
              loaded : SUBSET Paks, skipped : SUBSET (Files \union {None}), file : Files \union {None}]
DrTypes ==
  /\ spawncount \in Nat /\ allowed \subseteq Files /\ slot \in DrSlots
  /\ up \in Seq(DrCommands) /\ down \in Seq(DrMessages) /\ dlc \in DrClients

(* Whoever loads has one thing to go on with: a command on its way, a message on its way, or      *)
(* itself; or none, until it is thrown out or has begun.                                           *)
Leaves(s, d) == s.state = "zombie" => \E k \in DOMAIN d : d[k].type \in Ending
Rests(s, p) == p \in {"waits", "gets"} => s.state = "zombie"
Goes(s, p) == s.state \in {"spawning", "zombie"} /\ p # "loads"
Commanded(s, m, p) ==
  /\ p = "waits" => s.state = "zombie" \/ m.type = "download"
  /\ p = "gets" => s.state = "zombie" \/ m.type = "nextdl"
  /\ m.type = "nextdl" => s.state = "zombie" \/ s.download # None
  /\ m.type # "nextdl" => s.download = None
More(m) == m.type = "block" /\ ~m.last
Messaged(s, m, p) ==
  /\ p = "gets" => s.state = "zombie" \/ m.type = "block"
  /\ More(m) => s.state = "zombie" \/ s.download # None
  /\ ~More(m) => s.download = None
Chained(s, u, d, p) ==
  \/ NoneOf(u, Asking) /\ NoneOf(d, Telling) /\ p # "loads" /\ Rests(s, p)
  \/ NoneOf(u, Asking) /\ NoneOf(d, Telling) /\ p = "loads" /\ s.state \in {"spawning", "zombie"} /\ s.download = None
  \/ NoneOf(d, Telling) /\ Goes(s, p) /\ \E k \in DOMAIN u : OnlyAt(u, Asking, k) /\ u[k].type \in Asking /\ Commanded(s, u[k], p)
  \/ NoneOf(u, Asking) /\ Goes(s, p) /\ \E k \in DOMAIN d : OnlyAt(d, Telling, k) /\ d[k].type \in Telling /\ Messaged(s, d[k], p)
Loads(s) ==
  /\ s.state \in {"connected", "spawned"} => s.download = None
  /\ s.state = "spawned" => ~s.downloadpak
DrInv == DrTypes /\ Loads(slot) /\ Leaves(slot, down) /\ Chained(slot, up, down, dlc.phase)

(* The chain of a client when something else is added to its lists or read from them. *)
LEMMA ChainAdded ==
  ASSUME NEW s, NEW u \in Seq(DrCommands), NEW d \in Seq(DrMessages), NEW p, Chained(s, u, d, p)
  PROVE  /\ \A m \in DrCommands : m.type \notin Asking => Chained(s, Append(u, m), d, p)
         /\ \A m \in DrMessages : m.type \notin Telling => Chained(s, u, Append(d, m), p)
<1>1. ASSUME NEW m \in DrCommands, m.type \notin Asking PROVE Chained(s, Append(u, m), d, p)
  <2>1. NoneOf(u, Asking) => NoneOf(Append(u, m), Asking)
    BY <1>1, NoneAdded
  <2>2. ASSUME NEW k \in DOMAIN u, OnlyAt(u, Asking, k)
        PROVE  k \in DOMAIN Append(u, m) /\ OnlyAt(Append(u, m), Asking, k) /\ Append(u, m)[k] = u[k]
    <3>1. OnlyAt(Append(u, m), Asking, k) /\ Append(u, m)[k] = u[k]
      BY <1>1, <2>2, OnlyAdded
    <3>2. QED
      BY <3>1 DEF OnlyAt
  <2> DEFINE w == Append(u, m)
  <2> HIDE DEF w
  <2>3. NoneOf(u, Asking) => NoneOf(w, Asking)
    BY <2>1 DEF w
  <2>4. \A k \in DOMAIN u : OnlyAt(u, Asking, k) => k \in DOMAIN w /\ OnlyAt(w, Asking, k) /\ w[k] = u[k]
    BY <2>2 DEF w
  <2>5. Chained(s, w, d, p)
    BY <2>3, <2>4 DEF Chained
  <2>6. QED
    BY <2>5 DEF w
<1>2. ASSUME NEW m \in DrMessages, m.type \notin Telling PROVE Chained(s, u, Append(d, m), p)
  <2>1. NoneOf(d, Telling) => NoneOf(Append(d, m), Telling)
    BY <1>2, NoneAdded
  <2>2. ASSUME NEW k \in DOMAIN d, OnlyAt(d, Telling, k)
        PROVE  k \in DOMAIN Append(d, m) /\ OnlyAt(Append(d, m), Telling, k) /\ Append(d, m)[k] = d[k]
    <3>1. OnlyAt(Append(d, m), Telling, k) /\ Append(d, m)[k] = d[k]
      BY <1>2, <2>2, OnlyAdded
    <3>2. QED
      BY <3>1 DEF OnlyAt
  <2> DEFINE w == Append(d, m)
  <2> HIDE DEF w
  <2>3. NoneOf(d, Telling) => NoneOf(w, Telling)
    BY <2>1 DEF w
  <2>4. \A k \in DOMAIN d : OnlyAt(d, Telling, k) => k \in DOMAIN w /\ OnlyAt(w, Telling, k) /\ w[k] = d[k]
    BY <2>2 DEF w
  <2>5. Chained(s, u, w, p)
    BY <2>3, <2>4 DEF Chained
  <2>6. QED
    BY <2>5 DEF w
<1>3. QED
  BY <1>1, <1>2

LEMMA CommandTaken ==
  ASSUME NEW s, NEW u \in Seq(DrCommands), u # <<>>, NEW d, NEW p, Chained(s, u, d, p), NEW w, w = Tail(u)
  PROVE  /\ w \in Seq(DrCommands) /\ Head(u) \in DrCommands
         /\ Head(u).type \notin Asking => Chained(s, w, d, p)
         /\ Head(u).type \in Asking => /\ NoneOf(w, Asking) /\ NoneOf(d, Telling) /\ Goes(s, p)
                                       /\ Commanded(s, Head(u), p)
<1>1. w \in Seq(DrCommands) /\ Head(u) \in DrCommands
  BY TailOf
<1>2. NoneOf(u, Asking) => Head(u).type \notin Asking /\ NoneOf(w, Asking)
  BY NoneRead
<1>3. CASE NoneOf(u, Asking)
  BY <1>1, <1>2, <1>3 DEF Chained, NoneOf
<1>4. CASE NoneOf(d, Telling) /\ Goes(s, p) /\ \E k \in DOMAIN u : OnlyAt(u, Asking, k) /\ u[k].type \in Asking /\ Commanded(s, u[k], p)
  <2>1. PICK k \in DOMAIN u : OnlyAt(u, Asking, k) /\ u[k].type \in Asking /\ Commanded(s, u[k], p)
    BY <1>4
  <2>2. CASE k = 1
    <3>1. Head(u) = u[k] /\ NoneOf(w, Asking)
      BY <2>1, <2>2, OnlyRead
    <3>2. QED
      BY <1>1, <1>4, <2>1, <3>1
  <2>3. CASE k # 1
    <3>1. Head(u).type \notin Asking /\ OnlyAt(w, Asking, k - 1) /\ w[k-1] = u[k]
      BY <2>1, <2>3, OnlyRead
    <3>2. k - 1 \in DOMAIN w
      BY <3>1 DEF OnlyAt
    <3>3. QED
      BY <1>1, <1>4, <2>1, <3>1, <3>2 DEF Chained
  <2>4. QED
    BY <2>2, <2>3
<1>5. QED
  BY <1>3, <1>4 DEF Chained

LEMMA MessageTaken ==
  ASSUME NEW s, NEW u, NEW d \in Seq(DrMessages), d # <<>>, NEW p, Chained(s, u, d, p), NEW w, w = Tail(d)
  PROVE  /\ w \in Seq(DrMessages) /\ Head(d) \in DrMessages
         /\ Head(d).type \notin Telling => Chained(s, u, w, p)
         /\ Head(d).type \in Telling => /\ NoneOf(u, Asking) /\ NoneOf(w, Telling) /\ Goes(s, p)
                                        /\ Messaged(s, Head(d), p)
<1>1. w \in Seq(DrMessages) /\ Head(d) \in DrMessages
  BY TailOf
<1>2. NoneOf(d, Telling) => Head(d).type \notin Telling /\ NoneOf(w, Telling)
  BY NoneRead
<1>3. CASE NoneOf(d, Telling)
  BY <1>1, <1>2, <1>3 DEF Chained, NoneOf
<1>4. CASE NoneOf(u, Asking) /\ Goes(s, p) /\ \E k \in DOMAIN d : OnlyAt(d, Telling, k) /\ d[k].type \in Telling /\ Messaged(s, d[k], p)
  <2>1. PICK k \in DOMAIN d : OnlyAt(d, Telling, k) /\ d[k].type \in Telling /\ Messaged(s, d[k], p)
    BY <1>4
  <2>2. CASE k = 1
    <3>1. Head(d) = d[k] /\ NoneOf(w, Telling)
      BY <2>1, <2>2, OnlyRead
    <3>2. QED
      BY <1>1, <1>4, <2>1, <3>1
  <2>3. CASE k # 1
    <3>1. Head(d).type \notin Telling /\ OnlyAt(w, Telling, k - 1) /\ w[k-1] = d[k]
      BY <2>1, <2>3, OnlyRead
    <3>2. k - 1 \in DOMAIN w
      BY <3>1 DEF OnlyAt
    <3>3. QED
      BY <1>1, <1>4, <2>1, <3>1, <3>2 DEF Chained
  <2>4. QED
    BY <2>2, <2>3
<1>5. QED
  BY <1>3, <1>4 DEF Chained

(* What an answer of the server leaves behind. *)
Result(s, u, d, p) == s \in DrSlots /\ d \in Seq(DrMessages) /\ Loads(s) /\ Leaves(s, d) /\ Chained(s, u, d, p)

LEMMA Joined ==
  ASSUME NEW S, NEW d \in Seq(S), NEW m \in S
  PROVE  d \o <<m>> = Append(d, m)
OBVIOUS

LEMMA Answered ==
  ASSUME NEW u \in Seq(DrCommands), NEW d \in Seq(DrMessages), NoneOf(u, Asking), NoneOf(d, Telling),
         NEW x \in DrSlots, x.state = "spawning", NEW p, p # "loads", NEW m \in DrMessages, m.type \in Telling,
         Messaged(x, m, p)
  PROVE  Result(x, u, d \o <<m>>, p)
<1> DEFINE w == Append(d, m)
           k == Len(d) + 1
<1>1. d \o <<m>> = w
  BY Joined
<1>2. w \in Seq(DrMessages) /\ OnlyAt(w, Telling, k) /\ w[k] = m
  BY NoneAdded, AppendOf
<1> HIDE DEF w, k
<1>3. k \in DOMAIN w
  BY <1>2 DEF OnlyAt
<1>4. Chained(x, u, w, p)
  BY <1>2, <1>3 DEF Chained, Goes
<1>5. Loads(x) /\ Leaves(x, w)
  BY DEF Loads, Leaves
<1>6. QED
  BY <1>1, <1>2, <1>4, <1>5 DEF Result

LEMMA Left ==
  ASSUME NEW u \in Seq(DrCommands), NEW d \in Seq(DrMessages), NEW s \in DrSlots, NEW p, s.state = "spawning",
         Chained(s, u, d, p) \/ (NoneOf(u, Asking) /\ NoneOf(d, Telling) /\ p # "loads"),
         NEW m \in DrMessages, m.type \in Ending,
         NEW x, x = [s EXCEPT !.state = "zombie", !.download = None]
  PROVE  Result(x, u, d \o <<m>>, p)
<1> DEFINE w == Append(d, m)
           k == Len(d) + 1
<1>1. d \o <<m>> = w
  BY Joined
<1>2. w \in Seq(DrMessages) /\ k \in DOMAIN w /\ w[k] = m
  BY AppendOf
<1>3. x \in DrSlots /\ x.state = "zombie" /\ x.download = None
  BY DEF DrSlots
<1> HIDE DEF w, k
<1>4. Loads(x) /\ Leaves(x, w)
  BY <1>2, <1>3 DEF Loads, Leaves
<1>5. Chained(x, u, d, p)
  <2>1. CASE Chained(s, u, d, p)
    BY <1>3, <2>1 DEF Chained, Rests, Goes, Commanded, Messaged
  <2>2. CASE NoneOf(u, Asking) /\ NoneOf(d, Telling) /\ p # "loads"
    BY <1>3, <2>2 DEF Chained, Rests
  <2>3. QED
    BY <2>1, <2>2
<1>6. Chained(x, u, w, p)
  <2>1. m.type \notin Telling
    BY DEF Ending, Telling
  <2>2. Chained(x, u, Append(d, m), p)
    BY <1>5, <2>1, ChainAdded
  <2>3. QED
    BY <2>2 DEF w
<1>7. QED
  BY <1>1, <1>2, <1>3, <1>4, <1>6 DEF Result

(* The data of the level goes to who has no more of another one to come. *)
LEMMA LevelSent ==
  ASSUME DrTypes, NEW u \in Seq(DrCommands), NoneOf(u, Asking), NoneOf(down, Telling),
         NEW p, p \notin {"loads", "gets"},
         NEW s \in DrSlots, s.state = "connected", s.download = None, DrNew(s)
  PROVE  Result(slot', u, down', p)
<1> DEFINE m == [type |-> "serverdata", level |-> spawncount]
           x == [s EXCEPT !.state = "spawning", !.spawncount = spawncount]
<1>1. slot' = x /\ down' = down \o <<m>>
  BY DEF DrNew, Replies
<1>2. spawncount \in Nat /\ down \in Seq(DrMessages)
  BY DEF DrTypes
<1>3. m \in DrMessages /\ m.type = "serverdata"
  BY <1>2 DEF DrMessages
<1>4. x \in DrSlots /\ x.state = "spawning" /\ x.download = None
  BY <1>2 DEF DrSlots
<1> HIDE DEF m, x
<1>5. Messaged(x, m, p) /\ m.type \in Telling
  BY <1>3, <1>4 DEF Messaged, More, Telling
<1>6. Result(x, u, down \o <<m>>, p)
  BY <1>2, <1>3, <1>4, <1>5, Answered
<1>7. QED
  BY <1>1, <1>6

LEMMA DrNewOK ==
  ASSUME DrTypes, Loads(slot), Leaves(slot, down), slot.state # "zombie", NEW u \in Seq(DrCommands), NEW p,
         Chained(slot, u, down, p), DrNew(slot)
  PROVE  Result(slot', u, down', p)
<1>1. slot \in DrSlots /\ down \in Seq(DrMessages)
  BY DEF DrTypes
<1>2. CASE slot.state = "connected"
  <2>1. NoneOf(u, Asking) /\ NoneOf(down, Telling) /\ p \notin {"loads", "gets"}
    BY <1>2 DEF Chained, Goes, Rests
  <2>2. slot.download = None
    BY <1>2 DEF Loads
  <2>3. QED
    BY <1>1, <1>2, <2>1, <2>2, LevelSent
<1>3. CASE slot.state = "spawning"
  <2> DEFINE m == Msg("reconnect now")
             x == [slot EXCEPT !.state = "zombie", !.download = None]
  <2>1. slot' = x /\ down' = down \o <<m>>
    BY <1>3 DEF DrNew, Gone, Replies
  <2>2. m \in DrMessages /\ m.type \in Ending
    BY DEF Msg, DrMessages, Ending
  <2> HIDE DEF m
  <2>3. Result(x, u, down \o <<m>>, p)
    BY <1>1, <1>3, <2>2, Left
  <2>4. QED
    BY <2>1, <2>3
<1>4. CASE slot.state = "spawned"
  <2>1. UNCHANGED <<slot, down>>
    BY <1>4 DEF DrNew
  <2>2. QED
    BY <1>1, <2>1 DEF Result
<1>5. QED
  BY <1>1, <1>2, <1>3, <1>4 DEF DrSlots

LEMMA PushOK ==
  ASSUME DrTypes, NEW u \in Seq(DrCommands), NoneOf(u, Asking), NoneOf(down, Telling), NEW p, p # "loads",
         NEW s \in DrSlots, s.state = "spawning", s.download # None, PushDownload(s)
  PROVE  Result(slot', u, down', p)
<1>1. down \in Seq(DrMessages) /\ s.pos \in Nat
  BY DEF DrTypes, DrSlots
<1>2. CASE s.pos + 1 = Blocks
  <2> DEFINE m == [type |-> "block", last |-> TRUE]
             x == [s EXCEPT !.download = None, !.pos = 0]
  <2>1. slot' = x /\ down' = down \o <<m>>
    BY <1>2 DEF PushDownload, Replies
  <2>2. m \in DrMessages /\ m.type = "block" /\ ~More(m)
    BY DEF DrMessages, More
  <2>3. x \in DrSlots /\ x.state = "spawning" /\ x.download = None
    <3>1. 0 \in Nat
      OBVIOUS
    <3>2. QED
      BY <3>1 DEF DrSlots
  <2> HIDE DEF m, x
  <2>4. Messaged(x, m, p) /\ m.type \in Telling
    BY <2>2, <2>3 DEF Messaged, Telling
  <2>5. Result(x, u, down \o <<m>>, p)
    BY <1>1, <2>2, <2>3, <2>4, Answered
  <2>6. QED
    BY <2>1, <2>5
<1>3. CASE s.pos + 1 # Blocks
  <2> DEFINE m == [type |-> "block", last |-> FALSE]
             n == s.pos + 1
             x == [s EXCEPT !.pos = n]
  <2>1. slot' = x /\ down' = down \o <<m>>
    BY <1>3 DEF PushDownload, Replies
  <2>2. m \in DrMessages /\ m.type = "block"
    BY DEF DrMessages
  <2>3. n \in Nat
    BY <1>1
  <2> HIDE DEF n
  <2>4. x \in DrSlots /\ x.state = "spawning" /\ x.download # None
    BY <2>3 DEF DrSlots
  <2> HIDE DEF m, x
  <2>5. Messaged(x, m, p) /\ m.type \in Telling
    <3>1. More(m)
      BY DEF More, m
    <3>2. QED
      BY <2>2, <2>4, <3>1 DEF Messaged, Telling
  <2>6. Result(x, u, down \o <<m>>, p)
    BY <1>1, <2>2, <2>4, <2>5, Answered
  <2>7. QED
    BY <2>1, <2>6
<1>4. QED
  BY <1>2, <1>3

(* A short answer: the file is not sent. *)
LEMMA SaysNo ==
  ASSUME DrTypes, NEW u \in Seq(DrCommands), NoneOf(u, Asking), NoneOf(down, Telling), NEW p, p \notin {"loads", "gets"},
         slot.state = "spawning", slot.download = None, NEW t \in {"refused", "full"}, Replies(<<Msg(t)>>), UNCHANGED slot
  PROVE  Result(slot', u, down', p)
<1> DEFINE m == Msg(t)
<1>1. m \in DrMessages /\ m.type \in Telling /\ ~More(m)
  BY DEF Msg, DrMessages, Telling, More
<1>2. slot' = slot /\ down' = down \o <<m>>
  BY DEF Replies
<1> HIDE DEF m
<1>3. Messaged(slot, m, p)
  BY <1>1 DEF Messaged
<1>4. slot \in DrSlots /\ down \in Seq(DrMessages)
  BY DEF DrTypes
<1>5. Result(slot, u, down \o <<m>>, p)
  BY <1>1, <1>3, <1>4, Answered
<1>6. QED
  BY <1>2, <1>5

LEMMA LoadPakOK ==
  ASSUME DrTypes, NEW u \in Seq(DrCommands), NoneOf(u, Asking), NoneOf(down, Telling), NEW p, p # "loads",
         slot.state = "spawning", ClientLoadNewPAK
  PROVE  Result(slot', u, down', p)
<1> DEFINE m == Msg("reload")
           x == [slot EXCEPT !.state = "zombie", !.download = None]
<1>1. m \in DrMessages /\ m.type \in Ending
  BY DEF Msg, DrMessages, Ending
<1>2. slot' = x /\ down' = down \o <<m>>
  BY DEF ClientLoadNewPAK, Gone, Replies
<1>3. slot \in DrSlots /\ down \in Seq(DrMessages)
  BY DEF DrTypes
<1> HIDE DEF m
<1>4. Result(x, u, down \o <<m>>, p)
  BY <1>1, <1>3, Left
<1>5. QED
  BY <1>2, <1>4

LEMMA BeginDownloadOK ==
  ASSUME DrTypes, NEW u \in Seq(DrCommands), NoneOf(u, Asking), NoneOf(down, Telling), NEW p, p \notin {"loads", "gets"},
         slot.state = "spawning", slot.download = None, NEW f \in Files, NEW offset \in Nat, BeginDownload(f, offset)
  PROVE  Result(slot', u, down', p)
<1>1. slot \in DrSlots
  BY DEF DrTypes
<1>2. CASE slot.spawncount # spawncount
  <2> DEFINE s == [slot EXCEPT !.state = "connected"]
  <2>1. s \in DrSlots /\ s.state = "connected" /\ s.download = None
    BY <1>1 DEF DrSlots
  <2>2. DrNew(s)
    BY <1>2 DEF BeginDownload
  <2> HIDE DEF s
  <2>3. QED
    BY <2>1, <2>2, LevelSent
<1>3. CASE slot.spawncount = spawncount
  <2>1. Requested(f, offset)
    BY <1>3 DEF BeginDownload
  <2>2. CASE ClientLoadNewPAK
    BY <2>2, LoadPakOK
  <2>3. CASE Refuses
    BY <2>3, SaysNo DEF Refuses
  <2>4. CASE Replies(<<Msg("full")>>) /\ UNCHANGED slot
    BY <2>4, SaysNo
  <2>5. CASE PushDownload([slot EXCEPT !.download = f, !.pos = offset, !.downloadpak = f \in Paks])
    <3> DEFINE b == f \in Paks
               s == [slot EXCEPT !.download = f, !.pos = offset, !.downloadpak = b]
    <3>1. b \in BOOLEAN
      OBVIOUS
    <3>2. PushDownload(s)
      BY <2>5
    <3> HIDE DEF b
    <3>3. s \in DrSlots /\ s.state = "spawning" /\ s.download = f
      BY <1>1, <3>1 DEF DrSlots
    <3> HIDE DEF s
    <3>4. f # None
      BY DrAssumption
    <3>5. QED
      BY <3>2, <3>3, <3>4, PushOK
  <2>6. QED
    BY <2>1, <2>2, <2>3, <2>4, <2>5 DEF Requested, SendFile
<1>4. QED
  BY <1>2, <1>3

LEMMA DrBeginOK ==
  ASSUME DrTypes, NEW u \in Seq(DrCommands), NoneOf(u, Asking), NoneOf(down, Telling), NEW p,
         p \notin {"loads", "gets", "waits"}, slot.state = "spawning", slot.download = None, NEW level, DrBegin(level)
  PROVE  Result(slot', u, down', p)
<1>1. slot \in DrSlots /\ down \in Seq(DrMessages)
  BY DEF DrTypes
<1>2. CASE slot.downloadpak
  <2>1. ClientLoadNewPAK
    BY <1>2 DEF DrBegin
  <2>2. QED
    BY <2>1, LoadPakOK
<1>3. CASE ~slot.downloadpak /\ level # spawncount
  <2> DEFINE s == [slot EXCEPT !.state = "connected"]
  <2>1. s \in DrSlots /\ s.state = "connected" /\ s.download = None
    BY <1>1 DEF DrSlots
  <2>2. DrNew(s)
    BY <1>3 DEF DrBegin
  <2> HIDE DEF s
  <2>3. QED
    BY <2>1, <2>2, LevelSent
<1>4. CASE ~slot.downloadpak /\ level = spawncount
  <2> DEFINE m == Msg("frame")
             x == [slot EXCEPT !.state = "spawned", !.download = None]
  <2>1. slot' = x /\ down' = down \o <<m>>
    BY <1>4 DEF DrBegin, Replies
  <2>2. m \in DrMessages /\ m.type \notin Telling
    BY DEF Msg, DrMessages, Telling
  <2>3. x \in DrSlots /\ x.state = "spawned" /\ x.download = None /\ (x.downloadpak <=> slot.downloadpak)
    BY <1>1 DEF DrSlots
  <2> HIDE DEF m, x
  <2>4. Chained(x, u, down, p)
    BY <2>3 DEF Chained, Rests
  <2>5. Chained(x, u, Append(down, m), p) /\ down \o <<m>> = Append(down, m) /\ Append(down, m) \in Seq(DrMessages)
    <3>1. Chained(x, u, Append(down, m), p)
      BY <1>1, <2>2, <2>4, ChainAdded
    <3>2. QED
      BY <1>1, <2>2, <3>1, Joined, AppendOf
  <2>6. Loads(x) /\ Leaves(x, Append(down, m))
    BY <1>4, <2>3 DEF Loads, Leaves
  <2>7. Result(x, u, down \o <<m>>, p)
    BY <2>3, <2>5, <2>6 DEF Result
  <2>8. QED
    BY <2>1, <2>7
<1>5. QED
  BY <1>2, <1>3, <1>4

LEMMA ServerOK ==
  ASSUME DrInv, Server
  PROVE  DrInv'
<1> DEFINE m == Head(up)
           u == Tail(up)
           p == dlc.phase
<1>1. /\ DrTypes /\ Loads(slot) /\ Leaves(slot, down) /\ Chained(slot, up, down, p)
      /\ up # <<>> /\ slot.state # "zombie" /\ up' = u /\ up \in Seq(DrCommands) /\ slot \in DrSlots /\ down \in Seq(DrMessages)
  BY DEF DrInv, DrTypes, Server
<1>2. UNCHANGED <<spawncount, allowed, dlc, toggles>>
  BY DEF Server, Keeps
<1>3. u = Tail(up) /\ m = Head(up)
  OBVIOUS
<1>4. /\ m.type = "new" => DrNew(slot)
      /\ m.type = "download" => BeginDownload(m.file, m.offset)
      /\ m.type = "nextdl" => IF slot.download = None THEN UNCHANGED <<slot, down>> ELSE PushDownload(slot)
      /\ m.type = "begin" => DrBegin(m.level)
  BY DEF Server
<1> HIDE DEF u, m
<1>5. /\ u \in Seq(DrCommands) /\ m \in DrCommands
      /\ m.type \notin Asking => Chained(slot, u, down, p)
      /\ m.type \in Asking => NoneOf(u, Asking) /\ NoneOf(down, Telling) /\ Goes(slot, p) /\ Commanded(slot, m, p)
  BY <1>1, <1>3, CommandTaken
<1>6. m.type \in {"new", "download", "nextdl", "begin"} /\ (m.type = "download" => m.file \in Files /\ m.offset \in Nat)
  BY <1>5 DEF DrCommands
<1>7. m.type \in Asking => slot.state = "spawning" /\ p # "loads"
  BY <1>1, <1>5 DEF Goes
<1> HIDE DEF p
<1>8. Result(slot', u, down', p)
  <2>1. CASE m.type = "new"
    BY <1>1, <1>4, <1>5, <2>1, DrNewOK DEF Asking
  <2>2. CASE m.type = "download"
    <3>1. p # "gets" /\ slot.download = None
      BY <1>1, <1>5, <2>2 DEF Commanded, Asking
    <3>2. QED
      BY <1>1, <1>4, <1>5, <1>6, <1>7, <2>2, <3>1, BeginDownloadOK DEF Asking
  <2>3. CASE m.type = "nextdl"
    <3>1. slot.download # None
      BY <1>1, <1>5, <2>3 DEF Commanded, Asking
    <3>2. QED
      BY <1>1, <1>4, <1>5, <1>7, <2>3, <3>1, PushOK DEF Asking
  <2>4. CASE m.type = "begin"
    <3>1. p \notin {"waits", "gets"} /\ slot.download = None
      BY <1>1, <1>5, <2>4 DEF Commanded, Asking
    <3>2. QED
      BY <1>1, <1>4, <1>5, <1>7, <2>4, <3>1, DrBeginOK DEF Asking
  <2>5. QED
    BY <1>6, <2>1, <2>2, <2>3, <2>4
<1>9. QED
  BY <1>1, <1>2, <1>5, <1>8 DEF DrInv, DrTypes, Result, p

LEMMA OneMore ==
  ASSUME NEW S, NEW f \in [S -> Nat], NEW a
  PROVE  [f EXCEPT ![a] = @ + 1] \in [S -> Nat]
<1>1. CASE a \in S
  <2> DEFINE n == f[a] + 1
  <2>1. n \in Nat
    BY <1>1
  <2> HIDE DEF n
  <2>2. [f EXCEPT ![a] = n] \in [S -> Nat]
    BY <2>1
  <2>3. QED
    BY <2>2 DEF n
<1>2. CASE a \notin S
  <2> DEFINE n == f[a] + 1
  <2> HIDE DEF n
  <2>1. [f EXCEPT ![a] = n] = f
    BY <1>2
  <2>2. QED
    BY <2>1 DEF n
<1>3. QED
  BY <1>1, <1>2

(* A client that is interrupted, or comes into the game, goes on with nothing. *)
LEMMA PhaseLeft ==
  ASSUME NEW s, NEW u, NEW d, NEW p, Chained(s, u, d, p), NEW q \in {"asks", "in"}
  PROVE  Chained(s, u, d, q)
BY DEF Chained, Rests, Goes, Commanded, Messaged

LEMMA AgainOK ==
  ASSUME DrInv, NEW m, Again(m), UNCHANGED <<spawncount, allowed>>
  PROVE  DrInv'
<1> DEFINE e == IF m.type = "reload" THEN {p \in Paks : dlc.have[p] = Blocks} ELSE dlc.loaded
           n == Msg("new")
           s == DrFresh
<1>1. /\ slot' = s /\ up' = <<n>> /\ down' = <<>>
      /\ dlc' = [dlc EXCEPT !.phase = "asks", !.skipped = {}, !.file = None, !.loaded = e]
  BY DEF Again
<1>2. DrTypes /\ dlc \in DrClients
  BY DEF DrInv, DrTypes
<1>3. e \in SUBSET Paks /\ {} \in SUBSET (Files \union {None})
  BY <1>2 DEF DrClients
<1> HIDE DEF e
<1>4. dlc' \in DrClients /\ dlc'.phase = "asks"
  BY <1>1, <1>2, <1>3 DEF DrClients
<1>5. n \in DrCommands /\ n.type \notin Asking
  BY DEF Msg, DrCommands, Asking
<1>6. s \in DrSlots /\ s.state = "connected" /\ s.download = None
  <2>1. 0 \in Nat
    OBVIOUS
  <2>2. QED
    BY <2>1 DEF DrFresh, DrSlots
<1> HIDE DEF n, s
<1>7. up' \in Seq(DrCommands) /\ down' \in Seq(DrMessages) /\ NoneOf(up', Asking) /\ NoneOf(down', Telling)
  BY <1>1, <1>5 DEF NoneOf
<1>8. Chained(s, up', down', "asks") /\ Loads(s) /\ Leaves(s, down')
  BY <1>6, <1>7 DEF Chained, Rests, Loads, Leaves
<1>9. QED
  BY <1>1, <1>2, <1>4, <1>6, <1>7, <1>8 DEF DrInv, DrTypes

(* The client goes on with what it read. *)
LEMMA ReadOn ==
  ASSUME DrInv, down # <<>>, Head(down).type \notin Ending, down' = Tail(down), UNCHANGED <<slot, spawncount, allowed>>,
         up' \in Seq(DrCommands), dlc' \in DrClients, Chained(slot, up', Tail(down), dlc'.phase)
  PROVE  DrInv'
<1>1. DrTypes /\ Loads(slot) /\ Leaves(slot, down) /\ down \in Seq(DrMessages)
  BY DEF DrInv, DrTypes
<1>2. Leaves(slot, Tail(down)) /\ Tail(down) \in Seq(DrMessages)
  <2>1. SUFFICES ASSUME slot.state = "zombie" PROVE \E k \in DOMAIN Tail(down) : Tail(down)[k].type \in Ending
    BY <1>1, TailOf DEF Leaves
  <2>2. PICK k \in DOMAIN down : down[k].type \in Ending
    BY <1>1, <2>1 DEF Leaves
  <2>3. k # 1
    BY <1>1, <2>2, TailOf
  <2>4. k - 1 \in DOMAIN Tail(down) /\ Tail(down)[k-1] = down[k]
    <3>1. k \in 1 .. Len(down) /\ Len(down) \in Nat
      BY <1>1, TailOf
    <3>2. k - 1 \in 1 .. (Len(down) - 1) /\ (k - 1) + 1 = k
      BY <2>3, <3>1
    <3>3. QED
      BY <1>1, <3>2, TailOf
  <2>5. QED
    BY <2>2, <2>4
<1>3. QED
  BY <1>1, <1>2 DEF DrInv, DrTypes

LEMMA ClientReads ==
  ASSUME DrInv, Client
  PROVE  DrInv'
<1> DEFINE m == Head(down)
           d == Tail(down)
           p == dlc.phase
<1>1. /\ DrTypes /\ Loads(slot) /\ Leaves(slot, down) /\ Chained(slot, up, down, p) /\ dlc \in DrClients
      /\ down # <<>> /\ up \in Seq(DrCommands) /\ slot \in DrSlots /\ down \in Seq(DrMessages)
      /\ UNCHANGED <<spawncount, allowed>>
  BY DEF DrInv, DrTypes, Client
<1>2. d = Tail(down) /\ m = Head(down)
  OBVIOUS
<1>3. CASE m.type \in Ending
  <2>1. Again(m)
    BY <1>3 DEF Client, Ending
  <2>2. QED
    BY <1>1, <2>1, AgainOK
<1>4. CASE m.type \notin Ending
  <2>1. down' = d /\ UNCHANGED slot
    BY <1>4 DEF Client, Ending
  <2>2. /\ m.type = "serverdata" =>
             dlc' = [dlc EXCEPT !.phase = "loads", !.level = m.level, !.skipped = {}, !.file = None] /\ up' = up
        /\ m.type = "reconnect" /\ p # "gets" => dlc' = [dlc EXCEPT !.phase = "asks"] /\ up' = Append(up, Msg("new"))
        /\ m.type \in {"refused", "full"} /\ p = "waits" =>
             dlc' = [dlc EXCEPT !.phase = "loads", !.skipped = @ \union {dlc.file}] /\ up' = up
        /\ m.type = "block" /\ p \in {"waits", "gets"} =>
             /\ dlc' = [dlc EXCEPT !.phase = IF m.last THEN "loads" ELSE "gets", !.have[dlc.file] = @ + 1]
             /\ up' = IF m.last THEN up ELSE Append(up, Msg("nextdl"))
        /\ m.type = "frame" => dlc' = [dlc EXCEPT !.phase = "in"] /\ up' = up
        /\ m.type = "reconnect" /\ p = "gets" => UNCHANGED <<dlc, up>>
        /\ m.type \in {"refused", "full"} /\ p # "waits" => UNCHANGED <<dlc, up>>
        /\ m.type = "block" /\ p \notin {"waits", "gets"} => UNCHANGED <<dlc, up>>
    BY <1>4 DEF Client, Ending
  <2> HIDE DEF m, d
  <2>3. /\ d \in Seq(DrMessages) /\ m \in DrMessages
        /\ m.type \notin Telling => Chained(slot, up, d, p)
        /\ m.type \in Telling => NoneOf(up, Asking) /\ NoneOf(d, Telling) /\ Goes(slot, p) /\ Messaged(slot, m, p)
    BY <1>1, <1>2, MessageTaken
  <2>4. /\ m.type \in {"serverdata", "refused", "full", "block", "reconnect", "frame"}
        /\ m.type = "serverdata" => m.level \in Nat
        /\ m.type = "block" => m.last \in BOOLEAN
    BY <1>4, <2>3 DEF DrMessages, Ending
  <2>5. p = dlc.phase /\ p \in {"asks", "loads", "waits", "gets", "begins", "in"}
    BY <1>1 DEF DrClients
  <2> HIDE DEF p
  <2>6. SUFFICES up' \in Seq(DrCommands) /\ dlc' \in DrClients /\ Chained(slot, up', d, dlc'.phase)
    BY <1>1, <1>2, <1>4, <2>1, ReadOn
  <2>7. CASE m.type = "serverdata"
    <3>1. dlc' = [dlc EXCEPT !.phase = "loads", !.level = m.level, !.skipped = {}, !.file = None] /\ up' = up
      BY <2>2, <2>7
    <3>2. {} \in SUBSET (Files \union {None}) /\ m.level \in Nat
      BY <2>4, <2>7
    <3>3. dlc' \in DrClients /\ dlc'.phase = "loads"
      BY <1>1, <3>1, <3>2 DEF DrClients
    <3>4. slot.download = None
      BY <2>3, <2>7 DEF Messaged, More, Telling
    <3>5. Chained(slot, up, d, "loads")
      BY <2>3, <2>7, <3>4 DEF Chained, Goes, Telling
    <3>6. QED
      BY <1>1, <3>1, <3>3, <3>5
  <2>8. CASE m.type = "reconnect" /\ p # "gets"
    <3> DEFINE n == Msg("new")
    <3>1. dlc' = [dlc EXCEPT !.phase = "asks"] /\ up' = Append(up, n)
      BY <2>2, <2>8
    <3>2. n \in DrCommands /\ n.type \notin Asking
      BY DEF Msg, DrCommands, Asking
    <3> HIDE DEF n
    <3>3. dlc' \in DrClients /\ dlc'.phase = "asks"
      BY <1>1, <3>1 DEF DrClients
    <3>4. Chained(slot, up, d, "asks")
      BY <2>3, <2>8, PhaseLeft DEF Telling
    <3>5. Chained(slot, Append(up, n), d, "asks") /\ Append(up, n) \in Seq(DrCommands)
      BY <1>1, <2>3, <3>2, <3>4, ChainAdded, AppendOf
    <3>6. QED
      BY <3>1, <3>3, <3>5
  <2>9. CASE m.type \in {"refused", "full"} /\ p = "waits"
    <3> DEFINE k == dlc.skipped \union {dlc.file}
    <3>1. dlc' = [dlc EXCEPT !.phase = "loads", !.skipped = k] /\ up' = up
      BY <2>2, <2>9
    <3>2. k \in SUBSET (Files \union {None})
      BY <1>1 DEF DrClients
    <3> HIDE DEF k
    <3>3. dlc' \in DrClients /\ dlc'.phase = "loads"
      BY <1>1, <3>1, <3>2 DEF DrClients
    <3>4. slot.download = None
      BY <2>3, <2>9 DEF Messaged, More, Telling
    <3>5. Chained(slot, up, d, "loads")
      BY <2>3, <2>9, <3>4 DEF Chained, Goes, Telling
    <3>6. QED
      BY <1>1, <3>1, <3>3, <3>5
  <2>10. CASE m.type = "block" /\ p \in {"waits", "gets"} /\ m.last
    <3> DEFINE h == [dlc.have EXCEPT ![dlc.file] = @ + 1]
    <3>1. dlc' = [dlc EXCEPT !.phase = "loads", !.have = h] /\ up' = up
      BY <1>1, <2>2, <2>10 DEF DrClients
    <3>2. h \in [Files -> Nat]
      <4>1. dlc.have \in [Files -> Nat]
        BY <1>1 DEF DrClients
      <4>2. QED
        BY <4>1, OneMore
    <3> HIDE DEF h
    <3>3. dlc' \in DrClients /\ dlc'.phase = "loads"
      BY <1>1, <3>1, <3>2 DEF DrClients
    <3>4. slot.download = None
      BY <2>3, <2>10 DEF Messaged, More, Telling
    <3>5. Chained(slot, up, d, "loads")
      BY <2>3, <2>10, <3>4 DEF Chained, Goes, Telling
    <3>6. QED
      BY <1>1, <3>1, <3>3, <3>5
  <2>11. CASE m.type = "block" /\ p \in {"waits", "gets"} /\ ~m.last
    <3> DEFINE h == [dlc.have EXCEPT ![dlc.file] = @ + 1]
               n == Msg("nextdl")
    <3>1. dlc' = [dlc EXCEPT !.phase = "gets", !.have = h] /\ up' = Append(up, n)
      BY <1>1, <2>2, <2>11 DEF DrClients
    <3>2. h \in [Files -> Nat]
      <4>1. dlc.have \in [Files -> Nat]
        BY <1>1 DEF DrClients
      <4>2. QED
        BY <4>1, OneMore
    <3>3. n \in DrCommands /\ n.type = "nextdl"
      BY DEF Msg, DrCommands
    <3> HIDE DEF h, n
    <3>4. dlc' \in DrClients /\ dlc'.phase = "gets"
      BY <1>1, <3>1, <3>2 DEF DrClients
    <3>5. Commanded(slot, n, "gets") /\ n.type \in Asking
      BY <2>3, <2>11, <3>3 DEF Messaged, More, Commanded, Telling, Asking
    <3>6. Chained(slot, Append(up, n), d, "gets") /\ Append(up, n) \in Seq(DrCommands)
      <4> DEFINE w == Append(up, n)
                 k == Len(up) + 1
      <4>1. OnlyAt(w, Asking, k) /\ w[k] = n /\ w \in Seq(DrCommands)
        BY <1>1, <2>3, <2>11, <3>3, NoneAdded, AppendOf DEF Telling
      <4> HIDE DEF w, k
      <4>2. k \in DOMAIN w
        BY <4>1 DEF OnlyAt
      <4>3. Chained(slot, w, d, "gets")
        BY <2>3, <2>11, <3>5, <4>1, <4>2 DEF Chained, Goes, Telling
      <4>4. QED
        BY <4>1, <4>3 DEF w
    <3>7. QED
      BY <3>1, <3>4, <3>6
  <2>12. CASE m.type = "frame"
    <3>1. dlc' = [dlc EXCEPT !.phase = "in"] /\ up' = up
      BY <2>2, <2>12
    <3>2. dlc' \in DrClients /\ dlc'.phase = "in"
      BY <1>1, <3>1 DEF DrClients
    <3>3. Chained(slot, up, d, "in")
      BY <2>3, <2>12, PhaseLeft DEF Telling
    <3>4. QED
      BY <1>1, <3>1, <3>2, <3>3
  <2>13. CASE m.type = "reconnect" /\ p = "gets"
    <3>1. UNCHANGED <<dlc, up>>
      BY <2>2, <2>13
    <3>2. QED
      BY <1>1, <2>3, <2>5, <2>13, <3>1 DEF Telling
  <2>14. CASE (m.type \in {"refused", "full"} /\ p # "waits") \/ (m.type = "block" /\ p \notin {"waits", "gets"})
    <3>1. UNCHANGED <<dlc, up>>
      BY <2>2, <2>14
    <3>2. Rests(slot, p) /\ p # "loads" /\ NoneOf(up, Asking) /\ NoneOf(d, Telling)
      BY <2>3, <2>14 DEF Rests, Goes, Messaged, Telling
    <3>3. Chained(slot, up, d, p)
      BY <3>2 DEF Chained
    <3>4. QED
      BY <1>1, <2>5, <3>1, <3>3
  <2>15. QED
    BY <2>4, <2>7, <2>8, <2>9, <2>10, <2>11, <2>12, <2>13, <2>14
<1>5. QED
  BY <1>3, <1>4

LEMMA AsksOK ==
  ASSUME DrInv, Asks
  PROVE  DrInv'
<1>1. /\ DrTypes /\ Loads(slot) /\ Leaves(slot, down) /\ Chained(slot, up, down, dlc.phase) /\ dlc \in DrClients
      /\ up \in Seq(DrCommands) /\ dlc.phase = "loads" /\ UNCHANGED <<spawncount, allowed, slot, down>>
  BY DEF DrInv, DrTypes, Asks
<1>2. NoneOf(up, Asking) /\ NoneOf(down, Telling) /\ slot.state \in {"spawning", "zombie"} /\ slot.download = None
  BY <1>1 DEF Chained, Goes
<1>3. \E m \in DrCommands, q \in {"waits", "begins"} :
        /\ up' = Append(up, m) /\ dlc' \in DrClients /\ dlc'.phase = q
        /\ m.type = IF q = "waits" THEN "download" ELSE "begin"
  <2>1. CASE Needs # {}
    <3>1. PICK f \in Needs : /\ dlc' = [dlc EXCEPT !.phase = "waits", !.file = f]
                             /\ up' = Append(up, [type |-> "download", file |-> f, offset |-> dlc.have[f]])
      BY <2>1 DEF Asks
    <3> DEFINE m == [type |-> "download", file |-> f, offset |-> dlc.have[f]]
    <3>2. f \in Files
      BY DEF Needs
    <3>3. dlc.have[f] \in Nat
      BY <1>1, <3>2 DEF DrClients
    <3>4. m \in DrCommands
      BY <3>2, <3>3 DEF DrCommands
    <3>5. dlc' \in DrClients /\ dlc'.phase = "waits"
      BY <1>1, <3>1, <3>2 DEF DrClients
    <3>6. QED
      BY <3>1, <3>4, <3>5
  <2>2. CASE Needs = {}
    <3> DEFINE m == [type |-> "begin", level |-> dlc.level]
    <3>1. dlc' = [dlc EXCEPT !.phase = "begins"] /\ up' = Append(up, m)
      BY <2>2 DEF Asks
    <3>2. m \in DrCommands
      BY <1>1 DEF DrCommands, DrClients
    <3>3. dlc' \in DrClients /\ dlc'.phase = "begins"
      BY <1>1, <3>1 DEF DrClients
    <3>4. QED
      BY <3>1, <3>2, <3>3
  <2>3. QED
    BY <2>1, <2>2
<1>4. PICK m \in DrCommands, q \in {"waits", "begins"} :
        /\ up' = Append(up, m) /\ dlc' \in DrClients /\ dlc'.phase = q
        /\ m.type = IF q = "waits" THEN "download" ELSE "begin"
  BY <1>3
<1> DEFINE k == Len(up) + 1
<1>5. OnlyAt(up', Asking, k) /\ up'[k] = m /\ up' \in Seq(DrCommands)
  <2>1. OnlyAt(Append(up, m), Asking, k) /\ Append(up, m)[k] = m
    BY <1>1, <1>2, NoneAdded
  <2>2. Append(up, m) \in Seq(DrCommands)
    BY <1>1, AppendOf
  <2> HIDE DEF k
  <2>3. QED
    BY <1>4, <2>1, <2>2
<1> HIDE DEF k
<1>6. k \in DOMAIN up'
  BY <1>5 DEF OnlyAt
<1>7. Commanded(slot, m, q) /\ m.type \in Asking
  BY <1>2, <1>4 DEF Commanded, Asking
<1>8. Chained(slot, up', down, q)
  BY <1>2, <1>5, <1>6, <1>7 DEF Chained, Goes
<1>9. QED
  BY <1>1, <1>4, <1>5, <1>8 DEF DrInv, DrTypes

LEMMA LevelChangeOK ==
  ASSUME DrInv, LevelChange
  PROVE  DrInv'
<1> DEFINE m == Msg("reconnect")
<1>1. /\ DrTypes /\ Loads(slot) /\ Leaves(slot, down) /\ Chained(slot, up, down, dlc.phase) /\ slot \in DrSlots
      /\ up \in Seq(DrCommands) /\ down \in Seq(DrMessages)
  BY DEF DrInv, DrTypes
<1>2. /\ spawncount' = spawncount + 1 /\ UNCHANGED <<allowed, up, dlc>>
      /\ slot' = IF slot.state = "spawned" THEN [slot EXCEPT !.state = "connected"] ELSE slot
      /\ down' = IF slot.state = "zombie" THEN down ELSE Append(IF slot.state = "spawned" THEN <<>> ELSE down, m)
  BY DEF LevelChange
<1>3. m \in DrMessages /\ m.type \notin Telling
  BY DEF Msg, DrMessages, Telling
<1> HIDE DEF m
<1>4. Result(slot', up, down', dlc.phase)
  <2>1. CASE slot.state = "spawned"
    <3> DEFINE e == <<>>
    <3>1. slot' = [slot EXCEPT !.state = "connected"] /\ down' = Append(e, m)
      BY <1>2, <2>1
    <3>2. slot' \in DrSlots /\ slot'.state = "connected" /\ slot'.download = None
      BY <1>1, <2>1, <3>1 DEF DrSlots, Loads
    <3>3. e \in Seq(DrMessages) /\ NoneOf(e, Telling)
      BY DEF NoneOf
    <3> HIDE DEF e
    <3>4. NoneOf(up, Asking) /\ dlc.phase \notin {"loads", "waits", "gets"}
      BY <1>1, <2>1 DEF Chained, Goes, Rests
    <3>5. Chained(slot', up, e, dlc.phase)
      BY <3>3, <3>4 DEF Chained, Rests
    <3>6. Chained(slot', up, Append(e, m), dlc.phase) /\ Append(e, m) \in Seq(DrMessages)
      BY <1>1, <1>3, <3>3, <3>5, ChainAdded, AppendOf
    <3>7. Loads(slot') /\ Leaves(slot', down')
      BY <3>2 DEF Loads, Leaves
    <3>8. QED
      BY <3>1, <3>2, <3>6, <3>7 DEF Result
  <2>2. CASE slot.state = "zombie"
    BY <1>1, <1>2, <2>2 DEF Result
  <2>3. CASE slot.state \notin {"spawned", "zombie"}
    <3>1. slot' = slot /\ down' = Append(down, m)
      BY <1>2, <2>3
    <3>2. Chained(slot, up, Append(down, m), dlc.phase) /\ Append(down, m) \in Seq(DrMessages)
      BY <1>1, <1>3, ChainAdded, AppendOf
    <3>3. Leaves(slot, Append(down, m))
      BY <2>3 DEF Leaves
    <3>4. QED
      BY <1>1, <3>1, <3>2, <3>3 DEF Result
  <2>4. QED
    BY <2>1, <2>2, <2>3
<1>5. spawncount' \in Nat
  BY <1>1, <1>2 DEF DrTypes
<1>6. QED
  BY <1>1, <1>2, <1>4, <1>5 DEF DrInv, DrTypes, Result

LEMMA DrInitOK ==
  ASSUME DrInit
  PROVE  DrInv
<1> DEFINE n == Msg("new")
           h == [f \in Files |-> 0]
           c == [phase |-> "asks", level |-> 0, have |-> h, loaded |-> {}, skipped |-> {}, file |-> None]
           s == DrFresh
<1>1. spawncount = 1 /\ allowed \in SUBSET Files /\ slot = s /\ up = <<n>> /\ down = <<>> /\ dlc = c
  BY DEF DrInit
<1>2. n \in DrCommands /\ n.type \notin Asking
  BY DEF Msg, DrCommands, Asking
<1>3. s \in DrSlots /\ s.state = "connected" /\ s.download = None
  <2>1. 0 \in Nat
    OBVIOUS
  <2>2. QED
    BY <2>1 DEF DrFresh, DrSlots
<1>4. h \in [Files -> Nat]
  OBVIOUS
<1> HIDE DEF h, n, s
<1>5. c \in DrClients /\ c.phase = "asks"
  BY <1>4 DEF DrClients
<1> HIDE DEF c
<1>6. up \in Seq(DrCommands) /\ down \in Seq(DrMessages) /\ NoneOf(up, Asking) /\ NoneOf(down, Telling)
  BY <1>1, <1>2 DEF NoneOf
<1>7. Chained(s, up, down, "asks") /\ Loads(s) /\ Leaves(s, down)
  BY <1>3, <1>6 DEF Chained, Rests, Loads, Leaves
<1>8. QED
  BY <1>1, <1>3, <1>5, <1>6, <1>7 DEF DrInv, DrTypes

LEMMA DrStepOK ==
  ASSUME DrInv, [DrNext]_drVars
  PROVE  DrInv'
<1>1. CASE UNCHANGED drVars
  <2>1. UNCHANGED <<spawncount, allowed, slot, up, down, dlc>>
    BY <1>1 DEF drVars
  <2>2. QED
    BY <2>1 DEF DrInv, DrTypes
<1>2. ASSUME NEW f \in Files, Toggle(f) PROVE DrInv'
  <2>1. UNCHANGED <<spawncount, slot, up, down, dlc>> /\ (allowed' = allowed \ {f} \/ allowed' = allowed \union {f})
    BY <1>2 DEF Toggle
  <2>2. QED
    BY <2>1 DEF DrInv, DrTypes
<1>3. QED
  BY <1>1, <1>2, ServerOK, ClientReads, AsksOK, LevelChangeOK DEF DrNext

(* How many of a list are of some types, when one at most is. *)
LEMMA OneComes ==
  ASSUME NEW S, NEW d \in Seq(S), NEW T
  PROVE  /\ Coming(d, T) \in Nat /\ (NoneOf(d, T) => Coming(d, T) = 0)
         /\ (\E k \in DOMAIN d : d[k].type \in T) => Coming(d, T) >= 1
         /\ (\E k \in DOMAIN d : OnlyAt(d, T, k)) => Coming(d, T) <= 1
<1> DEFINE X == {i \in DOMAIN d : d[i].type \in T}
<1>1. IsFiniteSet(X)
  <2>1. DOMAIN d = 1 .. Len(d) /\ Len(d) \in Nat
    OBVIOUS
  <2>2. IsFiniteSet(DOMAIN d)
    BY <2>1, FS_Interval
  <2>3. QED
    BY <2>2, FS_Subset
<1>2. Coming(d, T) = Cardinality(X)
  BY DEF Coming
<1>3. NoneOf(d, T) => X = {}
  BY DEF NoneOf
<1>4. ASSUME NEW k \in DOMAIN d, d[k].type \in T PROVE X # {}
  BY <1>4
<1>5. ASSUME NEW k \in DOMAIN d, OnlyAt(d, T, k) PROVE X \subseteq {k}
  BY <1>5 DEF OnlyAt
<1> HIDE DEF X
<1>6. Cardinality(X) \in Nat /\ (Cardinality(X) = 0 <=> X = {})
  BY <1>1, FS_CardinalityType, FS_EmptySet
<1>7. ASSUME NEW k \in DOMAIN d, OnlyAt(d, T, k) PROVE Cardinality(X) <= 1
  <2>1. X \subseteq {k}
    BY <1>7, <1>5
  <2>2. IsFiniteSet({k}) /\ Cardinality({k}) = 1
    BY FS_Singleton
  <2>3. QED
    BY <2>1, <2>2, FS_Subset
<1>8. Coming(d, T) \in Nat /\ (NoneOf(d, T) => Coming(d, T) = 0)
  BY <1>2, <1>3, <1>6
<1>9. ASSUME NEW k \in DOMAIN d, d[k].type \in T PROVE Coming(d, T) >= 1
  <2>1. X # {}
    BY <1>9, <1>4
  <2>2. QED
    BY <1>2, <1>6, <2>1
<1>10. QED
  BY <1>2, <1>7, <1>8, <1>9

LEMMA OnlyOfSome ==
  ASSUME NEW S, NEW d \in Seq(S), NEW T, NEW V, V \subseteq T
  PROVE  /\ NoneOf(d, T) => NoneOf(d, V)
         /\ \A k \in DOMAIN d : OnlyAt(d, T, k) => OnlyAt(d, V, k) /\ (d[k].type \notin V => NoneOf(d, V))
BY DEF NoneOf, OnlyAt

LEMMA DrInvAnswers ==
  ASSUME DrInv
  PROVE  RequestsEnd
<1> DEFINE a == Coming(up, {"download"})
           r == Coming(down, {"refused", "full"})
           e == Coming(down, {"serverdata", "reload", "reconnect now"})
           sends == slot.download # None \/ \E i \in DOMAIN down : down[i].type = "block"
           b == IF sends THEN 1 ELSE 0
           p == dlc.phase
<1>1. /\ DrTypes /\ Loads(slot) /\ Leaves(slot, down) /\ Chained(slot, up, down, p)
      /\ up \in Seq(DrCommands) /\ down \in Seq(DrMessages)
  BY DEF DrInv, DrTypes
<1>2. {"download"} \subseteq Asking /\ {"refused", "full"} \subseteq Telling /\ {"block"} \subseteq Telling
  BY DEF Asking, Telling
<1>3. a \in Nat /\ r \in Nat /\ e \in Nat /\ b \in {0, 1}
  BY <1>1, OneComes
<1>4. slot.state = "zombie" => e >= 1
  <2>1. SUFFICES ASSUME slot.state = "zombie" PROVE e >= 1
    OBVIOUS
  <2>2. \E k \in DOMAIN down : down[k].type \in {"serverdata", "reload", "reconnect now"}
    BY <1>1, <2>1 DEF Leaves, Ending
  <2>3. QED
    BY <1>1, <2>2, OneComes
<1>5. NoneOf(up, Asking) => a = 0
  BY <1>1, <1>2, OnlyOfSome, OneComes
<1>6. NoneOf(down, Telling) => r = 0 /\ (sends => slot.download # None)
  <2>1. NoneOf(down, Telling) => r = 0
    BY <1>1, <1>2, OnlyOfSome, OneComes
  <2>2. NoneOf(down, Telling) => ~\E i \in DOMAIN down : down[i].type = "block"
    BY DEF NoneOf, Telling
  <2>3. QED
    BY <2>1, <2>2
<1>7. /\ a + r + b <= 1
      /\ p \in {"waits", "gets"} => a + r + b + e >= 1
  <2>1. CASE NoneOf(up, Asking) /\ NoneOf(down, Telling) /\ p # "loads" /\ Rests(slot, p)
    <3>1. a = 0 /\ r = 0
      BY <1>5, <1>6, <2>1
    <3>2. p \in {"waits", "gets"} => e >= 1
      BY <1>4, <2>1 DEF Rests
    <3> HIDE DEF a, r, b, e
    <3>3. QED
      BY <1>3, <3>1, <3>2
  <2>2. CASE NoneOf(up, Asking) /\ NoneOf(down, Telling) /\ p = "loads"
    <3>1. a = 0 /\ r = 0
      BY <1>5, <1>6, <2>2
    <3> HIDE DEF a, r, b, e
    <3>2. QED
      BY <1>3, <2>2, <3>1
  <2>3. CASE NoneOf(down, Telling) /\ Goes(slot, p)
             /\ \E k \in DOMAIN up : OnlyAt(up, Asking, k) /\ up[k].type \in Asking /\ Commanded(slot, up[k], p)
    <3>1. PICK k \in DOMAIN up : OnlyAt(up, Asking, k) /\ up[k].type \in Asking /\ Commanded(slot, up[k], p)
      BY <2>3
    <3>2. r = 0 /\ a <= 1 /\ (up[k].type # "download" => a = 0)
      <4>1. OnlyAt(up, {"download"}, k) /\ (up[k].type \notin {"download"} => NoneOf(up, {"download"}))
        BY <1>1, <1>2, <3>1, OnlyOfSome
      <4>2. a <= 1
        BY <1>1, <4>1, OneComes
      <4>3. up[k].type # "download" => a = 0
        BY <1>1, <4>1, OneComes
      <4>4. QED
        BY <1>6, <2>3, <4>2, <4>3
    <3>3. up[k].type = "download" => a >= 1 /\ b = 0
      <4>1. up[k].type = "download" => a >= 1
        BY <1>1, OneComes
      <4>2. up[k].type = "download" => ~sends
        BY <1>6, <2>3, <3>1 DEF Commanded
      <4>3. QED
        BY <4>1, <4>2
    <3>4. up[k].type = "nextdl" => slot.state = "zombie" \/ b = 1
      BY <3>1 DEF Commanded
    <3>5. p \in {"waits", "gets"} => e >= 1 \/ up[k].type \in {"download", "nextdl"}
      BY <1>4, <3>1 DEF Commanded
    <3> HIDE DEF a, r, b, e, p
    <3>6. QED
      BY <1>3, <1>4, <3>2, <3>3, <3>4, <3>5
  <2>4. CASE NoneOf(up, Asking) /\ Goes(slot, p)
             /\ \E k \in DOMAIN down : OnlyAt(down, Telling, k) /\ down[k].type \in Telling /\ Messaged(slot, down[k], p)
    <3>1. PICK k \in DOMAIN down : OnlyAt(down, Telling, k) /\ down[k].type \in Telling /\ Messaged(slot, down[k], p)
      BY <2>4
    <3>2. a = 0 /\ r <= 1 /\ (down[k].type \notin {"refused", "full"} => r = 0)
      <4>1. OnlyAt(down, {"refused", "full"}, k) /\ (down[k].type \notin {"refused", "full"} => NoneOf(down, {"refused", "full"}))
        BY <1>1, <1>2, <3>1, OnlyOfSome
      <4>2. r <= 1
        BY <1>1, <4>1, OneComes
      <4>3. down[k].type \notin {"refused", "full"} => r = 0
        BY <1>1, <4>1, OneComes
      <4>4. QED
        BY <1>5, <2>4, <4>2, <4>3
    <3>3. down[k].type \in {"refused", "full"} => r >= 1 /\ b = 0
      <4>1. down[k].type \in {"refused", "full"} => r >= 1
        BY <1>1, OneComes
      <4>2. down[k].type \in {"refused", "full"} => ~sends
        BY <3>1 DEF Messaged, More, OnlyAt, Telling
      <4>3. QED
        BY <4>1, <4>2
    <3>4. down[k].type = "block" => b = 1
      OBVIOUS
    <3>5. down[k].type = "serverdata" => e >= 1
      BY <1>1, OneComes
    <3>6. down[k].type \in {"refused", "full", "block", "serverdata"}
      BY <3>1 DEF Telling
    <3> HIDE DEF a, r, b, e, p
    <3>7. QED
      BY <1>3, <3>2, <3>3, <3>4, <3>5, <3>6
  <2>5. QED
    BY <1>1, <2>1, <2>2, <2>3, <2>4 DEF Chained
<1>8. Answers = a + r + b
  BY DEF Answers
<1>9. AnsweredOnce
  BY <1>7, <1>8 DEF AnsweredOnce
<1>10. SlotLoadsPaks
  BY <1>1 DEF SlotLoadsPaks, Loads
<1>11. QED
  BY <1>9, <1>10 DEF RequestsEnd

(* Of any files in any paks, through any level changes and refusals: a client that asked for a file *)
(* has one answer coming or is made to load the level anew, and no client plays a level whose pak   *)
(* it was sent and has not loaded (SV_BeginDownload_f, SV_NextDownload_f, SV_Begin_f).               *)
THEOREM RequestsAreAnswered == DrSpec => []RequestsEnd
<1>1. DrInit => DrInv
  BY DrInitOK
<1>2. DrInv /\ [DrNext]_drVars => DrInv'
  BY DrStepOK
<1>3. DrInv => RequestsEnd
  BY DrInvAnswers
<1>4. QED
  BY <1>1, <1>2, <1>3, PTL DEF DrSpec
==============================================================================
